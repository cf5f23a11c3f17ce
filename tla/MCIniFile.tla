----------------------------- MODULE MCIniFile -----------------------------
(***************************************************************************)
(* Small files for IniFile: their lines are read by IniText from texts.    *)
(***************************************************************************)
EXTENDS IniFile, IniText

(* "", ";", "[A]", "[B]", " [A] ", "[A", "a", "a=b", "a = c", "=b" *)
Texts ==
  {<<>>, <<";">>, <<"[", "A", "]">>, <<" ", "[", "A", "]", " ">>, <<"[", "B", "]">>,
   <<"[", "A">>, <<"a">>, <<"a", "=", "b">>, <<"a", " ", "=", " ", "c">>,
   <<"=", "b">>}

LinesRead == {Read(t) : t \in Texts}

EmptyText == <<>>

(* Nothing fails, what the code checks fails, and everything. *)
Environments ==
  {{}, {"fopen", "getline", "section", "value", "put_section"}, FailSites}

=============================================================================
