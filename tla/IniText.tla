------------------------------ MODULE IniText ------------------------------
(***************************************************************************)
(* What the INI reader of src/inifile.c makes of the text of one line.  A  *)
(* text is the sequence of its characters, without the terminating NUL and *)
(* without a newline; no character of it is NUL.                           *)
(***************************************************************************)
EXTENDS Integers, Sequences, FiniteSets

Blank == {" ", "\t"}

(* The loops that step over white space stop at the first other character. *)
Leading(s)  == Cardinality({i \in DOMAIN s : \A j \in 1 .. i : s[j] \in Blank})
Trailing(s) == Cardinality({i \in DOMAIN s : \A j \in i .. Len(s) : s[j] \in Blank})

lstrip(s) == SubSeq(s, Leading(s) + 1, Len(s))

rstrip(s) == SubSeq(s, 1, Len(s) - Trailing(s))

string_strip(s) == rstrip(lstrip(s))

(* Fault: the front stays. *)
ChewEnd(inp) == rstrip(inp)

(* string_chew_terminated.  "len" does not count the blanks in front, but  *)
(* the second loop still looks at inp[len], inp[len - 1], ... and so stops *)
(* "skip" characters short of the end; it counts blanks until it meets     *)
(* something else, and the text is cut where the counted ones would be if  *)
(* they were the last of the len.                                          *)
string_chew_terminated(inp) ==
  LET skip == Leading(inp)
      len  == Len(inp) - skip
      C(i) == IF i < Len(inp) THEN inp[i + 1] ELSE "NUL"     \* inp[i] in C
      end  == Cardinality({i \in skip + 1 .. len :
                /\ C(i) \in Blank
                /\ \A j \in i .. len : C(j) \in Blank \cup {"NUL"}})
  IN  SubSeq(inp, skip + 1, IF end > 0 THEN len - end ELSE Len(inp))

Line(kind, name, value) == [kind |-> kind, name |-> name, value |-> value]

(* strchr(buf, '=') *)
FirstAssign(s) ==
  {i \in DOMAIN s : s[i] = "=" /\ \A j \in 1 .. i - 1 : s[j] # "="}

(* The line in the buffer, as the loop of nc_ini_file_parse_full takes it: *)
(* a section has a name, an assignment a key (its name) and a value.       *)
Taken(buf) ==
  IF buf = <<>> THEN Line("blank", <<>>, <<>>)
  ELSE IF buf[1] = "["
    THEN IF buf[Len(buf)] = "]"
         THEN Line("section", SubSeq(buf, 2, Len(buf) - 1), <<>>)
         ELSE Line("open", <<>>, <<>>)
  ELSE IF buf[1] \in {"#", ";"} THEN Line("comment", <<>>, <<>>)
  ELSE IF FirstAssign(buf) = {} THEN Line("noassign", <<>>, <<>>)
  ELSE LET at == CHOOSE i \in FirstAssign(buf) : TRUE IN
       Line("assign", string_chew_terminated(SubSeq(buf, 1, at - 1)),
                      string_chew_terminated(SubSeq(buf, at + 1, Len(buf))))

(* Fault: the front of the line is not stripped. *)
ReadRaw(text) == Taken(rstrip(text))

Read(text) == Taken(string_strip(text))

=============================================================================
