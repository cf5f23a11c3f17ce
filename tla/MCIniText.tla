----------------------------- MODULE MCIniText -----------------------------
(* Lines of up to six characters, one of each kind the code tells apart.   *)
EXTENDS IniLine

CharsAll == {"[", "]", "=", "#", "a", " "}

=============================================================================
