------------------------------ MODULE IniLine ------------------------------
(***************************************************************************)
(* Any text up to MaxLen characters, read as a line by IniText, against    *)
(* what the notation of inifile.h says it means.                           *)
(***************************************************************************)
EXTENDS IniText, SequencesExt

CONSTANTS
  Chars,   \* the characters of a text
  MaxLen   \* bound: the characters in a line

ASSUME LineAssumption == "NUL" \notin Chars /\ MaxLen \in Nat

VARIABLES text, line     \* line: <<>> before it is read

vars == <<text, line>>

Init ==
  /\ text \in UNION {[1 .. n -> Chars] : n \in 0 .. MaxLen}
  /\ line = <<>>

ReadLine ==
  /\ line = <<>>
  /\ line' = <<Read(text)>>
  /\ UNCHANGED text

Next == ReadLine

Spec == Init /\ [][Next]_vars

-----------------------------------------------------------------------------
(* What a text means *)

IsBlank(s) == \A i \in DOMAIN s : s[i] \in Blank

(* The part of s between its first and its last character that is not      *)
(* white space.                                                            *)
Trim(s) ==
  IF IsBlank(s) THEN <<>>
  ELSE SubSeq(s, CHOOSE i \in DOMAIN s : s[i] \notin Blank /\ \A k \in 1 .. i - 1 : s[k] \in Blank,
                 CHOOSE j \in DOMAIN s : s[j] \notin Blank /\ \A k \in j + 1 .. Len(s) : s[k] \in Blank)

(* "key = value": the text around the first "=". *)
Key(s)   == SubSeq(s, 1, CHOOSE n \in 0 .. Len(s) - 1 :
                           s[n + 1] = "=" /\ \A i \in 1 .. n : s[i] # "=")
Value(s) == SubSeq(s, Len(Key(s)) + 2, Len(s))

Kind(s) ==
  LET t == Trim(s) IN
  CASE t = <<>>                                        -> "blank"
    [] t # <<>> /\ t[1] = "[" /\ t[Len(t)] = "]"       -> "section"
    [] t # <<>> /\ t[1] = "[" /\ t[Len(t)] # "]"       -> "open"
    [] t # <<>> /\ t[1] \in {"#", ";"}                 -> "comment"
    [] OTHER -> IF \E i \in DOMAIN t : t[i] = "=" THEN "assign" ELSE "noassign"

Name(s) ==
  CASE Kind(s) = "section" -> SubSeq(Trim(s), 2, Len(Trim(s)) - 1)
    [] Kind(s) = "assign"  -> Trim(Key(s))
    [] OTHER               -> <<>>

-----------------------------------------------------------------------------
(* Properties *)

(* "[Section]", ";" and "#" comments and "key = value" (inifile.h): every  *)
(* line, padded anywhere, is taken for what it is, a section under its     *)
(* name and an assignment under its key without the padding.               *)
KindAndNameRead ==
  line # <<>> => line[1].kind = Kind(text) /\ line[1].name = Name(text)

(* The value of an assignment arrives without its padding, provided no     *)
(* more than one blank is between it and the "="; with more, a value that  *)
(* has no blanks inside still does, and one that has arrives as a front    *)
(* part of itself.                                                         *)
ValueRead ==
  line # <<>> /\ line[1].kind = "assign" =>
    LET v == Value(Trim(text)) IN
    /\ Leading(v) <= 1 \/ (\A i \in DOMAIN Trim(v) : Trim(v)[i] \notin Blank)
         => line[1].value = Trim(v)
    /\ IsPrefix(line[1].value, Trim(v))

=============================================================================
