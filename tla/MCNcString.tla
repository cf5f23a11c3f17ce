----------------------------- MODULE MCNcString -----------------------------
(* A small instance of NcString for TLC. *)
EXTENDS NcString, SequencesExt

CONSTANTS x, MaxText

(* All texts of blanks and one other character, up to a length. *)
ShortTexts == SeqOf({x, Blank}, MaxText)

=============================================================================
