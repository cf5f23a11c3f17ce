------------------------------- MODULE MCList -------------------------------
(* A small instance of List for TLC. *)
EXTENDS List

CONSTANTS d1, d2, d3

(* Two pointers are stored once at a time, the third as often as it likes. *)
AllDatas  == {d1, d2, d3}
OnceDatas == {d1, d2}

=============================================================================
