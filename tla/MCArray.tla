------------------------------ MODULE MCArray ------------------------------
(* Small instances of Array for TLC. *)
EXTENDS Array

CONSTANTS p1, p2, p3

ItemsThree == {p1, p2, p3}

(* Two of the pointers compare equal. *)
RankTie == [p \in Items |-> IF p = p1 THEN 1 ELSE 2]

AllSites == AllocSites

=============================================================================
