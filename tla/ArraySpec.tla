----------------------------- MODULE ArraySpec -----------------------------
(***************************************************************************)
(* What the dynamic array of libnica promises, without blocks of memory: a *)
(* bounded sequence of pointers.  Each call takes effect in one step and   *)
(* leaves its answer in "last".                                            *)
(***************************************************************************)
EXTENDS Integers, Sequences, Functions

CONSTANTS
  Items,     \* pointers a client stores
  Null,      \* the NULL pointer
  Rank,      \* the order the client's comparison function puts them in
  Capacity   \* the most pointers an array can hold

VARIABLES
  alive,   \* the client holds an array
  l,       \* its pointers
  last     \* the last call and its answer

vars == <<alive, l, last>>

Init == alive = FALSE /\ l = <<>> /\ last = <<"none", TRUE>>

New == /\ ~alive
       /\ UNCHANGED l
       /\ \E ok \in BOOLEAN : alive' = ok /\ last' = <<"new", ok>>

(* The pointer is added, or the array is what it was; a full array always  *)
(* refuses.                                                                *)
Add(d) ==
  /\ UNCHANGED alive
  /\ \/ /\ alive /\ d # Null /\ Len(l) < Capacity
        /\ l' = Append(l, d) /\ last' = <<"add", TRUE>>
     \/ UNCHANGED l /\ last' = <<"add", FALSE>>

(* An index is answered with its pointer, one out of range with NULL.      *)
Get(i) ==
  /\ UNCHANGED <<alive, l>>
  /\ last' = <<"get", IF i < Len(l) THEN l[i + 1] ELSE Null>>

(* The same pointers, in an order the comparison function agrees with.     *)
Arrangements(s) ==
  {[i \in DOMAIN s |-> s[p[i]]] : p \in Injection(DOMAIN s, DOMAIN s)}

Sort ==
  /\ alive
  /\ l' \in Arrangements(l)
  /\ \A i, j \in DOMAIN l' : i < j => Rank[l'[i]] <= Rank[l'[j]]
  /\ last' = <<"sort", TRUE>>
  /\ UNCHANGED alive

(* The array goes; its pointers are freed, each as often as it is stored,  *)
(* or none of them.                                                        *)
Free(all) ==
  /\ alive' = FALSE /\ l' = <<>>
  /\ last' = <<"free", IF all THEN l ELSE <<>>>>

Next ==
  \/ New \/ Sort
  \/ \E d \in Items \cup {Null} : Add(d)
  \/ \E i \in 0 .. Capacity : Get(i)
  \/ \E all \in BOOLEAN : Free(all)

Spec == Init /\ [][Next]_vars

=============================================================================
