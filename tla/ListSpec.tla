------------------------------ MODULE ListSpec ------------------------------
(***************************************************************************)
(* What the list of libnica promises, without nodes and pointers: a        *)
(* sequence of data pointers.  Each call takes effect in one step and      *)
(* leaves its answer in "last".                                            *)
(***************************************************************************)
EXTENDS Integers, Sequences

CONSTANTS
  Datas,   \* data pointers
  None     \* no data pointer

VARIABLES
  l,      \* the items, first to last
  last    \* the last call, its data pointer and its answer

vars == <<l, last>>

Without(s, i) == [j \in 1 .. Len(s) - 1 |-> IF j < i THEN s[j] ELSE s[j + 1]]

Init == l = <<>> /\ last = <<"none", None, TRUE>>

(* nc_list_append, nc_list_prepend: the item is added, or memory is short  *)
(* and nothing changes.                                                    *)
AddLast(d) ==
  \/ l' = Append(l, d) /\ last' = <<"append", d, TRUE>>
  \/ l' = l /\ last' = <<"append", d, FALSE>>

AddFirst(d) ==
  \/ l' = <<d>> \o l /\ last' = <<"prepend", d, TRUE>>
  \/ l' = l /\ last' = <<"prepend", d, FALSE>>

(* nc_list_remove: the first item with that data pointer goes.             *)
Remove(d) ==
  \/ \E i \in DOMAIN l :
       /\ l[i] = d /\ \A j \in 1 .. i - 1 : l[j] # d
       /\ l' = Without(l, i) /\ last' = <<"remove", d, TRUE>>
  \/ /\ \A i \in DOMAIN l : l[i] # d
     /\ l' = l /\ last' = <<"remove", d, FALSE>>

(* nc_list_free, nc_list_free_all *)
Free == l' = <<>> /\ last' = <<"free", None, TRUE>>

Next ==
  \/ \E d \in Datas : AddLast(d) \/ AddFirst(d) \/ Remove(d)
  \/ Free

Spec == Init /\ [][Next]_vars

=============================================================================
