------------------------------ MODULE MapSpec ------------------------------
(***************************************************************************)
(* What a hash map of libnica promises its client, without buckets,        *)
(* chains, tombstones or resizing: a finite partial function from key      *)
(* texts to values.  Each call takes effect in one step and leaves what it *)
(* answered in "last".  The promises are those of hashmap.h; the detailed  *)
(* module Hashmap is shown to implement this one.                          *)
(***************************************************************************)
EXTENDS Integers

CONSTANTS
  Texts,   \* what the comparison function tells apart in a key
  Vals,    \* the values a client stores
  Null     \* the NULL pointer

VARIABLES
  alive,   \* the client holds a map
  m,       \* the key -> value mapping
  last     \* the last mutating call and its answer: <<call, text, value, ok>>

vars == <<alive, m, last>>

Nothing == [t \in {} |-> Null]

Init ==
  /\ alive = FALSE
  /\ m = Nothing
  /\ last = <<"none", Null, Null, TRUE>>

(* nc_hashmap_new, nc_hashmap_new_full: a new map is empty; allocation may fail. *)
New ==
  /\ ~alive
  /\ UNCHANGED m
  /\ \E ok \in BOOLEAN : alive' = ok /\ last' = <<"new", Null, Null, ok>>

(* "Store a key/value pair": the pair is there, or the call answers false  *)
(* and nothing has changed.                                                *)
Put(t, v) ==
  /\ UNCHANGED alive
  /\ \/ /\ alive
        /\ m' = [u \in DOMAIN m \cup {t} |-> IF u = t THEN v ELSE m[u]]
        /\ last' = <<"put", t, v, TRUE>>
     \/ UNCHANGED m /\ last' = <<"put", t, v, FALSE>>

(* nc_hashmap_remove and nc_hashmap_steal: true exactly when the key was there. *)
Remove(call, t) ==
  /\ UNCHANGED alive
  /\ m' = [u \in DOMAIN m \ {t} |-> m[u]]
  /\ last' = <<call, t, Null, t \in DOMAIN m>>

(* nc_hashmap_free *)
Free ==
  /\ alive' = FALSE
  /\ m' = Nothing
  /\ last' = <<"free", Null, Null, TRUE>>

Next ==
  \/ New
  \/ \E t \in Texts, v \in Vals : Put(t, v)
  \/ \E call \in {"remove", "steal"}, t \in Texts : Remove(call, t)
  \/ Free

Spec == Init /\ [][Next]_vars

=============================================================================
