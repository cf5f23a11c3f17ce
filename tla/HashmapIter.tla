---------------------------- MODULE HashmapIter ----------------------------
(***************************************************************************)
(* The iterator of src/hashmap.c over the map of module Hashmap, and the   *)
(* client that goes on putting, replacing and removing while it iterates.  *)
(*                                                                         *)
(* The iterator keeps the number of the bucket it is in and a pointer to   *)
(* the row it looks at next.  A row stays where it is until the table it   *)
(* is in is freed, so the pointer is the row's place in the table in use,  *)
(* or Freed once a resize has freed that table.                            *)
(***************************************************************************)
EXTENDS Hashmap

CONSTANTS
  NoIter,   \* no iteration is going on
  Freed     \* a pointer to a row that was freed

ASSUME IterAssumption == IncreaseFactor > 1

VARIABLES
  iter,   \* NoIter or [bucket, item]; item: Null, Freed or <<bucket, row>>
  seen    \* history: what became of the entries since nc_hashmap_iter_init

iterVars == <<vars, iter, seen>>

(* The texts of the keys stored all along, of those shown, of those shown  *)
(* more than once, and of those kept that a finished iteration never       *)
(* showed; whether there was room for a put when it began, whether a key   *)
(* was added, and whether the map was resized.                             *)
Unseen ==
  [kept |-> {}, shown |-> {}, again |-> {}, missed |-> {},
   room |-> FALSE, added |-> FALSE, resized |-> FALSE]

-----------------------------------------------------------------------------
(* The walk *)

(* Occupied rows of chain b from row i on. *)
OccFrom(b, i) == {j \in DOMAIN table[b].rows : j >= i /\ table[b].rows[j].occ}

(* The row that a walk along "next" from row i of chain b stops at; none   *)
(* if the chain ends first, or goes round without one.                     *)
Met(b, i) ==
  IF OccFrom(b, i) = {} /\ table[b].back # 0
  THEN FirstOf(OccFrom(b, table[b].back)) ELSE FirstOf(OccFrom(b, i))

LeavesChain(b, i) == Met(b, i) = {} /\ table[b].back = 0

(* Fault: a bucket that had nothing to show is skipped with the one after. *)
WalkEndsEveryOther ==
  IF iter.item # Null /\ ~LeavesChain(iter.item[1], iter.item[2]) THEN {iter.item}
  ELSE {<<b, 1>> : b \in FirstOf({c \in iter.bucket + 1 .. n_buckets - 1 :
          /\ ~LeavesChain(c, 1)
          /\ (c - iter.bucket) % 2 = 1})}

(* Where the walk starts that does not come to the end of its chain: at    *)
(* the row kept, or at the first row of a bucket behind the current one.   *)
WalkEnds ==
  IF iter.item # Null /\ ~LeavesChain(iter.item[1], iter.item[2]) THEN {iter.item}
  ELSE {<<b, 1>> : b \in FirstOf({c \in iter.bucket + 1 .. n_buckets - 1 :
          ~LeavesChain(c, 1)})}

(* Faults: the row shown is kept; the end of a chain is not recognised.    *)
FollowingSame(b, i) == <<b, i>>
FollowingPast(b, i) == IF table[b].back # 0 /\ i = Len(table[b].rows)
                       THEN <<b, table[b].back>> ELSE <<b, i + 1>>

(* item->next *)
Following(b, i) ==
  IF i < Len(table[b].rows) THEN <<b, i + 1>>
  ELSE IF table[b].back # 0 THEN <<b, table[b].back>> ELSE Null

-----------------------------------------------------------------------------
(* Calls *)

(* nc_hashmap_iter_init, for the first time or once more *)
IterInit ==
  /\ Ready
  /\ iter' = [bucket |-> -1, item |-> Null]
  /\ seen' = [Unseen EXCEPT !.kept = TextsOf(table), !.room = size < next_size]
  /\ UNCHANGED vars

(* The client calls nc_hashmap_iter_next until it has answered false. *)
Iterating == Ready /\ iter # NoIter

(* nc_hashmap_iter_next answers true with a key and a value ... *)
IterShow ==
  /\ Iterating /\ iter.item # Freed
  /\ \E w \in WalkEnds : \E i \in Met(w[1], w[2]) :
       LET t == Text[table[w[1]].rows[i].key] IN
       /\ iter' = [bucket |-> w[1], item |-> Following(w[1], i)]
       /\ seen' = [seen EXCEPT !.shown = @ \cup {t},
                               !.again = IF t \in seen.shown THEN @ \cup {t} ELSE @]
  /\ UNCHANGED vars

(* ... or false ... *)
IterEnd ==
  /\ Iterating /\ iter.item # Freed
  /\ WalkEnds = {}
  /\ iter' = NoIter
  /\ seen' = [seen EXCEPT !.missed = seen.kept \ seen.shown]
  /\ UNCHANGED vars

(* ... or goes round a cyclic chain of rows that are not occupied ... *)
IterSpin ==
  /\ Iterating /\ iter.item # Freed
  /\ \E w \in WalkEnds : Met(w[1], w[2]) = {}
  /\ pc' = "spin"
  /\ UNCHANGED <<MapVars, resizing, last, iter, seen>>

(* ... or reads a row that is gone. *)
IterFreed ==
  /\ Iterating /\ iter.item = Freed
  /\ status' = "corrupt"
  /\ UNCHANGED <<table, n_buckets, next_size, size, owned, drained,
                 pc, resizing, last, iter, seen>>

(* A step of another call.  A resize frees the rows of the old table; a    *)
(* client that frees the map is through with the iterator.                 *)
MapStep ==
  /\ Next
  /\ IF iter = NoIter THEN UNCHANGED <<iter, seen>>
     ELSE IF n_buckets' = 0 THEN iter' = NoIter /\ seen' = Unseen
     ELSE /\ iter' = IF n_buckets' # n_buckets /\ iter.item # Null
                     THEN [iter EXCEPT !.item = Freed] ELSE iter
          /\ seen' = [seen EXCEPT
               !.kept    = @ \cap TextsOf(table'),
               !.added   = @ \/ ~(TextsOf(table') \subseteq TextsOf(table)),
               !.resized = @ \/ n_buckets' # n_buckets]

-----------------------------------------------------------------------------
InitI == Init /\ iter = NoIter /\ seen = Unseen

NextI == IterInit \/ IterShow \/ IterEnd \/ IterSpin \/ IterFreed \/ MapStep

SpecI == InitI /\ [][NextI]_iterVars

-----------------------------------------------------------------------------
(* Properties *)

(* The row the iterator looks at next is one of the bucket it is in.       *)
ItemInTable ==
  iter # NoIter =>
    /\ iter.bucket \in -1 .. n_buckets - 1
    /\ iter.item \notin {Null, Freed} =>
         /\ iter.item[1] = iter.bucket
         /\ iter.item[2] \in DOMAIN table[iter.bucket].rows

(* "Iterate every key/value pair" (hashmap.h): while entries are replaced, *)
(* removed (the one just shown too) and added, an entry that stays is      *)
(* shown once, neither left out nor repeated.  Not so once the map was     *)
(* resized, or a chain linked back into itself.                            *)
ShowsKept ==
  seen.resized \/ Cyclic(table) \/
    (seen.missed = {} /\ seen.again \cap seen.kept = {})

(* A client that finds room (size below 70% of the buckets) and then only  *)
(* replaces and removes never has the iterator's row freed: such puts do   *)
(* not resize.  At the limit they do, even a put that replaces.            *)
ReplacingKeepsRows ==
  iter # NoIter /\ seen.room /\ ~seen.added => iter.item # Freed

=============================================================================
