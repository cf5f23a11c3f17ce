------------------------------ MODULE Hashmap ------------------------------
(***************************************************************************)
(* The chained hash map of src/hashmap.c.                                  *)
(*                                                                         *)
(* A bucket is a chain of rows: the first row lives in the bucket array,   *)
(* the others are allocated one by one.  Rows are never unlinked; removing *)
(* an entry leaves an unoccupied row (a tombstone) which a later put may   *)
(* reuse.  A chain is modelled as the sequence of its rows in "next" order *)
(* with the position the last row points back to ("back", 0 for NULL):     *)
(* nc_hashmap_insert_bucket writes "next" on the last row only, and either *)
(* to a new row or to a tombstone it met on the way.                       *)
(*                                                                         *)
(* A call is one step, except that a put that has to resize runs its loop  *)
(* over the old rows one step per row.  A walk over a chain that never     *)
(* ends leaves pc at "spin".                                               *)
(***************************************************************************)
EXTENDS Integers, Sequences, FiniteSets

CONSTANTS
  Keys,            \* key pointers a client passes
  Vals,            \* value pointers a client passes
  Null,            \* the NULL pointer
  Text,            \* what the compare function sees of a key pointer
  HashOf,          \* what the hash function returns for a key pointer
  StringKeys,      \* TRUE: nc_string_compare, FALSE: nc_simple_compare
  KeyFree,         \* the map was given a key_free function
  ValueFree,       \* the map was given a value_free function
  InitialSize,     \* INITIAL_SIZE
  IncreaseFactor,  \* INCREASE_FACTOR
  AllocFails,      \* the calloc calls that may return NULL
  PutAfterRemove   \* FALSE: a client that never puts again once it has removed

CallocSites == {"map", "row", "table", "rehash"}

ASSUME ConstantsAssumption ==
  /\ Text \in [Keys \cup {Null} -> {Text[k] : k \in Keys \cup {Null}}]
  /\ HashOf \in [Keys -> Nat]
  /\ StringKeys \in BOOLEAN /\ KeyFree \in BOOLEAN /\ ValueFree \in BOOLEAN
  /\ PutAfterRemove \in BOOLEAN
  /\ InitialSize \in Nat \ {0} /\ IncreaseFactor \in Nat \ {0}
  /\ AllocFails \subseteq CallocSites
  /\ \A j, k \in Keys : Text[j] = Text[k] => HashOf[j] = HashOf[k]
  /\ StringKeys => Null \notin Keys
  /\ ~StringKeys => \A j, k \in Keys \cup {Null} : Text[j] = Text[k] => j = k

VARIABLES
  status,     \* "none": no map, "live", "corrupt": freed memory was used
  table,      \* buckets
  n_buckets,
  next_size,
  size,
  owned,      \* history: pointers the map took over and has not given up
  pc,         \* "idle", "resize", "insert" (after a resize), "spin"
  arg,        \* key and value of the put that is resizing
  fresh,      \* new_buckets of the resize
  items,      \* entries moved by the resize
  scan,       \* <<bucket, row>> the resize looks at next
  last,       \* <<call, text, value, ok>>: the last call that returned
  drained     \* history: the client has removed something from this map

resizing == <<arg, fresh, items, scan>>
vars == <<status, table, n_buckets, next_size, size, owned, pc,
          resizing, last, drained>>

-----------------------------------------------------------------------------
(* Rows, chains and tables *)

Row(k, v)     == [key |-> k, value |-> v, occ |-> TRUE]
EmptyRow      == [key |-> Null, value |-> Null, occ |-> FALSE]
EmptyChain    == [rows |-> <<EmptyRow>>, back |-> 0]
EmptyTable(n) == [b \in 0 .. n - 1 |-> EmptyChain]

BucketOf(k, n) == HashOf[k] % n
NextSize(n)    == (7 * n) \div 10     \* FULL_FACTOR

(* nc_string_compare is false as soon as one side is NULL; nc_simple_compare *)
(* compares the pointers.                                                    *)
SameKey(l, r) ==
  /\ Text[l] = Text[r]
  /\ StringKeys => l # Null /\ r # Null

OccSlots(tab) ==
  UNION {{b} \X {i \in DOMAIN tab[b].rows : tab[b].rows[i].occ} : b \in DOMAIN tab}
OccRows(tab) == {tab[s[1]].rows[s[2]] : s \in OccSlots(tab)}

(* The pointers of an entry that the map frees by itself. *)
Managed(k, v) ==
  {p \in {k} : KeyFree /\ p # Null} \cup {p \in {v} : ValueFree /\ p # Null}
StoredPtrs(tab) == UNION {Managed(r.key, r.value) : r \in OccRows(tab)}

FirstOf(S) == {i \in S : \A j \in S : i <= j}
LastOf(S)  == {i \in S : \A j \in S : j <= i}

(* Fault: the insertion loop takes the first tombstone for the end.        *)
HitsToTombstone(c, k) ==
  {i \in DOMAIN c.rows :
     /\ SameKey(c.rows[i].key, k)
     /\ \A j \in 1 .. i : c.rows[j].occ}

(* Rows the insertion loop stops at, and rows nc_hashmap_get_entry stops at: *)
(* the latter does not ask whether the row is occupied.                      *)
Hits(c, k) ==
  {i \in DOMAIN c.rows : c.rows[i].occ /\ SameKey(c.rows[i].key, k)}
Matches(c, k) == {i \in DOMAIN c.rows : SameKey(c.rows[i].key, k)}

(* Fault: the insertion loop takes every row it passes for a tombstone.    *)
TombsAnyRow(c) == DOMAIN c.rows
Tombs(c)       == {i \in DOMAIN c.rows : ~c.rows[i].occ}

(* Fault: the chain is linked to the reused row even if that is its last.  *)
AddedLinked(c, r) ==
  IF Tombs(c) = {}
  THEN {[c EXCEPT !.rows = Append(@, r)]}
  ELSE {[rows |-> [c.rows EXCEPT ![t] = r], back |-> t] : t \in LastOf(Tombs(c))}

(* What a full walk without a hit does with row r: it is written into the  *)
(* last tombstone met, and the last row of the chain is linked to it unless *)
(* it is that row; with no tombstone a new row is appended.                 *)
Added(c, r) ==
  IF Tombs(c) = {}
  THEN {[c EXCEPT !.rows = Append(@, r)]}
  ELSE {[rows |-> [c.rows EXCEPT ![t] = r],
         back |-> IF t = Len(c.rows) THEN 0 ELSE t] : t \in LastOf(Tombs(c))}

Cyclic(tab) == \E b \in DOMAIN tab : tab[b].back # 0

-----------------------------------------------------------------------------
(* Calls *)

(* A call on the map.  Once the map refers to memory that was freed, what  *)
(* a call does is undefined and the model stops.                           *)
Ready == status = "live" /\ pc = "idle" /\ StoredPtrs(table) \subseteq owned

Return(call, k, v, ok) == last' = <<call, Text[k], v, ok>>

(* The client hands over pointers it owns. *)
MayPut(k, v) ==
  /\ PutAfterRemove \/ ~drained
  /\ Managed(k, v) \cap owned = {}

MapVars == <<status, table, n_buckets, next_size, size, owned, drained>>
Resting == <<<<Null, Null>>, EmptyTable(0), 0, <<0, 1>>>>

(* Every call on a NULL map answers false and does nothing. *)
CallOnNull(call, k, v) ==
  /\ status = "none"
  /\ Return(call, k, v, FALSE)
  /\ UNCHANGED <<MapVars, pc, resizing>>

(* nc_hashmap_new, nc_hashmap_new_full *)
New ==
  /\ status = "none"
  /\ UNCHANGED <<pc, resizing, owned, drained>>
  /\ \/ /\ status' = "live"
        /\ table' = EmptyTable(InitialSize)
        /\ n_buckets' = InitialSize
        /\ next_size' = NextSize(InitialSize)
        /\ size' = 0
        /\ last' = <<"new", Null, Null, TRUE>>
     \/ /\ "map" \in AllocFails
        /\ last' = <<"new", Null, Null, FALSE>>
        /\ UNCHANGED <<status, table, n_buckets, next_size, size>>

(* nc_hashmap_insert_bucket on self->buckets, and the end of nc_hashmap_put *)
InsertBucket(k, v) ==
  LET b == BucketOf(k, n_buckets)
      c == table[b]
  IN
  /\ UNCHANGED <<status, n_buckets, next_size, drained>>
  /\ \/ \E i \in FirstOf(Hits(c, k)) :
          /\ table' = [table EXCEPT ![b] = [@ EXCEPT !.rows[i] = Row(k, v)]]
          /\ owned' = (owned \ Managed(c.rows[i].key, c.rows[i].value))
                        \cup Managed(k, v)
          /\ pc' = "idle" /\ Return("put", k, v, TRUE)
          /\ UNCHANGED size
     \/ /\ Hits(c, k) = {} /\ c.back = 0
        /\ \E d \in Added(c, Row(k, v)) : table' = [table EXCEPT ![b] = d]
        /\ size' = size + 1
        /\ owned' = owned \cup Managed(k, v)
        /\ pc' = "idle" /\ Return("put", k, v, TRUE)
     \/ /\ Hits(c, k) = {} /\ c.back = 0 /\ Tombs(c) = {}
        /\ "row" \in AllocFails
        /\ pc' = "idle" /\ Return("put", k, v, FALSE)
        /\ UNCHANGED <<table, size, owned>>
     \/ /\ Hits(c, k) = {} /\ c.back # 0
        /\ pc' = "spin"
        /\ UNCHANGED <<table, size, owned, last>>

(* Faults: the limit itself is still taken for free space; the entry about *)
(* to be put is counted, although it may replace one.                      *)
FullLate  == size > next_size
FullEarly == size + 1 >= next_size

(* nc_hashmap_maybe_resize *)
Full == size >= next_size

(* nc_hashmap_put when nc_hashmap_maybe_resize says no *)
Put(k, v) ==
  /\ Ready /\ MayPut(k, v)
  /\ ~Full
  /\ InsertBucket(k, v)
  /\ UNCHANGED resizing

(* nc_hashmap_put entering nc_hashmap_resize *)
StartResize(k, v) ==
  /\ Ready /\ MayPut(k, v)
  /\ Full
  /\ UNCHANGED MapVars
  /\ \/ /\ pc' = "resize"
        /\ arg' = <<k, v>>
        /\ fresh' = EmptyTable(n_buckets * IncreaseFactor)
        /\ items' = 0
        /\ scan' = <<0, 1>>
        /\ UNCHANGED last
     \/ /\ "table" \in AllocFails
        /\ Return("put", k, v, FALSE)
        /\ UNCHANGED <<pc, resizing>>

(* Fault: only the first row of a chain is moved. *)
NextBucketOnly == <<scan[1] + 1, 1>>

(* Fault: "continue" on an unoccupied row, before entry = entry->next. *)
NextRowStuck ==
  IF ~table[scan[1]].rows[scan[2]].occ THEN scan
  ELSE IF scan[2] < Len(table[scan[1]].rows) THEN <<scan[1], scan[2] + 1>>
  ELSE <<scan[1] + 1, 1>>

(* entry = entry->next, or the next bucket *)
NextRow ==
  LET b == scan[1]
      i == scan[2]
  IN  IF i < Len(table[b].rows) THEN <<b, i + 1>>
      ELSE IF table[b].back # 0 THEN <<b, table[b].back>>
      ELSE <<b + 1, 1>>

Scanned == table[scan[1]].rows[scan[2]]

Rehashing == pc = "resize" /\ scan[1] < n_buckets

(* The loop of nc_hashmap_resize passes over an unoccupied row ... *)
RehashSkip ==
  /\ Rehashing
  /\ ~Scanned.occ
  /\ scan' = NextRow
  /\ UNCHANGED <<MapVars, pc, arg, fresh, items, last>>

(* Fault: the hash is reduced by the old number of buckets. *)
RehashRowOldSize ==
  LET b == BucketOf(Scanned.key, n_buckets)
      c == fresh[b]
  IN
  /\ Rehashing
  /\ Scanned.occ
  /\ Hits(c, Scanned.key) = {}
  /\ \E d \in Added(c, Row(Scanned.key, Scanned.value)) :
       fresh' = [fresh EXCEPT ![b] = d]
  /\ items' = items + 1
  /\ scan' = NextRow
  /\ UNCHANGED <<MapVars, pc, arg, last>>

(* ... or inserts an entry into new_buckets. *)
RehashRow ==
  LET b == BucketOf(Scanned.key, n_buckets * IncreaseFactor)
      c == fresh[b]
  IN
  /\ Rehashing
  /\ Scanned.occ
  /\ Hits(c, Scanned.key) = {}
  /\ \E d \in Added(c, Row(Scanned.key, Scanned.value)) :
       fresh' = [fresh EXCEPT ![b] = d]
  /\ items' = items + 1
  /\ scan' = NextRow
  /\ UNCHANGED <<MapVars, pc, arg, last>>

(* The failure label: the new rows are freed and with them the keys and    *)
(* values they share with the old ones (nuke is true); put answers false.  *)
GiveUpResize ==
  /\ owned' = owned \ StoredPtrs(fresh)
  /\ pc' = "idle"
  /\ Return("put", arg[1], arg[2], FALSE)
  /\ arg' = Resting[1] /\ fresh' = Resting[2]
  /\ items' = Resting[3] /\ scan' = Resting[4]
  /\ UNCHANGED <<table, n_buckets, next_size, size, drained>>

(* calloc fails for a row of a new chain. *)
RehashOutOfMemory ==
  LET c == fresh[BucketOf(Scanned.key, n_buckets * IncreaseFactor)] IN
  /\ Rehashing
  /\ Scanned.occ
  /\ Hits(c, Scanned.key) = {} /\ Tombs(c) = {}
  /\ "rehash" \in AllocFails
  /\ GiveUpResize
  /\ UNCHANGED status

(* A row met for the second time, on a cyclic chain, hits its own copy:    *)
(* its key and value are freed there, and again under the failure label.   *)
RehashAgain ==
  LET c == fresh[BucketOf(Scanned.key, n_buckets * IncreaseFactor)] IN
  /\ Rehashing
  /\ Scanned.occ
  /\ Hits(c, Scanned.key) # {}
  /\ GiveUpResize
  /\ status' = IF Managed(Scanned.key, Scanned.value) = {} THEN status ELSE "corrupt"

(* Fault: the number of buckets is not brought up to date. *)
FinishResizeOldCount ==
  /\ pc = "resize" /\ scan[1] = n_buckets
  /\ table' = fresh
  /\ next_size' = NextSize(n_buckets * IncreaseFactor)
  /\ size' = items
  /\ pc' = "insert"
  /\ fresh' = Resting[2] /\ items' = Resting[3] /\ scan' = Resting[4]
  /\ UNCHANGED <<status, n_buckets, owned, drained, arg, last>>

(* The loop is over: the old rows are freed, the new table is installed. *)
FinishResize ==
  /\ pc = "resize" /\ scan[1] = n_buckets
  /\ table' = fresh
  /\ n_buckets' = n_buckets * IncreaseFactor
  /\ next_size' = NextSize(n_buckets * IncreaseFactor)
  /\ size' = items
  /\ pc' = "insert"
  /\ fresh' = Resting[2] /\ items' = Resting[3] /\ scan' = Resting[4]
  /\ UNCHANGED <<status, owned, drained, arg, last>>

(* Fault: a put that has resized forgets to insert. *)
PutResizedOnly ==
  /\ pc = "insert"
  /\ pc' = "idle" /\ Return("put", arg[1], arg[2], TRUE)
  /\ arg' = Resting[1]
  /\ UNCHANGED <<MapVars, fresh, items, scan>>

(* nc_hashmap_put after nc_hashmap_resize *)
PutResized ==
  /\ pc = "insert"
  /\ InsertBucket(arg[1], arg[2])
  /\ arg' = Resting[1]
  /\ UNCHANGED <<fresh, items, scan>>

(* Fault: a removal clears "occ" and nothing else of the row. *)
RemoveOccOnly(call, k) ==
  LET b == BucketOf(k, n_buckets)
      c == table[b]
  IN
  /\ Ready
  /\ \E i \in FirstOf(Matches(c, k)) :
       /\ table' = [table EXCEPT ![b] = [@ EXCEPT !.rows[i].occ = FALSE]]
       /\ size' = size - 1
       /\ owned' = owned \ Managed(c.rows[i].key, c.rows[i].value)
  /\ drained' = TRUE
  /\ Return(call, k, Null, TRUE)
  /\ UNCHANGED <<status, n_buckets, next_size, resizing, pc>>

(* nc_hashmap_remove frees the key and value, nc_hashmap_steal leaves them *)
(* to the caller: either way the map gives them up.                        *)
Remove(call, k) ==
  LET b == BucketOf(k, n_buckets)
      c == table[b]
  IN
  /\ Ready
  /\ UNCHANGED <<status, n_buckets, next_size, resizing>>
  /\ \/ \E i \in FirstOf(Matches(c, k)) :
          /\ table' = [table EXCEPT ![b] = [@ EXCEPT !.rows[i] = EmptyRow]]
          /\ size' = size - 1
          /\ owned' = owned \ Managed(c.rows[i].key, c.rows[i].value)
          /\ drained' = TRUE
          /\ Return(call, k, Null, TRUE)
          /\ UNCHANGED pc
     \/ /\ Matches(c, k) = {} /\ c.back = 0
        /\ Return(call, k, Null, FALSE)
        /\ UNCHANGED <<table, size, owned, drained, pc>>
     \/ /\ Matches(c, k) = {} /\ c.back # 0
        /\ pc' = "spin"
        /\ UNCHANGED <<table, size, owned, drained, last>>

(* Fault: the entries are not freed with the rows (nuke is false). *)
FreeRowsOnly ==
  /\ Ready
  /\ status' = "none"
  /\ table' = EmptyTable(0) /\ n_buckets' = 0 /\ next_size' = 0 /\ size' = 0
  /\ drained' = FALSE
  /\ last' = <<"free", Null, Null, TRUE>>
  /\ UNCHANGED <<pc, resizing, owned>>

(* nc_hashmap_free walks every chain and frees row after row: on a cyclic  *)
(* chain it comes back to a row it has freed.                              *)
Free ==
  /\ Ready
  /\ status' = IF Cyclic(table) THEN "corrupt" ELSE "none"
  /\ table' = EmptyTable(0) /\ n_buckets' = 0 /\ next_size' = 0 /\ size' = 0
  /\ owned' = owned \ StoredPtrs(table)
  /\ drained' = FALSE
  /\ last' = <<"free", Null, Null, TRUE>>
  /\ UNCHANGED <<pc, resizing>>

(* A walk that never ends. *)
Spin == pc = "spin" /\ UNCHANGED vars

-----------------------------------------------------------------------------
Init ==
  /\ status = "none"
  /\ table = EmptyTable(0) /\ n_buckets = 0 /\ next_size = 0 /\ size = 0
  /\ owned = {}
  /\ pc = "idle"
  /\ arg = Resting[1] /\ fresh = Resting[2]
  /\ items = Resting[3] /\ scan = Resting[4]
  /\ last = <<"none", Null, Null, TRUE>>
  /\ drained = FALSE

(* The steps of a put that is resizing *)
Running ==
  \/ RehashSkip \/ RehashRow \/ RehashOutOfMemory \/ RehashAgain
  \/ FinishResize \/ PutResized

Next ==
  \/ New \/ Free
  \/ \E k \in Keys, v \in Vals :
       Put(k, v) \/ StartResize(k, v) \/ CallOnNull("put", k, v)
  \/ \E call \in {"remove", "steal"}, k \in Keys :
       Remove(call, k) \/ CallOnNull(call, k, Null)
  \/ Running
  \/ Spin

Spec == Init /\ [][Next]_vars

(* A call that has begun runs on: a client may stop calling, the library   *)
(* does not stop in the middle of a loop.                                  *)
FairSpec == Spec /\ WF_vars(Running)

-----------------------------------------------------------------------------
(* Answers of the calls that change nothing *)

(* nc_hashmap_get: a walk that matches nothing on a cyclic chain never ends. *)
Diverges == <<"diverges">>

GetResult(k) ==
  LET c == table[BucketOf(k, n_buckets)] IN
  IF Matches(c, k) # {}
  THEN c.rows[CHOOSE i \in FirstOf(Matches(c, k)) : TRUE].value
  ELSE IF c.back # 0 THEN Diverges ELSE Null

-----------------------------------------------------------------------------
(* Properties *)

Idle == status = "live" /\ pc = "idle"

TextsOf(tab) == {Text[r.key] : r \in OccRows(tab)}

(* The mapping a table represents. *)
ContentsOf(tab) ==
  [t \in TextsOf(tab) |-> (CHOOSE r \in OccRows(tab) : Text[r.key] = t).value]

Rows == [key : Keys \cup {Null}, value : Vals \cup {Null}, occ : BOOLEAN]

Chains == [rows : Seq(Rows) \ {<<>>}, back : Nat]

IsTable(tab, n) ==
  /\ tab \in [0 .. n - 1 -> Chains]
  /\ \A b \in 0 .. n - 1 : tab[b].back <= Len(tab[b].rows)

(* The variables have the shapes their comments give; in particular a scan  *)
(* in progress is at a row of the old table, and the table has at least one *)
(* bucket, so that the hash is never reduced modulo zero.                   *)
TypeOK ==
  /\ status \in {"none", "live", "corrupt"}
  /\ pc \in {"idle", "resize", "insert", "spin"}
  /\ n_buckets \in Nat /\ IsTable(table, n_buckets)
  /\ status = "live" => n_buckets > 0
  /\ next_size \in Nat /\ size \in Int /\ items \in Nat
  /\ owned \subseteq Keys \cup Vals
  /\ drained \in BOOLEAN
  /\ pc # "idle" => status = "live"
  /\ arg \in (Keys \cup {Null}) \X (Vals \cup {Null})
  /\ pc = "insert" => arg \in Keys \X Vals
  /\ IF pc = "resize"
     THEN /\ IsTable(fresh, n_buckets * IncreaseFactor)
          /\ arg \in Keys \X Vals
          /\ scan \in (0 .. n_buckets) \X (Nat \ {0})
          /\ scan[1] < n_buckets => scan[2] \in DOMAIN table[scan[1]].rows
     ELSE fresh = EmptyTable(0) /\ scan = <<0, 1>>

(* An occupied row is in the bucket its key hashes to, and is the only one *)
(* there with that key; one that is not occupied has a NULL key.           *)
WellFormed(tab, n) ==
  \A b \in 0 .. n - 1 : \A i \in DOMAIN tab[b].rows :
    IF tab[b].rows[i].occ
    THEN /\ tab[b].rows[i].key \in Keys
         /\ BucketOf(tab[b].rows[i].key, n) = b
         /\ \A j \in DOMAIN tab[b].rows :
              /\ tab[b].rows[j].occ
              /\ Text[tab[b].rows[j].key] = Text[tab[b].rows[i].key]
              => j = i
    ELSE tab[b].rows[i].key = Null

Placed ==
  /\ WellFormed(table, n_buckets)
  /\ pc = "resize" => WellFormed(fresh, n_buckets * IncreaseFactor)

(* No chain goes back into itself, and the only row that is not occupied   *)
(* is the first one of a chain that was never used.                        *)
Compact(tab) ==
  \A b \in DOMAIN tab :
    tab[b].back = 0 /\ (Tombs(tab[b]) = {} \/ Len(tab[b].rows) = 1)

Tight ==
  /\ ~drained => Compact(table)
  /\ pc = "resize" => Compact(fresh)

(* Both the table in use and the one a resize is filling are well formed,  *)
(* in the middle of a resize and in the middle of a call that never ends:  *)
(* what nc_hashmap_insert_bucket, nc_hashmap_resize and nc_hashmap_remove  *)
(* rely on when they stop at the first row that matches.  Tombstones come  *)
(* from removals only: a resize makes none.                                *)
Structure == Placed /\ Tight

(* Every entry is found under its own key: rehashing, tombstone reuse,     *)
(* replacement and removal never leave an entry in a bucket its key does   *)
(* not hash to, nor behind an older row that answers for the same key      *)
(* (nc_hashmap_get against everything that writes a chain).                *)
LookupFinds ==
  Idle => \A r \in OccRows(table) : GetResult(r.key) = r.value

(* A key nothing is stored under is answered NULL: nc_hashmap_get, which    *)
(* does not look at "occ", never answers from a tombstone, and returns.     *)
AbsentIsNull ==
  Idle => \A k \in Keys : Text[k] \notin TextsOf(table) => GetResult(k) = Null

(* nc_hashmap_size is the "element count" (hashmap.h): puts that replace,   *)
(* reuse a tombstone or append, removals, and the recount done by a resize *)
(* all keep it equal to the number of occupied rows.                       *)
SizeCounts ==
  status = "live" => size = Cardinality(OccSlots(table))

(* Between calls the map is responsible for exactly the pointers its rows   *)
(* hold, and for none when there is no map.  A pointer owned and not stored *)
(* is a leak; one stored and not owned was freed or handed back and will    *)
(* be used and freed again.                                                *)
OwnershipExact ==
  /\ Idle => owned = StoredPtrs(table)
  /\ status = "none" => owned = {}

(* Every chain ends: reusing a tombstone never links the end of a chain    *)
(* back into it.                                                           *)
ChainsEnd == ~Cyclic(table)

(* The load limit: between calls the table never holds more entries than    *)
(* the 70% the next put would resize at.                                   *)
LoadBounded == Idle => Cardinality(OccSlots(table)) <= next_size

(* "we need to guarantee old data is preserved" (nc_hashmap_resize): no    *)
(* step of a resize, failed or not, changes what the map holds or frees    *)
(* something it holds.                                                     *)
ResizeKeepsAll ==
  [][pc = "resize" => /\ ContentsOf(table') = ContentsOf(table)
                      /\ owned' = owned]_vars

(* Every call returns. *)
EveryCallReturns == (pc # "idle") ~> (pc = "idle")

(* The map as its clients know it.  One whose memory was freed and used    *)
(* again is still there: whatever it has come to, it is no map that        *)
(* nc_hashmap_free has released.                                           *)
Abstract == INSTANCE MapSpec WITH
  Texts <- {Text[k] : k \in Keys},
  alive <- status # "none",
  m     <- ContentsOf(table)

(* Every call, the resizing put included, acts on the key -> value mapping *)
(* in one step and answers as hashmap.h says (the detailed map implements   *)
(* MapSpec).                                                               *)
ImplementsMap == Abstract!Spec

(* The same but for one step, which MapSpec does not allow: freeing a map  *)
(* with a chain that goes back into itself, where nc_hashmap_free uses and *)
(* frees rows it has freed (hashmap.h: "Free the given NcHashmap, and all  *)
(* keys/values if appropriate").  What that step leads to is left out.     *)
ImplementsMapButFree ==
  Abstract!Init /\ [][(Free /\ Cyclic(table)) \/ Abstract!Next]_(Abstract!vars)

=============================================================================
