------------------------- MODULE HashmapIterProofs -------------------------
(***************************************************************************)
(* Theorems about the iterator of module HashmapIter.                      *)
(***************************************************************************)
EXTENDS HashmapIter, HashmapProofs, WellFoundedInduction

(* A place in the table is neither of the two special pointers, and an     *)
(* iterator is not the absence of one.                                     *)
PointersApart ==
  /\ Null \notin Nat \X Nat /\ Freed \notin Nat \X Nat /\ Freed # Null
  /\ \A b, i : [bucket |-> b, item |-> i] # NoIter

(* A set of numbers that is not empty has a smallest one: of the intervals *)
(* up to each of them one is minimal.                                      *)
LEMMA FirstExists ==
  ASSUME NEW S, S \subseteq Nat, S # {}
  PROVE  FirstOf(S) # {}
<1> DEFINE T == {0 .. i : i \in S}
           R == StrictSubsetOrdering(Nat)
<1>1. IsWellFoundedOn(R, FiniteSubsetsOf(Nat))
  BY FS_StrictSubsetOrderingWellFounded
<1>2. T \subseteq FiniteSubsetsOf(Nat) /\ T # {}
  <2>1. ASSUME NEW i \in S PROVE 0 .. i \in SUBSET Nat /\ IsFiniteSet(0 .. i)
    BY FS_Interval
  <2> QED
    BY <2>1 DEF FiniteSubsetsOf
<1>3. PICK x \in T : \A y \in T : ~(<<y, x>> \in R)
  <2> HIDE DEF T, R
  <2> QED
    BY <1>1, <1>2, WFMin
<1>4. PICK i \in S : x = 0 .. i
  OBVIOUS
<1>5. ASSUME NEW j \in S PROVE i <= j
  <2> SUFFICES ASSUME j < i PROVE FALSE
    OBVIOUS
  <2>1. 0 .. j \in T /\ 0 .. j \in SUBSET Nat /\ x \in SUBSET Nat
    BY <1>4
  <2>2. 0 .. j \subseteq x /\ 0 .. j # x
    BY <1>4
  <2> QED
    BY <1>3, <2>1, <2>2 DEF StrictSubsetOrdering
<1> QED
  BY <1>5 DEF FirstOf

-----------------------------------------------------------------------------
(* What a step leaves where it is *)

(* Every row of tab is where it was; an entry of new has been in tab with  *)
(* the same text, in the same slot, or nothing was stored under its text.  *)
Steady(new, tab) ==
  /\ DOMAIN new = DOMAIN tab
  /\ \A b \in DOMAIN tab :
       /\ DOMAIN tab[b].rows \subseteq DOMAIN new[b].rows
       /\ tab[b].back # 0 => new[b].back # 0
  /\ \A b \in DOMAIN tab : \A j \in DOMAIN new[b].rows :
       new[b].rows[j].occ /\ Text[new[b].rows[j].key] \in TextsOf(tab) =>
         /\ j \in DOMAIN tab[b].rows /\ tab[b].rows[j].occ
         /\ Text[tab[b].rows[j].key] = Text[new[b].rows[j].key]

LEMMA SteadySame == ASSUME NEW tab PROVE Steady(tab, tab)
BY DEF Steady

LEMMA WroteSteady ==
  ASSUME NEW tab, NEW b \in DOMAIN tab, NEW d, NEW t, NEW r, NEW new,
         Wrote(d, tab[b], t, r), Swapped(new, tab, b, d), tab[b].back # 0 => d.back # 0,
         r.occ =>
           \/ Text[r.key] \notin TextsOf(tab)
           \/ /\ t \in DOMAIN tab[b].rows /\ tab[b].rows[t].occ
              /\ Text[tab[b].rows[t].key] = Text[r.key]
  PROVE  Steady(new, tab)
<1>1. DOMAIN new = DOMAIN tab /\ new[b] = d /\ \A a \in DOMAIN tab : a # b => new[a] = tab[a]
  BY DEF Swapped
<1>2. /\ DOMAIN d.rows = DOMAIN tab[b].rows \cup {t} /\ d.rows[t] = r
      /\ \A j \in DOMAIN tab[b].rows : j # t => d.rows[j] = tab[b].rows[j]
  BY DEF Wrote
<1>3. ASSUME NEW a \in DOMAIN tab
      PROVE  /\ DOMAIN tab[a].rows \subseteq DOMAIN new[a].rows
             /\ tab[a].back # 0 => new[a].back # 0
  BY <1>1, <1>2
<1>4. ASSUME NEW a \in DOMAIN tab, NEW j \in DOMAIN new[a].rows, new[a].rows[j].occ,
             Text[new[a].rows[j].key] \in TextsOf(tab)
      PROVE  /\ j \in DOMAIN tab[a].rows /\ tab[a].rows[j].occ
             /\ Text[tab[a].rows[j].key] = Text[new[a].rows[j].key]
  <2>1. CASE a # b
    BY <1>1, <1>4, <2>1
  <2>2. CASE a = b /\ j # t
    BY <1>1, <1>2, <1>4, <2>2
  <2>3. CASE a = b /\ j = t
    BY <1>1, <1>2, <1>4, <2>3
  <2> QED
    BY <2>1, <2>2, <2>3
<1> QED
  BY <1>1, <1>3, <1>4 DEF Steady

LEMMA InsertSteady ==
  ASSUME IndInv, status = "live", NEW k \in Keys, NEW v \in Vals, InsertBucket(k, v)
  PROVE  Steady(table', table)
<1> DEFINE b == BucketOf(k, n_buckets)
           c == table[b]
<1>1. n_buckets \in Nat \ {0} /\ GoodTable(table, n_buckets)
  BY IndFacts
<1>2. b \in DOMAIN table /\ c \in Chains
  BY <1>1, BucketInRange DEF GoodTable, GoodChain
<1>3. PICK r : r = Row(k, v)
  OBVIOUS
<1>4. r \in Rows /\ r.occ /\ r.key = k
  BY <1>3 DEF Row, Rows
<1>5. ASSUME NEW i \in FirstOf(Hits(c, k)),
             table' = [table EXCEPT ![b] = [@ EXCEPT !.rows[i] = r]]
      PROVE  Steady(table', table)
  <2>1. i \in DOMAIN c.rows /\ c.rows[i].occ /\ Text[c.rows[i].key] = Text[k]
    BY DEF FirstOf, Hits, SameKey
  <2>2. PICK d, new : d = [c EXCEPT !.rows[i] = r] /\ new = table'
    OBVIOUS
  <2>3. Wrote(d, c, i, r) /\ Swapped(new, table, b, d) /\ d.back = c.back
    BY <1>2, <1>4, <1>5, <2>1, <2>2, WroteInPlace, SwappedExcept DEF Chains
  <2> HIDE DEF b
  <2>4. Steady(new, table)
    BY <1>2, <1>4, <2>1, <2>3, WroteSteady
  <2> QED
    BY <2>2, <2>4
<1>6. ASSUME Hits(c, k) = {}, c.back = 0, NEW d \in Added(c, r),
             table' = [table EXCEPT ![b] = d]
      PROVE  Steady(table', table)
  <2>1. PICK t : Wrote(d, c, t, r)
    BY <1>2, <1>4, WroteAdded
  <2>2. PICK new : new = table'
    OBVIOUS
  <2>3. Swapped(new, table, b, d)
    BY <1>2, <1>6, <2>2, SwappedExcept
  <2>4. Text[r.key] \notin TextsOf(table)
    BY <1>1, <1>4, <1>6, MissIsAbsent DEF TextsOf
  <2> HIDE DEF b
  <2>5. Steady(new, table)
    BY <1>2, <1>6, <2>1, <2>3, <2>4, WroteSteady
  <2> QED
    BY <2>2, <2>5
<1> QED
  BY <1>3, <1>5, <1>6, SteadySame DEF InsertBucket

LEMMA RemoveSteady ==
  ASSUME IndInv, NEW call, NEW k \in Keys, Remove(call, k)
  PROVE  Steady(table', table)
<1> DEFINE b == BucketOf(k, n_buckets)
           c == table[b]
<1>1. n_buckets \in Nat \ {0} /\ GoodTable(table, n_buckets)
  BY IndFacts DEF Remove, Ready
<1>2. b \in DOMAIN table /\ c \in Chains
  BY <1>1, BucketInRange DEF GoodTable, GoodChain
<1>3. EmptyRow \in Rows /\ ~EmptyRow.occ
  BY DEF EmptyRow, Rows
<1>4. ASSUME NEW i \in FirstOf(Matches(c, k)),
             table' = [table EXCEPT ![b] = [@ EXCEPT !.rows[i] = EmptyRow]]
      PROVE  Steady(table', table)
  <2>1. i \in DOMAIN c.rows
    BY DEF FirstOf, Matches
  <2>2. PICK d, new, r : d = [c EXCEPT !.rows[i] = r] /\ new = table' /\ r = EmptyRow
    OBVIOUS
  <2>3. Wrote(d, c, i, r) /\ Swapped(new, table, b, d) /\ d.back = c.back
    BY <1>2, <1>3, <1>4, <2>1, <2>2, WroteInPlace, SwappedExcept DEF Chains
  <2> HIDE DEF b
  <2>4. Steady(new, table)
    BY <1>2, <1>3, <2>2, <2>3, WroteSteady
  <2> QED
    BY <2>2, <2>4
<1> QED
  BY <1>4, SteadySame DEF Remove

(* While there is a map, the number of buckets stays and every row with    *)
(* it, or it is freed, or a resize is over and there are more buckets.     *)
LEMMA StepSteady ==
  ASSUME IndInv, Next, status # "none"
  PROVE  \/ n_buckets' = n_buckets /\ Steady(table', table)
         \/ n_buckets' = 0
         \/ FinishResize /\ n_buckets' > n_buckets
<1>1. CASE New
  BY <1>1 DEF New
<1>2. CASE Free
  BY <1>2 DEF Free
<1>3. ASSUME NEW k \in Keys, NEW v \in Vals, Put(k, v)
      PROVE  n_buckets' = n_buckets /\ Steady(table', table)
  <2>1. n_buckets' = n_buckets
    BY <1>3 DEF Put, InsertBucket
  <2> QED
    BY <1>3, <2>1, InsertSteady DEF Put, Ready
<1>4. ASSUME UNCHANGED <<table, n_buckets>>
      PROVE  n_buckets' = n_buckets /\ Steady(table', table)
  BY <1>4, SteadySame
<1>5. ASSUME NEW call, NEW k, NEW v, StartResize(k, v) \/ CallOnNull(call, k, v)
      PROVE  UNCHANGED <<table, n_buckets>>
  BY <1>5 DEF StartResize, CallOnNull, MapVars
<1>6. ASSUME NEW call, NEW k \in Keys, Remove(call, k)
      PROVE  n_buckets' = n_buckets /\ Steady(table', table)
  <2>1. n_buckets' = n_buckets
    BY <1>6 DEF Remove
  <2> QED
    BY <1>6, <2>1, RemoveSteady
<1>7. CASE RehashSkip \/ RehashRow \/ RehashOutOfMemory \/ RehashAgain \/ Spin
  BY <1>4, <1>7 DEF RehashSkip, RehashRow, RehashOutOfMemory, RehashAgain, GiveUpResize,
     MapVars, Spin, vars
<1>8. CASE FinishResize
  <2>1. n_buckets \in Nat \ {0} /\ n_buckets' = n_buckets * IncreaseFactor
    BY <1>8, IndFacts DEF FinishResize
  <2>2. PICK g \in Nat : IncreaseFactor = 2 + g
    <3>1. IncreaseFactor \in Nat /\ IncreaseFactor - 2 \in Nat
      BY ConstantsAssumption, IterAssumption
    <3> QED
      BY <3>1
  <2>3. n_buckets * IncreaseFactor = 2 * n_buckets + n_buckets * g /\ n_buckets * g \in Nat
    BY <2>1, <2>2
  <2> QED
    BY <1>8, <2>1, <2>3
<1>9. CASE PutResized
  <2>1. status = "live" /\ arg[1] \in Keys /\ arg[2] \in Vals /\ InsertBucket(arg[1], arg[2])
    BY <1>9 DEF IndInv, TypeOK, PutResized
  <2>2. n_buckets' = n_buckets
    BY <2>1 DEF InsertBucket
  <2> QED
    BY <2>1, <2>2, InsertSteady
<1> QED
  BY <1>1, <1>2, <1>3, <1>4, <1>5, <1>6, <1>7, <1>8, <1>9 DEF Next, Running

-----------------------------------------------------------------------------
(* The walk *)

(* Where an iterator may be: at no row, or at a row of its bucket.         *)
AtPlace(it, tab, n) ==
  /\ it = [bucket |-> it.bucket, item |-> it.item]
  /\ it.bucket \in -1 .. n - 1
  /\ it.item \notin {Null, Freed} =>
       /\ it.bucket \in DOMAIN tab
       /\ \E i \in DOMAIN tab[it.bucket].rows : it.item = <<it.bucket, i>>

LEMMA RowNumbers ==
  ASSUME NEW tab, NEW n \in Nat, GoodTable(tab, n), NEW b \in DOMAIN tab
  PROVE  /\ b \in Nat /\ b \in 0 .. n - 1 /\ tab[b].back \in Nat
         /\ Len(tab[b].rows) \in Nat /\ DOMAIN tab[b].rows = 1 .. Len(tab[b].rows)
BY DEF GoodTable, GoodChain, Chains

LEMMA MetIs ==
  ASSUME NEW b, NEW i, NEW j \in Met(b, i)
  PROVE  /\ j \in DOMAIN table[b].rows /\ table[b].rows[j].occ
         /\ table[b].back = 0 => j >= i
         /\ table[b].back = 0 =>
              \A x \in DOMAIN table[b].rows : x >= i /\ table[b].rows[x].occ => j <= x
<1>1. CASE OccFrom(b, i) = {} /\ table[b].back # 0
  <2>1. j \in FirstOf(OccFrom(b, table[b].back))
    BY <1>1 DEF Met
  <2> QED
    BY <1>1, <2>1 DEF FirstOf, OccFrom
<1>2. CASE ~(OccFrom(b, i) = {} /\ table[b].back # 0)
  <2>1. j \in FirstOf(OccFrom(b, i))
    BY <1>2 DEF Met
  <2> QED
    BY <2>1 DEF FirstOf, OccFrom
<1> QED
  BY <1>1, <1>2

LEMMA LeavesIs ==
  ASSUME IndInv, NEW b \in DOMAIN table, NEW i, LeavesChain(b, i)
  PROVE  /\ table[b].back = 0
         /\ \A x \in DOMAIN table[b].rows : x >= i => ~table[b].rows[x].occ
<1>1. table[b].back = 0 /\ FirstOf(OccFrom(b, i)) = {}
  BY DEF LeavesChain, Met
<1>2. OccFrom(b, i) \subseteq Nat
  BY IndFacts, RowNumbers DEF OccFrom
<1>3. OccFrom(b, i) = {}
  BY <1>1, <1>2, FirstExists
<1> QED
  BY <1>1, <1>3 DEF OccFrom

(* The walk starts where it stood, or at the first row of a later bucket,  *)
(* when there is nothing left in between.                                  *)
StaysAt(w) == iter.item # Null /\ w = iter.item

MovesTo(w) ==
  /\ w = <<w[1], 1>> /\ w[1] \in DOMAIN table /\ w[1] > iter.bucket
  /\ iter.item # Null => LeavesChain(iter.item[1], iter.item[2])
  /\ \A c \in DOMAIN table : iter.bucket < c /\ c < w[1] => LeavesChain(c, 1)

LEMMA WalkEndIs ==
  ASSUME IndInv, AtPlace(iter, table, n_buckets), NEW w \in WalkEnds
  PROVE  StaysAt(w) \/ MovesTo(w)
<1>1. DOMAIN table = 0 .. n_buckets - 1 /\ n_buckets \in Nat /\ iter.bucket \in -1 .. n_buckets - 1
  BY IndFacts DEF AtPlace, GoodTable
<1>2. CASE iter.item # Null /\ ~LeavesChain(iter.item[1], iter.item[2])
  BY <1>2 DEF WalkEnds, StaysAt
<1>3. CASE ~(iter.item # Null /\ ~LeavesChain(iter.item[1], iter.item[2]))
  <2> DEFINE C == {c \in iter.bucket + 1 .. n_buckets - 1 : ~LeavesChain(c, 1)}
  <2>1. PICK b \in FirstOf(C) : w = <<b, 1>>
    BY <1>3 DEF WalkEnds
  <2>2. b \in iter.bucket + 1 .. n_buckets - 1 /\ \A c \in C : b <= c
    BY DEF FirstOf
  <2>3. b \in DOMAIN table /\ b > iter.bucket
    BY <1>1, <2>2
  <2>4. ASSUME NEW c \in DOMAIN table, iter.bucket < c, c < b PROVE LeavesChain(c, 1)
    <3>1. c \in iter.bucket + 1 .. n_buckets - 1 /\ ~(b <= c)
      BY <1>1, <2>2, <2>4
    <3>2. c \notin C
      BY <2>2, <3>1
    <3> QED
      BY <3>1, <3>2
  <2> QED
    BY <1>3, <2>1, <2>3, <2>4 DEF MovesTo
<1> QED
  BY <1>2, <1>3

LEMMA NoWalkEnd ==
  ASSUME IndInv, AtPlace(iter, table, n_buckets), WalkEnds = {}
  PROVE  /\ iter.item # Null => LeavesChain(iter.item[1], iter.item[2])
         /\ \A c \in DOMAIN table : iter.bucket < c => LeavesChain(c, 1)
<1>1. DOMAIN table = 0 .. n_buckets - 1 /\ n_buckets \in Nat /\ iter.bucket \in -1 .. n_buckets - 1
  BY IndFacts DEF AtPlace, GoodTable
<1>2. ~(iter.item # Null /\ ~LeavesChain(iter.item[1], iter.item[2]))
  BY DEF WalkEnds
<1> DEFINE C == {c \in iter.bucket + 1 .. n_buckets - 1 : ~LeavesChain(c, 1)}
<1>3. FirstOf(C) = {}
  BY <1>2 DEF WalkEnds
<1>4. C \subseteq Nat
  BY <1>1
<1>5. C = {}
  <2> HIDE DEF C
  <2> QED
    BY <1>3, <1>4, FirstExists
<1>6. ASSUME NEW c \in DOMAIN table, iter.bucket < c PROVE LeavesChain(c, 1)
  <2>1. c \in iter.bucket + 1 .. n_buckets - 1
    BY <1>1, <1>6
  <2> QED
    BY <1>5, <2>1
<1> QED
  BY <1>2, <1>6

-----------------------------------------------------------------------------
(* Invariants *)

AllTexts == {Text[k] : k \in Keys}

SeenType ==
  seen \in [kept : SUBSET AllTexts, shown : SUBSET AllTexts, again : SUBSET AllTexts,
            missed : SUBSET AllTexts, room : BOOLEAN, added : BOOLEAN, resized : BOOLEAN]

(* Without a map there are no buckets; an iterator that is used is at its  *)
(* place in the table.                                                     *)
PlaceInv ==
  /\ status = "none" => n_buckets = 0
  /\ SeenType
  /\ iter # NoIter => n_buckets # 0 /\ AtPlace(iter, table, n_buckets)

(* An entry of text t in row j of chain b that stays: if the iterator has  *)
(* come past its place it was shown, otherwise not, and never twice.  In a *)
(* chain that goes back into itself places say nothing, unless the         *)
(* iterator has left it or has yet to come there.                          *)
ShownAt(it, sn, c, b, j, t) ==
  /\ b < it.bucket \/ (b = it.bucket /\ it.item = Null) => t \in sn.shown /\ t \notin sn.again
  /\ b > it.bucket => t \notin sn.shown /\ t \notin sn.again
  /\ b = it.bucket /\ it.item # Null /\ c.back = 0 =>
       (t \in sn.shown <=> j < it.item[2]) /\ t \notin sn.again

ShownRight(it, sn, tab) ==
  \A b \in DOMAIN tab : \A j \in DOMAIN tab[b].rows :
    tab[b].rows[j].occ /\ Text[tab[b].rows[j].key] \in sn.kept =>
      ShownAt(it, sn, tab[b], b, j, Text[tab[b].rows[j].key])

WalkInv ==
  ~seen.resized =>
    /\ seen.missed = {}
    /\ iter = NoIter => seen.again \cap seen.kept = {}
    /\ iter # NoIter =>
         /\ iter.item # Freed /\ seen.kept \subseteq TextsOf(table)
         /\ ShownRight(iter, seen, table)

(* Room for a put that adds is not used up by puts that do not.            *)
RoomInv ==
  iter # NoIter /\ seen.room /\ ~seen.added =>
    iter.item # Freed /\ size < next_size /\ pc \notin {"resize", "insert"}

LEMMA TextsTyped == ASSUME IndInv PROVE TextsOf(table) \subseteq AllTexts
<1>1. Distinct(OccRows(table))
  BY IndFacts, GoodTableDistinct
<1> QED
  BY <1>1 DEF Distinct, TextsOf, AllTexts

LEMMA TextsOfDef ==
  ASSUME NEW tab, NEW t
  PROVE  t \in TextsOf(tab) <=>
           \E b \in DOMAIN tab : \E j \in DOMAIN tab[b].rows :
             tab[b].rows[j].occ /\ t = Text[tab[b].rows[j].key]
<1>1. ASSUME t \in TextsOf(tab)
      PROVE  \E b \in DOMAIN tab : \E j \in DOMAIN tab[b].rows :
               tab[b].rows[j].occ /\ t = Text[tab[b].rows[j].key]
  <2>1. PICK r \in OccRows(tab) : t = Text[r.key]
    BY <1>1 DEF TextsOf
  <2> QED
    BY <2>1, OccRowsDef
<1>2. ASSUME NEW b \in DOMAIN tab, NEW j \in DOMAIN tab[b].rows, tab[b].rows[j].occ,
             t = Text[tab[b].rows[j].key]
      PROVE  t \in TextsOf(tab)
  BY <1>2, OccRowsDef DEF TextsOf
<1> QED
  BY <1>1, <1>2

-----------------------------------------------------------------------------
(* nc_hashmap_iter_init *)

LEMMA InitSteps ==
  ASSUME IndInv, PlaceInv, IterInit, PointersApart
  PROVE  PlaceInv' /\ WalkInv' /\ RoomInv'
<1>1. /\ iter' = [bucket |-> -1, item |-> Null]
      /\ seen' = [Unseen EXCEPT !.kept = TextsOf(table), !.room = size < next_size]
      /\ status = "live" /\ pc = "idle"
      /\ UNCHANGED <<status, pc, table, n_buckets, size, next_size>>
  BY DEF IterInit, Ready, vars
<1>2. n_buckets \in Nat \ {0} /\ GoodTable(table, n_buckets)
  BY <1>1, IndFacts
<1>3. /\ seen'.kept = TextsOf(table) /\ seen'.shown = {} /\ seen'.again = {} /\ seen'.missed = {}
      /\ seen'.room = (size < next_size) /\ seen'.added = FALSE /\ seen'.resized = FALSE
      /\ seen' = [kept |-> TextsOf(table), shown |-> {}, again |-> {}, missed |-> {},
                  room |-> (size < next_size), added |-> FALSE, resized |-> FALSE]
  BY <1>1 DEF Unseen
<1>4. SeenType'
  BY <1>3, TextsTyped DEF SeenType, AllTexts
<1>5. AtPlace(iter', table', n_buckets')
  BY <1>1, <1>2 DEF AtPlace
<1>6. PlaceInv'
  BY <1>1, <1>2, <1>4, <1>5 DEF PlaceInv
<1>7. ShownRight(iter', seen', table')
  <2>1. \A b \in DOMAIN table : b > iter'.bucket
    BY <1>1, <1>2, RowNumbers
  <2>2. iter'.bucket = -1 /\ iter'.item = Null
    BY <1>1
  <2>3. \A b \in DOMAIN table : b \in Nat
    BY <1>2, RowNumbers
  <2> QED
    BY <1>1, <1>3, <2>1, <2>2, <2>3 DEF ShownRight, ShownAt
<1>8. iter'.item # Freed
  BY <1>1 DEF PointersApart
<1>9. WalkInv'
  <2>1. seen'.kept = TextsOf(table')
    BY <1>1, <1>3
  <2> QED
    BY <1>3, <1>7, <1>8, <2>1 DEF WalkInv
<1>10. RoomInv'
  BY <1>1, <1>3, <1>8 DEF RoomInv
<1> QED
  BY <1>6, <1>9, <1>10

-----------------------------------------------------------------------------
(* nc_hashmap_iter_next *)

LEMMA FollowingIs ==
  ASSUME IndInv, PointersApart, NEW b \in DOMAIN table, NEW i \in DOMAIN table[b].rows
  PROVE  /\ Following(b, i) # Freed
         /\ Following(b, i) # Null =>
              \E x \in DOMAIN table[b].rows :
                Following(b, i) = <<b, x>> /\ (table[b].back = 0 => x = i + 1)
         /\ Following(b, i) = Null => table[b].back = 0 /\ i = Len(table[b].rows)
<1>1. /\ b \in Nat /\ table[b].back \in Nat /\ Len(table[b].rows) \in Nat
      /\ DOMAIN table[b].rows = 1 .. Len(table[b].rows)
      /\ table[b].back <= Len(table[b].rows)
  <2>1. n_buckets \in Nat /\ GoodTable(table, n_buckets)
    BY IndFacts
  <2>2. table[b].back <= Len(table[b].rows)
    BY <2>1 DEF GoodTable, GoodChain
  <2> QED
    BY <2>1, <2>2, RowNumbers
<1>2. CASE i < Len(table[b].rows)
  <2>1. Following(b, i) = <<b, i + 1>> /\ i + 1 \in DOMAIN table[b].rows /\ i + 1 \in Nat
    BY <1>1, <1>2 DEF Following
  <2>2. <<b, i + 1>> \in Nat \X Nat
    BY <1>1, <2>1
  <2> QED
    BY <2>1, <2>2 DEF PointersApart
<1>3. CASE ~(i < Len(table[b].rows)) /\ table[b].back # 0
  <2>1. Following(b, i) = <<b, table[b].back>> /\ table[b].back \in DOMAIN table[b].rows
    BY <1>1, <1>3 DEF Following
  <2>2. <<b, table[b].back>> \in Nat \X Nat
    BY <1>1
  <2> QED
    BY <1>3, <2>1, <2>2 DEF PointersApart
<1>4. CASE ~(i < Len(table[b].rows)) /\ table[b].back = 0
  BY <1>1, <1>4, SMTT(60) DEF Following, PointersApart
<1> QED
  BY <1>2, <1>3, <1>4

(* Where the walk that shows an entry has gone: the row i of chain b. *)
LEMMA ShowIs ==
  ASSUME IndInv, PlaceInv, IterShow, PointersApart
  PROVE  \E b \in DOMAIN table : \E i \in DOMAIN table[b].rows :
           /\ \E w \in WalkEnds : (StaysAt(w) \/ MovesTo(w)) /\ w[1] = b /\ i \in Met(b, w[2])
           /\ table[b].rows[i].occ
           /\ iter' = [bucket |-> b, item |-> Following(b, i)]
           /\ seen' = [seen EXCEPT
                !.shown = @ \cup {Text[table[b].rows[i].key]},
                !.again = IF Text[table[b].rows[i].key] \in seen.shown
                          THEN @ \cup {Text[table[b].rows[i].key]} ELSE @]
<1>1. iter # NoIter /\ AtPlace(iter, table, n_buckets) /\ iter.item # Freed
  BY SMTT(60) DEF IterShow, Iterating, PlaceInv
<1>2. PICK w \in WalkEnds : \E i \in Met(w[1], w[2]) :
        /\ iter' = [bucket |-> w[1], item |-> Following(w[1], i)]
        /\ seen' = [seen EXCEPT
             !.shown = @ \cup {Text[table[w[1]].rows[i].key]},
             !.again = IF Text[table[w[1]].rows[i].key] \in seen.shown
                       THEN @ \cup {Text[table[w[1]].rows[i].key]} ELSE @]
  BY ZenonT(60) DEF IterShow
<1>3. PICK i \in Met(w[1], w[2]) :
        /\ iter' = [bucket |-> w[1], item |-> Following(w[1], i)]
        /\ seen' = [seen EXCEPT
             !.shown = @ \cup {Text[table[w[1]].rows[i].key]},
             !.again = IF Text[table[w[1]].rows[i].key] \in seen.shown
                       THEN @ \cup {Text[table[w[1]].rows[i].key]} ELSE @]
  BY <1>2
<1>4. StaysAt(w) \/ MovesTo(w)
  BY <1>1, WalkEndIs
<1>5. w[1] \in DOMAIN table
  <2>1. CASE StaysAt(w)
    BY <1>1, <2>1 DEF StaysAt, AtPlace
  <2>2. CASE MovesTo(w)
    BY <2>2 DEF MovesTo
  <2> QED
    BY <1>4, <2>1, <2>2
<1>6. i \in DOMAIN table[w[1]].rows /\ table[w[1]].rows[i].occ
  BY MetIs
<1>7. PICK b : b = w[1]
  BY SMTT(60)
<1> QED
  BY <1>3, <1>4, <1>5, <1>6, <1>7

(* After showing row i of chain b the iterator has come past the entries   *)
(* it had come past before, and that one.                                  *)
LEMMA ShowRight ==
  ASSUME IndInv, PointersApart, AtPlace(iter, table, n_buckets), iter.item # Freed,
         ShownRight(iter, seen, table), NEW it, NEW sn,
         NEW b \in DOMAIN table, NEW i \in DOMAIN table[b].rows, table[b].rows[i].occ,
         NEW w, StaysAt(w) \/ MovesTo(w), w[1] = b, i \in Met(b, w[2]),
         it.bucket = b, it.item = Following(b, i), NEW t, t = Text[table[b].rows[i].key],
         sn.kept = seen.kept, sn.shown = seen.shown \cup {t},
         sn.again = IF t \in seen.shown THEN seen.again \cup {t} ELSE seen.again
  PROVE  ShownRight(it, sn, table)
<1>1. /\ GoodTable(table, n_buckets) /\ n_buckets \in Nat
      /\ \A c \in DOMAIN table : DOMAIN table[c].rows = 1 .. Len(table[c].rows)
                                 /\ Len(table[c].rows) \in Nat /\ c \in Nat
      /\ iter.bucket \in Int
  BY IndFacts, RowNumbers DEF AtPlace
<1> SUFFICES ASSUME NEW c \in DOMAIN table, NEW j \in DOMAIN table[c].rows,
                    table[c].rows[j].occ, NEW u, u = Text[table[c].rows[j].key],
                    u \in seen.kept
             PROVE  ShownAt(it, sn, table[c], c, j, u)
  BY DEF ShownRight
<1>2. ShownAt(iter, seen, table[c], c, j, u)
  BY DEF ShownRight
<1>3. u = t <=> c = b /\ j = i
  BY <1>1, OneSlotPerText
<1>4. /\ u # t => (u \in sn.shown <=> u \in seen.shown) /\ (u \in sn.again <=> u \in seen.again)
      /\ u = t => u \in sn.shown
      /\ u = t /\ u \notin seen.shown /\ u \notin seen.again => u \notin sn.again
  OBVIOUS
<1>5. /\ i \in Nat /\ j \in Nat /\ b \in Nat /\ c \in Nat /\ j >= 1
      /\ table[b].back = 0 =>
           i >= w[2] /\ \A x \in DOMAIN table[b].rows : x >= w[2] /\ table[b].rows[x].occ => i <= x
  BY <1>1, MetIs
<1>6. iter.item # Null => iter.bucket \in DOMAIN table /\ iter.item[1] = iter.bucket /\ iter.item[2] \in Nat
  BY <1>1, SMTT(60) DEF AtPlace
<1>7. StaysAt(w) => b = iter.bucket /\ w[2] = iter.item[2] /\ iter.item # Null
  BY <1>6 DEF StaysAt
<1>8. MovesTo(w) =>
        /\ b > iter.bucket /\ w[2] = 1
        /\ iter.item # Null => LeavesChain(iter.bucket, iter.item[2])
        /\ iter.bucket < c /\ c < b => LeavesChain(c, 1)
  BY <1>6 DEF MovesTo
<1>9. MovesTo(w) => ~(iter.bucket < c /\ c < b)
  BY <1>5, <1>8, LeavesIs
<1>10. MovesTo(w) /\ iter.item # Null /\ c = iter.bucket => table[c].back = 0 /\ j < iter.item[2]
  <2> SUFFICES ASSUME MovesTo(w), iter.item # Null, c = iter.bucket
               PROVE  table[c].back = 0 /\ j < iter.item[2]
    OBVIOUS
  <2>1. LeavesChain(c, iter.item[2])
    BY <1>8
  <2>2. table[c].back = 0 /\ (j >= iter.item[2] => ~table[c].rows[j].occ)
    BY <2>1, LeavesIs
  <2> QED
    BY <1>5, <1>6, <2>2
<1>11. ASSUME c < b PROVE u \in sn.shown /\ u \notin sn.again
  <2>1. u # t
    BY <1>3, <1>5, <1>11
  <2>2. CASE StaysAt(w)
    BY <1>1, <1>2, <1>4, <1>7, <1>11, <2>1, <2>2 DEF ShownAt
  <2>3. CASE MovesTo(w) /\ c < iter.bucket
    BY <1>2, <1>4, <2>1, <2>3, SMTT(60) DEF ShownAt
  <2>4. CASE MovesTo(w) /\ c = iter.bucket
    BY <1>2, <1>4, <1>10, <2>1, <2>4 DEF ShownAt
  <2> QED
    BY <1>1, <1>5, <1>9, <1>11, <2>2, <2>3, <2>4
<1>12. ASSUME c > b PROVE u \notin sn.shown /\ u \notin sn.again
  <2>1. u # t /\ c > iter.bucket
    BY <1>1, <1>3, <1>5, <1>7, <1>8, <1>12, SMTT(60)
  <2> QED
    BY <1>2, <1>4, <2>1 DEF ShownAt
<1>13. ASSUME c = b, table[b].back = 0
       PROVE  /\ j <= i => u \in sn.shown
              /\ j > i => u \notin sn.shown
              /\ u \notin sn.again
  <2>1. CASE StaysAt(w)
    <3>1. (u \in seen.shown <=> j < iter.item[2]) /\ u \notin seen.again
      BY <1>2, <1>7, <1>13, <2>1 DEF ShownAt
    <3>2. i >= iter.item[2] /\ (j >= iter.item[2] => i <= j)
      BY <1>5, <1>7, <1>13, <2>1
    <3>3. iter.item[2] \in Nat
      BY <1>6, <1>7, <2>1
    <3>4. CASE j = i
      BY <1>3, <1>4, <1>13, <3>1, <3>2, <3>3, <3>4, <1>5, SMTT(60)
    <3>5. CASE j < i
      BY <1>3, <1>4, <1>5, <3>1, <3>2, <3>3, <3>5, SMTT(60)
    <3>6. CASE j > i
      BY <1>3, <1>4, <1>5, <3>1, <3>2, <3>3, <3>6, SMTT(60)
    <3> QED
      BY <1>5, <3>4, <3>5, <3>6
  <2>2. CASE MovesTo(w)
    <3>1. u \notin seen.shown /\ u \notin seen.again
      BY <1>1, <1>2, <1>8, <1>13, <2>2 DEF ShownAt
    <3>2. i <= j
      BY <1>5, <1>8, <1>13, <2>2
    <3>3. j = i => u = t
      BY <1>3, <1>13
    <3>4. j # i => u # t
      BY <1>3, <1>13
    <3> QED
      BY <1>4, <1>5, <3>1, <3>2, <3>3, <3>4
  <2> QED
    BY <2>1, <2>2, SMTT(60)
<1>14. /\ it.item = Null => table[b].back = 0 /\ i = Len(table[b].rows)
       /\ it.item # Null /\ table[b].back = 0 => it.item[2] = i + 1
  BY FollowingIs
<1>15. ASSUME c = b, it.item = Null PROVE u \in sn.shown /\ u \notin sn.again
  <2>1. j <= i
    BY <1>1, <1>14, <1>15
  <2> QED
    BY <1>13, <1>14, <1>15, <2>1
<1>16. ASSUME c = b, it.item # Null, table[b].back = 0
       PROVE  (u \in sn.shown <=> j < it.item[2]) /\ u \notin sn.again
  BY <1>5, <1>13, <1>14, <1>16
<1> QED
  BY <1>11, <1>12, <1>15, <1>16 DEF ShownAt

LEMMA SeenShows ==
  ASSUME SeenType, NEW t \in AllTexts,
         seen' = [seen EXCEPT !.shown = @ \cup {t},
                              !.again = IF t \in seen.shown THEN @ \cup {t} ELSE @]
  PROVE  /\ SeenType'
         /\ seen'.kept = seen.kept /\ seen'.missed = seen.missed /\ seen'.room = seen.room
         /\ seen'.added = seen.added /\ seen'.resized = seen.resized
         /\ seen'.shown = seen.shown \cup {t}
         /\ seen'.again = IF t \in seen.shown THEN seen.again \cup {t} ELSE seen.again
<1>1. PICK sn : sn = seen'
  OBVIOUS
<1>2. /\ sn.kept = seen.kept /\ sn.missed = seen.missed /\ sn.room = seen.room
      /\ sn.added = seen.added /\ sn.resized = seen.resized
      /\ sn.shown = seen.shown \cup {t}
      /\ sn.again = IF t \in seen.shown THEN seen.again \cup {t} ELSE seen.again
  BY <1>1 DEF SeenType
<1>3. sn \in [kept : SUBSET AllTexts, shown : SUBSET AllTexts, again : SUBSET AllTexts,
              missed : SUBSET AllTexts, room : BOOLEAN, added : BOOLEAN, resized : BOOLEAN]
  BY <1>1 DEF SeenType
<1> QED
  BY <1>1, <1>2, <1>3 DEF SeenType, AllTexts

LEMMA ShowSteps ==
  ASSUME IndInv, PlaceInv, WalkInv, RoomInv, IterShow, PointersApart
  PROVE  PlaceInv' /\ WalkInv' /\ RoomInv'
<1>1. /\ UNCHANGED <<status, pc, table, n_buckets, size, next_size>>
      /\ iter # NoIter /\ iter.item # Freed /\ n_buckets # 0
      /\ AtPlace(iter, table, n_buckets) /\ SeenType
  BY DEF IterShow, Iterating, PlaceInv, vars
<1>2. PICK b \in DOMAIN table : \E i \in DOMAIN table[b].rows :
           /\ \E w \in WalkEnds : (StaysAt(w) \/ MovesTo(w)) /\ w[1] = b /\ i \in Met(b, w[2])
           /\ table[b].rows[i].occ
           /\ iter' = [bucket |-> b, item |-> Following(b, i)]
           /\ seen' = [seen EXCEPT
                !.shown = @ \cup {Text[table[b].rows[i].key]},
                !.again = IF Text[table[b].rows[i].key] \in seen.shown
                          THEN @ \cup {Text[table[b].rows[i].key]} ELSE @]
  BY ShowIs
<1>3. PICK i \in DOMAIN table[b].rows :
           /\ \E w \in WalkEnds : (StaysAt(w) \/ MovesTo(w)) /\ w[1] = b /\ i \in Met(b, w[2])
           /\ table[b].rows[i].occ
           /\ iter' = [bucket |-> b, item |-> Following(b, i)]
           /\ seen' = [seen EXCEPT
                !.shown = @ \cup {Text[table[b].rows[i].key]},
                !.again = IF Text[table[b].rows[i].key] \in seen.shown
                          THEN @ \cup {Text[table[b].rows[i].key]} ELSE @]
  BY <1>2
<1>4. PICK w : (StaysAt(w) \/ MovesTo(w)) /\ w[1] = b /\ i \in Met(b, w[2])
  BY <1>3
<1>5. PICK t : t = Text[table[b].rows[i].key]
  OBVIOUS
<1>6. t \in AllTexts
  <2>1. t \in TextsOf(table)
    BY <1>3, <1>5, TextsOfDef
  <2> QED
    BY <2>1, TextsTyped
<1>7. seen' = [seen EXCEPT !.shown = @ \cup {t},
                           !.again = IF t \in seen.shown THEN @ \cup {t} ELSE @]
  BY <1>3, <1>5
<1>8. /\ SeenType'
      /\ seen'.kept = seen.kept /\ seen'.missed = seen.missed /\ seen'.room = seen.room
      /\ seen'.added = seen.added /\ seen'.resized = seen.resized
      /\ seen'.shown = seen.shown \cup {t}
      /\ seen'.again = IF t \in seen.shown THEN seen.again \cup {t} ELSE seen.again
  BY <1>1, <1>6, <1>7, SeenShows
<1>9. iter'.bucket = b /\ iter'.item = Following(b, i) /\ iter' # NoIter
      /\ iter' = [bucket |-> iter'.bucket, item |-> iter'.item]
  BY <1>3 DEF PointersApart
<1>10. PlaceInv'
  <2>1. b \in -1 .. n_buckets - 1
    BY IndFacts, RowNumbers
  <2>2. Following(b, i) # Null => \E x \in DOMAIN table[b].rows : Following(b, i) = <<b, x>>
    BY FollowingIs
  <2>3. AtPlace(iter', table', n_buckets')
    BY <1>1, <1>9, <2>1, <2>2 DEF AtPlace
  <2>4. status' = "none" => n_buckets' = 0
    BY <1>1 DEF PlaceInv
  <2> QED
    BY <1>1, <1>8, <2>3, <2>4 DEF PlaceInv
<1>11. iter'.item # Freed
  BY <1>9, FollowingIs
<1>12. WalkInv'
  <2> SUFFICES ASSUME ~seen.resized PROVE WalkInv'
    BY <1>8 DEF WalkInv
  <2>1. seen.missed = {} /\ seen.kept \subseteq TextsOf(table) /\ ShownRight(iter, seen, table)
    BY <1>1 DEF WalkInv
  <2>2. PICK it, sn : it = iter' /\ sn = seen'
    OBVIOUS
  <2>3. ShownRight(it, sn, table)
    <3>1. /\ it.bucket = b /\ it.item = Following(b, i)
          /\ sn.kept = seen.kept /\ sn.shown = seen.shown \cup {t}
          /\ sn.again = IF t \in seen.shown THEN seen.again \cup {t} ELSE seen.again
      BY <1>8, <1>9, <2>2
    <3> QED
      BY <1>1, <1>3, <1>4, <1>5, <2>1, <3>1, ShowRight
  <2>4. ShownRight(iter', seen', table') /\ TextsOf(table') = TextsOf(table)
    BY <1>1, <2>2, <2>3
  <2> QED
    BY <1>8, <1>9, <1>11, <2>1, <2>4 DEF WalkInv
<1>13. RoomInv'
  BY <1>1, <1>8, <1>11 DEF RoomInv
<1> QED
  BY <1>10, <1>12, <1>13

(* When the iterator finds nothing more it has come past everything.       *)
LEMMA EndSteps ==
  ASSUME IndInv, PlaceInv, WalkInv, IterEnd
  PROVE  PlaceInv' /\ WalkInv' /\ RoomInv'
<1>1. /\ UNCHANGED <<status, pc, table, n_buckets, size, next_size>>
      /\ iter # NoIter /\ iter.item # Freed /\ n_buckets # 0
      /\ AtPlace(iter, table, n_buckets) /\ SeenType
      /\ WalkEnds = {} /\ iter' = NoIter
      /\ seen' = [seen EXCEPT !.missed = seen.kept \ seen.shown]
  BY DEF IterEnd, Iterating, PlaceInv, vars
<1>2. PICK sn : sn = seen'
  OBVIOUS
<1>3. /\ sn.kept = seen.kept /\ sn.missed = seen.kept \ seen.shown
      /\ sn.again = seen.again /\ sn.resized = seen.resized
  BY <1>1, <1>2 DEF SeenType
<1>4. SeenType'
  <2>1. sn \in [kept : SUBSET AllTexts, shown : SUBSET AllTexts, again : SUBSET AllTexts,
                missed : SUBSET AllTexts, room : BOOLEAN, added : BOOLEAN, resized : BOOLEAN]
    BY <1>1, <1>2 DEF SeenType
  <2> QED
    BY <1>2, <2>1 DEF SeenType, AllTexts
<1>5. PlaceInv'
  BY <1>1, <1>4 DEF PlaceInv
<1>6. RoomInv'
  BY <1>1 DEF RoomInv
<1>7. /\ iter.item # Null => LeavesChain(iter.item[1], iter.item[2])
      /\ \A c \in DOMAIN table : iter.bucket < c => LeavesChain(c, 1)
  BY <1>1, NoWalkEnd
<1>8. ASSUME ~seen.resized, NEW u \in seen.kept PROVE u \in seen.shown /\ u \notin seen.again
  <2>1. u \in TextsOf(table) /\ ShownRight(iter, seen, table)
    BY <1>1, <1>8 DEF WalkInv
  <2>2. PICK b \in DOMAIN table : \E j \in DOMAIN table[b].rows :
          table[b].rows[j].occ /\ u = Text[table[b].rows[j].key]
    BY <2>1, TextsOfDef
  <2>3. PICK j \in DOMAIN table[b].rows :
          table[b].rows[j].occ /\ u = Text[table[b].rows[j].key]
    BY <2>2
  <2>4. ShownAt(iter, seen, table[b], b, j, u)
    BY <1>8, <2>1, <2>3 DEF ShownRight
  <2>5. b \in Nat /\ j \in Nat /\ j >= 1 /\ iter.bucket \in Int
    BY <1>1, IndFacts, RowNumbers DEF AtPlace
  <2>6. ~(iter.bucket < b)
    BY <1>7, <2>3, <2>5, LeavesIs
  <2>7. CASE b < iter.bucket \/ iter.item = Null
    BY <2>4, <2>5, <2>6, <2>7 DEF ShownAt
  <2>8. CASE b = iter.bucket /\ iter.item # Null
    <3>1. iter.item[1] = iter.bucket /\ iter.item[2] \in Nat
      BY <1>1, <2>8, IndFacts, RowNumbers DEF AtPlace
    <3>2. LeavesChain(b, iter.item[2])
      BY <1>7, <2>8, <3>1
    <3>3. table[b].back = 0 /\ ~(j >= iter.item[2])
      BY <2>3, <3>2, LeavesIs
    <3>4. j < iter.item[2]
      BY <2>5, <3>1, <3>3
    <3> QED
      BY <2>4, <2>8, <3>3, <3>4 DEF ShownAt
  <2> QED
    BY <2>5, <2>6, <2>7, <2>8
<1>9. WalkInv'
  <2> SUFFICES ASSUME ~seen.resized PROVE seen'.missed = {} /\ seen'.again \cap seen'.kept = {}
    BY <1>1, <1>2, <1>3 DEF WalkInv
  <2> QED
    BY <1>2, <1>3, <1>8
<1> QED
  BY <1>5, <1>6, <1>9

(* A walk that goes round, or reads a row that is gone, ends there. *)
LEMMA LostSteps ==
  ASSUME IndInv, PlaceInv, WalkInv, RoomInv, IterSpin \/ IterFreed
  PROVE  IndInv' /\ PlaceInv' /\ WalkInv' /\ RoomInv'
<1>1. /\ status = "live" /\ pc = "idle"
      /\ UNCHANGED <<table, n_buckets, size, next_size, owned, drained, resizing, last, iter, seen>>
      /\ \/ status' = status /\ pc' = "spin"
         \/ status' = "corrupt" /\ pc' = pc
  BY DEF IterSpin, IterFreed, Iterating, Ready, MapVars
<1>2. IndInv'
  BY <1>1 DEF IndInv, TypeOK, Placed, resizing, IsTable, WellFormed
<1>3. PlaceInv'
  BY <1>1 DEF PlaceInv, SeenType, AtPlace
<1>4. WalkInv'
  BY <1>1 DEF WalkInv, ShownRight, ShownAt, TextsOf, OccRows, OccSlots
<1>5. RoomInv'
  BY <1>1 DEF RoomInv
<1> QED
  BY <1>2, <1>3, <1>4, <1>5

-----------------------------------------------------------------------------
(* Other calls in the middle of an iteration *)

(* Without a map there are no buckets, after a step as before it. *)
LEMMA NoneStep ==
  ASSUME IndInv, status = "none" => n_buckets = 0, Next
  PROVE  status' = "none" => n_buckets' = 0
<1>1. CASE New
  BY <1>1 DEF New
<1>2. CASE Free
  BY <1>2 DEF Free
<1>3. ASSUME NEW k, NEW v, Put(k, v) \/ StartResize(k, v)
      PROVE  UNCHANGED <<status, n_buckets>>
  BY <1>3 DEF Put, InsertBucket, StartResize, MapVars
<1>4. ASSUME NEW call, NEW k, NEW v, CallOnNull(call, k, v) \/ Remove(call, k)
      PROVE  UNCHANGED <<status, n_buckets>>
  BY <1>4 DEF CallOnNull, Remove, MapVars
<1>5. CASE RehashSkip \/ RehashRow \/ RehashOutOfMemory \/ RehashAgain \/ Spin \/ PutResized
  BY <1>5 DEF RehashSkip, RehashRow, RehashOutOfMemory, RehashAgain, GiveUpResize,
     MapVars, Spin, vars, PutResized, InsertBucket
<1>6. CASE FinishResize
  BY <1>6, IndFacts DEF FinishResize
<1> QED
  BY <1>1, <1>2, <1>3, <1>4, <1>5, <1>6 DEF Next, Running

LEMMA SeenGoesOn ==
  ASSUME SeenType, NEW K, NEW a \in BOOLEAN, NEW r \in BOOLEAN,
         seen' = [seen EXCEPT !.kept = @ \cap K, !.added = @ \/ a, !.resized = @ \/ r]
  PROVE  /\ SeenType'
         /\ seen'.kept = seen.kept \cap K /\ seen'.added = (seen.added \/ a)
         /\ seen'.resized = (seen.resized \/ r)
         /\ seen'.shown = seen.shown /\ seen'.again = seen.again
         /\ seen'.missed = seen.missed /\ seen'.room = seen.room
<1>1. PICK sn : sn = seen'
  OBVIOUS
<1>2. PICK x \in BOOLEAN, y \in BOOLEAN : x = (seen.added \/ a) /\ y = (seen.resized \/ r)
  BY DEF SeenType
<1>3. sn = [seen EXCEPT !.kept = seen.kept \cap K, !.added = x, !.resized = y]
  BY <1>1, <1>2
<1>4. /\ sn.kept = seen.kept \cap K /\ sn.added = x /\ sn.resized = y
      /\ sn.shown = seen.shown /\ sn.again = seen.again
      /\ sn.missed = seen.missed /\ sn.room = seen.room
  BY <1>3 DEF SeenType
<1>5. sn \in [kept : SUBSET AllTexts, shown : SUBSET AllTexts, again : SUBSET AllTexts,
              missed : SUBSET AllTexts, room : BOOLEAN, added : BOOLEAN, resized : BOOLEAN]
  <2>1. seen.kept \cap K \in SUBSET AllTexts
    BY DEF SeenType
  <2> QED
    BY <1>2, <1>3, <2>1 DEF SeenType
<1> QED
  BY <1>1, <1>2, <1>4, <1>5 DEF SeenType, AllTexts

(* An entry that stays is where it was, and so is the iterator. *)
LEMMA SteadyRight ==
  ASSUME NEW new, NEW tab, Steady(new, tab), NEW it, NEW sn, NEW old,
         ShownRight(it, old, tab), old.kept \subseteq TextsOf(tab),
         sn.kept \subseteq old.kept, sn.shown = old.shown, sn.again = old.again
  PROVE  ShownRight(it, sn, new)
<1> SUFFICES ASSUME NEW b \in DOMAIN new, NEW j \in DOMAIN new[b].rows, new[b].rows[j].occ,
                    NEW t, t = Text[new[b].rows[j].key], t \in sn.kept
             PROVE  ShownAt(it, sn, new[b], b, j, t)
  BY DEF ShownRight
<1>1. b \in DOMAIN tab /\ t \in TextsOf(tab) /\ t \in old.kept
  BY DEF Steady
<1>2. j \in DOMAIN tab[b].rows /\ tab[b].rows[j].occ /\ Text[tab[b].rows[j].key] = t
  BY <1>1 DEF Steady
<1>3. ShownAt(it, old, tab[b], b, j, t)
  BY <1>1, <1>2 DEF ShownRight
<1>4. tab[b].back # 0 => new[b].back # 0
  BY <1>1 DEF Steady
<1> QED
  BY <1>3, <1>4 DEF ShownAt

LEMMA MapPlace ==
  ASSUME IndInv, IndInv', PlaceInv, MapStep, PointersApart
  PROVE  PlaceInv'
<1>1. Next /\ (status' = "none" => n_buckets' = 0) /\ SeenType
  BY NoneStep DEF MapStep, PlaceInv
<1>2. CASE iter = NoIter
  BY <1>1, <1>2 DEF MapStep, PlaceInv, SeenType
<1>3. CASE iter # NoIter /\ n_buckets' = 0
  <2>1. iter' = NoIter /\ seen' = Unseen
    BY <1>3 DEF MapStep
  <2>2. SeenType'
    BY <2>1 DEF SeenType, Unseen
  <2> QED
    BY <1>1, <2>1, <2>2 DEF PlaceInv
<1>4. CASE iter # NoIter /\ n_buckets' # 0
  <2>1. /\ iter' = IF n_buckets' # n_buckets /\ iter.item # Null
                   THEN [iter EXCEPT !.item = Freed] ELSE iter
        /\ seen' = [seen EXCEPT !.kept = @ \cap TextsOf(table'),
                                !.added = @ \/ ~(TextsOf(table') \subseteq TextsOf(table)),
                                !.resized = @ \/ n_buckets' # n_buckets]
    BY <1>4 DEF MapStep
  <2>2. SeenType'
    <3>a. PICK K : K = TextsOf(table')
      OBVIOUS
    <3>b. PICK a \in BOOLEAN : a = (~(TextsOf(table') \subseteq TextsOf(table)))
      <4>1. (~(TextsOf(table') \subseteq TextsOf(table))) \in BOOLEAN
        OBVIOUS
      <4> QED
        BY <4>1, Zenon
    <3>c. PICK r \in BOOLEAN : r = (n_buckets' # n_buckets)
      <4>1. (n_buckets' # n_buckets) \in BOOLEAN
        OBVIOUS
      <4> QED
        BY <4>1, Zenon
    <3>1. K = TextsOf(table') /\ a = (~(TextsOf(table') \subseteq TextsOf(table)))
          /\ r = (n_buckets' # n_buckets)
      BY <3>a, <3>b, <3>c, Zenon
    <3>2. seen' = [seen EXCEPT !.kept = @ \cap K, !.added = @ \/ a, !.resized = @ \/ r]
      BY <2>1, <3>1
    <3> QED
      BY <1>1, <3>2, SeenGoesOn
  <2>3. n_buckets # 0 /\ status # "none" /\ AtPlace(iter, table, n_buckets)
    BY <1>4 DEF PlaceInv
  <2>4. n_buckets \in Nat /\ n_buckets' \in Nat
    BY DEF IndInv, TypeOK
  <2>5. CASE n_buckets' = n_buckets
    <3>1. Steady(table', table)
      BY <1>1, <1>4, <2>3, <2>4, <2>5, StepSteady
    <3>2. PICK new : new = table'
      OBVIOUS
    <3>3. AtPlace(iter, new, n_buckets)
      BY <2>3, <3>1, <3>2 DEF AtPlace, Steady
    <3>4. iter' = iter /\ AtPlace(iter', table', n_buckets')
      BY <2>1, <2>5, <3>2, <3>3
    <3> QED
      BY <1>1, <1>4, <2>2, <3>4 DEF PlaceInv
  <2>6. CASE n_buckets' # n_buckets
    <3>1. n_buckets' > n_buckets
      BY <1>1, <1>4, <2>3, <2>6, StepSteady
    <3>2. iter' = [bucket |-> iter.bucket, item |-> IF iter.item # Null THEN Freed ELSE Null]
      BY <2>1, <2>3, <2>6 DEF AtPlace
    <3>3. iter'.bucket = iter.bucket /\ iter'.item \in {Null, Freed}
          /\ iter' = [bucket |-> iter'.bucket, item |-> iter'.item]
      BY <3>2
    <3>4. iter.bucket \in -1 .. n_buckets' - 1
      BY <2>3, <2>4, <3>1 DEF AtPlace
    <3>5. AtPlace(iter', table', n_buckets')
      BY <3>3, <3>4 DEF AtPlace
    <3> QED
      BY <1>1, <1>4, <2>2, <3>5 DEF PlaceInv
  <2> QED
    BY <2>5, <2>6
<1> QED
  BY <1>2, <1>3, <1>4

LEMMA MapWalk ==
  ASSUME IndInv, PlaceInv, WalkInv, MapStep
  PROVE  WalkInv'
<1>1. Next /\ SeenType
  BY DEF MapStep, PlaceInv
<1>2. CASE iter = NoIter
  BY <1>2 DEF MapStep, WalkInv
<1>3. CASE iter # NoIter /\ n_buckets' = 0
  BY <1>3 DEF MapStep, WalkInv, Unseen
<1>4. CASE iter # NoIter /\ n_buckets' # 0
  <2>a. PICK K : K = TextsOf(table')
    OBVIOUS
  <2>b. PICK a \in BOOLEAN : a = (~(TextsOf(table') \subseteq TextsOf(table)))
    <3>1. (~(TextsOf(table') \subseteq TextsOf(table))) \in BOOLEAN
      OBVIOUS
    <3> QED
      BY <3>1, Zenon
  <2>c. PICK r \in BOOLEAN : r = (n_buckets' # n_buckets)
    <3>1. (n_buckets' # n_buckets) \in BOOLEAN
      OBVIOUS
    <3> QED
      BY <3>1, Zenon
  <2>1. K = TextsOf(table') /\ a = (~(TextsOf(table') \subseteq TextsOf(table)))
        /\ r = (n_buckets' # n_buckets)
    BY <2>a, <2>b, <2>c, Zenon
  <2>2. seen' = [seen EXCEPT !.kept = @ \cap K, !.added = @ \/ a, !.resized = @ \/ r]
    BY <1>4, <2>1 DEF MapStep
  <2>3. /\ seen'.kept = seen.kept \cap K /\ seen'.resized = (seen.resized \/ r)
        /\ seen'.shown = seen.shown /\ seen'.again = seen.again
        /\ seen'.missed = seen.missed
    BY <1>1, <2>2, SeenGoesOn
  <2> SUFFICES ASSUME ~seen'.resized PROVE WalkInv'
    BY DEF WalkInv
  <2>4. ~seen.resized /\ n_buckets' = n_buckets
    BY <2>1, <2>3
  <2>5. iter' = iter
    BY <1>4, <2>4 DEF MapStep
  <2>6. status # "none"
    BY <1>4, <2>4 DEF PlaceInv
  <2>7. Steady(table', table)
    <3>1. n_buckets \in Nat
      BY IndFacts
    <3> QED
      BY <1>1, <1>4, <2>4, <2>6, <3>1, StepSteady
  <2>8. /\ seen.missed = {} /\ iter.item # Freed /\ seen.kept \subseteq TextsOf(table)
        /\ ShownRight(iter, seen, table)
    BY <1>4, <2>4 DEF WalkInv
  <2>9. PICK new, sn : new = table' /\ sn = seen'
    OBVIOUS
  <2>10. sn.kept \subseteq seen.kept /\ sn.shown = seen.shown /\ sn.again = seen.again
    BY <2>3, <2>9
  <2>11. ShownRight(iter, sn, new)
    BY <2>7, <2>8, <2>9, <2>10, SteadyRight
  <2>12. ShownRight(iter', seen', table') /\ seen'.kept \subseteq TextsOf(table')
    BY <2>1, <2>3, <2>5, <2>9, <2>11
  <2> QED
    BY <1>4, <2>3, <2>5, <2>8, <2>12 DEF WalkInv
<1> QED
  BY <1>2, <1>3, <1>4

LEMMA RoomInsert ==
  ASSUME IndInv, status = "live", size < next_size, NEW k \in Keys, NEW v \in Vals,
         InsertBucket(k, v), TextsOf(table') \subseteq TextsOf(table)
  PROVE  UNCHANGED <<size, next_size>> /\ pc' \notin {"resize", "insert"}
<1>1. UNCHANGED next_size /\ pc' \notin {"resize", "insert"}
  BY DEF InsertBucket
<1>2. ASSUME NEW q, Replaces(k, v, q) PROVE UNCHANGED size
  BY <1>2 DEF Replaces
<1>3. ASSUME Adds(k, v) PROVE FALSE
  <2>1. Row(k, v) \in OccRows(table') /\ Row(k, v).key = k
    BY <1>3 DEF Adds, Row
  <2>2. Text[k] \in TextsOf(table')
    BY <2>1 DEF TextsOf
  <2>3. Text[k] \notin TextsOf(table)
    BY <1>3 DEF Adds, TextsOf
  <2> QED
    BY <2>2, <2>3
<1> QED
  BY <1>1, <1>2, <1>3, InsertEffect

LEMMA MapRoom ==
  ASSUME IndInv, PlaceInv, RoomInv, MapStep
  PROVE  RoomInv'
<1>1. Next /\ SeenType
  BY DEF MapStep, PlaceInv
<1>2. CASE iter = NoIter
  BY <1>2 DEF MapStep, RoomInv
<1>3. CASE iter # NoIter /\ n_buckets' = 0
  BY <1>3 DEF MapStep, RoomInv
<1>4. CASE iter # NoIter /\ n_buckets' # 0
  <2>a. PICK K : K = TextsOf(table')
    OBVIOUS
  <2>b. PICK a \in BOOLEAN : a = (~(TextsOf(table') \subseteq TextsOf(table)))
    <3>1. (~(TextsOf(table') \subseteq TextsOf(table))) \in BOOLEAN
      OBVIOUS
    <3> QED
      BY <3>1, Zenon
  <2>c. PICK r \in BOOLEAN : r = (n_buckets' # n_buckets)
    <3>1. (n_buckets' # n_buckets) \in BOOLEAN
      OBVIOUS
    <3> QED
      BY <3>1, Zenon
  <2>1. K = TextsOf(table') /\ a = (~(TextsOf(table') \subseteq TextsOf(table)))
        /\ r = (n_buckets' # n_buckets)
    BY <2>a, <2>b, <2>c, Zenon
  <2>2. seen' = [seen EXCEPT !.kept = @ \cap K, !.added = @ \/ a, !.resized = @ \/ r]
    BY <1>4, <2>1 DEF MapStep
  <2>3. seen'.added = (seen.added \/ a) /\ seen'.room = seen.room
    BY <1>1, <2>2, SeenGoesOn
  <2> SUFFICES ASSUME seen'.room, ~seen'.added PROVE RoomInv'
    BY DEF RoomInv
  <2>4. /\ iter.item # Freed /\ size < next_size /\ pc \notin {"resize", "insert"}
        /\ TextsOf(table') \subseteq TextsOf(table) /\ status # "none"
    BY <1>4, <2>1, <2>3 DEF RoomInv, PlaceInv
  <2>5. size \in Int /\ next_size \in Nat /\ n_buckets \in Nat
    BY IndFacts
  <2>6. ASSUME size' <= size, UNCHANGED <<next_size, n_buckets>>,
               pc' \notin {"resize", "insert"}, size' \in Int
        PROVE  RoomInv'
    <3>1. iter' = iter /\ size' < next_size'
      BY <1>4, <2>4, <2>5, <2>6 DEF MapStep
    <3> QED
      BY <2>4, <2>6, <3>1 DEF RoomInv
  <2>7. ASSUME New \/ Free PROVE FALSE
    BY <1>4, <2>4, <2>7 DEF New, Free
  <2>8. ASSUME NEW k \in Keys, NEW v \in Vals, Put(k, v) PROVE RoomInv'
    <3>1. status = "live" /\ InsertBucket(k, v) /\ n_buckets' = n_buckets
      BY <2>8 DEF Put, Ready, InsertBucket
    <3>2. UNCHANGED <<size, next_size>> /\ pc' \notin {"resize", "insert"}
      BY <2>4, <3>1, RoomInsert
    <3> QED
      BY <2>5, <2>6, <3>1, <3>2
  <2>9. ASSUME NEW k, NEW v, StartResize(k, v) PROVE FALSE
    BY <2>4, <2>5, <2>9 DEF StartResize, Full
  <2>10. ASSUME NEW call, NEW k, NEW v, CallOnNull(call, k, v) PROVE FALSE
    BY <2>4, <2>10 DEF CallOnNull
  <2>11. ASSUME NEW call, NEW k, Remove(call, k) PROVE RoomInv'
    <3>1. /\ UNCHANGED <<next_size, n_buckets>> /\ pc' \notin {"resize", "insert"}
          /\ size' \in {size, size - 1}
      BY <2>4, <2>11 DEF Remove
    <3> QED
      BY <2>5, <2>6, <3>1
  <2>12. ASSUME Running PROVE FALSE
    BY <2>4, <2>12 DEF Running, RehashSkip, RehashRow, RehashOutOfMemory, RehashAgain,
       Rehashing, FinishResize, PutResized
  <2>13. CASE Spin
    BY <2>4, <2>5, <2>6, <2>13 DEF Spin, vars
  <2> QED
    BY <1>1, <2>7, <2>8, <2>9, <2>10, <2>11, <2>12, <2>13 DEF Next
<1> QED
  BY <1>2, <1>3, <1>4

-----------------------------------------------------------------------------
IterInv == IndInv /\ PlaceInv /\ WalkInv /\ RoomInv

LEMMA IterInitInv == InitI => IterInv
<1> SUFFICES ASSUME InitI PROVE IterInv
  OBVIOUS
<1>1. Init /\ iter = NoIter /\ seen = Unseen /\ n_buckets = 0
  BY DEF InitI, Init
<1>2. IndInv
  BY <1>1, InitInd
<1>3. SeenType
  BY <1>1 DEF SeenType, Unseen
<1>4. seen.missed = {} /\ seen.again = {}
  BY <1>1 DEF Unseen
<1> QED
  BY <1>1, <1>2, <1>3, <1>4 DEF IterInv, PlaceInv, WalkInv, RoomInv

LEMMA IterStepInv ==
  ASSUME PointersApart
  PROVE  IterInv /\ [NextI]_iterVars => IterInv'
<1> SUFFICES ASSUME IterInv, [NextI]_iterVars PROVE IterInv'
  OBVIOUS
<1>1. IndInv /\ PlaceInv /\ WalkInv /\ RoomInv
  BY DEF IterInv
<1>2. ASSUME UNCHANGED vars PROVE IndInv'
  BY <1>1, <1>2, NextInd
<1>3. CASE IterInit
  <2>1. UNCHANGED vars
    BY <1>3 DEF IterInit
  <2> QED
    BY <1>1, <1>2, <1>3, <2>1, InitSteps DEF IterInv
<1>4. CASE IterShow
  <2>1. UNCHANGED vars
    BY <1>4 DEF IterShow
  <2> QED
    BY <1>1, <1>2, <1>4, <2>1, ShowSteps DEF IterInv
<1>5. CASE IterEnd
  <2>1. UNCHANGED vars
    BY <1>5 DEF IterEnd
  <2> QED
    BY <1>1, <1>2, <1>5, <2>1, EndSteps DEF IterInv
<1>6. CASE IterSpin \/ IterFreed
  BY <1>1, <1>6, LostSteps DEF IterInv
<1>7. CASE MapStep
  <2>1. IndInv'
    BY <1>1, <1>7, NextInd DEF MapStep
  <2> QED
    BY <1>1, <1>7, <2>1, MapPlace, MapWalk, MapRoom DEF IterInv
<1>8. CASE UNCHANGED iterVars
  <2>1. UNCHANGED vars /\ UNCHANGED <<iter, seen>>
    BY <1>8 DEF iterVars
  <2>2. UNCHANGED <<status, table, n_buckets, size, next_size, pc>>
    BY <2>1 DEF vars
  <2>3. PlaceInv' /\ WalkInv' /\ RoomInv'
    BY <1>1, <2>1, <2>2 DEF PlaceInv, SeenType, AtPlace, WalkInv, ShownRight, ShownAt, RoomInv,
       TextsOf, OccRows, OccSlots
  <2> QED
    BY <1>2, <2>1, <2>3 DEF IterInv
<1> QED
  BY <1>3, <1>4, <1>5, <1>6, <1>7, <1>8 DEF NextI

(* While the table an iteration began on is in use, the row the iterator    *)
(* looks at next is a row of the chain it is in, whatever is put, replaced *)
(* and removed meanwhile.                                                  *)
THEOREM ItemAlwaysInTable ==
  ASSUME PointersApart
  PROVE  SpecI => []ItemInTable
<1>1. IterInv => ItemInTable
  <2> SUFFICES ASSUME IterInv, iter # NoIter
               PROVE  /\ iter.bucket \in -1 .. n_buckets - 1
                      /\ iter.item \notin {Null, Freed} =>
                           /\ iter.item[1] = iter.bucket
                           /\ iter.item[2] \in DOMAIN table[iter.bucket].rows
    BY DEF ItemInTable
  <2> QED
    BY DEF IterInv, PlaceInv, AtPlace
<1> QED
  BY <1>1, IterInitInv, IterStepInv, PTL DEF SpecI

(* An iteration shows every entry that stays once, whatever is put,         *)
(* replaced and removed meanwhile, for every hash function and any number  *)
(* of buckets, unless the map is resized or a chain goes back into itself. *)
THEOREM KeptAlwaysShown ==
  ASSUME PointersApart
  PROVE  SpecI => []ShowsKept
<1>1. IterInv => ShowsKept
  <2> SUFFICES ASSUME IterInv, ~seen.resized, ~Cyclic(table)
               PROVE  seen.missed = {} /\ seen.again \cap seen.kept = {}
    BY DEF ShowsKept
  <2>1. WalkInv
    BY DEF IterInv
  <2>2. CASE iter = NoIter
    BY <2>1, <2>2 DEF WalkInv
  <2>3. CASE iter # NoIter
    <3>1. /\ seen.missed = {} /\ seen.kept \subseteq TextsOf(table)
          /\ ShownRight(iter, seen, table)
      BY <2>1, <2>3 DEF WalkInv
    <3>2. ASSUME NEW u \in seen.kept PROVE u \notin seen.again
      <4>1. PICK b \in DOMAIN table : \E j \in DOMAIN table[b].rows :
              table[b].rows[j].occ /\ u = Text[table[b].rows[j].key]
        BY <3>1, TextsOfDef
      <4>2. PICK j \in DOMAIN table[b].rows :
              table[b].rows[j].occ /\ u = Text[table[b].rows[j].key]
        BY <4>1
      <4>3. ShownAt(iter, seen, table[b], b, j, u) /\ table[b].back = 0
        BY <3>1, <4>2 DEF ShownRight, Cyclic
      <4>4. b \in Int /\ iter.bucket \in Int
        BY <2>3, IndFacts, RowNumbers DEF IterInv, PlaceInv, AtPlace
      <4> QED
        BY <4>3, <4>4 DEF ShownAt
    <3> QED
      BY <3>1, <3>2
  <2> QED
    BY <2>2, <2>3
<1> QED
  BY <1>1, IterInitInv, IterStepInv, PTL DEF SpecI

(* A client that began an iteration with room for a put, and adds no key,  *)
(* is never left with an iterator at a freed row: puts that replace do not *)
(* use the room up, so none of them resizes.                               *)
THEOREM ReplacingAlwaysKeepsRows ==
  ASSUME PointersApart
  PROVE  SpecI => []ReplacingKeepsRows
<1>1. IterInv => ReplacingKeepsRows
  BY DEF IterInv, RoomInv, ReplacingKeepsRows
<1> QED
  BY <1>1, IterInitInv, IterStepInv, PTL DEF SpecI

=============================================================================
