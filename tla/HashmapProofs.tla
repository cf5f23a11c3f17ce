--------------------------- MODULE HashmapProofs ---------------------------
(***************************************************************************)
(* Theorems about Hashmap, for every set of keys and values, every hash    *)
(* and comparison function that agree, every table size and every pattern  *)
(* of allocation failures: the shapes of the variables, and that every     *)
(* entry is found under its key; then what a map holds: the count of its   *)
(* entries, its load, the pointers it is responsible for, and that it      *)
(* implements MapSpec.                                                     *)
(***************************************************************************)
EXTENDS Hashmap, FiniteSetTheorems, TLAPS

IndInv == TypeOK /\ Placed

(* A chain of bucket b of a table of n buckets, as IsTable and WellFormed  *)
(* want it.                                                                *)
GoodChain(c, b, n) ==
  /\ c \in Chains
  /\ c.back <= Len(c.rows)
  /\ \A i \in DOMAIN c.rows :
       IF c.rows[i].occ
       THEN /\ c.rows[i].key \in Keys
            /\ BucketOf(c.rows[i].key, n) = b
            /\ \A j \in DOMAIN c.rows :
                 c.rows[j].occ /\ Text[c.rows[j].key] = Text[c.rows[i].key] => j = i
       ELSE c.rows[i].key = Null

GoodTable(tab, n) ==
  /\ tab \in [0 .. n - 1 -> Chains]
  /\ \A b \in 0 .. n - 1 : GoodChain(tab[b], b, n)

(* A table is good when it has the type and the structure, and conversely. *)
LEMMA GoodTableDef ==
  ASSUME NEW tab, NEW n
  PROVE  GoodTable(tab, n) <=> IsTable(tab, n) /\ WellFormed(tab, n)
BY DEF GoodTable, GoodChain, IsTable, WellFormed

(* The hash reduced modulo the number of buckets is a bucket.              *)
LEMMA BucketInRange ==
  ASSUME NEW k \in Keys, NEW n \in Nat \ {0}
  PROVE  BucketOf(k, n) \in 0 .. n - 1
<1>1. HashOf[k] \in Nat
  BY ConstantsAssumption
<1> QED
  BY <1>1 DEF BucketOf

(* A grown table still has a positive number of buckets.                   *)
LEMMA GrownSize ==
  ASSUME NEW n \in Nat \ {0}
  PROVE  n * IncreaseFactor \in Nat \ {0}
<1>1. IncreaseFactor \in Nat \ {0}
  BY ConstantsAssumption
<1> QED
  BY <1>1

(* Keys with the same text are the same to the comparison function and     *)
(* have the same bucket.                                                   *)
LEMMA SameKeyIsSameText ==
  ASSUME NEW j \in Keys, NEW k \in Keys
  PROVE  /\ SameKey(j, k) <=> Text[j] = Text[k]
         /\ Text[j] = Text[k] => \A n : BucketOf(j, n) = BucketOf(k, n)
BY ConstantsAssumption DEF SameKey, BucketOf

(* calloc gives a table of empty chains.                                   *)
LEMMA EmptyTableGood ==
  ASSUME NEW n \in Nat
  PROVE  GoodTable(EmptyTable(n), n)
<1>1. EmptyRow \in Rows
  BY DEF EmptyRow, Rows
<1>2. EmptyChain \in Chains /\ EmptyChain.back <= Len(EmptyChain.rows)
  BY <1>1 DEF EmptyChain, Chains
<1>3. \A i \in DOMAIN EmptyChain.rows :
        ~EmptyChain.rows[i].occ /\ EmptyChain.rows[i].key = Null
  BY DEF EmptyChain, EmptyRow
<1> QED
  BY <1>2, <1>3 DEF GoodTable, GoodChain, EmptyTable

(* Writing a good chain into its bucket keeps a table good.                *)
LEMMA UpdateGood ==
  ASSUME NEW tab, NEW n, NEW b \in 0 .. n - 1, NEW d,
         GoodTable(tab, n), GoodChain(d, b, n)
  PROVE  GoodTable([tab EXCEPT ![b] = d], n)
BY DEF GoodTable, GoodChain

(* Replacing the entry that answers for a key keeps the chain good.        *)
LEMMA ReplaceGood ==
  ASSUME NEW c, NEW b, NEW n, GoodChain(c, b, n),
         NEW k \in Keys, NEW v \in Vals, BucketOf(k, n) = b,
         NEW i \in Hits(c, k)
  PROVE  GoodChain([c EXCEPT !.rows[i] = Row(k, v)], b, n)
<1> DEFINE d == [c EXCEPT !.rows[i] = Row(k, v)]
<1>1. c \in Chains /\ c.rows \in Seq(Rows) /\ i \in DOMAIN c.rows /\ c.back \in Nat
  BY DEF GoodChain, Chains, Hits
<1>2. Row(k, v) \in Rows
  BY DEF Row, Rows
<1>3. d.rows = [c.rows EXCEPT ![i] = Row(k, v)] /\ d.back = c.back
  BY <1>1 DEF Chains
<1>4. d.rows \in Seq(Rows) /\ Len(d.rows) = Len(c.rows) /\ DOMAIN d.rows = DOMAIN c.rows
  BY <1>1, <1>2, <1>3
<1>5. d \in Chains /\ d.back <= Len(d.rows)
  BY <1>1, <1>3, <1>4 DEF GoodChain, Chains
<1>6. c.rows[i].occ /\ c.rows[i].key \in Keys /\ Text[c.rows[i].key] = Text[k]
  BY SameKeyIsSameText DEF Hits, GoodChain
<1>7. d.rows[i] = Row(k, v) /\ \A j \in DOMAIN c.rows : j # i => d.rows[j] = c.rows[j]
  BY <1>1, <1>3
<1>8. Row(k, v).key = k /\ Row(k, v).occ
  BY DEF Row
<1> HIDE DEF d
<1>9. ASSUME NEW j \in DOMAIN d.rows, d.rows[j].occ
      PROVE  /\ d.rows[j].key \in Keys
             /\ BucketOf(d.rows[j].key, n) = b
             /\ \A l \in DOMAIN d.rows :
                  d.rows[l].occ /\ Text[d.rows[l].key] = Text[d.rows[j].key] => l = j
  BY <1>4, <1>6, <1>7, <1>8, <1>9, SMTT(40) DEF GoodChain
<1>10. \A j \in DOMAIN d.rows : ~d.rows[j].occ => d.rows[j].key = Null
  BY <1>4, <1>7, <1>8 DEF GoodChain
<1> QED
  BY <1>5, <1>9, <1>10 DEF GoodChain, d

(* Adding an entry no row of the chain answers for keeps the chain good.   *)
LEMMA AddGood ==
  ASSUME NEW c, NEW b, NEW n, GoodChain(c, b, n),
         NEW k \in Keys, NEW v \in Vals \cup {Null}, BucketOf(k, n) = b,
         Hits(c, k) = {}, NEW d \in Added(c, Row(k, v))
  PROVE  GoodChain(d, b, n)
<1>1. c \in Chains /\ c.rows \in Seq(Rows) /\ Len(c.rows) \in Nat
      /\ DOMAIN c.rows = 1 .. Len(c.rows)
  BY DEF GoodChain, Chains
<1>2. Row(k, v) \in Rows
  BY DEF Row, Rows
<1>3. Row(k, v).key = k /\ Row(k, v).occ
  BY DEF Row
<1>4. \A j \in DOMAIN c.rows :
        c.rows[j].occ => c.rows[j].key \in Keys /\ Text[c.rows[j].key] # Text[k]
  BY SameKeyIsSameText DEF Hits, GoodChain
<1>5. CASE Tombs(c) = {}
  <2>1. d = [c EXCEPT !.rows = Append(@, Row(k, v))]
    BY <1>5 DEF Added
  <2>2. d.rows = Append(c.rows, Row(k, v)) /\ d.back = c.back
    BY <2>1, <1>1 DEF Chains
  <2>3. d.rows \in Seq(Rows) /\ Len(d.rows) = Len(c.rows) + 1 /\ d.rows # <<>>
    <3>1. c.rows \in Seq(Rows) /\ Row(k, v) \in Rows
      BY <1>1, <1>2
    <3>2. d.rows \in Seq(Rows) /\ Len(d.rows) = Len(c.rows) + 1
      BY <2>2, <3>1
    <3> QED
      BY <3>2, <1>1
  <2>4. d \in Chains
    <3>1. c.back \in Nat
      BY <1>1 DEF Chains
    <3>2. d = [rows |-> d.rows, back |-> d.back]
      BY <2>1, <1>1 DEF Chains
    <3> QED
      BY <2>2, <2>3, <3>1, <3>2 DEF Chains
  <2>5. /\ DOMAIN d.rows = 1 .. Len(c.rows) + 1
        /\ d.rows[Len(c.rows) + 1] = Row(k, v)
        /\ \A j \in 1 .. Len(c.rows) : d.rows[j] = c.rows[j]
    BY <2>2, <2>3, <1>1, <1>2
  <2>6. ASSUME NEW j \in DOMAIN d.rows, d.rows[j].occ
        PROVE  /\ d.rows[j].key \in Keys
               /\ BucketOf(d.rows[j].key, n) = b
               /\ \A l \in DOMAIN d.rows :
                    d.rows[l].occ /\ Text[d.rows[l].key] = Text[d.rows[j].key] => l = j
    <3>1. /\ \A l \in DOMAIN d.rows : l \in DOMAIN c.rows \/ l = Len(c.rows) + 1
          /\ Len(c.rows) + 1 \notin DOMAIN c.rows
      BY <1>1, <2>5
    <3>2. d.rows[j].key \in Keys /\ BucketOf(d.rows[j].key, n) = b
      BY <1>1, <1>3, <2>5, <2>6, <3>1 DEF GoodChain
    <3>3. ASSUME NEW l \in DOMAIN d.rows, d.rows[l].occ,
                 Text[d.rows[l].key] = Text[d.rows[j].key]
          PROVE  l = j
      <4>1. CASE l \in DOMAIN c.rows /\ j \in DOMAIN c.rows
        BY <4>1, <1>1, <2>5, <2>6, <3>3 DEF GoodChain
      <4>2. CASE l \in DOMAIN c.rows /\ j = Len(c.rows) + 1
        BY <4>2, <1>1, <1>3, <1>4, <2>5, <3>3
      <4>3. CASE l = Len(c.rows) + 1 /\ j \in DOMAIN c.rows
        BY <4>3, <1>1, <1>3, <1>4, <2>5, <2>6, <3>3, SMTT(40)
      <4> QED
        BY <3>1, <4>1, <4>2, <4>3
    <3> QED
      BY <3>2, <3>3
  <2>7. d.back <= Len(d.rows)
    BY <1>1, <2>2, <2>3 DEF GoodChain, Chains
  <2>8. \A j \in DOMAIN d.rows : ~d.rows[j].occ => d.rows[j].key = Null
    BY <1>1, <1>3, <2>5 DEF GoodChain
  <2> QED
    BY <2>4, <2>6, <2>7, <2>8 DEF GoodChain
<1>6. CASE Tombs(c) # {}
  <2>1. PICK t \in LastOf(Tombs(c)) :
          d = [rows |-> [c.rows EXCEPT ![t] = Row(k, v)],
               back |-> IF t = Len(c.rows) THEN 0 ELSE t]
    BY <1>6 DEF Added
  <2>2. t \in DOMAIN c.rows
    BY DEF LastOf, Tombs
  <2>3. d.rows = [c.rows EXCEPT ![t] = Row(k, v)] /\ d.back \in 0 .. Len(c.rows)
    BY <2>1, <2>2, <1>1
  <2>4. d.rows \in Seq(Rows) /\ Len(d.rows) = Len(c.rows) /\ d.rows # <<>>
        /\ DOMAIN d.rows = DOMAIN c.rows
    BY <2>2, <2>3, <1>1, <1>2
  <2>5. d \in Chains
    BY <2>1, <2>3, <2>4, <1>1 DEF Chains
  <2>6. d.rows[t] = Row(k, v) /\ \A j \in DOMAIN c.rows : j # t => d.rows[j] = c.rows[j]
    BY <2>2, <2>3, <1>1
  <2>7. ASSUME NEW j \in DOMAIN d.rows, d.rows[j].occ
        PROVE  /\ d.rows[j].key \in Keys
               /\ BucketOf(d.rows[j].key, n) = b
               /\ \A l \in DOMAIN d.rows :
                    d.rows[l].occ /\ Text[d.rows[l].key] = Text[d.rows[j].key] => l = j
    BY <1>3, <1>4, <2>2, <2>4, <2>6, <2>7 DEF GoodChain
  <2>8. \A j \in DOMAIN d.rows : ~d.rows[j].occ => d.rows[j].key = Null
    BY <1>3, <2>4, <2>6 DEF GoodChain
  <2> QED
    BY <2>3, <2>4, <2>5, <2>7, <2>8 DEF GoodChain
<1> QED
  BY <1>5, <1>6

(* Leaving a tombstone keeps the chain good.                               *)
LEMMA RemoveGood ==
  ASSUME NEW c, NEW b, NEW n, GoodChain(c, b, n), NEW i \in DOMAIN c.rows
  PROVE  GoodChain([c EXCEPT !.rows[i] = EmptyRow], b, n)
<1> DEFINE d == [c EXCEPT !.rows[i] = EmptyRow]
<1>1. c \in Chains /\ c.rows \in Seq(Rows) /\ c.back \in Nat
  BY DEF GoodChain, Chains
<1>2. EmptyRow \in Rows /\ ~EmptyRow.occ /\ EmptyRow.key = Null
  BY DEF EmptyRow, Rows
<1>3. d.rows = [c.rows EXCEPT ![i] = EmptyRow] /\ d.back = c.back
  BY <1>1 DEF Chains
<1>4. d.rows \in Seq(Rows) /\ Len(d.rows) = Len(c.rows) /\ DOMAIN d.rows = DOMAIN c.rows
  BY <1>1, <1>2, <1>3
<1>5. d \in Chains /\ d.back <= Len(d.rows)
  BY <1>1, <1>3, <1>4 DEF GoodChain, Chains
<1>6. d.rows[i] = EmptyRow /\ \A j \in DOMAIN c.rows : j # i => d.rows[j] = c.rows[j]
  BY <1>1, <1>3
<1> HIDE DEF d
<1>7. ASSUME NEW j \in DOMAIN d.rows, d.rows[j].occ
      PROVE  /\ d.rows[j].key \in Keys
             /\ BucketOf(d.rows[j].key, n) = b
             /\ \A l \in DOMAIN d.rows :
                  d.rows[l].occ /\ Text[d.rows[l].key] = Text[d.rows[j].key] => l = j
  BY <1>2, <1>4, <1>6, <1>7 DEF GoodChain
<1>8. \A j \in DOMAIN d.rows : ~d.rows[j].occ => d.rows[j].key = Null
  BY <1>2, <1>4, <1>6 DEF GoodChain
<1> QED
  BY <1>5, <1>7, <1>8 DEF GoodChain, d

-----------------------------------------------------------------------------
(* What the parts of a call do to the table *)

(* The pointers of an entry are pointers of the client.                    *)
LEMMA ManagedType ==
  ASSUME NEW k \in Keys \cup {Null}, NEW v \in Vals \cup {Null}
  PROVE  Managed(k, v) \subseteq Keys \cup Vals
BY DEF Managed

LEMMA InsertBucketStep ==
  ASSUME IndInv, status = "live", NEW k \in Keys, NEW v \in Vals,
         InsertBucket(k, v)
  PROVE  /\ GoodTable(table', n_buckets)
         /\ size' \in Int
         /\ owned' \subseteq Keys \cup Vals
         /\ pc' \in {"idle", "spin"}
         /\ UNCHANGED <<status, n_buckets, next_size, drained>>
<1> DEFINE b == BucketOf(k, n_buckets)
           c == table[b]
<1>1. n_buckets \in Nat \ {0} /\ size \in Int /\ owned \subseteq Keys \cup Vals
  BY DEF IndInv, TypeOK
<1>2. GoodTable(table, n_buckets)
  BY GoodTableDef DEF IndInv, TypeOK, Placed
<1>3. b \in 0 .. n_buckets - 1
  BY <1>1, BucketInRange
<1>4. GoodChain(c, b, n_buckets) /\ table \in [0 .. n_buckets - 1 -> Chains]
  BY <1>2, <1>3 DEF GoodTable
<1>5. Managed(k, v) \subseteq Keys \cup Vals
  BY ManagedType
<1>6. UNCHANGED <<status, n_buckets, next_size, drained>> /\ pc' \in {"idle", "spin"}
  BY DEF InsertBucket
<1>7. CASE \E i \in FirstOf(Hits(c, k)) :
             /\ table' = [table EXCEPT ![b] = [@ EXCEPT !.rows[i] = Row(k, v)]]
             /\ owned' = (owned \ Managed(c.rows[i].key, c.rows[i].value))
                           \cup Managed(k, v)
             /\ UNCHANGED size
  <2>1. PICK i \in Hits(c, k) :
          table' = [table EXCEPT ![b] = [c EXCEPT !.rows[i] = Row(k, v)]]
    BY <1>3, <1>4, <1>7 DEF FirstOf
  <2>2. GoodChain([c EXCEPT !.rows[i] = Row(k, v)], b, n_buckets)
    BY <1>4, ReplaceGood
  <2> QED
    BY <1>1, <1>2, <1>3, <1>5, <1>6, <1>7, <2>1, <2>2, UpdateGood
<1>8. CASE /\ Hits(c, k) = {} /\ c.back = 0
           /\ \E d \in Added(c, Row(k, v)) : table' = [table EXCEPT ![b] = d]
           /\ size' = size + 1
           /\ owned' = owned \cup Managed(k, v)
  <2>1. PICK d \in Added(c, Row(k, v)) : table' = [table EXCEPT ![b] = d]
    BY <1>8
  <2>2. GoodChain(d, b, n_buckets)
    BY <1>4, <1>8, AddGood
  <2>3. GoodTable(table', n_buckets)
    BY <1>2, <1>3, <2>1, <2>2, UpdateGood
  <2>4. size' \in Int /\ owned' \subseteq Keys \cup Vals
    BY <1>1, <1>5, <1>8
  <2> QED
    BY <1>6, <2>3, <2>4
<1>9. CASE UNCHANGED <<table, size, owned>>
  BY <1>1, <1>2, <1>6, <1>9
<1> QED
  BY <1>7, <1>8, <1>9 DEF InsertBucket

(* The row after a row of the old table is a row of it, or the loop is     *)
(* over.                                                                   *)
LEMMA NextRowInTable ==
  ASSUME IndInv, Rehashing
  PROVE  /\ NextRow \in (0 .. n_buckets) \X (Nat \ {0})
         /\ NextRow[1] < n_buckets => NextRow[2] \in DOMAIN table[NextRow[1]].rows
<1> DEFINE b == scan[1]
           i == scan[2]
<1>1. n_buckets \in Nat /\ table \in [0 .. n_buckets - 1 -> Chains]
      /\ \A e \in 0 .. n_buckets - 1 : table[e].back <= Len(table[e].rows)
  BY DEF IndInv, TypeOK, IsTable
<1>2. b \in 0 .. n_buckets - 1 /\ i \in DOMAIN table[b].rows
  BY <1>1 DEF IndInv, TypeOK, Rehashing
<1>3. \A e \in 0 .. n_buckets - 1 :
        /\ Len(table[e].rows) \in Nat \ {0}
        /\ DOMAIN table[e].rows = 1 .. Len(table[e].rows)
        /\ table[e].back \in 0 .. Len(table[e].rows)
  BY <1>1 DEF Chains
<1>4. CASE i < Len(table[b].rows)
  <2>1. NextRow = <<b, i + 1>>
    BY <1>4 DEF NextRow
  <2>2. i + 1 \in DOMAIN table[b].rows
    BY <1>2, <1>3, <1>4
  <2> QED
    BY <1>1, <1>2, <1>3, <2>1, <2>2
<1>5. CASE ~(i < Len(table[b].rows)) /\ table[b].back # 0
  BY <1>1, <1>2, <1>3, <1>5 DEF NextRow
<1>6. CASE ~(i < Len(table[b].rows)) /\ table[b].back = 0
  BY <1>1, <1>2, <1>3, <1>6 DEF NextRow
<1> QED
  BY <1>4, <1>5, <1>6

-----------------------------------------------------------------------------
(* The inductive invariant: the types and the structure of the tables.     *)

LEMMA InitInd == Init => IndInv
<1> SUFFICES ASSUME Init PROVE IndInv
  OBVIOUS
<1>1. GoodTable(EmptyTable(0), 0)
  BY EmptyTableGood
<1>2. IsTable(table, n_buckets) /\ WellFormed(table, n_buckets)
  BY <1>1, GoodTableDef DEF Init
<1>3. arg = <<Null, Null>> /\ fresh = EmptyTable(0) /\ items = 0 /\ scan = <<0, 1>>
  BY DEF Init, Resting
<1>4. /\ status = "none" /\ n_buckets = 0 /\ next_size = 0 /\ size = 0
      /\ owned = {} /\ pc = "idle" /\ drained \in BOOLEAN
  BY DEF Init
<1>5. TypeOK
  BY <1>2, <1>3, <1>4 DEF TypeOK
<1>6. Placed
  BY <1>2, <1>4 DEF Placed
<1> QED
  BY <1>5, <1>6 DEF IndInv

(* A call that leaves no resize under way only has to keep the table good. *)
LEMMA SettledInd ==
  ASSUME GoodTable(table, n_buckets)',
         n_buckets' \in Nat, next_size' \in Nat, size' \in Int, items' \in Nat,
         owned' \subseteq Keys \cup Vals, drained' \in BOOLEAN,
         status' \in {"none", "live", "corrupt"},
         status' = "live" => n_buckets' > 0,
         pc' \in {"idle", "insert", "spin"}, pc' # "idle" => status' = "live",
         arg' \in (Keys \cup {Null}) \X (Vals \cup {Null}),
         pc' = "insert" => arg' \in Keys \X Vals,
         fresh' = EmptyTable(0), scan' = <<0, 1>>
  PROVE  IndInv'
<1>1. (IsTable(table, n_buckets) /\ WellFormed(table, n_buckets))'
  BY GoodTableDef
<1> QED
  BY <1>1 DEF IndInv, TypeOK, Placed

(* The resting values of the variables of a resize.                        *)
LEMMA RestingValues ==
  Resting[1] = <<Null, Null>> /\ Resting[2] = EmptyTable(0)
  /\ Resting[3] = 0 /\ Resting[4] = <<0, 1>>
BY DEF Resting

(* Facts of the invariant the steps of a call use.                         *)
LEMMA IndFacts ==
  ASSUME IndInv
  PROVE  /\ GoodTable(table, n_buckets)
         /\ n_buckets \in Nat /\ next_size \in Nat /\ size \in Int /\ items \in Nat
         /\ owned \subseteq Keys \cup Vals /\ drained \in BOOLEAN
         /\ status \in {"none", "live", "corrupt"}
         /\ status = "live" => n_buckets > 0
         /\ arg \in (Keys \cup {Null}) \X (Vals \cup {Null})
         /\ pc # "idle" => status = "live"
         /\ pc # "resize" => fresh = EmptyTable(0) /\ scan = <<0, 1>>
BY GoodTableDef DEF IndInv, TypeOK, Placed

(* A call that returns without touching the map.                           *)
LEMMA QuietInd ==
  ASSUME IndInv, UNCHANGED <<MapVars, pc, resizing>>
  PROVE  IndInv'
BY DEF IndInv, TypeOK, Placed, MapVars, resizing, IsTable, WellFormed, BucketOf

LEMMA NewInd == ASSUME IndInv, New PROVE IndInv'
<1>1. InitialSize \in Nat \ {0} /\ NextSize(InitialSize) \in Nat
  BY ConstantsAssumption DEF NextSize
<1>2. CASE UNCHANGED <<status, table, n_buckets, next_size, size>>
  <2>1. UNCHANGED <<MapVars, pc, resizing>>
    BY <1>2 DEF New, MapVars
  <2> QED
    BY <2>1, QuietInd
<1>3. CASE status' = "live" /\ table' = EmptyTable(InitialSize)
           /\ n_buckets' = InitialSize /\ next_size' = NextSize(InitialSize)
           /\ size' = 0
  <2>1. status = "none" /\ UNCHANGED <<pc, arg, fresh, items, scan, owned, drained>>
    BY DEF New, resizing
  <2>2. pc = "idle" /\ fresh = EmptyTable(0) /\ scan = <<0, 1>>
    BY <2>1, IndFacts
  <2>3. GoodTable(table, n_buckets)'
    BY <1>1, <1>3, EmptyTableGood
  <2> QED
    BY <1>1, <1>3, <2>1, <2>2, <2>3, IndFacts, SettledInd
<1> QED
  BY <1>2, <1>3 DEF New

LEMMA FreeInd == ASSUME IndInv, Free PROVE IndInv'
<1>1. /\ status' \in {"none", "corrupt"}
      /\ table' = EmptyTable(0) /\ n_buckets' = 0 /\ next_size' = 0 /\ size' = 0
      /\ owned' \subseteq owned /\ drained' \in BOOLEAN
      /\ pc = "idle" /\ UNCHANGED <<pc, arg, fresh, items, scan>>
  BY DEF Free, Ready, resizing
<1>2. GoodTable(table, n_buckets)'
  BY <1>1, EmptyTableGood
<1> QED
  BY <1>1, <1>2, IndFacts, SettledInd

LEMMA PutInd ==
  ASSUME IndInv, NEW k \in Keys, NEW v \in Vals, Put(k, v)
  PROVE  IndInv'
<1>1. status = "live" /\ pc = "idle" /\ InsertBucket(k, v)
      /\ UNCHANGED <<arg, fresh, items, scan>>
  BY DEF Put, Ready, resizing
<1>2. /\ GoodTable(table', n_buckets)
      /\ size' \in Int /\ owned' \subseteq Keys \cup Vals
      /\ pc' \in {"idle", "spin"}
      /\ UNCHANGED <<status, n_buckets, next_size, drained>>
  BY <1>1, InsertBucketStep
<1>3. GoodTable(table, n_buckets)'
  BY <1>2
<1> QED
  BY <1>1, <1>2, <1>3, IndFacts, SettledInd

LEMMA PutResizedInd == ASSUME IndInv, PutResized PROVE IndInv'
<1>1. status = "live" /\ pc = "insert" /\ arg \in Keys \X Vals
  BY DEF IndInv, TypeOK, PutResized
<1>2. /\ InsertBucket(arg[1], arg[2])
      /\ arg' = <<Null, Null>> /\ UNCHANGED <<fresh, items, scan>>
  BY RestingValues DEF PutResized
<1>3. /\ GoodTable(table', n_buckets)
      /\ size' \in Int /\ owned' \subseteq Keys \cup Vals
      /\ pc' \in {"idle", "spin"}
      /\ UNCHANGED <<status, n_buckets, next_size, drained>>
  BY <1>1, <1>2, InsertBucketStep
<1>4. GoodTable(table, n_buckets)'
  BY <1>3
<1> QED
  BY <1>1, <1>2, <1>3, <1>4, IndFacts, SettledInd

LEMMA StartResizeInd ==
  ASSUME IndInv, NEW k \in Keys, NEW v \in Vals, StartResize(k, v)
  PROVE  IndInv'
<1>1. status = "live" /\ pc = "idle" /\ UNCHANGED MapVars
  BY DEF StartResize, Ready
<1>2. CASE UNCHANGED <<pc, resizing>>
  BY <1>1, <1>2, QuietInd
<1>3. CASE /\ pc' = "resize" /\ arg' = <<k, v>>
           /\ fresh' = EmptyTable(n_buckets * IncreaseFactor)
           /\ items' = 0 /\ scan' = <<0, 1>>
  <2>1. n_buckets \in Nat \ {0} /\ n_buckets * IncreaseFactor \in Nat \ {0}
    BY <1>1, IndFacts, GrownSize
  <2>2. GoodTable(fresh', n_buckets * IncreaseFactor)
    BY <1>3, <2>1, EmptyTableGood
  <2>3. /\ IsTable(fresh', n_buckets * IncreaseFactor)
        /\ WellFormed(fresh', n_buckets * IncreaseFactor)
    BY <2>2, GoodTableDef
  <2>4. table \in [0 .. n_buckets - 1 -> Chains] /\ IsTable(table, n_buckets)
    BY DEF IndInv, TypeOK, IsTable
  <2>5. 1 \in DOMAIN table[0].rows
    BY <2>1, <2>4 DEF Chains
  <2>6. /\ status' = status /\ table' = table /\ n_buckets' = n_buckets
        /\ next_size' = next_size /\ size' = size /\ owned' = owned
        /\ drained' = drained
    BY <1>1 DEF MapVars
  <2>7. TypeOK'
    BY <1>1, <1>3, <2>1, <2>3, <2>4, <2>5, <2>6, IndFacts DEF TypeOK
  <2>8. WellFormed(table, n_buckets)'
    BY <2>6 DEF IndInv, Placed
  <2>9. Placed'
    BY <2>3, <2>6, <2>8 DEF Placed
  <2> QED
    BY <2>7, <2>9 DEF IndInv
<1> QED
  BY <1>2, <1>3 DEF StartResize

(* A step of the loop over the old rows: the row it goes to is one of the  *)
(* old table, and the new table stays good.                                *)
LEMMA ScanInd ==
  ASSUME IndInv, Rehashing, UNCHANGED <<MapVars, pc, arg>>,
         scan' = NextRow, items' \in Nat,
         GoodTable(fresh', n_buckets * IncreaseFactor)
  PROVE  IndInv'
<1>1. /\ status' = status /\ table' = table /\ n_buckets' = n_buckets
      /\ next_size' = next_size /\ size' = size /\ owned' = owned
      /\ drained' = drained /\ pc' = pc /\ arg' = arg
  BY DEF MapVars
<1>2. pc = "resize"
  BY DEF Rehashing
<1>3. /\ IsTable(fresh', n_buckets * IncreaseFactor)
      /\ WellFormed(fresh', n_buckets * IncreaseFactor)
  BY GoodTableDef
<1>4. /\ scan' \in (0 .. n_buckets) \X (Nat \ {0})
      /\ scan'[1] < n_buckets => scan'[2] \in DOMAIN table[scan'[1]].rows
  BY NextRowInTable
<1>5. TypeOK'
  BY <1>1, <1>2, <1>3, <1>4 DEF IndInv, TypeOK
<1>6. WellFormed(table, n_buckets)'
  BY <1>1 DEF IndInv, Placed
<1>7. Placed'
  BY <1>1, <1>3, <1>6 DEF Placed
<1> QED
  BY <1>5, <1>7 DEF IndInv

(* The tables during the loop, and the row it is at.                       *)
LEMMA RehashFacts ==
  ASSUME IndInv, Rehashing
  PROVE  /\ n_buckets \in Nat \ {0} /\ n_buckets * IncreaseFactor \in Nat \ {0}
         /\ GoodTable(fresh, n_buckets * IncreaseFactor)
         /\ Scanned \in Rows
         /\ Scanned.occ => Scanned.key \in Keys
<1>1. pc = "resize" /\ scan[1] < n_buckets /\ n_buckets \in Nat
  BY IndFacts DEF Rehashing
<1>2. n_buckets \in Nat \ {0} /\ n_buckets * IncreaseFactor \in Nat \ {0}
  BY <1>1, IndFacts, GrownSize
<1>3. GoodTable(fresh, n_buckets * IncreaseFactor)
  BY <1>1, GoodTableDef DEF IndInv, TypeOK, Placed
<1>4. scan[1] \in 0 .. n_buckets - 1 /\ scan[2] \in DOMAIN table[scan[1]].rows
  BY <1>1 DEF IndInv, TypeOK
<1>5. GoodChain(table[scan[1]], scan[1], n_buckets)
  BY <1>4, IndFacts DEF GoodTable
<1>6. Scanned \in Rows
  BY <1>4, <1>5 DEF GoodChain, Chains, Scanned
<1>7. Scanned.occ => Scanned.key \in Keys
  BY <1>4, <1>5 DEF GoodChain, Scanned
<1> QED
  BY <1>2, <1>3, <1>6, <1>7

LEMMA RehashSkipInd == ASSUME IndInv, RehashSkip PROVE IndInv'
<1>1. /\ Rehashing /\ scan' = NextRow /\ fresh' = fresh /\ items' = items
      /\ UNCHANGED <<MapVars, pc, arg>>
  BY DEF RehashSkip
<1>2. GoodTable(fresh', n_buckets * IncreaseFactor)
  BY <1>1, RehashFacts
<1> QED
  BY <1>1, <1>2, IndFacts, ScanInd

LEMMA RehashRowInd == ASSUME IndInv, RehashRow PROVE IndInv'
<1> DEFINE n == n_buckets * IncreaseFactor
           k == Scanned.key
           b == BucketOf(k, n)
           c == fresh[b]
<1>1. /\ Rehashing /\ Scanned.occ /\ scan' = NextRow /\ items' = items + 1
      /\ UNCHANGED <<MapVars, pc, arg>> /\ Hits(c, k) = {}
  BY DEF RehashRow
<1>2. PICK d \in Added(c, Row(k, Scanned.value)) : fresh' = [fresh EXCEPT ![b] = d]
  BY DEF RehashRow
<1>3. n \in Nat \ {0} /\ GoodTable(fresh, n) /\ k \in Keys
      /\ Scanned.value \in Vals \cup {Null}
  BY <1>1, RehashFacts DEF Rows
<1>4. b \in 0 .. n - 1
  BY <1>3, BucketInRange
<1>5. GoodChain(c, b, n)
  BY <1>3, <1>4 DEF GoodTable
<1>7. GoodChain(d, b, n)
  BY <1>1, <1>3, <1>5, AddGood
<1>8. GoodTable(fresh', n)
  BY <1>2, <1>3, <1>4, <1>7, UpdateGood
<1>9. items' \in Nat
  BY <1>1, IndFacts
<1> QED
  BY <1>1, <1>8, <1>9, ScanInd

LEMMA GiveUpInd ==
  ASSUME IndInv, Rehashing, GiveUpResize, status' \in {status, "corrupt"}
  PROVE  IndInv'
<1>1. /\ owned' \subseteq owned /\ pc' = "idle"
      /\ arg' = <<Null, Null>> /\ fresh' = EmptyTable(0) /\ items' = 0
      /\ scan' = <<0, 1>>
      /\ UNCHANGED <<table, n_buckets, next_size, size, drained>>
  BY RestingValues DEF GiveUpResize
<1>2. GoodTable(table, n_buckets)'
  BY <1>1, IndFacts
<1> QED
  BY <1>1, <1>2, IndFacts, SettledInd

LEMMA RehashFailsInd ==
  ASSUME IndInv, RehashOutOfMemory \/ RehashAgain
  PROVE  IndInv'
BY GiveUpInd DEF RehashOutOfMemory, RehashAgain

LEMMA FinishResizeInd == ASSUME IndInv, FinishResize PROVE IndInv'
<1> DEFINE n == n_buckets * IncreaseFactor
<1>1. pc = "resize" /\ status = "live" /\ n_buckets \in Nat \ {0} /\ arg \in Keys \X Vals
  BY DEF FinishResize, IndInv, TypeOK
<1>2. n \in Nat \ {0} /\ NextSize(n) \in Nat
  BY <1>1, GrownSize DEF NextSize
<1>3. GoodTable(fresh, n)
  BY <1>1, GoodTableDef DEF IndInv, TypeOK, Placed
<1>4. /\ table' = fresh /\ n_buckets' = n /\ next_size' = NextSize(n)
      /\ size' = items /\ pc' = "insert"
      /\ fresh' = EmptyTable(0) /\ items' = 0 /\ scan' = <<0, 1>>
      /\ UNCHANGED <<status, owned, drained, arg>>
  BY RestingValues DEF FinishResize
<1>5. GoodTable(table, n_buckets)'
  BY <1>3, <1>4
<1> QED
  BY <1>1, <1>2, <1>4, <1>5, IndFacts, SettledInd

LEMMA RemoveInd ==
  ASSUME IndInv, NEW call, NEW k \in Keys, Remove(call, k)
  PROVE  IndInv'
<1> DEFINE b == BucketOf(k, n_buckets)
           c == table[b]
<1>1. /\ status = "live" /\ pc = "idle"
      /\ UNCHANGED <<status, n_buckets, next_size, arg, fresh, items, scan>>
  BY DEF Remove, Ready, resizing
<1>2. CASE /\ \E i \in FirstOf(Matches(c, k)) :
                /\ table' = [table EXCEPT ![b] = [@ EXCEPT !.rows[i] = EmptyRow]]
                /\ owned' = owned \ Managed(c.rows[i].key, c.rows[i].value)
           /\ size' = size - 1 /\ drained' = TRUE /\ UNCHANGED pc
  <2>1. b \in 0 .. n_buckets - 1
    BY <1>1, IndFacts, BucketInRange
  <2>2. GoodChain(c, b, n_buckets) /\ table \in [0 .. n_buckets - 1 -> Chains]
    BY <2>1, IndFacts DEF GoodTable
  <2>3. PICK i \in Matches(c, k) :
          table' = [table EXCEPT ![b] = [c EXCEPT !.rows[i] = EmptyRow]]
    BY <1>2, <2>1, <2>2 DEF FirstOf
  <2>4. i \in DOMAIN c.rows
    BY DEF Matches
  <2>5. GoodTable(table', n_buckets)
    BY <2>1, <2>2, <2>3, <2>4, RemoveGood, UpdateGood, IndFacts
  <2>6. GoodTable(table, n_buckets)'
    BY <1>1, <2>5
  <2>7. owned' \subseteq owned
    BY <1>2
  <2> QED
    BY <1>1, <1>2, <2>6, <2>7, IndFacts, SettledInd
<1>3. CASE UNCHANGED <<table, size, owned, drained>> /\ pc' \in {"idle", "spin"}
  <2>1. GoodTable(table, n_buckets)'
    BY <1>1, <1>3, IndFacts
  <2> QED
    BY <1>1, <1>3, <2>1, IndFacts, SettledInd
<1> QED
  BY <1>1, <1>2, <1>3 DEF Remove

(* Every step keeps the types and the structure.                           *)
LEMMA NextInd == IndInv /\ [Next]_vars => IndInv'
<1> SUFFICES ASSUME IndInv, [Next]_vars PROVE IndInv'
  OBVIOUS
<1>1. CASE New
  BY <1>1, NewInd
<1>2. CASE Free
  BY <1>2, FreeInd
<1>3. ASSUME NEW k \in Keys, NEW v \in Vals, Put(k, v) PROVE IndInv'
  BY <1>3, PutInd
<1>4. ASSUME NEW k \in Keys, NEW v \in Vals, StartResize(k, v) PROVE IndInv'
  BY <1>4, StartResizeInd
<1>5. ASSUME NEW call, NEW k, NEW v, CallOnNull(call, k, v) PROVE IndInv'
  BY <1>5, QuietInd DEF CallOnNull
<1>6. ASSUME NEW call, NEW k \in Keys, Remove(call, k) PROVE IndInv'
  BY <1>6, RemoveInd
<1>7. CASE Running
  BY <1>7, RehashSkipInd, RehashRowInd, RehashFailsInd, FinishResizeInd, PutResizedInd
     DEF Running
<1>8. CASE Spin \/ UNCHANGED vars
  BY <1>8, QuietInd DEF Spin, vars, MapVars
<1> QED
  BY <1>1, <1>2, <1>3, <1>4, <1>5, <1>6, <1>7, <1>8 DEF Next

(* The types of the variables; in particular no hash is reduced modulo zero *)
(* and a resize never reads past a chain or past the old table.            *)
THEOREM TypeCorrect == Spec => []TypeOK
<1>1. IndInv => TypeOK
  BY DEF IndInv
<1> QED
  BY <1>1, InitInd, NextInd, PTL DEF Spec

(* In every table, the one in use and the one being filled, an occupied row *)
(* is in the bucket of its key and is the only one there with that key.    *)
THEOREM AlwaysPlaced == Spec => []Placed
<1>1. IndInv => Placed
  BY DEF IndInv
<1> QED
  BY <1>1, InitInd, NextInd, PTL DEF Spec

-----------------------------------------------------------------------------
(* Lookup *)

LEMMA LookupFromInd ==
  ASSUME IndInv, Null \notin Keys
  PROVE  LookupFinds
<1> SUFFICES ASSUME Idle, NEW r \in OccRows(table) PROVE GetResult(r.key) = r.value
  BY DEF LookupFinds
<1>1. GoodTable(table, n_buckets)
  BY IndFacts
<1>2. PICK b \in DOMAIN table : \E i \in DOMAIN table[b].rows :
        table[b].rows[i].occ /\ r = table[b].rows[i]
  BY DEF OccRows, OccSlots
<1> DEFINE c == table[b]
<1>3. b \in 0 .. n_buckets - 1 /\ GoodChain(c, b, n_buckets)
  BY <1>1, <1>2 DEF GoodTable
<1>4. PICK i \in DOMAIN c.rows : c.rows[i].occ /\ r = c.rows[i]
  BY <1>2
<1>5. r.key \in Keys /\ BucketOf(r.key, n_buckets) = b
  BY <1>3, <1>4 DEF GoodChain
<1>6. ASSUME NEW j \in Matches(c, r.key) PROVE j = i
  <2>1. j \in DOMAIN c.rows /\ SameKey(c.rows[j].key, r.key)
    BY <1>6 DEF Matches
  <2>2. Text[c.rows[j].key] = Text[r.key]
    BY <2>1 DEF SameKey
  <2>3. c.rows[j].occ
    BY <1>3, <1>5, <2>1, ConstantsAssumption DEF GoodChain, SameKey
  <2> QED
    BY <1>3, <1>4, <2>1, <2>2, <2>3 DEF GoodChain
<1>7. i \in Matches(c, r.key)
  BY <1>4, <1>5, SameKeyIsSameText DEF Matches
<1>8. FirstOf(Matches(c, r.key)) = {i}
  <2>1. i \in Int
    BY <1>3, <1>4 DEF GoodChain, Chains
  <2> QED
    BY <1>6, <1>7, <2>1 DEF FirstOf
<1> QED
  BY <1>4, <1>5, <1>7, <1>8 DEF GetResult

(* Every entry is found under its key, unless the client uses NULL itself  *)
(* as a key (with nc_simple_compare it may, and then a tombstone answers   *)
(* for it).                                                                *)
THEOREM LookupAlwaysFinds ==
  ASSUME Null \notin Keys
  PROVE  Spec => []LookupFinds
<1>1. IndInv => LookupFinds
  BY LookupFromInd
<1> QED
  BY <1>1, InitInd, NextInd, PTL DEF Spec

-----------------------------------------------------------------------------
(* Chains without cycles *)

CompactChain(c) == c.back = 0 /\ (Tombs(c) = {} \/ Len(c.rows) = 1)

LEMMA CompactDef ==
  ASSUME NEW tab PROVE Compact(tab) <=> \A b \in DOMAIN tab : CompactChain(tab[b])
BY DEF Compact, CompactChain

LEMMA CompactEmpty == \A n : Compact(EmptyTable(n))
BY DEF Compact, EmptyTable, EmptyChain

LEMMA CompactUpdate ==
  ASSUME NEW tab, NEW b, NEW d, Compact(tab), CompactChain(d)
  PROVE  Compact([tab EXCEPT ![b] = d])
BY CompactDef

(* An entry written into a compact chain replaces the blank first row or   *)
(* is appended; either way the chain stays compact.                        *)
LEMMA CompactAdd ==
  ASSUME NEW c \in Chains, CompactChain(c), NEW k \in Keys, NEW v \in Vals \cup {Null},
         NEW d \in Added(c, Row(k, v))
  PROVE  CompactChain(d)
<1>1. /\ c.rows \in Seq(Rows) /\ DOMAIN c.rows = 1 .. Len(c.rows)
      /\ Len(c.rows) \in Nat /\ c.back = 0
  BY DEF Chains, CompactChain
<1>2. Row(k, v) \in Rows /\ Row(k, v).occ
  BY DEF Row, Rows
<1>3. CASE Tombs(c) = {}
  <2>1. d = [c EXCEPT !.rows = Append(@, Row(k, v))]
    BY <1>3 DEF Added
  <2>2. d.rows = Append(c.rows, Row(k, v)) /\ d.back = 0
    BY <2>1, <1>1 DEF Chains
  <2>3. /\ DOMAIN d.rows = 1 .. Len(c.rows) + 1
        /\ d.rows[Len(c.rows) + 1] = Row(k, v)
        /\ \A j \in 1 .. Len(c.rows) : d.rows[j] = c.rows[j]
    BY <2>2, <1>1, <1>2
  <2>4. Tombs(d) = {}
    BY <1>1, <1>2, <1>3, <2>3 DEF Tombs
  <2> QED
    BY <2>2, <2>4 DEF CompactChain
<1>4. CASE Tombs(c) # {}
  <2>1. PICK t \in LastOf(Tombs(c)) :
          d = [rows |-> [c.rows EXCEPT ![t] = Row(k, v)],
               back |-> IF t = Len(c.rows) THEN 0 ELSE t]
    BY <1>4 DEF Added
  <2>2. Len(c.rows) = 1 /\ t = 1
    BY <1>1, <1>4 DEF CompactChain, LastOf, Tombs
  <2>3. d.rows = [c.rows EXCEPT ![1] = Row(k, v)] /\ d.back = 0
    BY <2>1, <2>2
  <2>4. Tombs(d) = {}
    BY <1>1, <1>2, <2>2, <2>3 DEF Tombs
  <2> QED
    BY <2>3, <2>4 DEF CompactChain
<1> QED
  BY <1>3, <1>4

(* Replacing an entry links nothing and leaves no row unoccupied.          *)
LEMMA CompactReplace ==
  ASSUME NEW c \in Chains, CompactChain(c), NEW k \in Keys, NEW v \in Vals,
         NEW i \in DOMAIN c.rows
  PROVE  CompactChain([c EXCEPT !.rows[i] = Row(k, v)])
<1> DEFINE d == [c EXCEPT !.rows[i] = Row(k, v)]
<1>1. /\ c.rows \in Seq(Rows) /\ c.back = 0
      /\ d.rows = [c.rows EXCEPT ![i] = Row(k, v)] /\ d.back = 0
  BY DEF Chains, CompactChain
<1>2. Row(k, v) \in Rows /\ Row(k, v).occ
  BY DEF Row, Rows
<1>3. DOMAIN d.rows = DOMAIN c.rows /\ Len(d.rows) = Len(c.rows)
  BY <1>1, <1>2
<1>4. Tombs(d) \subseteq Tombs(c)
  BY <1>1, <1>2, <1>3 DEF Tombs
<1> QED
  BY <1>1, <1>3, <1>4 DEF CompactChain

(* An insertion keeps a compact table compact.                             *)
LEMMA InsertCompact ==
  ASSUME IndInv, status = "live", NEW k \in Keys, NEW v \in Vals,
         InsertBucket(k, v), Compact(table)
  PROVE  Compact(table')
<1> DEFINE b == BucketOf(k, n_buckets)
           c == table[b]
<1>1. b \in DOMAIN table /\ c \in Chains
  BY IndFacts, BucketInRange DEF GoodTable
<1>2. CompactChain(c)
  BY <1>1, CompactDef
<1>3. CASE \E i \in FirstOf(Hits(c, k)) :
             table' = [table EXCEPT ![b] = [@ EXCEPT !.rows[i] = Row(k, v)]]
  <2>1. PICK i \in DOMAIN c.rows :
          table' = [table EXCEPT ![b] = [c EXCEPT !.rows[i] = Row(k, v)]]
    BY <1>1, <1>3 DEF FirstOf, Hits
  <2> QED
    BY <1>1, <1>2, <2>1, CompactReplace, CompactUpdate
<1>4. CASE \E d \in Added(c, Row(k, v)) : table' = [table EXCEPT ![b] = d]
  <2>1. PICK d \in Added(c, Row(k, v)) : table' = [table EXCEPT ![b] = d]
    BY <1>4
  <2>2. CompactChain(d)
    BY <1>1, <1>2, CompactAdd
  <2> QED
    BY <2>1, <2>2, CompactUpdate
<1>5. CASE UNCHANGED table
  BY <1>5
<1> QED
  BY <1>3, <1>4, <1>5 DEF InsertBucket

(* What a client that does not put after removing adds to the invariant:   *)
(* no chain is cyclic, and a put under way found nothing removed.          *)
TightInv ==
  /\ Tight
  /\ ~PutAfterRemove =>
       /\ ChainsEnd
       /\ pc \in {"resize", "insert"} => ~drained

LEMMA CompactEnds == ASSUME NEW tab, Compact(tab) PROVE ~Cyclic(tab)
BY DEF Compact, Cyclic

(* A step in which neither table changes, nor what the client has removed. *)
LEMMA TightUnchanged ==
  ASSUME TightInv, UNCHANGED <<table, fresh, drained>>, pc' \in {pc, "idle", "spin"}
  PROVE  TightInv'
BY DEF TightInv, Tight, ChainsEnd, Cyclic, Compact

(* The same when an insertion may change the table in use.                 *)
LEMMA TightInsert ==
  ASSUME IndInv, TightInv, status = "live", NEW k \in Keys, NEW v \in Vals,
         InsertBucket(k, v), PutAfterRemove \/ ~drained, UNCHANGED fresh
  PROVE  TightInv'
<1>1. drained' = drained /\ pc' \in {"idle", "spin"}
  BY DEF InsertBucket
<1>2. ~drained => Compact(table')
  BY InsertCompact DEF TightInv, Tight
<1>3. ~PutAfterRemove => ~Cyclic(table')
  BY <1>2, CompactEnds
<1> QED
  BY <1>1, <1>2, <1>3 DEF TightInv, Tight, ChainsEnd

LEMMA TightNew == ASSUME IndInv, TightInv, New PROVE TightInv'
<1>1. UNCHANGED <<pc, fresh, drained>> /\ pc \notin {"resize", "insert"}
  BY IndFacts DEF New, resizing
<1>2. CASE UNCHANGED table
  BY <1>1, <1>2, TightUnchanged
<1>3. CASE table' = EmptyTable(InitialSize)
  <2>1. Compact(table') /\ ~Cyclic(table')
    BY <1>3, CompactEmpty, CompactEnds
  <2> QED
    BY <1>1, <2>1 DEF TightInv, Tight, ChainsEnd
<1> QED
  BY <1>2, <1>3 DEF New

LEMMA TightFree == ASSUME IndInv, TightInv, Free PROVE TightInv'
<1>1. table' = EmptyTable(0) /\ UNCHANGED <<pc, fresh>> /\ pc = "idle"
  BY DEF Free, Ready, resizing
<1>2. Compact(table') /\ ~Cyclic(table')
  BY <1>1, CompactEmpty, CompactEnds
<1> QED
  BY <1>1, <1>2 DEF TightInv, Tight, ChainsEnd

LEMMA TightStartResize ==
  ASSUME IndInv, TightInv, NEW k \in Keys, NEW v \in Vals, StartResize(k, v)
  PROVE  TightInv'
<1>1. UNCHANGED <<table, drained>> /\ (PutAfterRemove \/ ~drained)
  BY DEF StartResize, MapVars, MayPut
<1>2. CASE UNCHANGED <<pc, resizing>>
  BY <1>1, <1>2, TightUnchanged DEF resizing
<1>3. CASE pc' = "resize" /\ fresh' = EmptyTable(n_buckets * IncreaseFactor)
  <2>1. Compact(fresh')
    BY <1>3, CompactEmpty
  <2>2. Compact(table') <=> Compact(table)
    BY <1>1
  <2>3. Cyclic(table') <=> Cyclic(table)
    BY <1>1
  <2> QED
    BY <1>1, <1>3, <2>1, <2>2, <2>3 DEF TightInv, Tight, ChainsEnd
<1> QED
  BY <1>2, <1>3 DEF StartResize

LEMMA TightRehashRow == ASSUME IndInv, TightInv, RehashRow PROVE TightInv'
<1> DEFINE k == Scanned.key
           b == BucketOf(k, n_buckets * IncreaseFactor)
           c == fresh[b]
<1>1. /\ Rehashing /\ Scanned.occ /\ pc = "resize"
      /\ UNCHANGED <<table, drained, pc>>
  BY DEF RehashRow, MapVars, Rehashing
<1>2. PICK d \in Added(c, Row(k, Scanned.value)) : fresh' = [fresh EXCEPT ![b] = d]
  BY DEF RehashRow
<1>3. k \in Keys /\ Scanned.value \in Vals \cup {Null}
  BY <1>1, RehashFacts DEF Rows
<1>4. b \in DOMAIN fresh /\ c \in Chains
  BY <1>1, <1>3, RehashFacts, BucketInRange DEF GoodTable
<1>5. Compact(fresh)
  BY <1>1 DEF TightInv, Tight
<1>6. CompactChain(c)
  BY <1>4, <1>5, CompactDef
<1>7. CompactChain(d)
  BY <1>3, <1>4, <1>6, CompactAdd
<1>8. Compact(fresh')
  BY <1>2, <1>5, <1>7, CompactUpdate
<1>9. Compact(table') <=> Compact(table)
  BY <1>1
<1>10. Cyclic(table') <=> Cyclic(table)
  BY <1>1
<1> QED
  BY <1>1, <1>8, <1>9, <1>10 DEF TightInv, Tight, ChainsEnd

LEMMA TightGiveUp ==
  ASSUME TightInv, RehashOutOfMemory \/ RehashAgain
  PROVE  TightInv'
<1>1. UNCHANGED <<table, drained>> /\ pc' = "idle"
  BY DEF RehashOutOfMemory, RehashAgain, GiveUpResize
<1>2. Compact(table') <=> Compact(table)
  BY <1>1
<1>3. Cyclic(table') <=> Cyclic(table)
  BY <1>1
<1> QED
  BY <1>1, <1>2, <1>3 DEF TightInv, Tight, ChainsEnd

LEMMA TightFinish == ASSUME TightInv, FinishResize PROVE TightInv'
<1>1. table' = fresh /\ pc = "resize" /\ pc' = "insert" /\ UNCHANGED drained
  BY DEF FinishResize
<1>2. Compact(table') /\ ~Cyclic(table')
  BY <1>1, CompactEnds DEF TightInv, Tight
<1> QED
  BY <1>1, <1>2 DEF TightInv, Tight, ChainsEnd

LEMMA TightPutResized == ASSUME IndInv, TightInv, PutResized PROVE TightInv'
<1>1. status = "live" /\ pc = "insert" /\ arg \in Keys \X Vals
  BY DEF IndInv, TypeOK, PutResized
<1>2. InsertBucket(arg[1], arg[2]) /\ UNCHANGED fresh
  BY DEF PutResized
<1>3. PutAfterRemove \/ ~drained
  BY <1>1 DEF TightInv
<1> QED
  BY <1>1, <1>2, <1>3, TightInsert

LEMMA TightRemove ==
  ASSUME IndInv, TightInv, NEW call, NEW k \in Keys, Remove(call, k)
  PROVE  TightInv'
<1> DEFINE b == BucketOf(k, n_buckets)
           c == table[b]
<1>1. pc = "idle" /\ UNCHANGED fresh /\ pc' \in {"idle", "spin"} /\ status = "live"
  BY DEF Remove, Ready, resizing
<1>2. CASE UNCHANGED <<table, drained>>
  BY <1>1, <1>2, TightUnchanged
<1>3. CASE /\ \E i \in FirstOf(Matches(c, k)) :
                table' = [table EXCEPT ![b] = [@ EXCEPT !.rows[i] = EmptyRow]]
           /\ drained' = TRUE
  <2>1. b \in DOMAIN table /\ c \in Chains /\ \A e \in DOMAIN table : table[e] \in Chains
    BY <1>1, IndFacts, BucketInRange DEF GoodTable
  <2>2. PICK i : table' = [table EXCEPT ![b] = [c EXCEPT !.rows[i] = EmptyRow]]
    BY <1>3, <2>1
  <2>3. \A e \in DOMAIN table : table'[e].back = table[e].back
    BY <2>1, <2>2 DEF Chains
  <2>4. Cyclic(table') => Cyclic(table)
    BY <2>2, <2>3 DEF Cyclic
  <2> QED
    BY <1>1, <1>3, <2>4 DEF TightInv, Tight, ChainsEnd
<1> QED
  BY <1>2, <1>3 DEF Remove

LEMMA TightStep == IndInv /\ TightInv /\ [Next]_vars => TightInv'
<1> SUFFICES ASSUME IndInv, TightInv, [Next]_vars PROVE TightInv'
  OBVIOUS
<1>1. CASE New
  BY <1>1, TightNew
<1>2. CASE Free
  BY <1>2, TightFree
<1>3. ASSUME NEW k \in Keys, NEW v \in Vals, Put(k, v) PROVE TightInv'
  <2>1. status = "live" /\ InsertBucket(k, v) /\ UNCHANGED fresh
        /\ (PutAfterRemove \/ ~drained)
    BY <1>3 DEF Put, Ready, MayPut, resizing
  <2> QED
    BY <2>1, TightInsert
<1>4. ASSUME NEW k \in Keys, NEW v \in Vals, StartResize(k, v) PROVE TightInv'
  BY <1>4, TightStartResize
<1>5. ASSUME NEW call, NEW k, NEW v, CallOnNull(call, k, v) PROVE TightInv'
  BY <1>5, TightUnchanged DEF CallOnNull, MapVars, resizing
<1>6. ASSUME NEW call, NEW k \in Keys, Remove(call, k) PROVE TightInv'
  BY <1>6, TightRemove
<1>7. CASE RehashSkip
  BY <1>7, TightUnchanged DEF RehashSkip, MapVars
<1>8. CASE RehashRow \/ RehashOutOfMemory \/ RehashAgain \/ FinishResize \/ PutResized
  BY <1>8, TightRehashRow, TightGiveUp, TightFinish, TightPutResized
<1>9. CASE Spin \/ UNCHANGED vars
  BY <1>9, TightUnchanged DEF Spin, vars, resizing
<1> QED
  BY <1>1, <1>2, <1>3, <1>4, <1>5, <1>6, <1>7, <1>8, <1>9 DEF Next, Running

LEMMA TightInit == Init => TightInv
<1> SUFFICES ASSUME Init PROVE TightInv
  OBVIOUS
<1>1. table = EmptyTable(0) /\ pc = "idle"
  BY DEF Init
<1> QED
  BY <1>1, CompactEmpty, CompactEnds DEF TightInv, Tight, ChainsEnd

(* The tables are well formed at every moment, and tombstones and cycles   *)
(* come from removals only: a map nothing was removed from, and every      *)
(* table a resize is filling, has neither.                                 *)
THEOREM StructureHolds == Spec => []Structure
<1>1. IndInv /\ TightInv => Structure
  BY DEF IndInv, TightInv, Structure
<1> QED
  BY <1>1, InitInd, NextInd, TightInit, TightStep, PTL DEF Spec

(* For a client that does not put after it has removed, no chain ever goes *)
(* back into itself, so every walk of every call comes to an end.          *)
THEOREM ChainsAlwaysEnd ==
  ASSUME ~PutAfterRemove
  PROVE  Spec => []ChainsEnd
<1>1. TightInv => ChainsEnd
  BY DEF TightInv
<1> QED
  BY <1>1, InitInd, NextInd, TightInit, TightStep, PTL DEF Spec

-----------------------------------------------------------------------------
(* What a map holds.  Each step is reduced to what it does to the set of   *)
(* occupied rows; the buckets and chains are not looked at after that.     *)

(* Chain d is c with row r written at position t. *)
Wrote(d, c, t, r) ==
  /\ DOMAIN d.rows = DOMAIN c.rows \cup {t}
  /\ d.rows[t] = r
  /\ \A j \in DOMAIN c.rows : j # t => d.rows[j] = c.rows[j]

(* Table new is tab with chain d in bucket b. *)
Swapped(new, tab, b, d) ==
  /\ DOMAIN new = DOMAIN tab
  /\ new[b] = d
  /\ \A a \in DOMAIN tab : a # b => new[a] = tab[a]

LEMMA SwappedExcept ==
  ASSUME NEW tab, NEW b \in DOMAIN tab, NEW d
  PROVE  Swapped([tab EXCEPT ![b] = d], tab, b, d)
BY DEF Swapped

LEMMA WroteInPlace ==
  ASSUME NEW c \in Chains, NEW i \in DOMAIN c.rows, NEW r \in Rows
  PROVE  Wrote([c EXCEPT !.rows[i] = r], c, i, r)
<1>1. c.rows \in Seq(Rows) /\ [c EXCEPT !.rows[i] = r].rows = [c.rows EXCEPT ![i] = r]
  BY DEF Chains
<1> QED
  BY <1>1 DEF Wrote

LEMMA WroteAdded ==
  ASSUME NEW c \in Chains, NEW r \in Rows, NEW d \in Added(c, r)
  PROVE  \E t : Wrote(d, c, t, r) /\ (t \in DOMAIN c.rows => ~c.rows[t].occ)
<1>1. c.rows \in Seq(Rows) /\ Len(c.rows) \in Nat /\ DOMAIN c.rows = 1 .. Len(c.rows)
  BY DEF Chains
<1>2. CASE Tombs(c) = {}
  <2> DEFINE t == Len(c.rows) + 1
  <2>1. d.rows = Append(c.rows, r)
    BY <1>2 DEF Added, Chains
  <2>2. DOMAIN d.rows = 1 .. t /\ d.rows[t] = r
        /\ \A j \in 1 .. Len(c.rows) : d.rows[j] = c.rows[j]
    BY <1>1, <2>1
  <2>3. Wrote(d, c, t, r) /\ t \notin DOMAIN c.rows
    BY <1>1, <2>2 DEF Wrote
  <2> QED
    BY <2>3
<1>3. CASE Tombs(c) # {}
  <2>1. PICK t \in Tombs(c) : d.rows = [c.rows EXCEPT ![t] = r]
    BY <1>3 DEF Added, LastOf
  <2>2. t \in DOMAIN c.rows /\ ~c.rows[t].occ
    BY DEF Tombs
  <2>3. Wrote(d, c, t, r)
    BY <1>1, <2>1, <2>2 DEF Wrote
  <2> QED
    BY <2>2, <2>3
<1> QED
  BY <1>2, <1>3

-----------------------------------------------------------------------------
(* Occupied slots and rows *)

LEMMA OccSlotsDef ==
  ASSUME NEW tab, NEW s
  PROVE  s \in OccSlots(tab) <=>
           \E b \in DOMAIN tab : \E i \in DOMAIN tab[b].rows :
             tab[b].rows[i].occ /\ s = <<b, i>>
BY DEF OccSlots

LEMMA OccRowsDef ==
  ASSUME NEW tab, NEW r
  PROVE  r \in OccRows(tab) <=>
           \E b \in DOMAIN tab : \E i \in DOMAIN tab[b].rows :
             tab[b].rows[i].occ /\ r = tab[b].rows[i]
<1>1. \A s : s \in OccSlots(tab) <=>
        \E b \in DOMAIN tab : \E i \in DOMAIN tab[b].rows :
          tab[b].rows[i].occ /\ s = <<b, i>>
  BY OccSlotsDef
<1>2. ASSUME r \in OccRows(tab)
      PROVE  \E b \in DOMAIN tab : \E i \in DOMAIN tab[b].rows :
               tab[b].rows[i].occ /\ r = tab[b].rows[i]
  <2>1. PICK s \in OccSlots(tab) : r = tab[s[1]].rows[s[2]]
    BY <1>2 DEF OccRows
  <2> QED
    BY <1>1, <2>1
<1>3. ASSUME NEW b \in DOMAIN tab, NEW i \in DOMAIN tab[b].rows,
             tab[b].rows[i].occ, r = tab[b].rows[i]
      PROVE  r \in OccRows(tab)
  <2>1. <<b, i>> \in OccSlots(tab) /\ r = tab[<<b, i>>[1]].rows[<<b, i>>[2]]
    BY <1>1, <1>3
  <2> QED
    BY <2>1 DEF OccRows
<1> QED
  BY <1>2, <1>3

LEMMA EmptyHoldsNothing ==
  ASSUME NEW n
  PROVE  OccSlots(EmptyTable(n)) = {} /\ OccRows(EmptyTable(n)) = {}
<1>1. \A b \in DOMAIN EmptyTable(n) : \A i \in DOMAIN EmptyTable(n)[b].rows :
        ~EmptyTable(n)[b].rows[i].occ
  BY DEF EmptyTable, EmptyChain, EmptyRow
<1> QED
  BY <1>1, OccSlotsDef, OccRowsDef

(* No two slots of a good table answer for the same text. *)
LEMMA OneSlotPerText ==
  ASSUME NEW tab, NEW n, GoodTable(tab, n),
         NEW a \in DOMAIN tab, NEW i \in DOMAIN tab[a].rows, tab[a].rows[i].occ,
         NEW b \in DOMAIN tab, NEW j \in DOMAIN tab[b].rows, tab[b].rows[j].occ,
         Text[tab[a].rows[i].key] = Text[tab[b].rows[j].key]
  PROVE  a = b /\ i = j
<1>1. GoodChain(tab[a], a, n) /\ GoodChain(tab[b], b, n)
  BY DEF GoodTable
<1>2. /\ tab[a].rows[i].key \in Keys /\ BucketOf(tab[a].rows[i].key, n) = a
      /\ tab[b].rows[j].key \in Keys /\ BucketOf(tab[b].rows[j].key, n) = b
  BY <1>1 DEF GoodChain
<1>3. a = b
  BY <1>2, SameKeyIsSameText
<1> QED
  BY <1>1, <1>3 DEF GoodChain

(* Rows that are told apart by the text of their keys *)
Distinct(R) ==
  /\ \A r \in R : r \in Rows /\ r.occ /\ r.key \in Keys
  /\ \A r, q \in R : Text[r.key] = Text[q.key] => r = q

LEMMA GoodTableDistinct ==
  ASSUME NEW tab, NEW n, GoodTable(tab, n)
  PROVE  Distinct(OccRows(tab))
<1>1. ASSUME NEW r \in OccRows(tab) PROVE r \in Rows /\ r.occ /\ r.key \in Keys
  <2> PICK b \in DOMAIN tab : \E i \in DOMAIN tab[b].rows :
          tab[b].rows[i].occ /\ r = tab[b].rows[i]
    BY OccRowsDef
  <2>1. PICK i \in DOMAIN tab[b].rows : tab[b].rows[i].occ /\ r = tab[b].rows[i]
    OBVIOUS
  <2>2. GoodChain(tab[b], b, n)
    BY DEF GoodTable
  <2> QED
    BY <2>1, <2>2 DEF GoodChain, Chains
<1>2. ASSUME NEW r \in OccRows(tab), NEW q \in OccRows(tab), Text[r.key] = Text[q.key]
      PROVE  r = q
  <2> PICK a \in DOMAIN tab : \E i \in DOMAIN tab[a].rows :
          tab[a].rows[i].occ /\ r = tab[a].rows[i]
    BY OccRowsDef
  <2>1. PICK i \in DOMAIN tab[a].rows : tab[a].rows[i].occ /\ r = tab[a].rows[i]
    OBVIOUS
  <2> PICK b \in DOMAIN tab : \E j \in DOMAIN tab[b].rows :
          tab[b].rows[j].occ /\ q = tab[b].rows[j]
    BY OccRowsDef
  <2>2. PICK j \in DOMAIN tab[b].rows : tab[b].rows[j].occ /\ q = tab[b].rows[j]
    OBVIOUS
  <2> QED
    BY <1>2, <2>1, <2>2, OneSlotPerText
<1> QED
  BY <1>1, <1>2 DEF Distinct

(* An occupied row written into a slot that was not occupied *)
LEMMA WriteAdds ==
  ASSUME NEW tab, NEW b \in DOMAIN tab, NEW d, NEW t, NEW r,
         Wrote(d, tab[b], t, r), r.occ, t \in DOMAIN tab[b].rows => ~tab[b].rows[t].occ,
         NEW new, Swapped(new, tab, b, d)
  PROVE  /\ OccSlots(new) = OccSlots(tab) \cup {<<b, t>>}
         /\ <<b, t>> \notin OccSlots(tab)
         /\ OccRows(new) = OccRows(tab) \cup {r}
<1>1. DOMAIN new = DOMAIN tab /\ new[b] = d /\ \A a \in DOMAIN tab : a # b => new[a] = tab[a]
  BY DEF Swapped
<1>2. <<b, t>> \notin OccSlots(tab)
  BY OccSlotsDef
<1>3. OccSlots(new) \subseteq OccSlots(tab) \cup {<<b, t>>}
  BY <1>1, OccSlotsDef DEF Wrote
<1>4. OccSlots(tab) \cup {<<b, t>>} \subseteq OccSlots(new)
  BY <1>1, OccSlotsDef DEF Wrote
<1>5. OccRows(new) \subseteq OccRows(tab) \cup {r}
  BY <1>1, OccRowsDef DEF Wrote
<1>6. OccRows(tab) \cup {r} \subseteq OccRows(new)
  BY <1>1, OccRowsDef DEF Wrote
<1> QED
  BY <1>2, <1>3, <1>4, <1>5, <1>6

(* A row written over an occupied one, which is thereby gone *)
LEMMA WriteOver ==
  ASSUME NEW tab, NEW n, GoodTable(tab, n), NEW b \in DOMAIN tab, NEW d, NEW r,
         NEW t \in DOMAIN tab[b].rows, tab[b].rows[t].occ, Wrote(d, tab[b], t, r),
         NEW old, old = tab[b].rows[t], NEW new, Swapped(new, tab, b, d)
  PROVE  /\ <<b, t>> \in OccSlots(tab) /\ old \in OccRows(tab)
         /\ DOMAIN new = DOMAIN tab
         /\ \A a \in DOMAIN tab :
              /\ DOMAIN new[a].rows = DOMAIN tab[a].rows
              /\ \A i \in DOMAIN tab[a].rows :
                   new[a].rows[i] = IF a = b /\ i = t THEN r ELSE tab[a].rows[i]
         /\ \A q : q \in OccRows(new) => q \in (OccRows(tab) \ {old}) \cup {r}
         /\ OccRows(tab) \ {old} \subseteq OccRows(new)
<1>1. DOMAIN new = DOMAIN tab /\ new[b] = d /\ \A a \in DOMAIN tab : a # b => new[a] = tab[a]
  BY DEF Swapped
<1>2. <<b, t>> \in OccSlots(tab) /\ old \in OccRows(tab)
  BY OccSlotsDef, OccRowsDef
<1>3. /\ DOMAIN d.rows = DOMAIN tab[b].rows /\ d.rows[t] = r
      /\ \A j \in DOMAIN tab[b].rows : j # t => d.rows[j] = tab[b].rows[j]
  BY DEF Wrote
<1>4. ASSUME NEW a \in DOMAIN tab, NEW i \in DOMAIN tab[a].rows, tab[a].rows[i].occ,
             tab[a].rows[i] = old
      PROVE  a = b /\ i = t
  BY <1>4, OneSlotPerText
<1>5. ASSUME NEW a \in DOMAIN tab
      PROVE  /\ DOMAIN new[a].rows = DOMAIN tab[a].rows
             /\ \A i \in DOMAIN tab[a].rows :
                  new[a].rows[i] = IF a = b /\ i = t THEN r ELSE tab[a].rows[i]
  BY <1>1, <1>3
<1>7. ASSUME NEW q \in OccRows(new)
      PROVE  q \in (OccRows(tab) \ {old}) \cup {r}
  <2> PICK a \in DOMAIN tab : \E i \in DOMAIN tab[a].rows :
          new[a].rows[i].occ /\ q = new[a].rows[i]
    BY <1>1, <1>5, OccRowsDef
  <2>1. PICK i \in DOMAIN tab[a].rows : new[a].rows[i].occ /\ q = new[a].rows[i]
    OBVIOUS
  <2>2. CASE a = b /\ i = t
    BY <1>5, <2>1, <2>2
  <2>3. CASE ~(a = b /\ i = t)
    BY <1>4, <1>5, <2>1, <2>3, OccRowsDef
  <2> QED
    BY <2>2, <2>3
<1>8. ASSUME NEW q \in OccRows(tab), q # old PROVE q \in OccRows(new)
  <2> PICK a \in DOMAIN tab : \E i \in DOMAIN tab[a].rows :
          tab[a].rows[i].occ /\ q = tab[a].rows[i]
    BY OccRowsDef
  <2>1. PICK i \in DOMAIN tab[a].rows : tab[a].rows[i].occ /\ q = tab[a].rows[i]
    OBVIOUS
  <2>2. new[a].rows[i] = q
    BY <1>5, <1>8, <2>1
  <2> QED
    BY <1>1, <1>5, <2>1, <2>2, OccRowsDef
<1> QED
  BY <1>1, <1>2, <1>5, <1>7, <1>8

LEMMA WriteReplaces ==
  ASSUME NEW tab, NEW n, GoodTable(tab, n), NEW b \in DOMAIN tab, NEW d, NEW r, r.occ,
         NEW t \in DOMAIN tab[b].rows, tab[b].rows[t].occ, Wrote(d, tab[b], t, r),
         NEW old, old = tab[b].rows[t], NEW new, Swapped(new, tab, b, d)
  PROVE  /\ old \in OccRows(tab)
         /\ OccSlots(new) = OccSlots(tab)
         /\ OccRows(new) = (OccRows(tab) \ {old}) \cup {r}
<1>3. /\ <<b, t>> \in OccSlots(tab) /\ old \in OccRows(tab)
      /\ DOMAIN new = DOMAIN tab
      /\ \A a \in DOMAIN tab :
           /\ DOMAIN new[a].rows = DOMAIN tab[a].rows
           /\ \A i \in DOMAIN tab[a].rows :
                new[a].rows[i] = IF a = b /\ i = t THEN r ELSE tab[a].rows[i]
      /\ \A q : q \in OccRows(new) => q \in (OccRows(tab) \ {old}) \cup {r}
      /\ OccRows(tab) \ {old} \subseteq OccRows(new)
  BY WriteOver
<1>1. \A s : s \in OccSlots(new) <=> s \in OccSlots(tab)
  BY <1>3, OccSlotsDef
<1>2. r \in OccRows(new)
  <2>1. t \in DOMAIN new[b].rows /\ new[b].rows[t] = r
    BY <1>3
  <2> QED
    BY <1>3, <2>1, OccRowsDef
<1> QED
  BY <1>1, <1>2, <1>3

(* Table new is tab without the entry old in slot s. *)
Lost(new, tab, s, old) ==
  /\ s \in OccSlots(tab) /\ old \in OccRows(tab)
  /\ OccSlots(new) = OccSlots(tab) \ {s}
  /\ OccRows(new) = OccRows(tab) \ {old}

LEMMA WriteDrops ==
  ASSUME NEW tab, NEW n, GoodTable(tab, n), NEW b \in DOMAIN tab, NEW d, NEW r, r = EmptyRow,
         NEW t \in DOMAIN tab[b].rows, tab[b].rows[t].occ, Wrote(d, tab[b], t, r),
         NEW old, old = tab[b].rows[t], NEW new, Swapped(new, tab, b, d)
  PROVE  Lost(new, tab, <<b, t>>, old)
<1>3. /\ <<b, t>> \in OccSlots(tab) /\ old \in OccRows(tab)
      /\ DOMAIN new = DOMAIN tab
      /\ \A a \in DOMAIN tab :
           /\ DOMAIN new[a].rows = DOMAIN tab[a].rows
           /\ \A i \in DOMAIN tab[a].rows :
                new[a].rows[i] = IF a = b /\ i = t THEN r ELSE tab[a].rows[i]
      /\ \A q : q \in OccRows(new) => q \in (OccRows(tab) \ {old}) \cup {r}
      /\ OccRows(tab) \ {old} \subseteq OccRows(new)
  BY WriteOver
<1>4. ~r.occ
  BY DEF EmptyRow
<1>1. \A s : s \in OccSlots(new) <=> s \in OccSlots(tab) \ {<<b, t>>}
  BY <1>3, <1>4, OccSlotsDef
<1>2. r \notin OccRows(new)
  BY <1>4, OccRowsDef
<1> QED
  BY <1>1, <1>2, <1>3 DEF Lost

-----------------------------------------------------------------------------
(* What a step does to the entries *)

(* nc_hashmap_insert_bucket replaces the entry q of the key's text ... *)
Replaces(k, v, q) ==
  /\ q \in OccRows(table) /\ Text[q.key] = Text[k]
  /\ OccSlots(table') = OccSlots(table)
  /\ OccRows(table') = (OccRows(table) \ {q}) \cup {Row(k, v)}
  /\ owned' = (owned \ Managed(q.key, q.value)) \cup Managed(k, v)
  /\ pc' = "idle" /\ Return("put", k, v, TRUE)
  /\ UNCHANGED size

(* ... or adds one, if there is none with that text. *)
Adds(k, v) ==
  /\ \A r \in OccRows(table) : Text[r.key] # Text[k]
  /\ \E s : s \notin OccSlots(table) /\ OccSlots(table') = OccSlots(table) \cup {s}
  /\ OccRows(table') = OccRows(table) \cup {Row(k, v)}
  /\ owned' = owned \cup Managed(k, v)
  /\ pc' = "idle" /\ Return("put", k, v, TRUE)
  /\ size' = size + 1

(* nc_hashmap_remove and nc_hashmap_steal take out the entry q. *)
Drops(call, k, q) ==
  /\ q \in OccRows(table) /\ Text[q.key] = Text[k]
  /\ \E s \in OccSlots(table) : OccSlots(table') = OccSlots(table) \ {s}
  /\ OccRows(table') = OccRows(table) \ {q}
  /\ owned' = owned \ Managed(q.key, q.value)
  /\ pc' = "idle" /\ Return(call, k, Null, TRUE)
  /\ size' = size - 1

(* A row of the bucket that a key hashes to answers for it if any does. *)
LEMMA MissIsAbsent ==
  ASSUME NEW tab, NEW n \in Nat \ {0}, GoodTable(tab, n), NEW k \in Keys,
         Hits(tab[BucketOf(k, n)], k) = {}, NEW r \in OccRows(tab)
  PROVE  Text[r.key] # Text[k]
<1> SUFFICES ASSUME Text[r.key] = Text[k] PROVE FALSE
  OBVIOUS
<1> PICK b \in DOMAIN tab : \E i \in DOMAIN tab[b].rows :
      tab[b].rows[i].occ /\ r = tab[b].rows[i]
  BY OccRowsDef
<1>1. PICK i \in DOMAIN tab[b].rows : tab[b].rows[i].occ /\ r = tab[b].rows[i]
  OBVIOUS
<1>2. GoodChain(tab[b], b, n)
  BY DEF GoodTable
<1>3. r.key \in Keys /\ BucketOf(r.key, n) = b
  BY <1>1, <1>2 DEF GoodChain
<1>4. BucketOf(k, n) = b /\ SameKey(r.key, k)
  BY <1>3, SameKeyIsSameText
<1> QED
  BY <1>1, <1>4 DEF Hits

LEMMA InsertEffect ==
  ASSUME IndInv, status = "live", NEW k \in Keys, NEW v \in Vals, InsertBucket(k, v)
  PROVE  \/ \E q : Replaces(k, v, q)
         \/ Adds(k, v)
         \/ /\ UNCHANGED <<table, size, owned>>
            /\ \/ pc' = "idle" /\ Return("put", k, v, FALSE)
               \/ pc' = "spin" /\ UNCHANGED last
<1> DEFINE b == BucketOf(k, n_buckets)
           c == table[b]
<1>1. n_buckets \in Nat \ {0} /\ GoodTable(table, n_buckets)
  BY IndFacts
<1>2. b \in DOMAIN table /\ c \in Chains /\ GoodChain(c, b, n_buckets)
  BY <1>1, BucketInRange DEF GoodTable
<1>3. Row(k, v) \in Rows /\ Row(k, v).occ
  BY DEF Row, Rows
<1>4. ASSUME NEW i \in FirstOf(Hits(c, k)),
             table' = [table EXCEPT ![b] = [@ EXCEPT !.rows[i] = Row(k, v)]],
             owned' = (owned \ Managed(c.rows[i].key, c.rows[i].value))
                        \cup Managed(k, v),
             pc' = "idle", Return("put", k, v, TRUE), UNCHANGED size
      PROVE  \E q : Replaces(k, v, q)
  <2>1. i \in DOMAIN c.rows /\ c.rows[i].occ /\ Text[c.rows[i].key] = Text[k]
    BY DEF FirstOf, Hits, SameKey
  <2>6. PICK d, r : d = [c EXCEPT !.rows[i] = r] /\ r = Row(k, v)
    OBVIOUS
  <2>2. Wrote(d, c, i, r) /\ r.occ
    BY <1>2, <1>3, <2>1, <2>6, WroteInPlace
  <2>3. Swapped(table', table, b, d)
    BY <1>2, <1>4, <2>6, SwappedExcept
  <2>4. /\ c.rows[i] \in OccRows(table)
        /\ OccSlots(table') = OccSlots(table)
        /\ OccRows(table') = (OccRows(table) \ {c.rows[i]}) \cup {r}
    <3>1. PICK old, new : old = c.rows[i] /\ new = table'
      OBVIOUS
    <3>2. /\ b \in DOMAIN table /\ i \in DOMAIN table[b].rows /\ table[b].rows[i].occ
          /\ Wrote(d, table[b], i, r) /\ old = table[b].rows[i]
      BY <1>2, <2>1, <2>2, <3>1
    <3>3. Swapped(new, table, b, d) /\ GoodTable(table, n_buckets)
      BY <1>1, <2>3, <3>1
    <3> HIDE DEF b, c
    <3>4. /\ old \in OccRows(table)
          /\ OccSlots(new) = OccSlots(table)
          /\ OccRows(new) = (OccRows(table) \ {old}) \cup {r}
      BY <2>2, <3>2, <3>3, WriteReplaces
    <3> QED
      BY <3>1, <3>4
  <2>5. Replaces(k, v, c.rows[i])
    BY <1>4, <2>1, <2>4, <2>6 DEF Replaces
  <2> QED
    BY <2>5
<1>5. ASSUME Hits(c, k) = {}, NEW d \in Added(c, Row(k, v)),
             table' = [table EXCEPT ![b] = d],
             size' = size + 1, owned' = owned \cup Managed(k, v),
             pc' = "idle", Return("put", k, v, TRUE)
      PROVE  Adds(k, v)
  <2>1. PICK t : Wrote(d, c, t, Row(k, v)) /\ (t \in DOMAIN c.rows => ~c.rows[t].occ)
    BY <1>2, <1>3, WroteAdded
  <2>2. /\ OccSlots(table') = OccSlots(table) \cup {<<b, t>>}
        /\ <<b, t>> \notin OccSlots(table)
        /\ OccRows(table') = OccRows(table) \cup {Row(k, v)}
    <3>1. Swapped(table', table, b, d)
      BY <1>2, <1>5, SwappedExcept
    <3>2. c = table[b]
      OBVIOUS
    <3> HIDE DEF b, c
    <3> QED
      BY <1>2, <1>3, <2>1, <3>1, <3>2, WriteAdds
  <2>3. \A r \in OccRows(table) : Text[r.key] # Text[k]
    BY <1>1, <1>5, MissIsAbsent
  <2> QED
    BY <1>5, <2>2, <2>3 DEF Adds
<1> QED
  BY <1>4, <1>5 DEF InsertBucket

LEMMA RemoveEffect ==
  ASSUME IndInv, Null \notin Keys, NEW call, NEW k \in Keys, Remove(call, k)
  PROVE  \/ \E q : Drops(call, k, q)
         \/ /\ UNCHANGED <<table, size, owned, drained>>
            /\ \/ /\ pc' = "idle" /\ Return(call, k, Null, FALSE)
                  /\ \A r \in OccRows(table) : Text[r.key] # Text[k]
               \/ pc' = "spin" /\ UNCHANGED last
<1> DEFINE b == BucketOf(k, n_buckets)
           c == table[b]
<1>1. /\ status = "live" /\ n_buckets \in Nat \ {0} /\ GoodTable(table, n_buckets)
      /\ pc = "idle"
  BY IndFacts DEF Remove, Ready
<1>2. b \in DOMAIN table /\ c \in Chains /\ GoodChain(c, b, n_buckets)
  BY <1>1, BucketInRange DEF GoodTable
<1>3. EmptyRow \in Rows /\ ~EmptyRow.occ
  BY DEF EmptyRow, Rows
<1>4. ASSUME NEW i \in Matches(c, k)
      PROVE  i \in DOMAIN c.rows /\ c.rows[i].occ /\ Text[c.rows[i].key] = Text[k]
  <2>1. i \in DOMAIN c.rows /\ SameKey(c.rows[i].key, k)
    BY DEF Matches
  <2> QED
    BY <1>2, <2>1, ConstantsAssumption DEF GoodChain, SameKey
<1>5. ASSUME NEW i \in FirstOf(Matches(c, k)),
             table' = [table EXCEPT ![b] = [@ EXCEPT !.rows[i] = EmptyRow]],
             size' = size - 1,
             owned' = owned \ Managed(c.rows[i].key, c.rows[i].value),
             Return(call, k, Null, TRUE), UNCHANGED pc
      PROVE  \E q : Drops(call, k, q)
  <2>1. i \in DOMAIN c.rows /\ c.rows[i].occ /\ Text[c.rows[i].key] = Text[k]
    BY <1>4 DEF FirstOf
  <2>6. PICK d, r : d = [c EXCEPT !.rows[i] = r] /\ r = EmptyRow
    OBVIOUS
  <2>2. Wrote(d, c, i, r) /\ r = EmptyRow
    BY <1>2, <1>3, <2>1, <2>6, WroteInPlace
  <2>3. Swapped(table', table, b, d)
    BY <1>2, <1>5, <2>6, SwappedExcept
  <2>4. /\ c.rows[i] \in OccRows(table) /\ <<b, i>> \in OccSlots(table)
        /\ OccSlots(table') = OccSlots(table) \ {<<b, i>>}
        /\ OccRows(table') = OccRows(table) \ {c.rows[i]}
    <3>1. PICK old, new : old = c.rows[i] /\ new = table'
      OBVIOUS
    <3>2. /\ b \in DOMAIN table /\ i \in DOMAIN table[b].rows /\ table[b].rows[i].occ
          /\ Wrote(d, table[b], i, r) /\ old = table[b].rows[i]
      BY <1>2, <2>1, <2>2, <3>1
    <3>3. Swapped(new, table, b, d) /\ GoodTable(table, n_buckets)
      BY <1>1, <2>3, <3>1
    <3> HIDE DEF b, c
    <3>4. Lost(new, table, <<b, i>>, old)
      BY <2>2, <3>2, <3>3, WriteDrops
    <3> QED
      BY <3>1, <3>4 DEF Lost
  <2>5. Drops(call, k, c.rows[i])
    BY <1>1, <1>5, <2>1, <2>4 DEF Drops
  <2> QED
    BY <2>5
<1>6. ASSUME Matches(c, k) = {}, NEW r \in OccRows(table)
      PROVE  Text[r.key] # Text[k]
  <2>1. Hits(c, k) = {}
    BY <1>6 DEF Hits, Matches
  <2> QED
    BY <1>1, <2>1, MissIsAbsent
<1> QED
  BY <1>1, <1>5, <1>6 DEF Remove

(* The row the resize is at goes into the new table as it is. *)
LEMMA RehashEffect ==
  ASSUME IndInv, RehashRow
  PROVE  /\ \E s : s \notin OccSlots(fresh) /\ OccSlots(fresh') = OccSlots(fresh) \cup {s}
         /\ OccRows(fresh') = OccRows(fresh) \cup {Scanned}
         /\ \A r \in OccRows(fresh) : Text[r.key] # Text[Scanned.key]
<1> DEFINE n == n_buckets * IncreaseFactor
           k == Scanned.key
           b == BucketOf(k, n)
           c == fresh[b]
<1>1. Rehashing /\ Scanned.occ /\ Hits(c, k) = {}
  BY DEF RehashRow
<1>2. PICK d \in Added(c, Row(k, Scanned.value)) : fresh' = [fresh EXCEPT ![b] = d]
  BY DEF RehashRow
<1>3. n \in Nat \ {0} /\ GoodTable(fresh, n) /\ k \in Keys /\ Scanned \in Rows
  BY <1>1, RehashFacts
<1>4. b \in DOMAIN fresh /\ c \in Chains
  BY <1>3, BucketInRange DEF GoodTable
<1>5. Row(k, Scanned.value) = Scanned
  BY <1>1, <1>3 DEF Row, Rows
<1>6. PICK t : Wrote(d, c, t, Scanned) /\ (t \in DOMAIN c.rows => ~c.rows[t].occ)
  BY <1>2, <1>3, <1>4, <1>5, WroteAdded
<1>7. /\ OccSlots(fresh') = OccSlots(fresh) \cup {<<b, t>>}
      /\ <<b, t>> \notin OccSlots(fresh)
      /\ OccRows(fresh') = OccRows(fresh) \cup {Scanned}
  <2>1. Swapped(fresh', fresh, b, d)
    BY <1>2, <1>4, SwappedExcept
  <2>2. c = fresh[b]
    OBVIOUS
  <2> HIDE DEF b, c, k
  <2> QED
    BY <1>1, <1>4, <1>6, <2>1, <2>2, WriteAdds
<1>8. \A r \in OccRows(fresh) : Text[r.key] # Text[k]
  BY <1>1, <1>3, MissIsAbsent
<1> QED
  BY <1>7, <1>8

-----------------------------------------------------------------------------
(* Counting *)

Counts(n, S) == n \in Nat /\ IsFiniteSet(S) /\ n = Cardinality(S)

LEMMA CountsNone == ASSUME NEW S, S = {} PROVE Counts(0, S)
BY FS_EmptySet DEF Counts

LEMMA CountsMore ==
  ASSUME NEW n, NEW S, Counts(n, S), NEW x, x \notin S, NEW T, T = S \cup {x}
  PROVE  Counts(n + 1, T)
BY FS_AddElement DEF Counts

LEMMA CountsLess ==
  ASSUME NEW n, NEW S, Counts(n, S), NEW x \in S, NEW T, T = S \ {x}
  PROVE  Counts(n - 1, T)
<1>1. IsFiniteSet(T) /\ Cardinality(T) = Cardinality(S) - 1 /\ Cardinality(T) \in Nat
  BY FS_RemoveElement, FS_CardinalityType DEF Counts
<1> QED
  BY <1>1 DEF Counts

LEMMA CountsSubset ==
  ASSUME NEW m, NEW S, Counts(m, S), NEW n, NEW T, Counts(n, T), S \subseteq T
  PROVE  m <= n
BY FS_Subset DEF Counts

(* A table of n entries, by slot and by row *)
Holds(n, tab) == Counts(n, OccSlots(tab)) /\ Counts(n, OccRows(tab))

LEMMA HoldsReplaced ==
  ASSUME IndInv, NEW k, NEW v, NEW q, Replaces(k, v, q), Holds(size, table)
  PROVE  Holds(size', table')
<1>1. /\ q \in OccRows(table) /\ Text[q.key] = Text[k] /\ size' = size
      /\ OccSlots(table') = OccSlots(table)
      /\ OccRows(table') = (OccRows(table) \ {q}) \cup {Row(k, v)}
  BY DEF Replaces
<1>2. Distinct(OccRows(table))
  BY IndFacts, GoodTableDistinct
<1>3. Counts(size', OccRows(table'))
  <2>1. CASE Row(k, v) = q
    <3>1. OccRows(table') = OccRows(table)
      BY <1>1, <2>1
    <3> QED
      BY <1>1, <3>1 DEF Holds
  <2>2. CASE Row(k, v) # q
    <3>1. Row(k, v) \notin OccRows(table)
      BY <1>1, <1>2, <2>2 DEF Distinct, Row
    <3>2. Counts(size - 1, OccRows(table) \ {q})
      BY <1>1, CountsLess DEF Holds
    <3>3. Counts(size - 1 + 1, OccRows(table'))
      BY <1>1, <3>1, <3>2, CountsMore
    <3>4. size - 1 + 1 = size'
      BY <1>1 DEF Holds, Counts
    <3> QED
      BY <3>3, <3>4
  <2> QED
    BY <2>1, <2>2
<1>4. Counts(size', OccSlots(table'))
  BY <1>1 DEF Holds
<1> QED
  BY <1>3, <1>4 DEF Holds

LEMMA HoldsAdded ==
  ASSUME NEW k, NEW v, Adds(k, v), Holds(size, table)
  PROVE  Holds(size', table')
<1>1. PICK s : s \notin OccSlots(table) /\ OccSlots(table') = OccSlots(table) \cup {s}
  BY DEF Adds
<1>2. Row(k, v) \notin OccRows(table)
  BY DEF Adds, Row
<1>3. Counts(size + 1, OccSlots(table'))
  BY <1>1, CountsMore DEF Holds
<1>4. OccRows(table') = OccRows(table) \cup {Row(k, v)} /\ size' = size + 1
  BY DEF Adds
<1>5. Counts(size + 1, OccRows(table'))
  BY <1>2, <1>4, CountsMore DEF Holds
<1> QED
  BY <1>3, <1>4, <1>5 DEF Holds

LEMMA HoldsDropped ==
  ASSUME NEW call, NEW k, NEW q, Drops(call, k, q), Holds(size, table)
  PROVE  Holds(size', table')
<1>1. PICK s \in OccSlots(table) : OccSlots(table') = OccSlots(table) \ {s}
  BY DEF Drops
<1>2. Counts(size - 1, OccSlots(table'))
  BY <1>1, CountsLess DEF Holds
<1>3. q \in OccRows(table) /\ OccRows(table') = OccRows(table) \ {q} /\ size' = size - 1
  BY DEF Drops
<1>4. Counts(size - 1, OccRows(table'))
  BY <1>3, CountsLess DEF Holds
<1> QED
  BY <1>2, <1>3, <1>4 DEF Holds

(* The tables hold as many entries as are counted, in the map and in the   *)
(* middle of a resize, and a resize puts nothing into the new table that   *)
(* the old one does not hold.                                              *)
SizeInv ==
  /\ Holds(size, table)
  /\ pc = "resize" => Holds(items, fresh) /\ OccRows(fresh) \subseteq OccRows(table)

LEMMA SizeUnchanged ==
  ASSUME SizeInv, UNCHANGED <<table, size>>, pc' # "resize"
  PROVE  SizeInv'
BY DEF SizeInv, Holds, OccSlots, OccRows

LEMMA HoldsEmpty ==
  ASSUME NEW n PROVE Holds(0, EmptyTable(n))
BY EmptyHoldsNothing, CountsNone DEF Holds

LEMMA SizeInsert ==
  ASSUME IndInv, SizeInv, status = "live", NEW k \in Keys, NEW v \in Vals,
         InsertBucket(k, v)
  PROVE  SizeInv'
<1>1. pc' # "resize"
  BY DEF InsertBucket
<1>2. Holds(size, table)
  BY DEF SizeInv
<1>3. CASE UNCHANGED <<table, size>>
  BY <1>1, <1>3, SizeUnchanged
<1>4. ASSUME NEW q, Replaces(k, v, q) PROVE Holds(size', table')
  BY <1>2, <1>4, HoldsReplaced
<1>5. ASSUME Adds(k, v) PROVE Holds(size', table')
  BY <1>2, <1>5, HoldsAdded
<1>6. ASSUME Holds(size', table') PROVE SizeInv'
  BY <1>1, <1>6 DEF SizeInv
<1> QED
  BY <1>3, <1>4, <1>5, <1>6, InsertEffect

LEMMA ScannedInTable ==
  ASSUME IndInv, Rehashing, Scanned.occ
  PROVE  Scanned \in OccRows(table)
<1>1. scan[1] \in DOMAIN table /\ scan[2] \in DOMAIN table[scan[1]].rows
  BY DEF IndInv, TypeOK, Rehashing, IsTable
<1> QED
  BY <1>1, OccRowsDef DEF Scanned

LEMMA SizeRehash == ASSUME IndInv, SizeInv, RehashRow PROVE SizeInv'
<1>1. /\ pc = "resize" /\ items' = items + 1 /\ Rehashing /\ Scanned.occ
      /\ UNCHANGED <<table, size, pc>>
  BY DEF RehashRow, Rehashing, MapVars
<1>2. PICK s : s \notin OccSlots(fresh) /\ OccSlots(fresh') = OccSlots(fresh) \cup {s}
  BY RehashEffect
<1>3. OccRows(fresh') = OccRows(fresh) \cup {Scanned} /\ Scanned \notin OccRows(fresh)
  BY RehashEffect
<1>4. Holds(items, fresh) /\ OccRows(fresh) \subseteq OccRows(table)
  BY <1>1 DEF SizeInv
<1>5. Counts(items + 1, OccSlots(fresh'))
  BY <1>2, <1>4, CountsMore DEF Holds
<1>6. Counts(items + 1, OccRows(fresh'))
  BY <1>3, <1>4, CountsMore DEF Holds
<1>7. OccRows(fresh') \subseteq OccRows(table)
  BY <1>1, <1>3, <1>4, ScannedInTable
<1>8. Holds(size, table)
  BY DEF SizeInv
<1> QED
  BY <1>1, <1>5, <1>6, <1>7, <1>8 DEF SizeInv, Holds

LEMMA SizeInit == Init => SizeInv
BY HoldsEmpty DEF Init, SizeInv

LEMMA SizeStep ==
  ASSUME Null \notin Keys
  PROVE  IndInv /\ SizeInv /\ [Next]_vars => SizeInv'
<1> SUFFICES ASSUME IndInv, SizeInv, [Next]_vars PROVE SizeInv'
  OBVIOUS
<1>1. CASE New
  <2>1. pc' # "resize" /\ status = "none"
    BY <1>1, IndFacts DEF New
  <2>2. CASE table' = EmptyTable(InitialSize) /\ size' = 0
    BY <2>1, <2>2, HoldsEmpty DEF SizeInv
  <2> QED
    BY <1>1, <2>1, <2>2, SizeUnchanged DEF New
<1>2. CASE Free
  <2>1. pc' = "idle" /\ table' = EmptyTable(0) /\ size' = 0
    BY <1>2 DEF Free, Ready
  <2> QED
    BY <2>1, HoldsEmpty DEF SizeInv
<1>3. ASSUME NEW k \in Keys, NEW v \in Vals, Put(k, v) PROVE SizeInv'
  BY <1>3, SizeInsert DEF Put, Ready
<1>4. ASSUME NEW k \in Keys, NEW v \in Vals, StartResize(k, v) PROVE SizeInv'
  <2>1. UNCHANGED <<table, size>> /\ pc = "idle"
    BY <1>4 DEF StartResize, MapVars, Ready
  <2>2. CASE UNCHANGED pc
    BY <2>1, <2>2, SizeUnchanged
  <2>3. CASE fresh' = EmptyTable(n_buckets * IncreaseFactor) /\ items' = 0
    <3>1. Holds(items', fresh') /\ OccRows(fresh') = {}
      BY <2>3, HoldsEmpty, EmptyHoldsNothing
    <3>2. Holds(size', table')
      BY <2>1 DEF SizeInv, Holds
    <3> QED
      BY <3>1, <3>2 DEF SizeInv
  <2> QED
    BY <1>4, <2>2, <2>3 DEF StartResize
<1>5. ASSUME NEW call, NEW k, NEW v, CallOnNull(call, k, v) PROVE SizeInv'
  <2>1. UNCHANGED <<table, size, pc>> /\ pc = "idle"
    BY <1>5, IndFacts DEF CallOnNull, MapVars
  <2> QED
    BY <2>1, SizeUnchanged
<1>6. ASSUME NEW call, NEW k \in Keys, Remove(call, k) PROVE SizeInv'
  <2>1. pc' # "resize" /\ Holds(size, table)
    BY <1>6 DEF Remove, Ready, SizeInv
  <2>2. CASE UNCHANGED <<table, size>>
    BY <2>1, <2>2, SizeUnchanged
  <2>3. ASSUME NEW q, Drops(call, k, q) PROVE SizeInv'
    <3>1. Holds(size', table')
      BY <2>1, <2>3, HoldsDropped
    <3> QED
      BY <2>1, <3>1 DEF SizeInv
  <2> QED
    BY <1>6, <2>2, <2>3, RemoveEffect
<1>7. CASE RehashRow
  BY <1>7, SizeRehash
<1>8. CASE RehashOutOfMemory \/ RehashAgain
  BY <1>8, SizeUnchanged DEF RehashOutOfMemory, RehashAgain, GiveUpResize
<1>9. CASE FinishResize
  <2>1. table' = fresh /\ size' = items /\ pc = "resize" /\ pc' = "insert"
    BY <1>9 DEF FinishResize
  <2>2. Holds(size', table')
    BY <2>1 DEF SizeInv
  <2> QED
    BY <2>1, <2>2 DEF SizeInv
<1>10. CASE PutResized
  <2>1. status = "live" /\ arg \in Keys \X Vals /\ InsertBucket(arg[1], arg[2])
    BY <1>10 DEF IndInv, TypeOK, PutResized
  <2> QED
    BY <2>1, SizeInsert
<1>11. CASE RehashSkip \/ Spin \/ UNCHANGED vars
  <2>1. UNCHANGED <<table, size, pc, fresh, items>>
    BY <1>11 DEF RehashSkip, MapVars, Spin, vars, resizing
  <2> QED
    BY <2>1 DEF SizeInv, Holds
<1> QED
  BY <1>1, <1>2, <1>3, <1>4, <1>5, <1>6, <1>7, <1>8, <1>9, <1>10, <1>11 DEF Next, Running

(* The size nc_hashmap_size answers is the number of entries, whatever was *)
(* put, replaced, removed or rehashed, for a client that does not use NULL *)
(* as a key (a tombstone answers for that one, and is counted as removed). *)
THEOREM SizeAlwaysCounts ==
  ASSUME Null \notin Keys
  PROVE  Spec => []SizeCounts
<1>1. SizeInv => SizeCounts
  BY DEF SizeInv, Holds, Counts, SizeCounts
<1> QED
  BY <1>1, InitInd, NextInd, SizeInit, SizeStep, PTL DEF Spec

-----------------------------------------------------------------------------
(* Load *)

(* A table that grows has room for at least one more entry than before.    *)
LEMMA GrownLimit ==
  ASSUME IncreaseFactor > 1, NEW n \in Nat \ {0}
  PROVE  NextSize(n) + 1 <= NextSize(n * IncreaseFactor)
<1>1. PICK g \in Nat : IncreaseFactor = 2 + g
  <2>1. IncreaseFactor \in Nat /\ IncreaseFactor - 2 \in Nat
    BY ConstantsAssumption
  <2>2. IncreaseFactor = 2 + (IncreaseFactor - 2)
    BY <2>1
  <2> QED
    BY <2>1, <2>2
<1>2. n * g \in Nat
  OBVIOUS
<1>3. PICK m \in Nat : m = n * IncreaseFactor
  BY <1>1
<1>4. m = 2 * n + n * g
  BY <1>1, <1>3
<1>5. m >= 2 * n
  BY <1>2, <1>3, <1>4
<1>6. (7 * n) \div 10 + 1 <= (7 * m) \div 10
  BY <1>5
<1> QED
  BY <1>3, <1>6 DEF NextSize

(* Between calls, and while a resize runs, the entries stay within the     *)
(* limit; a put that has resized finds room.                               *)
LoadInv ==
  status = "live" =>
    /\ next_size = NextSize(n_buckets)
    /\ pc \in {"idle", "resize"} => size <= next_size
    /\ pc = "insert" => size < next_size

LEMMA LoadInsert ==
  ASSUME IndInv, LoadInv, status = "live", size < next_size,
         NEW k \in Keys, NEW v \in Vals, InsertBucket(k, v)
  PROVE  LoadInv'
<1>1. size \in Int /\ next_size \in Nat
  BY IndFacts
<1>2. UNCHANGED <<n_buckets, next_size>> /\ pc' \in {"idle", "spin"} /\ size' \in {size, size + 1}
  BY DEF InsertBucket
<1>3. NextSize(n_buckets)' = NextSize(n_buckets)
  BY <1>2
<1> QED
  BY <1>1, <1>2, <1>3 DEF LoadInv

(* A step that leaves the limit and the number of entries. *)
LEMMA LoadUnchanged ==
  ASSUME LoadInv, UNCHANGED <<n_buckets, next_size, size>>,
         status' = "live" => status = "live",
         pc' \in {pc, "spin"} \/ {pc, pc'} \subseteq {"idle", "resize"}
  PROVE  LoadInv'
<1>1. NextSize(n_buckets)' = NextSize(n_buckets)
  OBVIOUS
<1> QED
  BY <1>1 DEF LoadInv

LEMMA LoadFinish ==
  ASSUME IncreaseFactor > 1, IndInv, SizeInv, LoadInv, FinishResize
  PROVE  LoadInv'
<1>1. /\ pc = "resize" /\ pc' = "insert" /\ size' = items
      /\ n_buckets' = n_buckets * IncreaseFactor
      /\ next_size' = NextSize(n_buckets * IncreaseFactor)
  BY DEF FinishResize
<1>2. status = "live" /\ n_buckets \in Nat \ {0}
  BY <1>1, IndFacts
<1>3. items <= size /\ items \in Nat /\ size \in Nat
  BY <1>1, CountsSubset DEF SizeInv, Holds, Counts
<1>4. size <= NextSize(n_buckets)
  BY <1>1, <1>2 DEF LoadInv
<1>5. NextSize(n_buckets) + 1 <= NextSize(n_buckets * IncreaseFactor)
  BY <1>2, GrownLimit
<1>6. NextSize(n_buckets) \in Nat /\ NextSize(n_buckets * IncreaseFactor) \in Nat
  BY <1>2, GrownSize DEF NextSize
<1>7. size' < next_size'
  BY <1>1, <1>3, <1>4, <1>5, <1>6
<1>8. next_size' = NextSize(n_buckets')
  BY <1>1
<1> QED
  BY <1>1, <1>7, <1>8 DEF LoadInv

LEMMA LoadInit == Init => LoadInv
BY DEF Init, LoadInv

LEMMA LoadStep ==
  ASSUME IncreaseFactor > 1
  PROVE  IndInv /\ SizeInv /\ LoadInv /\ [Next]_vars => LoadInv'
<1> SUFFICES ASSUME IndInv, SizeInv, LoadInv, [Next]_vars PROVE LoadInv'
  OBVIOUS
<1>1. CASE New
  <2>1. status = "none" /\ pc = "idle" /\ UNCHANGED pc
    BY <1>1, IndFacts DEF New
  <2>2. CASE n_buckets' = InitialSize /\ next_size' = NextSize(InitialSize) /\ size' = 0
    <3>1. NextSize(InitialSize) \in Nat
      BY ConstantsAssumption DEF NextSize
    <3>2. next_size' = NextSize(n_buckets') /\ size' <= next_size' /\ pc' = "idle"
      BY <2>1, <2>2, <3>1
    <3> QED
      BY <3>2 DEF LoadInv
  <2>3. CASE UNCHANGED status
    BY <2>1, <2>3 DEF LoadInv
  <2> QED
    BY <1>1, <2>2, <2>3 DEF New
<1>2. CASE Free
  BY <1>2 DEF Free, LoadInv
<1>3. ASSUME NEW k \in Keys, NEW v \in Vals, Put(k, v) PROVE LoadInv'
  <2>1. status = "live" /\ size < next_size
    BY <1>3, IndFacts DEF Put, Ready, Full
  <2> QED
    BY <1>3, <2>1, LoadInsert DEF Put
<1>4. ASSUME NEW k \in Keys, NEW v \in Vals, StartResize(k, v) PROVE LoadInv'
  <2>1. /\ pc = "idle" /\ pc' \in {"idle", "resize"}
        /\ UNCHANGED <<n_buckets, next_size, size, status>>
    BY <1>4 DEF StartResize, MapVars, Ready
  <2> QED
    BY <2>1, LoadUnchanged
<1>5. ASSUME NEW call, NEW k, NEW v, CallOnNull(call, k, v) PROVE LoadInv'
  <2>1. UNCHANGED <<n_buckets, next_size, size, status, pc>>
    BY <1>5 DEF CallOnNull, MapVars
  <2>2. NextSize(n_buckets)' = NextSize(n_buckets)
    BY <2>1
  <2> QED
    BY <2>1, <2>2 DEF LoadInv
<1>6. ASSUME NEW call, NEW k \in Keys, Remove(call, k) PROVE LoadInv'
  <2>1. /\ pc = "idle" /\ status = "live" /\ size' \in {size, size - 1}
        /\ UNCHANGED <<n_buckets, next_size, status>> /\ pc' \in {"idle", "spin"}
    BY <1>6 DEF Remove, Ready
  <2>2. size \in Int /\ next_size \in Nat /\ size <= next_size /\ next_size = NextSize(n_buckets)
    BY <2>1, IndFacts DEF LoadInv
  <2>3. next_size' = NextSize(n_buckets') /\ size' <= next_size'
    BY <2>1, <2>2
  <2> QED
    BY <2>1, <2>3 DEF LoadInv
<1>7. CASE RehashOutOfMemory \/ RehashAgain
  <2>1. /\ pc = "resize" /\ pc' = "idle" /\ UNCHANGED <<n_buckets, next_size, size>>
        /\ status = "live"
    BY <1>7, IndFacts DEF RehashOutOfMemory, RehashAgain, GiveUpResize, Rehashing
  <2> QED
    BY <2>1, LoadUnchanged
<1>8. CASE FinishResize
  BY <1>8, LoadFinish
<1>9. CASE PutResized
  <2>1. status = "live" /\ arg \in Keys \X Vals /\ InsertBucket(arg[1], arg[2])
        /\ pc = "insert"
    BY <1>9 DEF IndInv, TypeOK, PutResized
  <2>2. size < next_size
    BY <2>1 DEF LoadInv
  <2> QED
    BY <2>1, <2>2, LoadInsert
<1>10. CASE RehashSkip \/ RehashRow \/ Spin \/ UNCHANGED vars
  <2>1. UNCHANGED <<n_buckets, next_size, size, status, pc>>
    BY <1>10 DEF RehashSkip, RehashRow, MapVars, Spin, vars
  <2>2. NextSize(n_buckets)' = NextSize(n_buckets)
    BY <2>1
  <2> QED
    BY <2>1, <2>2 DEF LoadInv
<1> QED
  BY <1>1, <1>2, <1>3, <1>4, <1>5, <1>6, <1>7, <1>8, <1>9, <1>10 DEF Next, Running

(* Between calls the table never holds more than the entries it resizes at, *)
(* if a resize makes it grow and the client does not use NULL as a key:    *)
(* the entry a put adds after a resize is within the limit too.            *)
THEOREM LoadAlwaysBounded ==
  ASSUME Null \notin Keys, IncreaseFactor > 1
  PROVE  Spec => []LoadBounded
<1>1. SizeInv /\ LoadInv => LoadBounded
  BY DEF SizeInv, Holds, Counts, LoadInv, LoadBounded, Idle
<1> QED
  BY <1>1, InitInd, NextInd, SizeInit, SizeStep, LoadInit, LoadStep, PTL DEF Spec

-----------------------------------------------------------------------------
(* Lookup of what is not there *)

(* A client that does not put after removing, and whose keys are not NULL, *)
(* is answered NULL for every text it has stored nothing under.            *)
LEMMA AbsentFromInd ==
  ASSUME IndInv, TightInv, Null \notin Keys, ~PutAfterRemove
  PROVE  AbsentIsNull
<1> SUFFICES ASSUME Idle, NEW k \in Keys, Text[k] \notin TextsOf(table)
             PROVE  GetResult(k) = Null
  BY DEF AbsentIsNull
<1> DEFINE b == BucketOf(k, n_buckets)
           c == table[b]
<1>1. n_buckets \in Nat \ {0} /\ GoodTable(table, n_buckets)
  BY IndFacts DEF Idle
<1>2. b \in DOMAIN table /\ GoodChain(c, b, n_buckets)
  BY <1>1, BucketInRange DEF GoodTable
<1>3. ASSUME NEW i \in Matches(c, k) PROVE FALSE
  <2>1. i \in DOMAIN c.rows /\ SameKey(c.rows[i].key, k)
    BY DEF Matches
  <2>2. c.rows[i].occ /\ Text[c.rows[i].key] = Text[k]
    BY <1>2, <2>1, ConstantsAssumption DEF GoodChain, SameKey
  <2>3. c.rows[i] \in OccRows(table)
    BY <1>2, <2>1, <2>2, OccRowsDef
  <2> QED
    BY <2>2, <2>3 DEF TextsOf
<1>4. c.back = 0
  BY <1>2 DEF TightInv, ChainsEnd, Cyclic
<1> QED
  BY <1>3, <1>4 DEF GetResult

(* A text nothing is stored under is answered NULL, and the walk that finds *)
(* this out ends, for a client that does not put after removing.           *)
THEOREM AbsentAlwaysNull ==
  ASSUME Null \notin Keys, ~PutAfterRemove
  PROVE  Spec => []AbsentIsNull
<1>1. IndInv /\ TightInv => AbsentIsNull
  BY AbsentFromInd
<1> QED
  BY <1>1, InitInd, NextInd, TightInit, TightStep, PTL DEF Spec

-----------------------------------------------------------------------------
(* What a resize has moved *)

(* The resize has come past slot s. *)
Passed(s) == s[1] < scan[1] \/ (s[1] = scan[1] /\ s[2] < scan[2])

RowAt(s) == table[s[1]].rows[s[2]]

(* The new table holds rows of the old one only, and every row the resize  *)
(* has passed; no row it has not, unless it has gone round a chain.        *)
MovedInv ==
  pc = "resize" =>
    /\ OccRows(fresh) \subseteq OccRows(table)
    /\ \A s \in OccSlots(table) : Passed(s) => RowAt(s) \in OccRows(fresh)
    /\ ~Cyclic(table) =>
         \A s \in OccSlots(table) : RowAt(s) \in OccRows(fresh) => Passed(s)

LEMMA SlotFacts ==
  ASSUME NEW tab, NEW s \in OccSlots(tab)
  PROVE  /\ s = <<s[1], s[2]>> /\ s[1] \in DOMAIN tab
         /\ s[2] \in DOMAIN tab[s[1]].rows
         /\ tab[s[1]].rows[s[2]].occ /\ tab[s[1]].rows[s[2]] \in OccRows(tab)
<1>1. PICK b \in DOMAIN tab : \E i \in DOMAIN tab[b].rows :
        tab[b].rows[i].occ /\ s = <<b, i>>
  BY OccSlotsDef
<1>2. PICK i \in DOMAIN tab[b].rows : tab[b].rows[i].occ /\ s = <<b, i>>
  BY <1>1
<1> QED
  BY <1>2, OccRowsDef

LEMMA NextInChain ==
  ASSUME NEW x \in Nat, NEW y \in Nat, NEW b \in Nat, NEW i \in Nat,
         x < b \/ (x = b /\ y < i + 1)
  PROVE  x < b \/ (x = b /\ y < i) \/ (x = b /\ y = i)
OBVIOUS

LEMMA NextInTable ==
  ASSUME NEW x \in Nat, NEW y \in Nat, NEW b \in Nat, NEW i \in Nat,
         x < b + 1 \/ (x = b + 1 /\ y < 1), y >= 1, x = b => y <= i
  PROVE  x < b \/ (x = b /\ y < i) \/ (x = b /\ y = i)
OBVIOUS

(* One turn of the loop: what it passes is the row it was at, no less ...  *)
LEMMA PassedNext ==
  ASSUME IndInv, Rehashing, scan' = NextRow, UNCHANGED table, NEW s \in OccSlots(table)
  PROVE  /\ Passed(s)' => Passed(s) \/ s = scan
         /\ ~Cyclic(table) => (Passed(s) \/ s = scan => Passed(s)')
<1> DEFINE b == scan[1]
           i == scan[2]
           c == table[b]
<1>1. /\ s = <<s[1], s[2]>> /\ s[1] \in DOMAIN table /\ s[2] \in DOMAIN table[s[1]].rows
  BY SlotFacts
<1>2. /\ n_buckets \in Nat /\ table \in [0 .. n_buckets - 1 -> Chains]
      /\ b \in 0 .. n_buckets - 1 /\ i \in DOMAIN c.rows
      /\ scan \in (0 .. n_buckets) \X (Nat \ {0})
  BY DEF IndInv, TypeOK, IsTable, Rehashing
<1>3. /\ s[1] \in Nat /\ s[2] \in Nat /\ b \in Nat /\ i \in Nat
      /\ Len(c.rows) \in Nat /\ DOMAIN c.rows = 1 .. Len(c.rows) /\ c.back \in Nat
      /\ scan = <<b, i>>
  <2>1. DOMAIN table[s[1]].rows \subseteq Nat
    BY <1>1, <1>2 DEF Chains
  <2>2. c.rows \in Seq(Rows) /\ c.back \in Nat
    BY <1>2 DEF Chains
  <2> QED
    BY <1>1, <1>2, <2>1, <2>2
<1>4. s = scan <=> s[1] = b /\ s[2] = i
  BY <1>1, <1>3
<1>5. s[1] = b => s[2] <= Len(c.rows)
  BY <1>1, <1>3
<1>6. Passed(s)' <=> s[1] < NextRow[1] \/ (s[1] = NextRow[1] /\ s[2] < NextRow[2])
  BY DEF Passed
<1>7. CASE i < Len(c.rows)
  <2>1. NextRow[1] = b /\ NextRow[2] = i + 1
    BY <1>7 DEF NextRow
  <2> HIDE DEF b, i, c
  <2>2. Passed(s)' <=> s[1] < b \/ (s[1] = b /\ s[2] < i + 1)
    BY <1>6, <2>1
  <2>3. Passed(s) <=> s[1] < b \/ (s[1] = b /\ s[2] < i)
    BY DEF Passed, b, i
  <2> QED
    <3>1. Passed(s)' => Passed(s) \/ s = scan
      BY <1>3, <1>4, <2>2, <2>3, NextInChain
    <3>2. Passed(s) => Passed(s)'
      BY <1>3, <2>2, <2>3
    <3>3. s = scan => Passed(s)'
      BY <1>3, <1>4, <2>2
    <3> QED
      BY <3>1, <3>2, <3>3
<1>8. CASE ~(i < Len(c.rows)) /\ c.back # 0
  <2>1. NextRow[1] = b /\ NextRow[2] = c.back
    BY <1>8 DEF NextRow
  <2>2. c.back <= Len(c.rows)
    BY <1>2 DEF IndInv, TypeOK, IsTable
  <2>3. Cyclic(table)
    BY <1>2, <1>8 DEF Cyclic
  <2> HIDE DEF b, i, c
  <2>4. Passed(s)' <=> s[1] < b \/ (s[1] = b /\ s[2] < c.back)
    BY <1>6, <2>1
  <2>5. Passed(s) <=> s[1] < b \/ (s[1] = b /\ s[2] < i)
    BY DEF Passed, b, i
  <2> QED
    BY <1>3, <1>8, <2>2, <2>3, <2>4, <2>5
<1>9. CASE ~(i < Len(c.rows)) /\ c.back = 0
  <2>1. NextRow[1] = b + 1 /\ NextRow[2] = 1
    BY <1>9 DEF NextRow
  <2>2. s[1] \in Nat /\ (s[1] = b => s[2] <= i) /\ s[2] >= 1
    <3>1. DOMAIN table[s[1]].rows = 1 .. Len(table[s[1]].rows)
      BY <1>1, <1>2 DEF Chains
    <3> QED
      BY <1>1, <1>3, <1>5, <1>9, <3>1
  <2> HIDE DEF b, i, c
  <2>4. Passed(s)' <=> s[1] < b + 1 \/ (s[1] = b + 1 /\ s[2] < 1)
    BY <1>6, <2>1
  <2>5. Passed(s) <=> s[1] < b \/ (s[1] = b /\ s[2] < i)
    BY DEF Passed, b, i
  <2> QED
    <3>1. Passed(s)' => Passed(s) \/ s = scan
      BY <1>3, <1>4, <2>2, <2>4, <2>5, NextInTable
    <3>2. Passed(s) => Passed(s)'
      BY <1>3, <2>4, <2>5
    <3>3. s = scan => Passed(s)'
      BY <1>3, <1>4, <2>4
    <3> QED
      BY <3>1, <3>2, <3>3
<1> QED
  BY <1>7, <1>8, <1>9

LEMMA SlotsApart ==
  ASSUME IndInv, NEW s \in OccSlots(table), NEW q \in OccSlots(table), RowAt(s) = RowAt(q)
  PROVE  s = q
<1>1. GoodTable(table, n_buckets)
  BY IndFacts
<1>2. s = <<s[1], s[2]>> /\ q = <<q[1], q[2]>>
  BY SlotFacts
<1>3. s[1] = q[1] /\ s[2] = q[2]
  BY <1>1, SlotFacts, OneSlotPerText DEF RowAt
<1> QED
  BY <1>2, <1>3

(* The slot the resize is at, if it is occupied *)
LEMMA ScanSlot ==
  ASSUME IndInv, Rehashing
  PROVE  /\ Scanned = RowAt(scan) /\ ~Passed(scan)
         /\ Scanned.occ <=> scan \in OccSlots(table)
<1>1. /\ scan[1] \in DOMAIN table /\ scan[2] \in DOMAIN table[scan[1]].rows
      /\ scan = <<scan[1], scan[2]>> /\ scan[1] \in Nat /\ scan[2] \in Nat
  BY DEF IndInv, TypeOK, IsTable, Rehashing
<1>2. Scanned = RowAt(scan)
  BY DEF Scanned, RowAt
<1>3. ~Passed(scan)
  BY <1>1 DEF Passed
<1>4. ASSUME Scanned.occ PROVE scan \in OccSlots(table)
  BY <1>1, <1>4, OccSlotsDef DEF Scanned
<1>5. ASSUME scan \in OccSlots(table) PROVE Scanned.occ
  BY <1>5, SlotFacts DEF Scanned
<1> QED
  BY <1>2, <1>3, <1>4, <1>5

LEMMA MovedRow == ASSUME IndInv, MovedInv, RehashRow PROVE MovedInv'
<1>1. /\ pc = "resize" /\ Rehashing /\ Scanned.occ /\ scan' = NextRow
      /\ UNCHANGED <<table, pc>>
  BY DEF RehashRow, Rehashing, MapVars
<1>2. OccRows(fresh') = OccRows(fresh) \cup {Scanned}
  BY RehashEffect
<1>3. Scanned = RowAt(scan) /\ scan \in OccSlots(table) /\ Scanned \in OccRows(table)
  BY <1>1, ScanSlot, ScannedInTable
<1>4. OccRows(fresh') \subseteq OccRows(table)
  BY <1>1, <1>2, <1>3 DEF MovedInv
<1>5. ASSUME NEW s \in OccSlots(table), Passed(s)' PROVE RowAt(s) \in OccRows(fresh')
  <2>1. Passed(s) \/ s = scan
    BY <1>1, <1>5, PassedNext
  <2> QED
    BY <1>1, <1>2, <1>3, <2>1 DEF MovedInv
<1>6. ASSUME ~Cyclic(table), NEW s \in OccSlots(table), RowAt(s) \in OccRows(fresh')
      PROVE  Passed(s)'
  <2>1. RowAt(s) \in OccRows(fresh) \/ RowAt(s) = RowAt(scan)
    BY <1>2, <1>3, <1>6
  <2>2. Passed(s) \/ s = scan
    BY <1>1, <1>3, <1>6, <2>1, SlotsApart DEF MovedInv
  <2> QED
    BY <1>1, <1>6, <2>2, PassedNext
<1>7. \A s : RowAt(s)' = RowAt(s)
  BY <1>1 DEF RowAt
<1>8. OccSlots(table)' = OccSlots(table) /\ OccRows(table)' = OccRows(table)
      /\ (Cyclic(table)' <=> Cyclic(table))
  BY <1>1
<1> QED
  BY <1>4, <1>5, <1>6, <1>7, <1>8 DEF MovedInv

LEMMA MovedSkip == ASSUME IndInv, MovedInv, RehashSkip PROVE MovedInv'
<1>1. /\ pc = "resize" /\ Rehashing /\ ~Scanned.occ /\ scan' = NextRow
      /\ UNCHANGED <<table, pc, fresh>>
  BY DEF RehashSkip, Rehashing, MapVars
<1>2. scan \notin OccSlots(table)
  BY <1>1, ScanSlot
<1>3. ASSUME NEW s \in OccSlots(table)
      PROVE  /\ Passed(s)' => Passed(s)
             /\ ~Cyclic(table) => (Passed(s) => Passed(s)')
  BY <1>1, <1>2, PassedNext
<1>4. \A s : RowAt(s)' = RowAt(s)
  BY <1>1 DEF RowAt
<1>5. OccSlots(table)' = OccSlots(table) /\ OccRows(table)' = OccRows(table)
      /\ OccRows(fresh)' = OccRows(fresh) /\ (Cyclic(table)' <=> Cyclic(table))
  BY <1>1
<1> QED
  BY <1>1, <1>3, <1>4, <1>5 DEF MovedInv

LEMMA MovedStart ==
  ASSUME IndInv, NEW k \in Keys, NEW v \in Vals, StartResize(k, v)
  PROVE  MovedInv'
<1>1. pc = "idle" /\ UNCHANGED table
  BY DEF StartResize, Ready, MapVars
<1>2. CASE UNCHANGED pc
  BY <1>1, <1>2 DEF MovedInv
<1>3. CASE fresh' = EmptyTable(n_buckets * IncreaseFactor) /\ scan' = <<0, 1>>
  <2>1. OccRows(fresh') = {}
    BY <1>3, EmptyHoldsNothing
  <2>2. ASSUME NEW s \in OccSlots(table) PROVE ~Passed(s)'
    <3>1. GoodTable(table, n_buckets) /\ n_buckets \in Nat
      BY IndFacts
    <3>2. s[1] \in 0 .. n_buckets - 1 /\ table[s[1]] \in Chains
      BY <3>1, SlotFacts DEF GoodTable
    <3>3. s[1] \in Nat /\ s[2] \in Nat /\ s[2] >= 1
      BY <3>1, <3>2, SlotFacts DEF Chains
    <3> QED
      BY <1>3, <3>3 DEF Passed
  <2>3. OccSlots(table)' = OccSlots(table)
    BY <1>1
  <2> QED
    BY <2>1, <2>2, <2>3 DEF MovedInv
<1> QED
  BY <1>2, <1>3 DEF StartResize

LEMMA MovedInit == Init => MovedInv
BY DEF Init, MovedInv

LEMMA MovedStep == IndInv /\ MovedInv /\ [Next]_vars => MovedInv'
<1> SUFFICES ASSUME IndInv, MovedInv, [Next]_vars PROVE MovedInv'
  OBVIOUS
<1>1. ASSUME pc' # "resize" PROVE MovedInv'
  BY <1>1 DEF MovedInv
<1>2. CASE New
  BY <1>1, <1>2, IndFacts DEF New
<1>3. CASE Free
  BY <1>1, <1>3 DEF Free, Ready
<1>4. ASSUME NEW k \in Keys, NEW v \in Vals, Put(k, v) PROVE MovedInv'
  BY <1>1, <1>4 DEF Put, InsertBucket
<1>5. ASSUME NEW k \in Keys, NEW v \in Vals, StartResize(k, v) PROVE MovedInv'
  BY <1>5, MovedStart
<1>6. ASSUME NEW call, NEW k, NEW v, CallOnNull(call, k, v) PROVE MovedInv'
  BY <1>1, <1>6, IndFacts DEF CallOnNull
<1>7. ASSUME NEW call, NEW k \in Keys, Remove(call, k) PROVE MovedInv'
  BY <1>1, <1>7 DEF Remove, Ready
<1>8. CASE RehashSkip
  BY <1>8, MovedSkip
<1>9. CASE RehashRow
  BY <1>9, MovedRow
<1>10. CASE RehashOutOfMemory \/ RehashAgain \/ FinishResize \/ PutResized
  BY <1>1, <1>10 DEF RehashOutOfMemory, RehashAgain, GiveUpResize, FinishResize,
     PutResized, InsertBucket
<1>11. CASE Spin \/ UNCHANGED vars
  BY <1>11 DEF Spin, vars, resizing, MovedInv, Passed, RowAt
<1> QED
  BY <1>2, <1>3, <1>4, <1>5, <1>6, <1>7, <1>8, <1>9, <1>10, <1>11 DEF Next, Running

(* When the loop is over the new table holds what the old one holds.       *)
LEMMA AllMoved ==
  ASSUME IndInv, MovedInv, FinishResize
  PROVE  OccRows(fresh) = OccRows(table)
<1>1. pc = "resize" /\ scan[1] = n_buckets /\ n_buckets \in Nat
  BY IndFacts DEF FinishResize
<1>2. ASSUME NEW r \in OccRows(table) PROVE r \in OccRows(fresh)
  <2>1. PICK s \in OccSlots(table) : r = RowAt(s)
    BY DEF OccRows, RowAt
  <2>2. s[1] \in 0 .. n_buckets - 1
    BY IndFacts, SlotFacts DEF GoodTable
  <2>3. Passed(s)
    BY <1>1, <2>2 DEF Passed
  <2> QED
    BY <1>1, <2>1, <2>3 DEF MovedInv
<1> QED
  BY <1>1, <1>2 DEF MovedInv

(* No row of a table without a cycle is met twice. *)
LEMMA NeverAgain ==
  ASSUME IndInv, MovedInv, ~Cyclic(table), RehashAgain
  PROVE  FALSE
<1> DEFINE n == n_buckets * IncreaseFactor
           k == Scanned.key
           c == fresh[BucketOf(k, n)]
<1>1. Rehashing /\ Scanned.occ /\ pc = "resize"
  BY DEF RehashAgain, Rehashing
<1>2. PICK i \in DOMAIN c.rows : c.rows[i].occ /\ SameKey(c.rows[i].key, k)
  BY DEF RehashAgain, Hits
<1>3. n \in Nat \ {0} /\ GoodTable(fresh, n) /\ k \in Keys
  BY <1>1, RehashFacts
<1>4. BucketOf(k, n) \in DOMAIN fresh
  BY <1>3, BucketInRange DEF GoodTable
<1>5. c.rows[i] \in OccRows(fresh)
  BY <1>2, <1>4, OccRowsDef
<1>6. c.rows[i] \in OccRows(table) /\ Text[c.rows[i].key] = Text[k]
  BY <1>1, <1>2, <1>5 DEF MovedInv, SameKey
<1>7. Scanned \in OccRows(table) /\ Distinct(OccRows(table))
  BY <1>1, ScannedInTable, IndFacts, GoodTableDistinct
<1>8. c.rows[i] = Scanned
  BY <1>6, <1>7 DEF Distinct
<1>9. RowAt(scan) \in OccRows(fresh) /\ scan \in OccSlots(table) /\ ~Passed(scan)
  BY <1>1, <1>5, <1>8, ScanSlot
<1> QED
  BY <1>1, <1>9 DEF MovedInv

(* Whatever a map frees by itself, it does not free in a resize ...        *)
LEMMA NothingManaged ==
  ASSUME ~KeyFree, ~ValueFree
  PROVE  (\A k, v : Managed(k, v) = {}) /\ (\A tab : StoredPtrs(tab) = {})
<1>1. \A k, v : Managed(k, v) = {}
  BY DEF Managed
<1> QED
  BY <1>1 DEF StoredPtrs

LEMMA SameRowsSameContents ==
  ASSUME NEW a, NEW b, OccRows(a) = OccRows(b)
  PROVE  ContentsOf(a) = ContentsOf(b) /\ StoredPtrs(a) = StoredPtrs(b)
BY DEF ContentsOf, TextsOf, StoredPtrs

LEMMA KeepsAllStep ==
  ASSUME \/ ~KeyFree /\ ~ValueFree
         \/ "rehash" \notin AllocFails /\ ~PutAfterRemove,
         IndInv, TightInv, MovedInv, [Next]_vars, pc = "resize"
  PROVE  ContentsOf(table') = ContentsOf(table) /\ owned' = owned
<1>1. status = "live"
  BY IndFacts
<1>2. CASE UNCHANGED <<table, owned>>
  BY <1>2
<1>3. CASE FinishResize
  <2>1. OccRows(table') = OccRows(table) /\ owned' = owned
    BY <1>3, AllMoved DEF FinishResize
  <2> QED
    BY <2>1, SameRowsSameContents
<1>4. CASE RehashOutOfMemory \/ RehashAgain
  <2>1. table' = table /\ owned' = owned \ StoredPtrs(fresh)
    BY <1>4 DEF RehashOutOfMemory, RehashAgain, GiveUpResize
  <2>2. CASE ~KeyFree /\ ~ValueFree
    BY <2>1, <2>2, NothingManaged
  <2>3. CASE "rehash" \notin AllocFails /\ ~PutAfterRemove
    <3>1. ~Cyclic(table)
      BY <2>3 DEF TightInv, ChainsEnd
    <3> QED
      BY <1>4, <2>3, <3>1, NeverAgain DEF RehashOutOfMemory
  <2> QED
    BY <2>2, <2>3
<1>5. CASE RehashSkip \/ RehashRow \/ Spin \/ UNCHANGED vars
  BY <1>2, <1>5 DEF RehashSkip, RehashRow, MapVars, Spin, vars
<1>6. ASSUME New \/ Free \/ PutResized PROVE FALSE
  BY <1>1, <1>6 DEF New, Free, Ready, PutResized
<1>7. ASSUME NEW call, NEW k, NEW v,
             Put(k, v) \/ StartResize(k, v) \/ CallOnNull(call, k, v) \/ Remove(call, k)
      PROVE  FALSE
  BY <1>1, <1>7 DEF Put, StartResize, CallOnNull, Remove, Ready
<1> QED
  BY <1>3, <1>4, <1>5, <1>6, <1>7 DEF Next, Running

(* A resize, failed or not, neither changes what the map holds nor frees    *)
(* something it holds, if the map has nothing to free, or if no allocation *)
(* fails once the new table is there and no chain goes back into itself.   *)
THEOREM ResizeAlwaysKeeps ==
  ASSUME \/ ~KeyFree /\ ~ValueFree
         \/ "rehash" \notin AllocFails /\ ~PutAfterRemove
  PROVE  Spec => ResizeKeepsAll
<1>1. IndInv /\ TightInv /\ MovedInv /\ [Next]_vars =>
        [pc = "resize" => /\ ContentsOf(table') = ContentsOf(table)
                          /\ owned' = owned]_vars
  BY KeepsAllStep
<1> QED
  BY <1>1, InitInd, NextInd, TightInit, TightStep, MovedInit, MovedStep, PTL
     DEF Spec, ResizeKeepsAll

-----------------------------------------------------------------------------
(* Ownership *)

Of(r) == Managed(r.key, r.value)

(* No pointer is freed on behalf of two rows. *)
Apart(R) == \A r, q \in R : r # q => Of(r) \cap Of(q) = {}

LEMMA StoredDef ==
  ASSUME NEW tab, NEW p
  PROVE  p \in StoredPtrs(tab) <=> \E r \in OccRows(tab) : p \in Of(r)
BY DEF StoredPtrs, Of

LEMMA OfRow == ASSUME NEW k, NEW v PROVE Of(Row(k, v)) = Managed(k, v)
BY DEF Of, Row

LEMMA StoredMore ==
  ASSUME NEW tab, NEW new, NEW r, OccRows(new) = OccRows(tab) \cup {r},
         Apart(OccRows(tab)), Of(r) \cap StoredPtrs(tab) = {}
  PROVE  StoredPtrs(new) = StoredPtrs(tab) \cup Of(r) /\ Apart(OccRows(new))
<1>1. \A p : p \in StoredPtrs(new) <=> p \in StoredPtrs(tab) \cup Of(r)
  BY StoredDef
<1>2. \A q \in OccRows(tab) : Of(q) \cap Of(r) = {}
  BY StoredDef
<1>3. Apart(OccRows(new))
  BY <1>2 DEF Apart
<1> QED
  BY <1>1, <1>3

LEMMA StoredLess ==
  ASSUME NEW tab, NEW R, NEW q \in OccRows(tab), R = OccRows(tab) \ {q},
         Apart(OccRows(tab))
  PROVE  /\ \A p : p \in StoredPtrs(tab) \ Of(q) <=> \E r \in R : p \in Of(r)
         /\ Apart(R)
<1>1. ASSUME NEW p, p \in StoredPtrs(tab) \ Of(q) PROVE \E r \in R : p \in Of(r)
  BY <1>1, StoredDef
<1>2. ASSUME NEW p, NEW r \in R, p \in Of(r) PROVE p \in StoredPtrs(tab) \ Of(q)
  BY <1>2, StoredDef DEF Apart
<1>3. Apart(R)
  BY DEF Apart
<1> QED
  BY <1>1, <1>2, <1>3

LEMMA StoredReplaced ==
  ASSUME NEW tab, NEW new, NEW q \in OccRows(tab), NEW r,
         OccRows(new) = (OccRows(tab) \ {q}) \cup {r},
         Apart(OccRows(tab)), Of(r) \cap StoredPtrs(tab) = {}
  PROVE  /\ StoredPtrs(new) = (StoredPtrs(tab) \ Of(q)) \cup Of(r)
         /\ Apart(OccRows(new))
<1>1. PICK R : R = OccRows(tab) \ {q}
  OBVIOUS
<1>2. /\ \A p : p \in StoredPtrs(tab) \ Of(q) <=> \E x \in R : p \in Of(x)
      /\ Apart(R)
  BY <1>1, StoredLess
<1>3. \A p : p \in StoredPtrs(new) <=> p \in (StoredPtrs(tab) \ Of(q)) \cup Of(r)
  BY <1>1, <1>2, StoredDef
<1>4. \A x \in R : Of(x) \cap Of(r) = {}
  BY <1>1, StoredDef
<1>5. Apart(OccRows(new))
  BY <1>1, <1>2, <1>4 DEF Apart
<1> QED
  BY <1>3, <1>5

(* The map is responsible for exactly what its rows hold, in the middle of *)
(* a put too, which takes the new pointers over when it stores them.       *)
OwnInv ==
  /\ status # "corrupt"
  /\ status = "none" => OccRows(table) = {}
  /\ owned = StoredPtrs(table) /\ Apart(OccRows(table))
  /\ pc \in {"resize", "insert"} => Managed(arg[1], arg[2]) \cap owned = {}

LEMMA OwnUnchanged ==
  ASSUME OwnInv, UNCHANGED <<status, table, owned>>,
         pc' \in {"resize", "insert"} => pc \in {"resize", "insert"} /\ UNCHANGED arg
  PROVE  OwnInv'
<1>1. /\ OccRows(table)' = OccRows(table) /\ StoredPtrs(table)' = StoredPtrs(table)
      /\ Apart(OccRows(table))' = Apart(OccRows(table))
  BY DEF OccRows, OccSlots, StoredPtrs, Apart, Of
<1>2. ASSUME UNCHANGED arg PROVE Managed(arg[1], arg[2])' = Managed(arg[1], arg[2])
  BY <1>2
<1> QED
  BY <1>1, <1>2 DEF OwnInv

LEMMA OwnInsert ==
  ASSUME IndInv, OwnInv, status = "live", NEW k \in Keys, NEW v \in Vals,
         Managed(k, v) \cap owned = {}, InsertBucket(k, v)
  PROVE  OwnInv'
<1>1. pc' \notin {"resize", "insert"} /\ status' = status
  BY DEF InsertBucket
<1>2. owned = StoredPtrs(table) /\ Apart(OccRows(table)) /\ Of(Row(k, v)) = Managed(k, v)
  BY OfRow DEF OwnInv
<1>3. CASE UNCHANGED <<table, size, owned>>
  BY <1>1, <1>3, OwnUnchanged
<1>4. ASSUME owned' = StoredPtrs(table'), Apart(OccRows(table')) PROVE OwnInv'
  BY <1>1, <1>4 DEF OwnInv
<1>5. ASSUME NEW q, Replaces(k, v, q) PROVE OwnInv'
  <2>1. /\ q \in OccRows(table) /\ Of(q) = Managed(q.key, q.value)
        /\ OccRows(table') = (OccRows(table) \ {q}) \cup {Row(k, v)}
        /\ owned' = (owned \ Managed(q.key, q.value)) \cup Managed(k, v)
    BY <1>5 DEF Replaces, Of
  <2>2. StoredPtrs(table') = (StoredPtrs(table) \ Of(q)) \cup Of(Row(k, v))
        /\ Apart(OccRows(table'))
    <3>1. PICK new, r : new = table' /\ r = Row(k, v)
      OBVIOUS
    <3>2. /\ OccRows(new) = (OccRows(table) \ {q}) \cup {r}
          /\ Of(r) \cap StoredPtrs(table) = {}
      BY <1>2, <2>1, <3>1
    <3>3. /\ StoredPtrs(new) = (StoredPtrs(table) \ Of(q)) \cup Of(r)
          /\ Apart(OccRows(new))
      BY <1>2, <2>1, <3>2, StoredReplaced
    <3> QED
      BY <3>1, <3>3
  <2> QED
    BY <1>2, <1>4, <2>1, <2>2
<1>6. ASSUME Adds(k, v) PROVE OwnInv'
  <2>1. /\ OccRows(table') = OccRows(table) \cup {Row(k, v)}
        /\ owned' = owned \cup Managed(k, v)
    BY <1>6 DEF Adds
  <2>2. StoredPtrs(table') = StoredPtrs(table) \cup Of(Row(k, v)) /\ Apart(OccRows(table'))
    BY <1>2, <2>1, StoredMore
  <2> QED
    BY <1>2, <1>4, <2>1, <2>2
<1> QED
  BY <1>3, <1>5, <1>6, InsertEffect

LEMMA OwnRemove ==
  ASSUME IndInv, OwnInv, Null \notin Keys, NEW call, NEW k \in Keys, Remove(call, k)
  PROVE  OwnInv'
<1>1. pc' \notin {"resize", "insert"} /\ status' = status /\ status = "live"
  BY DEF Remove, Ready
<1>2. CASE UNCHANGED <<table, size, owned>>
  BY <1>1, <1>2, OwnUnchanged
<1>3. ASSUME NEW q, Drops(call, k, q) PROVE OwnInv'
  <2>1. /\ q \in OccRows(table) /\ Of(q) = Managed(q.key, q.value)
        /\ OccRows(table') = OccRows(table) \ {q}
        /\ owned' = owned \ Managed(q.key, q.value)
        /\ owned = StoredPtrs(table) /\ Apart(OccRows(table))
    BY <1>3 DEF Drops, Of, OwnInv
  <2>2. PICK R : R = OccRows(table')
    OBVIOUS
  <2>5. R = OccRows(table) \ {q}
    BY <2>1, <2>2
  <2>3. /\ \A p : p \in StoredPtrs(table) \ Of(q) <=> \E r \in R : p \in Of(r)
        /\ Apart(R)
    <3>1. q \in OccRows(table) /\ Apart(OccRows(table))
      BY <2>1
    <3> QED
      BY <2>5, <3>1, StoredLess, SMTT(40)
  <2>4. \A p : p \in owned' <=> p \in StoredPtrs(table')
    BY <2>1, <2>2, <2>3, StoredDef
  <2> QED
    BY <1>1, <2>2, <2>3, <2>4 DEF OwnInv
<1> QED
  BY <1>2, <1>3, RemoveEffect

LEMMA OwnInit == Init => OwnInv
<1> SUFFICES ASSUME Init PROVE OwnInv
  OBVIOUS
<1>1. OccRows(table) = {} /\ owned = {} /\ status = "none" /\ pc = "idle"
  BY EmptyHoldsNothing DEF Init
<1>2. \A p : p \notin StoredPtrs(table)
  BY <1>1, StoredDef
<1> QED
  BY <1>1, <1>2 DEF OwnInv, Apart

(* A step after which nothing is stored and nothing owned *)
LEMMA OwnNothing ==
  ASSUME OccRows(table') = {}, owned' = {}, status' # "corrupt", pc' = "idle"
  PROVE  OwnInv'
<1>1. \A p : p \notin StoredPtrs(table')
  BY StoredDef
<1>2. StoredPtrs(table') = {}
  BY <1>1
<1>3. StoredPtrs(table)' = {} /\ OccRows(table)' = {}
  BY <1>2
<1> QED
  BY <1>3 DEF OwnInv, Apart

LEMMA OwnStep ==
  ASSUME Null \notin Keys, "rehash" \notin AllocFails, ~PutAfterRemove
  PROVE  IndInv /\ TightInv /\ MovedInv /\ OwnInv /\ [Next]_vars => OwnInv'
<1> SUFFICES ASSUME IndInv, TightInv, MovedInv, OwnInv, [Next]_vars PROVE OwnInv'
  OBVIOUS
<1>1. ~Cyclic(table)
  BY DEF TightInv, ChainsEnd
<1>2. CASE New
  <2>1. status = "none" /\ pc = "idle" /\ UNCHANGED <<pc, owned>>
    BY <1>2, IndFacts DEF New
  <2>2. CASE UNCHANGED <<status, table>>
    BY <2>1, <2>2, OwnUnchanged
  <2>3. CASE status' = "live" /\ table' = EmptyTable(InitialSize)
    <3>1. \A p : p \notin StoredPtrs(table)
      BY <2>1, StoredDef DEF OwnInv
    <3>2. owned' = {} /\ OccRows(table') = {}
      BY <2>1, <2>3, <3>1, EmptyHoldsNothing DEF OwnInv
    <3> QED
      BY <2>1, <2>3, <3>2, OwnNothing
  <2> QED
    BY <1>2, <2>2, <2>3 DEF New
<1>3. CASE Free
  <2>1. /\ status' = "none" /\ pc' = "idle" /\ table' = EmptyTable(0)
        /\ owned' = owned \ StoredPtrs(table)
    BY <1>1, <1>3 DEF Free, Ready
  <2>2. owned' = {} /\ OccRows(table') = {}
    BY <2>1, EmptyHoldsNothing DEF OwnInv
  <2> QED
    BY <2>1, <2>2, OwnNothing
<1>4. ASSUME NEW k \in Keys, NEW v \in Vals, Put(k, v) PROVE OwnInv'
  BY <1>4, OwnInsert DEF Put, Ready, MayPut
<1>5. ASSUME NEW k \in Keys, NEW v \in Vals, StartResize(k, v) PROVE OwnInv'
  <2>1. /\ UNCHANGED <<status, table, owned>> /\ Managed(k, v) \cap owned = {}
        /\ pc = "idle"
    BY <1>5 DEF StartResize, MapVars, MayPut, Ready
  <2>2. CASE UNCHANGED <<pc, arg>>
    BY <2>1, <2>2, OwnUnchanged
  <2>3. CASE pc' = "resize" /\ arg' = <<k, v>>
    <3>1. Managed(arg'[1], arg'[2]) \cap owned' = {}
      BY <2>1, <2>3
    <3>2. OccRows(table') = OccRows(table) /\ StoredPtrs(table') = StoredPtrs(table)
      BY <2>1
    <3> QED
      BY <2>1, <3>1, <3>2 DEF OwnInv
  <2> QED
    BY <1>5, <2>2, <2>3 DEF StartResize, resizing
<1>6. ASSUME NEW call, NEW k, NEW v, CallOnNull(call, k, v) PROVE OwnInv'
  BY <1>6, OwnUnchanged DEF CallOnNull, MapVars, resizing
<1>7. ASSUME NEW call, NEW k \in Keys, Remove(call, k) PROVE OwnInv'
  BY <1>7, OwnRemove
<1>8. ASSUME RehashOutOfMemory \/ RehashAgain PROVE FALSE
  BY <1>1, <1>8, NeverAgain DEF RehashOutOfMemory
<1>9. CASE FinishResize
  <2>1. /\ table' = fresh /\ UNCHANGED <<owned, arg, status>>
        /\ pc = "resize"
    BY <1>9 DEF FinishResize
  <2>2. OccRows(table') = OccRows(table)
    BY <1>9, <2>1, AllMoved
  <2>3. StoredPtrs(table') = StoredPtrs(table)
    BY <2>2, SameRowsSameContents
  <2>4. Managed(arg'[1], arg'[2]) \cap owned' = {} /\ status' = "live"
    BY <2>1, IndFacts DEF OwnInv
  <2> QED
    BY <2>1, <2>2, <2>3, <2>4 DEF OwnInv
<1>10. CASE PutResized
  <2>1. status = "live" /\ arg \in Keys \X Vals /\ InsertBucket(arg[1], arg[2])
        /\ Managed(arg[1], arg[2]) \cap owned = {}
    BY <1>10 DEF IndInv, TypeOK, PutResized, OwnInv
  <2> QED
    BY <2>1, OwnInsert
<1>11. CASE RehashSkip \/ RehashRow \/ Spin \/ UNCHANGED vars
  BY <1>11, OwnUnchanged DEF RehashSkip, RehashRow, MapVars, Spin, vars, resizing
<1> QED
  BY <1>2, <1>3, <1>4, <1>5, <1>6, <1>7, <1>8, <1>9, <1>10, <1>11 DEF Next, Running

(* Between calls the map is responsible for exactly the pointers its rows   *)
(* hold, for a client that hands over only what the map does not own yet   *)
(* and does not put after removing, when no allocation fails in the middle *)
(* of a resize (there the pointers are freed while the rows keep them).    *)
THEOREM OwnershipAlwaysExact ==
  ASSUME Null \notin Keys, "rehash" \notin AllocFails, ~PutAfterRemove
  PROVE  Spec => []OwnershipExact
<1>1. OwnInv => OwnershipExact
  <2> SUFFICES ASSUME OwnInv, status = "none" PROVE owned = {}
    BY DEF OwnInv, OwnershipExact, Idle
  <2>1. \A p : p \notin StoredPtrs(table)
    BY StoredDef DEF OwnInv
  <2> QED
    BY <2>1 DEF OwnInv
<1> QED
  BY <1>1, InitInd, NextInd, TightInit, TightStep, MovedInit, MovedStep, OwnInit, OwnStep,
     PTL DEF Spec

-----------------------------------------------------------------------------
(* Refinement *)

(* Without a map there is nothing in it. *)
GoneInv == status # "live" => OccRows(table) = {}

LEMMA NoContents ==
  ASSUME NEW tab, OccRows(tab) = {}
  PROVE  ContentsOf(tab) = Abstract!Nothing
<1>1. TextsOf(tab) = {}
  BY DEF TextsOf
<1> QED
  BY <1>1 DEF ContentsOf, Abstract!Nothing

(* The value of a text is that of the one row with the text. *)
LEMMA ContentsValue ==
  ASSUME NEW tab, Distinct(OccRows(tab)), NEW r \in OccRows(tab)
  PROVE  Text[r.key] \in TextsOf(tab) /\ ContentsOf(tab)[Text[r.key]] = r.value
<1>1. Text[r.key] \in TextsOf(tab)
  BY DEF TextsOf
<1>2. \A q \in OccRows(tab) : Text[q.key] = Text[r.key] => q = r
  BY DEF Distinct
<1>3. (CHOOSE q \in OccRows(tab) : Text[q.key] = Text[r.key]) = r
  BY <1>2
<1> QED
  BY <1>1, <1>3 DEF ContentsOf

LEMMA ContentsDomain ==
  ASSUME NEW tab
  PROVE  /\ DOMAIN ContentsOf(tab) = TextsOf(tab)
         /\ ContentsOf(tab) = [t \in TextsOf(tab) |-> ContentsOf(tab)[t]]
         /\ \A t \in TextsOf(tab) : \E r \in OccRows(tab) : t = Text[r.key]
BY DEF ContentsOf, TextsOf

(* Table new is tab with row r for its text, whatever was there for it. *)
NowWith(new, tab, r) ==
  /\ r \in OccRows(new)
  /\ \A q \in OccRows(tab) : Text[q.key] # Text[r.key] => q \in OccRows(new)
  /\ \A q \in OccRows(new) : q = r \/ (q \in OccRows(tab) /\ Text[q.key] # Text[r.key])

LEMMA ContentsWith ==
  ASSUME NEW new, NEW tab, NEW r, NowWith(new, tab, r),
         Distinct(OccRows(new)), Distinct(OccRows(tab)), NEW t, t = Text[r.key]
  PROVE  ContentsOf(new) =
           [u \in DOMAIN ContentsOf(tab) \cup {t} |->
              IF u = t THEN r.value ELSE ContentsOf(tab)[u]]
<1> DEFINE f == ContentsOf(tab)
           g == ContentsOf(new)
<1>1. DOMAIN g = TextsOf(new) /\ DOMAIN f = TextsOf(tab) /\ g = [u \in TextsOf(new) |-> g[u]]
  BY ContentsDomain
<1>2. t \in TextsOf(new) /\ g[t] = r.value
  BY ContentsValue DEF NowWith
<1>3. ASSUME NEW u \in TextsOf(new), u # t PROVE u \in TextsOf(tab) /\ g[u] = f[u]
  <2>1. PICK q \in OccRows(new) : u = Text[q.key]
    BY ContentsDomain
  <2>2. q \in OccRows(tab)
    BY <1>3, <2>1 DEF NowWith
  <2>3. g[u] = q.value
    BY <2>1, ContentsValue
  <2>4. u \in TextsOf(tab) /\ f[u] = q.value
    BY <2>1, <2>2, ContentsValue
  <2> QED
    BY <2>3, <2>4
<1>4. ASSUME NEW u \in TextsOf(tab), u # t PROVE u \in TextsOf(new)
  <2>1. PICK q \in OccRows(tab) : u = Text[q.key]
    BY ContentsDomain
  <2>2. q \in OccRows(new)
    BY <1>4, <2>1 DEF NowWith
  <2> QED
    BY <2>1, <2>2 DEF TextsOf
<1> HIDE DEF f, g
<1>5. TextsOf(new) = DOMAIN f \cup {t}
  BY <1>1, <1>2, <1>3, <1>4
<1>6. \A u \in TextsOf(new) : g[u] = IF u = t THEN r.value ELSE f[u]
  BY <1>2, <1>3
<1>7. g = [u \in DOMAIN f \cup {t} |-> IF u = t THEN r.value ELSE f[u]]
  BY <1>1, <1>5, <1>6
<1> QED
  BY <1>7 DEF f, g

(* Table new is tab without the entry of text t. *)
NowWithout(new, tab, t) ==
  /\ t \in DOMAIN ContentsOf(tab)
  /\ ContentsOf(new) = [u \in DOMAIN ContentsOf(tab) \ {t} |-> ContentsOf(tab)[u]]

LEMMA ContentsWithout ==
  ASSUME NEW new, NEW tab, NEW q \in OccRows(tab), OccRows(new) = OccRows(tab) \ {q},
         Distinct(OccRows(tab)), Distinct(OccRows(new)), NEW t, t = Text[q.key]
  PROVE  NowWithout(new, tab, t)
<1> DEFINE f == ContentsOf(tab)
           g == ContentsOf(new)
<1>1. DOMAIN g = TextsOf(new) /\ DOMAIN f = TextsOf(tab) /\ g = [u \in TextsOf(new) |-> g[u]]
  BY ContentsDomain
<1>2. t \in TextsOf(tab) /\ t \notin TextsOf(new)
  <2>1. \A r \in OccRows(new) : Text[r.key] # t
    BY DEF Distinct
  <2> QED
    BY <2>1 DEF TextsOf
<1>3. ASSUME NEW u \in TextsOf(new) PROVE u \in TextsOf(tab) /\ g[u] = f[u]
  <2>1. PICK r \in OccRows(new) : u = Text[r.key]
    BY ContentsDomain
  <2>2. g[u] = r.value /\ r \in OccRows(tab)
    BY <2>1, ContentsValue
  <2>3. u \in TextsOf(tab) /\ f[u] = r.value
    BY <2>1, <2>2, ContentsValue
  <2> QED
    BY <2>2, <2>3
<1>4. ASSUME NEW u \in TextsOf(tab), u # t PROVE u \in TextsOf(new)
  <2>1. PICK r \in OccRows(tab) : u = Text[r.key]
    BY ContentsDomain
  <2>2. r \in OccRows(new)
    BY <1>4, <2>1
  <2> QED
    BY <2>1, <2>2 DEF TextsOf
<1> HIDE DEF f, g
<1>5. TextsOf(new) = DOMAIN f \ {t}
  BY <1>1, <1>2, <1>3, <1>4
<1>6. g = [u \in DOMAIN f \ {t} |-> f[u]]
  BY <1>1, <1>3, <1>5
<1> QED
  BY <1>1, <1>2, <1>6 DEF f, g, NowWithout

LEMMA ContentsSame ==
  ASSUME NEW tab, NEW t, t \notin TextsOf(tab)
  PROVE  /\ t \notin DOMAIN ContentsOf(tab)
         /\ ContentsOf(tab) = [u \in DOMAIN ContentsOf(tab) \ {t} |-> ContentsOf(tab)[u]]
<1>1. TextsOf(tab) \ {t} = TextsOf(tab)
  OBVIOUS
<1> QED
  BY <1>1, ContentsDomain

-----------------------------------------------------------------------------
(* A call of the detailed map is the call of the same name of the abstract *)
(* one.                                                                    *)

LEMMA PutStored ==
  ASSUME NEW k \in Keys, NEW v \in Vals, NEW r, r = Row(k, v), NowWith(table', table, r),
         Distinct(OccRows(table)), Distinct(OccRows(table')),
         status = "live", UNCHANGED status, Return("put", k, v, TRUE)
  PROVE  Abstract!Put(Text[k], v)
<1>1. r.key = k /\ r.value = v
  BY DEF Row
<1>2. PICK new, t : new = table' /\ t = Text[k]
  OBVIOUS
<1>3. NowWith(new, table, r) /\ Distinct(OccRows(new))
  BY <1>2
<1>4. ContentsOf(new) =
        [u \in DOMAIN ContentsOf(table) \cup {t} |->
           IF u = t THEN v ELSE ContentsOf(table)[u]]
  BY <1>1, <1>2, <1>3, ContentsWith
<1>5. last' = <<"put", t, v, TRUE>>
  BY <1>2 DEF Return
<1>6. ContentsOf(table)' = ContentsOf(new)
  BY <1>2
<1>7. Abstract!Put(t, v)
  BY <1>4, <1>5, <1>6 DEF Abstract!Put
<1> QED
  BY <1>2, <1>7

LEMMA PutRefused ==
  ASSUME NEW k \in Keys, NEW v \in Vals, UNCHANGED <<status, table>>,
         Return("put", k, v, FALSE)
  PROVE  Abstract!Put(Text[k], v)
<1>1. ContentsOf(table)' = ContentsOf(table)
  BY DEF ContentsOf, TextsOf, OccRows, OccSlots
<1> QED
  BY <1>1 DEF Abstract!Put, Return

LEMMA RemoveDone ==
  ASSUME NEW call, NEW k \in Keys, NEW q, Drops(call, k, q), UNCHANGED status,
         Distinct(OccRows(table)), Distinct(OccRows(table'))
  PROVE  Abstract!Remove(call, Text[k])
<1>1. PICK new, t : new = table' /\ t = Text[k]
  OBVIOUS
<1>2. /\ q \in OccRows(table) /\ OccRows(new) = OccRows(table) \ {q}
      /\ Distinct(OccRows(new)) /\ t = Text[q.key] /\ last' = <<call, t, Null, TRUE>>
  BY <1>1 DEF Drops, Return
<1>3. /\ t \in DOMAIN ContentsOf(table)
      /\ ContentsOf(new) = [u \in DOMAIN ContentsOf(table) \ {t} |-> ContentsOf(table)[u]]
  <2>1. NowWithout(new, table, t)
    BY <1>2, ContentsWithout
  <2> QED
    BY <2>1 DEF NowWithout
<1>4. ContentsOf(table)' = ContentsOf(new)
  BY <1>1
<1>5. last' = <<call, t, Null, t \in DOMAIN ContentsOf(table)>>
  BY <1>2, <1>3
<1>6. Abstract!Remove(call, t)
  BY <1>3, <1>4, <1>5 DEF Abstract!Remove
<1> QED
  BY <1>1, <1>6

LEMMA RemoveMissed ==
  ASSUME NEW call, NEW k \in Keys, UNCHANGED <<status, table>>, Return(call, k, Null, FALSE),
         \A r \in OccRows(table) : Text[r.key] # Text[k]
  PROVE  Abstract!Remove(call, Text[k])
<1>1. PICK t : t = Text[k]
  OBVIOUS
<1>2. t \notin TextsOf(table)
  BY <1>1 DEF TextsOf
<1>3. /\ t \notin DOMAIN ContentsOf(table)
      /\ ContentsOf(table) =
           [u \in DOMAIN ContentsOf(table) \ {t} |-> ContentsOf(table)[u]]
  BY <1>2, ContentsSame
<1>4. ContentsOf(table)' = ContentsOf(table)
  BY DEF ContentsOf, TextsOf, OccRows, OccSlots
<1>5. last' = <<call, t, Null, FALSE>>
  BY <1>1 DEF Return
<1>8. (t \in DOMAIN ContentsOf(table)) = FALSE
  BY <1>3
<1>6. last' = <<call, t, Null, t \in DOMAIN ContentsOf(table)>>
  BY <1>5, <1>8
<1>7. Abstract!Remove(call, t)
  BY <1>3, <1>4, <1>6 DEF Abstract!Remove
<1> QED
  BY <1>1, <1>7

LEMMA NewTables ==
  ASSUME IndInv, IndInv'
  PROVE  Distinct(OccRows(table)) /\ Distinct(OccRows(table'))
<1>1. GoodTable(table, n_buckets)
  BY IndFacts
<1>2. GoodTable(table', n_buckets')
  <2>1. IsTable(table', n_buckets') /\ WellFormed(table', n_buckets')
    BY DEF IndInv, TypeOK, Placed
  <2> QED
    BY <2>1, GoodTableDef
<1> QED
  BY <1>1, <1>2, GoodTableDistinct

LEMMA InsertRefines ==
  ASSUME IndInv, IndInv', status = "live", NEW k \in Keys, NEW v \in Vals,
         InsertBucket(k, v)
  PROVE  Abstract!Put(Text[k], v) \/ UNCHANGED <<status, table, last>>
<1>1. UNCHANGED status
  BY DEF InsertBucket
<1>2. Distinct(OccRows(table)) /\ Distinct(OccRows(table'))
  BY NewTables
<1>3. PICK r : r = Row(k, v)
  OBVIOUS
<1>4. r.key = k
  BY <1>3 DEF Row
<1>5. ASSUME NEW q, Replaces(k, v, q) PROVE Abstract!Put(Text[k], v)
  <2>1. /\ q \in OccRows(table) /\ Text[q.key] = Text[k]
        /\ OccRows(table') = (OccRows(table) \ {q}) \cup {r}
        /\ Return("put", k, v, TRUE)
    BY <1>3, <1>5 DEF Replaces
  <2>2. NowWith(table', table, r)
    BY <1>2, <1>4, <2>1 DEF NowWith, Distinct
  <2> QED
    BY <1>1, <1>2, <1>3, <2>1, <2>2, PutStored
<1>6. ASSUME Adds(k, v) PROVE Abstract!Put(Text[k], v)
  <2>1. /\ \A q \in OccRows(table) : Text[q.key] # Text[k]
        /\ OccRows(table') = OccRows(table) \cup {r}
        /\ Return("put", k, v, TRUE)
    BY <1>3, <1>6 DEF Adds
  <2>2. NowWith(table', table, r)
    BY <1>4, <2>1 DEF NowWith
  <2> QED
    BY <1>1, <1>2, <1>3, <2>1, <2>2, PutStored
<1>7. CASE UNCHANGED <<table, size, owned>> /\ Return("put", k, v, FALSE)
  BY <1>1, <1>7, PutRefused
<1> QED
  BY <1>1, <1>5, <1>6, <1>7, InsertEffect

LEMMA RemoveRefines ==
  ASSUME IndInv, IndInv', Null \notin Keys, NEW call, NEW k \in Keys, Remove(call, k)
  PROVE  Abstract!Remove(call, Text[k]) \/ UNCHANGED <<status, table, last>>
<1>1. UNCHANGED status
  BY DEF Remove
<1>2. Distinct(OccRows(table)) /\ Distinct(OccRows(table'))
  BY NewTables
<1>3. ASSUME NEW q, Drops(call, k, q) PROVE Abstract!Remove(call, Text[k])
  BY <1>1, <1>2, <1>3, RemoveDone
<1>4. CASE /\ UNCHANGED <<table, size, owned, drained>> /\ Return(call, k, Null, FALSE)
           /\ \A r \in OccRows(table) : Text[r.key] # Text[k]
  BY <1>1, <1>4, RemoveMissed
<1> QED
  BY <1>1, <1>3, <1>4, RemoveEffect

LEMMA NewRefines ==
  ASSUME IndInv, GoneInv, New
  PROVE  Abstract!New
<1>1. status = "none" /\ OccRows(table) = {}
  BY DEF New, GoneInv
<1>2. OccRows(table') = {}
  <2>1. CASE table' = EmptyTable(InitialSize)
    BY <2>1, EmptyHoldsNothing
  <2>2. CASE UNCHANGED table
    BY <1>1, <2>2
  <2> QED
    BY <2>1, <2>2 DEF New
<1>3. ContentsOf(table') = ContentsOf(table)
  BY <1>1, <1>2, SameRowsSameContents
<1>4. ContentsOf(table)' = ContentsOf(table)
  BY <1>3
<1>5. \/ (status' # "none") = TRUE /\ last' = <<"new", Null, Null, TRUE>>
      \/ (status' # "none") = FALSE /\ last' = <<"new", Null, Null, FALSE>>
  BY <1>1 DEF New
<1>6. \E ok \in BOOLEAN : (status' # "none") = ok /\ last' = <<"new", Null, Null, ok>>
  BY <1>5
<1> QED
  BY <1>1, <1>4, <1>6 DEF Abstract!New

LEMMA FreeRefines ==
  ASSUME Free, ~Cyclic(table)
  PROVE  Abstract!Free
<1>1. table' = EmptyTable(0) /\ status' = "none" /\ last' = <<"free", Null, Null, TRUE>>
  BY DEF Free
<1>2. ContentsOf(table') = Abstract!Nothing
  BY <1>1, EmptyHoldsNothing, NoContents
<1>3. ContentsOf(table)' = Abstract!Nothing
  BY <1>2
<1>4. (status # "none")' = FALSE
  BY <1>1
<1> QED
  BY <1>1, <1>3, <1>4 DEF Abstract!Free

LEMMA GoneInit == Init => GoneInv
BY EmptyHoldsNothing DEF Init, GoneInv

(* A map is left for good only by nc_hashmap_free if no row of a chain is  *)
(* met twice, or if the map has nothing to free there.                     *)
LEMMA NotCorrupted ==
  ASSUME \/ ~KeyFree /\ ~ValueFree
         \/ ~PutAfterRemove,
         IndInv, TightInv, MovedInv, RehashAgain
  PROVE  UNCHANGED status
<1>1. CASE ~KeyFree /\ ~ValueFree
  BY <1>1, NothingManaged DEF RehashAgain
<1>2. CASE ~PutAfterRemove
  <2>1. ~Cyclic(table)
    BY <1>2 DEF TightInv, ChainsEnd
  <2> QED
    BY <2>1, NeverAgain
<1> QED
  BY <1>1, <1>2

LEMMA GoneStep ==
  ASSUME \/ ~KeyFree /\ ~ValueFree
         \/ ~PutAfterRemove
  PROVE  IndInv /\ TightInv /\ MovedInv /\ GoneInv /\ [Next]_vars => GoneInv'
<1> SUFFICES ASSUME IndInv, TightInv, MovedInv, GoneInv, [Next]_vars PROVE GoneInv'
  OBVIOUS
<1>1. ASSUME UNCHANGED <<status, table>> PROVE GoneInv'
  BY <1>1 DEF GoneInv, OccRows, OccSlots
<1>2. CASE status' = "live"
  BY <1>2 DEF GoneInv
<1>3. CASE New
  BY <1>1, <1>2, <1>3 DEF New
<1>4. CASE Free
  BY <1>4, EmptyHoldsNothing DEF Free, GoneInv
<1>5. ASSUME NEW k \in Keys, NEW v \in Vals, Put(k, v) PROVE GoneInv'
  BY <1>2, <1>5 DEF Put, InsertBucket, Ready
<1>6. ASSUME NEW k \in Keys, NEW v \in Vals, StartResize(k, v) PROVE GoneInv'
  BY <1>1, <1>6 DEF StartResize, MapVars
<1>7. ASSUME NEW call, NEW k, NEW v, CallOnNull(call, k, v) PROVE GoneInv'
  BY <1>1, <1>7 DEF CallOnNull, MapVars
<1>8. ASSUME NEW call, NEW k \in Keys, Remove(call, k) PROVE GoneInv'
  BY <1>2, <1>8 DEF Remove, Ready
<1>9. CASE RehashAgain \/ RehashOutOfMemory
  <2>1. UNCHANGED status
    BY <1>9, NotCorrupted DEF RehashOutOfMemory
  <2> QED
    BY <1>1, <1>9, <2>1 DEF RehashAgain, RehashOutOfMemory, GiveUpResize
<1>10. CASE FinishResize \/ PutResized
  <2>1. status = "live" /\ status' = status
    BY <1>10, IndFacts DEF FinishResize, PutResized, InsertBucket
  <2> QED
    BY <1>2, <2>1
<1>11. CASE RehashSkip \/ RehashRow \/ Spin \/ UNCHANGED vars
  BY <1>1, <1>11 DEF RehashSkip, RehashRow, MapVars, Spin, vars
<1> QED
  BY <1>3, <1>4, <1>5, <1>6, <1>7, <1>8, <1>9, <1>10, <1>11 DEF Next, Running

LEMMA MapInitRefines == Init => Abstract!Init
<1> SUFFICES ASSUME Init PROVE Abstract!Init
  OBVIOUS
<1>1. ContentsOf(table) = Abstract!Nothing
  BY EmptyHoldsNothing, NoContents DEF Init
<1>2. (status # "none") = FALSE /\ last = <<"none", Null, Null, TRUE>>
  BY DEF Init
<1> QED
  BY <1>1, <1>2 DEF Abstract!Init

LEMMA MapStepRefines ==
  ASSUME Null \notin Keys,
         \/ ~KeyFree /\ ~ValueFree
         \/ ~PutAfterRemove,
         IndInv, IndInv', TightInv, MovedInv, GoneInv, [Next]_vars
  PROVE  (Free /\ Cyclic(table)) \/ Abstract!Next \/ UNCHANGED Abstract!vars
<1>1. ASSUME UNCHANGED <<status, table, last>> PROVE UNCHANGED Abstract!vars
  BY <1>1 DEF Abstract!vars, ContentsOf, TextsOf, OccRows, OccSlots
<1>2. ASSUME NEW k \in Keys, NEW v \in Vals, Abstract!Put(Text[k], v) PROVE Abstract!Next
  BY <1>2 DEF Abstract!Next
<1>3. ASSUME NEW call \in {"remove", "steal"}, NEW k \in Keys, Abstract!Remove(call, Text[k])
      PROVE  Abstract!Next
  BY <1>3 DEF Abstract!Next
<1>4. CASE New
  BY <1>4, NewRefines DEF Abstract!Next
<1>5. CASE Free /\ ~Cyclic(table)
  BY <1>5, FreeRefines DEF Abstract!Next
<1>6. ASSUME NEW k \in Keys, NEW v \in Vals, Put(k, v)
      PROVE  Abstract!Next \/ UNCHANGED Abstract!vars
  BY <1>1, <1>2, <1>6, InsertRefines DEF Put, Ready
<1>7. ASSUME NEW k \in Keys, NEW v \in Vals, StartResize(k, v)
      PROVE  Abstract!Next \/ UNCHANGED Abstract!vars
  BY <1>1, <1>2, <1>7, PutRefused DEF StartResize, MapVars
<1>8. ASSUME NEW k \in Keys, NEW v \in Vals, CallOnNull("put", k, v)
      PROVE  Abstract!Next \/ UNCHANGED Abstract!vars
  BY <1>2, <1>8, PutRefused DEF CallOnNull, MapVars
<1>9. ASSUME NEW call \in {"remove", "steal"}, NEW k \in Keys, Remove(call, k)
      PROVE  Abstract!Next \/ UNCHANGED Abstract!vars
  BY <1>1, <1>3, <1>9, RemoveRefines
<1>10. ASSUME NEW call \in {"remove", "steal"}, NEW k \in Keys, CallOnNull(call, k, Null)
      PROVE  Abstract!Next \/ UNCHANGED Abstract!vars
  <2>1. OccRows(table) = {} /\ UNCHANGED <<status, table>> /\ Return(call, k, Null, FALSE)
    BY <1>10 DEF CallOnNull, MapVars, GoneInv
  <2> QED
    BY <1>3, <2>1, RemoveMissed
<1>11. CASE RehashAgain \/ RehashOutOfMemory
  <2>1. UNCHANGED status
    BY <1>11, NotCorrupted DEF RehashOutOfMemory
  <2>2. pc = "resize" /\ UNCHANGED table /\ Return("put", arg[1], arg[2], FALSE)
    BY <1>11 DEF RehashAgain, RehashOutOfMemory, GiveUpResize, Rehashing
  <2>3. arg[1] \in Keys /\ arg[2] \in Vals
    BY <2>2 DEF IndInv, TypeOK
  <2> QED
    BY <1>2, <2>1, <2>2, <2>3, PutRefused
<1>12. CASE FinishResize
  <2>1. ContentsOf(table') = ContentsOf(table)
    <3>1. table' = fresh
      BY <1>12 DEF FinishResize
    <3> QED
      BY <1>12, <3>1, AllMoved, SameRowsSameContents
  <2>2. ContentsOf(table)' = ContentsOf(table) /\ UNCHANGED <<status, last>>
    BY <1>12, <2>1 DEF FinishResize
  <2> QED
    BY <2>2 DEF Abstract!vars
<1>13. CASE PutResized
  <2>1. arg[1] \in Keys /\ arg[2] \in Vals /\ status = "live" /\ InsertBucket(arg[1], arg[2])
    BY <1>13 DEF IndInv, TypeOK, PutResized
  <2> QED
    BY <1>1, <1>2, <2>1, InsertRefines
<1>14. CASE RehashSkip \/ RehashRow \/ Spin \/ UNCHANGED vars
  BY <1>1, <1>14 DEF RehashSkip, RehashRow, MapVars, Spin, vars
<1> QED
  BY <1>4, <1>5, <1>6, <1>7, <1>8, <1>9, <1>10, <1>11, <1>12, <1>13, <1>14 DEF Next, Running

(* The chained, resizing table implements the mapping of MapSpec: every    *)
(* call acts on it in one step and answers as hashmap.h says, whatever     *)
(* allocation fails, for keys that are not NULL and a client that does not *)
(* put after a removal.                                                    *)
THEOREM MapImplements ==
  ASSUME Null \notin Keys, ~PutAfterRemove
  PROVE  Spec => ImplementsMap
<1>1. IndInv /\ IndInv' /\ TightInv /\ MovedInv /\ GoneInv /\ [Next]_vars
        => [Abstract!Next]_(Abstract!vars)
  <2>1. TightInv => ~Cyclic(table)
    BY DEF TightInv, ChainsEnd
  <2> QED
    BY <2>1, MapStepRefines DEF Abstract!vars
<1> QED
  BY <1>1, MapInitRefines, InitInd, NextInd, TightInit, TightStep, MovedInit, MovedStep,
     GoneInit, GoneStep, PTL DEF Spec, ImplementsMap, Abstract!Spec

(* A map that frees nothing by itself does so whatever the order of puts   *)
(* and removals, until a chain that goes back into itself is freed.        *)
THEOREM MapImplementsButFree ==
  ASSUME Null \notin Keys, ~KeyFree, ~ValueFree
  PROVE  Spec => ImplementsMapButFree
<1>1. IndInv /\ IndInv' /\ TightInv /\ MovedInv /\ GoneInv /\ [Next]_vars
        => [(Free /\ Cyclic(table)) \/ Abstract!Next]_(Abstract!vars)
  BY MapStepRefines DEF Abstract!vars
<1> QED
  BY <1>1, MapInitRefines, InitInd, NextInd, TightInit, TightStep, MovedInit, MovedStep,
     GoneInit, GoneStep, PTL DEF Spec, ImplementsMapButFree

=============================================================================
