----------------------------- MODULE ListProofs -----------------------------
(***************************************************************************)
(* Theorems about List, for every set of addresses and data pointers: the  *)
(* pointers make up the list, no freed node is used, the list frees no     *)
(* data it holds, and it implements ListSpec.                              *)
(***************************************************************************)
EXTENDS List, SequenceTheorems, TLAPS

(* A search has looked at the nodes before "current", and "prev" is the    *)
(* one just before it.                                                     *)
At(i) ==
  /\ current = order[i]
  /\ prev = order[IF i = 1 THEN 1 ELSE i - 1]
  /\ \A j \in 1 .. i - 1 : data[order[j]] # arg[1]

Searching ==
  /\ arg[1] \in Datas
  /\ \/ /\ current = Null /\ prev \in live \cup {Null}
        /\ \A j \in DOMAIN order : data[order[j]] # arg[1]
     \/ \E i \in DOMAIN order : At(i)

WalkInv ==
  /\ pc = "idle" => current = Null /\ prev = Null
  /\ pc = "walk" => Searching
  /\ pc = "free" => prev = Null
  /\ pc = "walk" /\ arg[2] => arg[1] \in Once
  /\ pc = "free" /\ arg[2] => \A i \in DOMAIN order : data[order[i]] \in Once

DataInv ==
  /\ \A i \in DOMAIN order : data[order[i]] \in Datas
  /\ \A i, j \in DOMAIN order :
       data[order[i]] \in Once /\ data[order[i]] = data[order[j]] => i = j
  /\ DataFreedOnce

IndInv == TypeOK /\ Shape /\ WalkInv /\ DataInv

-----------------------------------------------------------------------------
(* Sequences *)

LEMMA ConsFacts ==
  ASSUME NEW S, NEW s \in Seq(S), NEW x \in S
  PROVE  /\ <<x>> \o s \in Seq(S)
         /\ Len(<<x>> \o s) = Len(s) + 1
         /\ DOMAIN (<<x>> \o s) = 1 .. Len(s) + 1
         /\ (<<x>> \o s)[1] = x
         /\ \A i \in DOMAIN s : (<<x>> \o s)[i + 1] = s[i]
OBVIOUS

LEMMA AppendFacts ==
  ASSUME NEW S, NEW s \in Seq(S), NEW x \in S
  PROVE  /\ Append(s, x) \in Seq(S)
         /\ Len(Append(s, x)) = Len(s) + 1
         /\ DOMAIN Append(s, x) = 1 .. Len(s) + 1
         /\ Append(s, x)[Len(s) + 1] = x
         /\ \A i \in DOMAIN s : Append(s, x)[i] = s[i]
OBVIOUS

LEMMA TailFacts ==
  ASSUME NEW S, NEW s \in Seq(S), s # <<>>
  PROVE  /\ Tail(s) \in Seq(S)
         /\ Len(Tail(s)) = Len(s) - 1
         /\ DOMAIN Tail(s) = 1 .. Len(s) - 1
         /\ \A i \in 1 .. Len(s) - 1 : Tail(s)[i] = s[i + 1]
OBVIOUS

LEMMA WithoutFacts ==
  ASSUME NEW S, NEW s \in Seq(S), NEW i \in DOMAIN s
  PROVE  /\ Without(s, i) \in Seq(S)
         /\ Len(Without(s, i)) = Len(s) - 1
         /\ DOMAIN Without(s, i) = 1 .. Len(s) - 1
         /\ \A j \in 1 .. Len(s) - 1 :
              Without(s, i)[j] = IF j < i THEN s[j] ELSE s[j + 1]
<1>1. Len(s) \in Nat /\ DOMAIN s = 1 .. Len(s) /\ Len(s) - 1 \in Nat
  OBVIOUS
<1>2. Without(s, i) \in [1 .. Len(s) - 1 -> S]
  BY <1>1, SMTT(40) DEF Without
<1>3. Without(s, i) \in Seq(S) /\ Len(Without(s, i)) = Len(s) - 1
  <2>1. Without(s, i) \in Seq(S)
    BY <1>1, <1>2, SeqDef
  <2>2. DOMAIN Without(s, i) = 1 .. Len(Without(s, i)) /\ Len(Without(s, i)) \in Nat
    BY <2>1
  <2>3. DOMAIN Without(s, i) = 1 .. Len(s) - 1
    BY <1>2
  <2>4. \A m, n \in Nat : 1 .. m = 1 .. n => m = n
    <3> SUFFICES ASSUME NEW m \in Nat, NEW n \in Nat, 1 .. m = 1 .. n, m < n
                 PROVE  FALSE
      OBVIOUS
    <3>1. n \in 1 .. n /\ n \notin 1 .. m
      OBVIOUS
    <3> QED
      BY <3>1
  <2> QED
    BY <1>1, <2>1, <2>2, <2>3, <2>4
<1> QED
  BY <1>2, <1>3 DEF Without

-----------------------------------------------------------------------------
(* Facts about the state *)

LEMMA PairFacts ==
  \A S, T : \A x \in S, y \in T :
    <<x, y>> \in S \X T /\ <<x, y>>[1] = x /\ <<x, y>>[2] = y
OBVIOUS

(* No argument of a call *)
LEMMA NoArg ==
  /\ <<Null, FALSE>> \in (Datas \cup {Null}) \X BOOLEAN
  /\ <<Null, FALSE>>[1] = Null /\ ~ <<Null, FALSE>>[2]
<1>1. Null \in Datas \cup {Null} /\ FALSE \in BOOLEAN
  OBVIOUS
<1> QED
  BY <1>1, PairFacts, Zenon

(* The first node of a list that is not empty, and its last node *)
LEMMA HeadFacts ==
  ASSUME IndInv, pc # "free"
  PROVE  /\ Len(order) \in Nat /\ DOMAIN order = 1 .. Len(order)
         /\ head = Null <=> order = <<>>
         /\ head # Null =>
              /\ 1 \in DOMAIN order /\ Len(order) \in DOMAIN order
              /\ head = order[1] /\ tail[head] = order[Len(order)]
              /\ size[head] = Len(order)
              /\ head \in Nodes /\ tail[head] \in Nodes
BY ListAssumption DEF IndInv, TypeOK, Shape

(* Whatever leaves the list, the heap and the freed data alone keeps what  *)
(* is known of them.                                                       *)
LEMMA SameList ==
  ASSUME IndInv, UNCHANGED <<head, live, heap, freed, order>>,
         pc # "free", pc' \in {"idle", "walk"},
         current' \in Nodes \cup {Null}, prev' \in Nodes \cup {Null},
         arg' \in (Datas \cup {Null}) \X BOOLEAN, WalkInv'
  PROVE  IndInv'
<1>1. TypeOK'
  BY DEF IndInv, TypeOK, heap
<1>2. Shape'
  BY DEF IndInv, Shape, heap
<1>3. DataInv'
  BY DEF IndInv, DataInv, DataFreedOnce, heap
<1> QED
  BY <1>1, <1>2, <1>3 DEF IndInv

-----------------------------------------------------------------------------
(* Each action preserves the invariant *)

LEMMA InitInd == Init => IndInv
<1> SUFFICES ASSUME Init PROVE IndInv
  OBVIOUS
<1>1. arg \in (Datas \cup {Null}) \X BOOLEAN /\ ~ arg[2]
  BY NoArg, Zenon DEF Init
<1>2. TypeOK
  <2>1. /\ head = Null /\ live = {} /\ data = [n \in Nodes |-> Null]
        /\ next = [n \in Nodes |-> Null] /\ tail = [n \in Nodes |-> Null]
        /\ size = [n \in Nodes |-> 0] /\ pc = "idle" /\ current = Null
        /\ prev = Null /\ freed = {} /\ order = <<>>
    BY DEF Init
  <2> QED
    BY <1>1, <2>1 DEF TypeOK
<1>3. /\ DOMAIN order = {} /\ order = <<>> /\ head = Null /\ live = {}
      /\ pc = "idle" /\ current = Null /\ prev = Null
  BY DEF Init
<1>4. Shape
  BY <1>3 DEF Shape
<1>5. WalkInv /\ DataInv
  BY <1>1, <1>3 DEF WalkInv, DataInv, DataFreedOnce
<1> QED
  BY <1>2, <1>4, <1>5 DEF IndInv

LEMMA OutOfMemoryInd ==
  ASSUME IndInv, NEW call, NEW d, OutOfMemory(call, d)
  PROVE  IndInv'
<1>1. /\ UNCHANGED <<head, live, heap, freed, order>>
      /\ pc = "idle" /\ UNCHANGED <<pc, current, prev, arg>>
  BY DEF OutOfMemory, MayAdd, walking
<1>2. WalkInv'
  BY <1>1 DEF IndInv, WalkInv
<1> QED
  BY <1>1, <1>2, SameList DEF IndInv, TypeOK

LEMMA StartRemoveInd ==
  ASSUME IndInv, NEW d \in Datas, NEW do_free \in BOOLEAN, StartRemove(d, do_free)
  PROVE  IndInv'
<1>1. /\ UNCHANGED <<head, live, heap, freed, order>>
      /\ pc = "idle" /\ pc' = "walk" /\ current' = head /\ prev' = head
      /\ arg' = <<d, do_free>> /\ (do_free => d \in Once)
  BY DEF StartRemove
<1>2. arg'[1] = d /\ arg'[2] = do_free /\ arg' \in (Datas \cup {Null}) \X BOOLEAN
  <2>1. d \in Datas \cup {Null}
    OBVIOUS
  <2>2. /\ <<d, do_free>> \in (Datas \cup {Null}) \X BOOLEAN
        /\ <<d, do_free>>[1] = d /\ <<d, do_free>>[2] = do_free
    BY <2>1, PairFacts, Zenon
  <2>3. arg' = <<d, do_free>>
    BY Zenon DEF StartRemove
  <2> QED
    BY <2>2, <2>3, Zenon
<1>3. Searching'
  <2>1. CASE head = Null
    BY <1>1, <1>2, <2>1, HeadFacts DEF Searching
  <2>2. CASE head # Null
    <3>1. At(1)'
      BY <1>1, <2>2, HeadFacts DEF At
    <3> QED
      BY <1>1, <1>2, <2>2, <3>1, HeadFacts DEF Searching
  <2> QED
    BY <2>1, <2>2
<1>4. WalkInv'
  BY <1>1, <1>2, <1>3 DEF WalkInv
<1> QED
  BY <1>1, <1>2, <1>4, SameList DEF IndInv, TypeOK

LEMMA AdvanceInd ==
  ASSUME IndInv, Advance
  PROVE  IndInv'
<1>1. /\ UNCHANGED <<head, live, heap, freed, order, pc, arg>>
      /\ pc = "walk" /\ current # Null /\ data[current] # arg[1]
      /\ prev' = current /\ current' = next[current]
  BY DEF Advance
<1>2. PICK i \in DOMAIN order : At(i)
  BY <1>1 DEF IndInv, WalkInv, Searching
<1>3. i \in 1 .. Len(order) /\ Len(order) \in Nat /\ current = order[i]
  BY <1>2, <1>1, HeadFacts DEF At
<1>4. next[current] = IF i < Len(order) THEN order[i + 1] ELSE Null
  BY <1>3, <1>2 DEF IndInv, Shape
<1>5. \A j \in 1 .. i : data[order[j]] # arg[1]
  BY <1>1, <1>2, <1>3 DEF At
<1>6. UNCHANGED <<data, next>>
  BY <1>1 DEF heap
<1>7. Searching'
  <2>1. CASE i < Len(order)
    <3>1. i + 1 \in DOMAIN order /\ (i + 1) - 1 = i /\ i + 1 # 1
      BY <1>3, <2>1, <1>1, HeadFacts
    <3>2. At(i + 1)'
      BY <1>1, <1>3, <1>4, <1>5, <1>6, <2>1, <3>1 DEF At
    <3> QED
      BY <1>1, <3>1, <3>2 DEF IndInv, WalkInv, Searching
  <2>2. CASE ~ (i < Len(order))
    <3>1. i = Len(order) /\ current' = Null
      BY <1>1, <1>3, <1>4, <2>2
    <3>2. prev' \in live'
      BY <1>1, <1>2, <1>3 DEF IndInv, Shape
    <3> QED
      BY <1>1, <1>5, <1>6, <3>1, <3>2, HeadFacts DEF IndInv, WalkInv, Searching
  <2> QED
    BY <2>1, <2>2
<1>8. WalkInv'
  BY <1>1, <1>7 DEF IndInv, WalkInv
<1> QED
  BY <1>1, <1>8, SameList DEF IndInv, TypeOK

LEMMA NotFoundInd ==
  ASSUME IndInv, NotFound
  PROVE  IndInv'
<1>1. /\ UNCHANGED <<head, live, heap, freed, order>>
      /\ pc = "walk" /\ pc' = "idle" /\ current' = Null /\ prev' = Null
      /\ arg' = <<Null, FALSE>>
  BY DEF NotFound, Rest
<1>2. arg' \in (Datas \cup {Null}) \X BOOLEAN /\ ~ arg'[2]
  BY <1>1, NoArg, Zenon
<1>3. WalkInv'
  BY <1>1, <1>2 DEF WalkInv
<1> QED
  BY <1>1, <1>2, <1>3, SameList

LEMMA NewListInd ==
  ASSUME IndInv, NEW call, NEW n \in Nodes, NEW d \in Datas, NewList(call, n, d)
  PROVE  IndInv'
<1>1. /\ pc = "idle" /\ head = Null /\ n \notin live
      /\ live' = live \cup {n} /\ data' = [data EXCEPT ![n] = d]
      /\ freed' = freed \ {d} /\ head' = n
      /\ next' = [next EXCEPT ![n] = Null] /\ tail' = [tail EXCEPT ![n] = n]
      /\ size' = [size EXCEPT ![n] = 1] /\ order' = <<n>>
      /\ UNCHANGED <<pc, current, prev, arg>>
  BY DEF NewList, MayAdd, NewNode, walking
<1>2. DOMAIN order' = {1} /\ order'[1] = n /\ Len(order') = 1 /\ order' \in Seq(Nodes)
  BY <1>1
<1>3. order = <<>> /\ live = {}
  BY <1>1, HeadFacts DEF IndInv, Shape
<1>4. /\ data'[n] = d /\ next'[n] = Null /\ tail'[n] = n /\ size'[n] = 1
  BY <1>1 DEF IndInv, TypeOK
<1>5. TypeOK'
  BY <1>1, <1>2 DEF IndInv, TypeOK
<1>6. Shape'
  BY <1>1, <1>2, <1>3, <1>4 DEF Shape
<1>7. WalkInv'
  BY <1>1 DEF IndInv, WalkInv
<1>8. DataInv'
  BY <1>1, <1>2, <1>4 DEF DataInv, DataFreedOnce
<1> QED
  BY <1>5, <1>6, <1>7, <1>8 DEF IndInv

LEMMA AppendNodeInd ==
  ASSUME IndInv, NEW n \in Nodes, NEW d \in Datas, AppendNode(n, d)
  PROVE  IndInv'
<1>1. /\ pc = "idle" /\ head # Null /\ n \notin live
      /\ d \in Once => \A i \in DOMAIN order : data[order[i]] # d
      /\ live' = live \cup {n} /\ data' = [data EXCEPT ![n] = d]
      /\ freed' = freed \ {d} /\ head' = head
      /\ next' = [next EXCEPT ![tail[head]] = n, ![n] = Null]
      /\ tail' = [tail EXCEPT ![head] = n, ![n] = Null]
      /\ size' = [size EXCEPT ![head] = @ + 1, ![n] = 0]
      /\ order' = Append(order, n)
      /\ UNCHANGED <<pc, current, prev, arg>>
  BY DEF AppendNode, MayAdd, NewNode, walking
<1>2. /\ Len(order) \in Nat \ {0} /\ DOMAIN order = 1 .. Len(order)
      /\ head = order[1] /\ tail[head] = order[Len(order)] /\ size[head] = Len(order)
      /\ head \in Nodes /\ tail[head] \in Nodes
  BY <1>1, HeadFacts
<1>3. /\ order' \in Seq(Nodes) /\ Len(order') = Len(order) + 1
      /\ DOMAIN order' = 1 .. Len(order) + 1 /\ order'[Len(order) + 1] = n
      /\ \A i \in DOMAIN order : order'[i] = order[i]
  BY <1>1, AppendFacts DEF IndInv, TypeOK
<1>4. /\ \A i \in DOMAIN order : order[i] \in Nodes /\ order[i] # n /\ order[i] \in live
      /\ \A i, j \in DOMAIN order : order[i] = order[j] => i = j
      /\ \A i \in DOMAIN order :
           next[order[i]] = IF i < Len(order) THEN order[i + 1] ELSE Null
  BY <1>1 DEF IndInv, TypeOK, Shape
<1>5. /\ data'[n] = d /\ \A i \in DOMAIN order : data'[order[i]] = data[order[i]]
      /\ next'[n] = Null /\ next'[order[Len(order)]] = n
      /\ \A i \in 1 .. Len(order) - 1 : next'[order[i]] = next[order[i]]
      /\ tail'[head] = n /\ size'[head] = Len(order) + 1
  <2>1. \A i \in 1 .. Len(order) - 1 :
          /\ i \in DOMAIN order /\ Len(order) \in DOMAIN order
          /\ order[i] # order[Len(order)]
    BY <1>2, <1>4
  <2>2. head # n /\ tail[head] # n
    BY <1>2, <1>4
  <2> QED
    BY <1>1, <1>2, <1>4, <2>1, <2>2 DEF IndInv, TypeOK
<1>6. TypeOK'
  <2>1. TypeOK
    BY DEF IndInv
  <2>2. data' \in [Nodes -> Datas \cup {Null}] /\ next' \in [Nodes -> Nodes \cup {Null}]
    BY <1>1, <1>2, <2>1 DEF TypeOK
  <2>3. tail' \in [Nodes -> Nodes \cup {Null}]
    BY <1>1, <1>2, <2>1 DEF TypeOK
  <2>4. size' \in [Nodes -> Int]
    BY <1>1, <1>2, <2>1 DEF TypeOK
  <2> QED
    BY <1>1, <1>2, <1>3, <2>1, <2>2, <2>3, <2>4 DEF TypeOK
<1>7. Shape'
  <2>1. (\A i, j \in DOMAIN order : order[i] = order[j] => i = j)'
    BY <1>2, <1>3, <1>4
  <2>2. live' = {order'[i] : i \in DOMAIN order'}
    <3>1. live = {order[i] : i \in DOMAIN order}
      BY DEF IndInv, Shape
    <3>2. ASSUME NEW x \in live' PROVE \E i \in DOMAIN order' : x = order'[i]
      <4>1. CASE x = n
        BY <1>2, <1>3, <4>1
      <4>2. CASE x # n
        <5>1. PICK i \in DOMAIN order : x = order[i]
          BY <1>1, <3>1, <4>2
        <5> QED
          BY <1>2, <1>3, <5>1
      <4> QED
        BY <4>1, <4>2
    <3>3. ASSUME NEW i \in DOMAIN order' PROVE order'[i] \in live'
      <4>1. i = Len(order) + 1 \/ i \in DOMAIN order
        BY <1>2, <1>3
      <4> QED
        BY <1>1, <1>3, <1>4, <4>1
    <3> QED
      BY <3>2, <3>3
  <2>3. (\A i \in DOMAIN order :
           next[order[i]] = IF i < Len(order) THEN order[i + 1] ELSE Null)'
    <3> SUFFICES ASSUME NEW i \in DOMAIN order'
                 PROVE  next'[order'[i]] =
                          IF i < Len(order') THEN order'[i + 1] ELSE Null
      OBVIOUS
    <3>1. CASE i = Len(order) + 1
      BY <1>2, <1>3, <1>5, <3>1
    <3>2. CASE i = Len(order)
      BY <1>2, <1>3, <1>5, <3>2
    <3>3. CASE i \in 1 .. Len(order) - 1
      BY <1>2, <1>3, <1>4, <1>5, <3>3
    <3> QED
      BY <1>2, <1>3, <3>1, <3>2, <3>3
  <2>4. head' = order'[1] /\ order' # <<>>
    BY <1>1, <1>2, <1>3
  <2> QED
    BY <1>1, <1>2, <1>3, <1>5, <2>1, <2>2, <2>3, <2>4 DEF Shape
<1>8. WalkInv'
  BY <1>1 DEF IndInv, WalkInv
<1>9. DataInv'
  <2>1. DataInv
    BY DEF IndInv
  <2> QED
    BY <1>1, <1>2, <1>3, <1>5, <2>1 DEF DataInv, DataFreedOnce
<1> QED
  BY <1>6, <1>7, <1>8, <1>9 DEF IndInv

LEMMA PrependNodeInd ==
  ASSUME IndInv, NEW n \in Nodes, NEW d \in Datas, PrependNode(n, d)
  PROVE  IndInv'
<1>1. /\ pc = "idle" /\ head # Null /\ n \notin live
      /\ d \in Once => \A i \in DOMAIN order : data[order[i]] # d
      /\ live' = live \cup {n} /\ data' = [data EXCEPT ![n] = d]
      /\ freed' = freed \ {d} /\ head' = n
      /\ next' = [next EXCEPT ![n] = head]
      /\ tail' = [tail EXCEPT ![n] = tail[head], ![head] = Null]
      /\ size' = [size EXCEPT ![n] = size[head] + 1, ![head] = 0]
      /\ order' = <<n>> \o order
      /\ UNCHANGED <<pc, current, prev, arg>>
  BY DEF PrependNode, MayAdd, NewNode, walking
<1>2. /\ Len(order) \in Nat \ {0} /\ DOMAIN order = 1 .. Len(order)
      /\ head = order[1] /\ tail[head] = order[Len(order)] /\ size[head] = Len(order)
      /\ head \in Nodes /\ tail[head] \in Nodes
  BY <1>1, HeadFacts
<1>3. /\ order' \in Seq(Nodes) /\ Len(order') = Len(order) + 1
      /\ DOMAIN order' = 1 .. Len(order) + 1 /\ order'[1] = n
      /\ \A i \in DOMAIN order : order'[i + 1] = order[i]
  BY <1>1, ConsFacts DEF IndInv, TypeOK
<1>4. /\ \A i \in DOMAIN order : order[i] \in Nodes /\ order[i] # n /\ order[i] \in live
      /\ \A i, j \in DOMAIN order : order[i] = order[j] => i = j
      /\ \A i \in DOMAIN order :
           next[order[i]] = IF i < Len(order) THEN order[i + 1] ELSE Null
  BY <1>1 DEF IndInv, TypeOK, Shape
<1>5. /\ data'[n] = d /\ \A i \in DOMAIN order : data'[order[i]] = data[order[i]]
      /\ next'[n] = head /\ \A i \in DOMAIN order : next'[order[i]] = next[order[i]]
      /\ tail'[n] = order[Len(order)] /\ size'[n] = Len(order) + 1
  BY <1>1, <1>2, <1>4 DEF IndInv, TypeOK
<1>6. TypeOK'
  <2>1. TypeOK
    BY DEF IndInv
  <2>2. data' \in [Nodes -> Datas \cup {Null}] /\ next' \in [Nodes -> Nodes \cup {Null}]
    BY <1>1, <1>2, <2>1 DEF TypeOK
  <2>3. tail' \in [Nodes -> Nodes \cup {Null}]
    BY <1>1, <1>2, <2>1 DEF TypeOK
  <2>4. size' \in [Nodes -> Int]
    <3>1. size \in [Nodes -> Int] /\ size[head] + 1 \in Int
      BY <1>2, <2>1 DEF TypeOK
    <3>2. size' = [[size EXCEPT ![n] = size[head] + 1] EXCEPT ![head] = 0]
      BY <1>1
    <3> QED
      BY <1>2, <3>1, <3>2
  <2>5. head' \in Nodes /\ live' \subseteq Nodes /\ freed' \subseteq Datas
    BY <1>1, <2>1 DEF TypeOK
  <2>6. UNCHANGED <<pc, current, prev, arg>>
    BY <1>1
  <2> QED
    BY <1>3, <2>1, <2>2, <2>3, <2>4, <2>5, <2>6 DEF TypeOK
<1>a. \A i \in DOMAIN order' : i = 1 \/ (i - 1 \in DOMAIN order /\ order'[i] = order[i - 1])
  BY <1>2, <1>3
<1>7. Shape'
  <2>1. (\A i, j \in DOMAIN order : order[i] = order[j] => i = j)'
    BY <1>2, <1>3, <1>4, <1>a
  <2>2. live' = {order'[i] : i \in DOMAIN order'}
    <3>1. live = {order[i] : i \in DOMAIN order}
      BY DEF IndInv, Shape
    <3>2. ASSUME NEW x \in live' PROVE \E i \in DOMAIN order' : x = order'[i]
      <4>1. CASE x = n
        BY <1>2, <1>3, <4>1
      <4>2. CASE x # n
        <5>1. PICK i \in DOMAIN order : x = order[i]
          BY <1>1, <3>1, <4>2
        <5>2. i + 1 \in DOMAIN order' /\ x = order'[i + 1]
          BY <1>2, <1>3, <5>1
        <5> QED
          BY <5>2
      <4> QED
        BY <4>1, <4>2
    <3>3. ASSUME NEW i \in DOMAIN order' PROVE order'[i] \in live'
      BY <1>1, <1>3, <1>4, <1>a
    <3> QED
      BY <3>2, <3>3
  <2>3. (\A i \in DOMAIN order :
           next[order[i]] = IF i < Len(order) THEN order[i + 1] ELSE Null)'
    <3> SUFFICES ASSUME NEW i \in DOMAIN order'
                 PROVE  next'[order'[i]] =
                          IF i < Len(order') THEN order'[i + 1] ELSE Null
      OBVIOUS
    <3>1. CASE i = 1
      <4>1. 1 \in DOMAIN order /\ order'[2] = order[1] /\ 1 < Len(order')
        BY <1>2, <1>3
      <4> QED
        BY <1>2, <1>3, <1>5, <3>1, <4>1
    <3>2. CASE i # 1
      <4>1. /\ i - 1 \in DOMAIN order /\ order'[i] = order[i - 1]
            /\ (i < Len(order') <=> i - 1 < Len(order))
            /\ i < Len(order') => order'[i + 1] = order[i] /\ i \in DOMAIN order
        BY <1>2, <1>3, <1>a, <3>2
      <4>2. next[order[i - 1]] = IF i - 1 < Len(order) THEN order[i] ELSE Null
        BY <1>2, <1>4, <4>1
      <4> QED
        BY <1>5, <4>1, <4>2
    <3> QED
      BY <3>1, <3>2
  <2>4. head' = order'[1] /\ order' # <<>>
    BY <1>1, <1>2, <1>3
  <2>5. order'[Len(order')] = order[Len(order)]
    BY <1>2, <1>3
  <2> QED
    BY <1>1, <1>2, <1>3, <1>5, <2>1, <2>2, <2>3, <2>4, <2>5 DEF Shape
<1>8. WalkInv'
  BY <1>1 DEF IndInv, WalkInv
<1>9. DataInv'
  <2>1. DataInv
    BY DEF IndInv
  <2>2. \A i \in DOMAIN order' :
          \/ i = 1 /\ data'[order'[i]] = d
          \/ /\ i # 1 /\ i - 1 \in DOMAIN order
             /\ data'[order'[i]] = data[order[i - 1]]
    <3> SUFFICES ASSUME NEW i \in DOMAIN order', i # 1
                 PROVE  /\ i - 1 \in DOMAIN order
                        /\ data'[order'[i]] = data[order[i - 1]]
      BY <1>3, <1>5
    <3>1. i - 1 \in DOMAIN order /\ (i - 1) + 1 = i
      BY <1>2, <1>3
    <3> QED
      BY <1>3, <1>5, <3>1
  <2>3. \A i \in DOMAIN order' : data'[order'[i]] \in Datas
    BY <2>1, <2>2 DEF DataInv
  <2>4. \A i, j \in DOMAIN order' :
          data'[order'[i]] \in Once /\ data'[order'[i]] = data'[order'[j]] => i = j
    <3> SUFFICES ASSUME NEW i \in DOMAIN order', NEW j \in DOMAIN order',
                        data'[order'[i]] \in Once, data'[order'[i]] = data'[order'[j]]
                 PROVE  i = j
      OBVIOUS
    <3>1. i = 1 => j = 1
      BY <1>1, <2>2
    <3>2. j = 1 => i = 1
      BY <1>1, <2>2
    <3>3. CASE i # 1 /\ j # 1
      <4>1. i - 1 = j - 1
        BY <2>1, <2>2, <3>3 DEF DataInv
      <4> QED
        BY <1>2, <1>3, <4>1
    <3> QED
      BY <3>1, <3>2, <3>3
  <2>5. DataFreedOnce'
    BY <1>1, <2>1, <2>2 DEF DataInv, DataFreedOnce
  <2> QED
    BY <2>3, <2>4, <2>5 DEF DataInv
<1> QED
  BY <1>6, <1>7, <1>8, <1>9 DEF IndInv

(* The calls that free nodes: of the first node only its own fields and    *)
(* what it hands over change.                                              *)
LEMMA StartFreeInd ==
  ASSUME IndInv, NEW do_free \in BOOLEAN, StartFree(do_free)
  PROVE  IndInv'
<1>1. /\ UNCHANGED <<head, live, heap, freed, order>>
      /\ pc = "idle" /\ (do_free => \A i \in DOMAIN order : data[order[i]] \in Once)
  BY DEF StartFree
<1>2. CASE head = Null
  <2>1. UNCHANGED <<pc, current, prev, arg>>
    BY <1>2, Zenon DEF StartFree, walking
  <2>2. WalkInv'
    BY <1>1, <2>1 DEF IndInv, WalkInv
  <2> QED
    BY <1>1, <2>1, <2>2, SameList DEF IndInv, TypeOK
<1>3. CASE head # Null
  <2>1. pc' = "free" /\ current' = head /\ prev' = Null
    BY <1>3, Zenon DEF StartFree
  <2>2. arg' = <<Null, do_free>>
    BY <1>3, Zenon DEF StartFree
  <2>3. arg' \in (Datas \cup {Null}) \X BOOLEAN /\ arg'[2] = do_free
    <3>1. Null \in Datas \cup {Null}
      OBVIOUS
    <3>2. /\ <<Null, do_free>> \in (Datas \cup {Null}) \X BOOLEAN
          /\ <<Null, do_free>>[2] = do_free
      BY <3>1, PairFacts, Zenon
    <3> QED
      BY <2>2, <3>2, Zenon
  <2>4. TypeOK'
    BY <1>1, <2>1, <2>3 DEF IndInv, TypeOK, heap
  <2>5. Shape'
    BY <1>1, <2>1 DEF IndInv, Shape, heap
  <2>6. WalkInv'
    BY <1>1, <2>1, <2>3 DEF WalkInv, heap
  <2>7. DataInv'
    BY <1>1 DEF IndInv, DataInv, DataFreedOnce, heap
  <2> QED
    BY <2>4, <2>5, <2>6, <2>7 DEF IndInv
<1> QED
  BY <1>2, <1>3

LEMMA FreeDoneInd ==
  ASSUME IndInv, FreeDone
  PROVE  IndInv'
<1>1. /\ UNCHANGED <<live, heap, freed, order>>
      /\ pc = "free" /\ current = Null /\ head' = Null
      /\ pc' = "idle" /\ current' = Null /\ prev' = Null
      /\ arg' = <<Null, FALSE>>
  BY DEF FreeDone, Rest
<1>2. arg' \in (Datas \cup {Null}) \X BOOLEAN /\ ~ arg'[2]
  BY <1>1, NoArg, Zenon
<1>3. order = <<>>
  BY <1>1, ListAssumption DEF IndInv, TypeOK, Shape
<1>4. TypeOK'
  BY <1>1, <1>2 DEF IndInv, TypeOK, heap
<1>5. Shape'
  BY <1>1, <1>3 DEF IndInv, Shape, heap
<1>6. WalkInv'
  BY <1>1, <1>2 DEF WalkInv
<1>7. DataInv'
  BY <1>1 DEF IndInv, DataInv, DataFreedOnce, heap
<1> QED
  BY <1>4, <1>5, <1>6, <1>7 DEF IndInv

LEMMA FreeNodeInd ==
  ASSUME IndInv, FreeNode
  PROVE  IndInv'
<1>1. /\ pc = "free" /\ current # Null /\ freed' = FreedData
      /\ live' = live \ {current} /\ current' = next[current]
      /\ data' = [data EXCEPT ![current] = Null]
      /\ next' = [next EXCEPT ![current] = Null]
      /\ tail' = [tail EXCEPT ![current] = Null]
      /\ size' = [size EXCEPT ![current] = 0]
      /\ order' = Tail(order)
      /\ UNCHANGED <<head, pc, prev, arg>>
  BY DEF FreeNode
<1>2. /\ order # <<>> /\ order \in Seq(Nodes) /\ current = order[1]
      /\ Len(order) \in Nat \ {0} /\ DOMAIN order = 1 .. Len(order)
  BY <1>1 DEF IndInv, TypeOK, Shape
<1>3. /\ order' \in Seq(Nodes) /\ Len(order') = Len(order) - 1
      /\ DOMAIN order' = 1 .. Len(order) - 1
      /\ \A i \in 1 .. Len(order) - 1 : order'[i] = order[i + 1]
  BY <1>1, <1>2, TailFacts
<1>4. /\ \A i \in DOMAIN order : order[i] \in Nodes
      /\ \A i, j \in DOMAIN order : order[i] = order[j] => i = j
      /\ \A i \in DOMAIN order :
           next[order[i]] = IF i < Len(order) THEN order[i + 1] ELSE Null
      /\ live = {order[i] : i \in DOMAIN order}
  BY <1>2 DEF IndInv, Shape
<1>5. \A i \in DOMAIN order' :
        /\ i + 1 \in DOMAIN order /\ 1 \in DOMAIN order
        /\ order'[i] = order[i + 1] /\ order'[i] # current /\ order'[i] \in Nodes
  BY <1>2, <1>3, <1>4
<1>6. \A i \in DOMAIN order' :
        data'[order'[i]] = data[order'[i]] /\ next'[order'[i]] = next[order'[i]]
  BY <1>1, <1>5 DEF IndInv, TypeOK
<1>7. /\ DataInv /\ data[current] \in Datas /\ current \in Nodes
      /\ freed' \subseteq freed \cup {data[current]} /\ freed \subseteq Datas
  <2>1. DataInv /\ freed \subseteq Datas /\ 1 \in DOMAIN order
    BY <1>2 DEF IndInv, TypeOK
  <2>2. data[current] \in Datas /\ current \in Nodes
    BY <1>2, <1>4, <2>1 DEF DataInv
  <2>3. freed' \subseteq freed \cup {data[current]}
    BY <1>1 DEF FreedData
  <2> QED
    BY <2>1, <2>2, <2>3
<1>8. TypeOK'
  <2>1. TypeOK
    BY DEF IndInv
  <2>2. /\ data' \in [Nodes -> Datas \cup {Null}]
        /\ next' \in [Nodes -> Nodes \cup {Null}]
        /\ tail' \in [Nodes -> Nodes \cup {Null}]
        /\ size' \in [Nodes -> Int]
    BY <1>1, <1>7, <2>1 DEF TypeOK
  <2>3. current' \in Nodes \cup {Null} /\ freed' \subseteq Datas
    BY <1>1, <1>7, <2>1 DEF TypeOK
  <2> QED
    BY <1>1, <1>3, <2>1, <2>2, <2>3 DEF TypeOK
<1>9. Shape'
  <2>1. (\A i, j \in DOMAIN order : order[i] = order[j] => i = j)'
    BY <1>2, <1>3, <1>4, <1>5
  <2>2. live' = {order'[i] : i \in DOMAIN order'}
    <3>1. ASSUME NEW x \in live' PROVE \E i \in DOMAIN order' : x = order'[i]
      <4>1. PICK k \in DOMAIN order : x = order[k] /\ k # 1
        BY <1>1, <1>2, <1>4
      <4>2. k - 1 \in DOMAIN order' /\ order'[k - 1] = x
        BY <1>2, <1>3, <4>1
      <4> QED
        BY <4>2
    <3>2. ASSUME NEW i \in DOMAIN order' PROVE order'[i] \in live'
      BY <1>1, <1>4, <1>5
    <3> QED
      BY <3>1, <3>2
  <2>3. (\A i \in DOMAIN order :
           next[order[i]] = IF i < Len(order) THEN order[i + 1] ELSE Null)'
    <3> SUFFICES ASSUME NEW i \in DOMAIN order'
                 PROVE  next'[order'[i]] =
                          IF i < Len(order') THEN order'[i + 1] ELSE Null
      OBVIOUS
    <3>1. /\ i < Len(order') <=> i + 1 < Len(order)
          /\ i < Len(order') => order'[i + 1] = order[(i + 1) + 1]
      BY <1>2, <1>3
    <3>2. next[order[i + 1]] =
            IF i + 1 < Len(order) THEN order[(i + 1) + 1] ELSE Null
      BY <1>4, <1>5
    <3> QED
      BY <1>5, <1>6, <3>1, <3>2
  <2>4. current' = IF order' = <<>> THEN Null ELSE order'[1]
    <3>1. current' = IF 1 < Len(order) THEN order[2] ELSE Null
      BY <1>1, <1>2, <1>4
    <3>2. 1 < Len(order) <=> order' # <<>>
      BY <1>2, <1>3
    <3> QED
      BY <1>2, <1>3, <3>1, <3>2
  <2> QED
    BY <1>1, <2>1, <2>2, <2>3, <2>4 DEF Shape
<1>a. WalkInv'
  <2>1. arg[2] => \A i \in DOMAIN order : data[order[i]] \in Once
    BY <1>1 DEF IndInv, WalkInv
  <2>2. arg[2] => \A i \in DOMAIN order' : data'[order'[i]] \in Once
    BY <1>5, <1>6, <2>1
  <2> QED
    BY <1>1, <2>2 DEF IndInv, WalkInv
<1>b. DataInv'
  <2>1. \A i \in DOMAIN order' : data'[order'[i]] = data[order[i + 1]]
    BY <1>5, <1>6
  <2>2. \A i \in DOMAIN order' : data'[order'[i]] \in Datas
    BY <1>5, <1>7, <2>1 DEF DataInv
  <2>3. \A i, j \in DOMAIN order' :
                      data'[order'[i]] \in Once /\ data'[order'[i]] = data'[order'[j]] => i = j
    BY <1>3, <1>5, <1>7, <2>1 DEF DataInv
  <2>4. \A i \in DOMAIN order' : data[order[i + 1]] \notin freed'
    <3>1. CASE arg[2]
      <4>1. \A i \in DOMAIN order : data[order[i]] \in Once
        BY <1>1, <3>1 DEF IndInv, WalkInv
      <4>2. \A i \in DOMAIN order' : data[order[i + 1]] # data[order[1]]
        BY <1>2, <1>3, <1>5, <1>7, <4>1 DEF DataInv
      <4> QED
        BY <1>2, <1>5, <1>7, <4>2 DEF DataInv, DataFreedOnce
    <3>2. CASE ~ arg[2]
      <4>1. freed' = freed
        BY <1>1, <3>2 DEF FreedData
      <4> QED
        BY <1>5, <1>7, <4>1 DEF DataInv, DataFreedOnce
    <3> QED
      BY <3>1, <3>2
  <2> QED
    BY <2>1, <2>2, <2>3, <2>4 DEF DataInv, DataFreedOnce
<1> QED
  BY <1>8, <1>9, <1>a, <1>b DEF IndInv

(* The node that is unlinked is the i-th; its neighbours are joined.  A     *)
(* node that stays is the j-th afterwards and was the k-th before.         *)
LEMMA UnlinkFacts ==
  ASSUME IndInv, Unlink
  PROVE  \E i \in DOMAIN order :
           /\ At(i) /\ order' = Without(order, i)
           /\ order' \in Seq(Nodes) /\ Len(order') = Len(order) - 1
           /\ DOMAIN order' = 1 .. Len(order) - 1
           /\ \A j \in DOMAIN order' :
                /\ order'[j] = IF j < i THEN order[j] ELSE order[j + 1]
                /\ \E k \in DOMAIN order :
                     k = (IF j < i THEN j ELSE j + 1) /\ k # i
                     /\ order'[j] = order[k] /\ order[k] # current
<1>1. /\ pc = "walk" /\ current # Null
      /\ \E i \in DOMAIN order : order[i] = current /\ order' = Without(order, i)
  BY DEF Unlink
<1>2. PICK i \in DOMAIN order : At(i)
  BY <1>1 DEF Unlink, IndInv, WalkInv, Searching
<1>3. PICK k \in DOMAIN order : order[k] = current /\ order' = Without(order, k)
  BY <1>1
<1>4. \A m, n \in DOMAIN order : order[m] = order[n] => m = n
  BY DEF IndInv, Shape
<1>5. i = k
  BY <1>2, <1>3, <1>4 DEF At
<1>6. order \in Seq(Nodes)
  BY DEF IndInv, TypeOK
<1>7. Len(order) \in Nat /\ DOMAIN order = 1 .. Len(order)
  BY <1>6
<1>8. /\ order' \in Seq(Nodes) /\ Len(order') = Len(order) - 1
      /\ DOMAIN order' = 1 .. Len(order) - 1
      /\ \A j \in 1 .. Len(order) - 1 :
           order'[j] = IF j < i THEN order[j] ELSE order[j + 1]
  BY <1>3, <1>5, <1>6, WithoutFacts
<1>9. ASSUME NEW j \in DOMAIN order'
      PROVE  \E k1 \in DOMAIN order :
               k1 = (IF j < i THEN j ELSE j + 1) /\ k1 # i
               /\ order'[j] = order[k1] /\ order[k1] # current
  <2> DEFINE m == IF j < i THEN j ELSE j + 1
  <2>1. m \in DOMAIN order /\ m # i /\ order'[j] = order[m]
    BY <1>7, <1>8
  <2>2. order[m] # current
    BY <1>3, <1>4, <1>5, <2>1
  <2> QED
    BY <2>1, <2>2
<1> QED
  BY <1>2, <1>3, <1>5, <1>8, <1>9

LEMMA UnlinkInd ==
  ASSUME IndInv, Unlink
  PROVE  IndInv'
<1>1. /\ pc = "walk" /\ current # Null /\ data[current] = arg[1]
      /\ head' = NewHead
      /\ next' = [n \in Nodes |-> IF n = current THEN Null
                                 ELSE IF n = prev THEN next[current] ELSE next[n]]
      /\ size' = [n \in Nodes |-> IF n = current THEN 0
                                 ELSE IF n = NewHead THEN size[head] - 1 ELSE size[n]]
      /\ tail' = [n \in Nodes |-> IF n = current THEN Null
                                 ELSE IF n = NewHead THEN NewTail ELSE tail[n]]
      /\ data' = [data EXCEPT ![current] = Null]
      /\ freed' = FreedData /\ live' = live \ {current}
      /\ pc' = "idle" /\ current' = Null /\ prev' = Null
      /\ arg' = <<Null, FALSE>>
  BY DEF Unlink, Rest
<1>2. PICK i \in DOMAIN order :
        /\ At(i) /\ order' = Without(order, i)
        /\ order' \in Seq(Nodes) /\ Len(order') = Len(order) - 1
        /\ DOMAIN order' = 1 .. Len(order) - 1
        /\ \A j \in DOMAIN order' :
             /\ order'[j] = IF j < i THEN order[j] ELSE order[j + 1]
             /\ \E k \in DOMAIN order :
                  k = (IF j < i THEN j ELSE j + 1) /\ k # i
                  /\ order'[j] = order[k] /\ order[k] # current
  BY UnlinkFacts
<1>3. /\ current = order[i] /\ i \in DOMAIN order
      /\ prev = order[IF i = 1 THEN 1 ELSE i - 1]
  BY <1>2 DEF At
<1>4. /\ Len(order) \in Nat \ {0} /\ DOMAIN order = 1 .. Len(order)
      /\ head = order[1] /\ tail[head] = order[Len(order)] /\ size[head] = Len(order)
      /\ head \in Nodes /\ tail[head] \in Nodes
      /\ 1 \in DOMAIN order /\ Len(order) \in DOMAIN order
  <2>1. order # <<>>
    BY <1>2 DEF IndInv, TypeOK
  <2> QED
    BY <1>1, <2>1, HeadFacts
<1>5. /\ \A j \in DOMAIN order : order[j] \in Nodes /\ order[j] \in live
      /\ \A j, k \in DOMAIN order : order[j] = order[k] => j = k
      /\ \A j \in DOMAIN order :
           next[order[j]] = IF j < Len(order) THEN order[j + 1] ELSE Null
      /\ live = {order[j] : j \in DOMAIN order}
  BY DEF IndInv, TypeOK, Shape
<1>6. prev \in Nodes /\ current \in Nodes /\ (i # 1 => i - 1 \in DOMAIN order)
  BY <1>3, <1>4, <1>5
<1>7. /\ NewHead = IF order' = <<>> THEN Null ELSE order'[1]
      /\ NewHead \in Nodes \cup {Null} /\ NewHead # current
  <2>1. CASE i = 1
    <3>1. NewHead = IF 1 < Len(order) THEN order[2] ELSE Null
      BY <1>3, <1>4, <1>5, <2>1 DEF NewHead
    <3>2. CASE 1 < Len(order)
      <4>1. 1 \in DOMAIN order' /\ order' # <<>> /\ order'[1] = order[2]
        BY <1>2, <1>4, <2>1, <3>2
      <4>2. 2 \in DOMAIN order /\ order[2] # current
        BY <1>3, <1>4, <1>5, <2>1, <3>2
      <4> QED
        BY <1>5, <3>1, <3>2, <4>1, <4>2
    <3>3. CASE ~ (1 < Len(order))
      <4>1. order' = <<>>
        BY <1>2, <1>4, <3>3
      <4> QED
        BY <1>1, <3>1, <3>3, <4>1
    <3> QED
      BY <3>2, <3>3
  <2>2. CASE i # 1
    <3>1. head # current /\ NewHead = head
      BY <1>3, <1>4, <1>5, <2>2 DEF NewHead
    <3>2. 1 \in DOMAIN order' /\ order' # <<>> /\ order'[1] = order[1]
      BY <1>2, <1>3, <1>4, <2>2
    <3> QED
      BY <1>4, <3>1, <3>2
  <2> QED
    BY <2>1, <2>2
<1>8. NewTail \in Nodes
  BY <1>4, <1>6 DEF NewTail
<1>9. arg' \in (Datas \cup {Null}) \X BOOLEAN /\ ~ arg'[2]
  BY <1>1, NoArg, Zenon
<1>a. TypeOK'
  <2>1. TypeOK
    BY DEF IndInv
  <2>2. next' \in [Nodes -> Nodes \cup {Null}]
    BY <1>1, <1>6, <2>1 DEF TypeOK
  <2>3. size' \in [Nodes -> Int]
    BY <1>1, <1>4, <2>1 DEF TypeOK
  <2>4. tail' \in [Nodes -> Nodes \cup {Null}]
    BY <1>1, <1>8, <2>1 DEF TypeOK
  <2>5. data' \in [Nodes -> Datas \cup {Null}]
    BY <1>1, <2>1 DEF TypeOK
  <2>6. freed' \subseteq Datas
    <3>1. data[current] \in Datas
      BY <1>3 DEF IndInv, DataInv
    <3> QED
      BY <1>1, <2>1, <3>1 DEF TypeOK, FreedData
  <2>7. live' \subseteq Nodes /\ head' \in Nodes \cup {Null}
    BY <1>1, <1>7, <2>1 DEF TypeOK
  <2>8. /\ pc' \in {"idle", "walk", "free"}
        /\ current' \in Nodes \cup {Null} /\ prev' \in Nodes \cup {Null}
    BY <1>1
  <2> QED
    BY <1>2, <1>9, <2>2, <2>3, <2>4, <2>5, <2>6, <2>7, <2>8 DEF TypeOK
<1>b. Shape'
  <2>1. (\A j, k \in DOMAIN order : order[j] = order[k] => j = k)'
    <3> SUFFICES ASSUME NEW j \in DOMAIN order', NEW k \in DOMAIN order',
                        order'[j] = order'[k]
                 PROVE  j = k
      OBVIOUS
    <3>1. PICK j1 \in DOMAIN order :
            j1 = (IF j < i THEN j ELSE j + 1) /\ order'[j] = order[j1]
      BY <1>2
    <3>2. PICK k1 \in DOMAIN order :
            k1 = (IF k < i THEN k ELSE k + 1) /\ order'[k] = order[k1]
      BY <1>2
    <3>3. j1 = k1
      BY <1>5, <3>1, <3>2
    <3> QED
      BY <1>2, <1>4, <3>1, <3>2, <3>3
  <2>2. live' = {order'[j] : j \in DOMAIN order'}
    <3>1. ASSUME NEW x \in live' PROVE \E j \in DOMAIN order' : x = order'[j]
      <4>1. PICK k \in DOMAIN order : x = order[k] /\ k # i
        BY <1>1, <1>3, <1>5
      <4>2. CASE k < i
        BY <1>2, <1>4, <4>1, <4>2
      <4>3. CASE ~ (k < i)
        <5>1. k - 1 \in DOMAIN order' /\ ~ (k - 1 < i) /\ (k - 1) + 1 = k
          BY <1>2, <1>4, <4>1, <4>3
        <5> QED
          BY <1>2, <4>1, <5>1
      <4> QED
        BY <4>2, <4>3
    <3>2. ASSUME NEW j \in DOMAIN order' PROVE order'[j] \in live'
      BY <1>1, <1>2, <1>5
    <3> QED
      BY <3>1, <3>2
  <2>3. (\A j \in DOMAIN order :
           next[order[j]] = IF j < Len(order) THEN order[j + 1] ELSE Null)'
    <3> SUFFICES ASSUME NEW j \in DOMAIN order'
                 PROVE  next'[order'[j]] =
                          IF j < Len(order') THEN order'[j + 1] ELSE Null
      OBVIOUS
    <3>1. PICK k \in DOMAIN order :
            /\ k = (IF j < i THEN j ELSE j + 1) /\ k # i
            /\ order'[j] = order[k] /\ order[k] # current
      BY <1>2
    <3>2. order'[j] = prev <=> (i # 1 /\ k = i - 1)
      BY <1>3, <1>5, <1>6, <3>1
    <3>3. CASE i # 1 /\ k = i - 1
      <4>1. next'[order'[j]] = IF i < Len(order) THEN order[i + 1] ELSE Null
        BY <1>1, <1>3, <1>5, <1>6, <3>1, <3>2, <3>3
      <4>2. j = i - 1 /\ (j < Len(order') <=> i < Len(order))
        BY <1>2, <1>4, <3>1, <3>3
      <4>3. i < Len(order) => order'[j + 1] = order[i + 1]
        BY <1>2, <1>4, <4>2
      <4> QED
        BY <4>1, <4>2, <4>3
    <3>4. CASE ~ (i # 1 /\ k = i - 1)
      <4>1. next'[order'[j]] = IF k < Len(order) THEN order[k + 1] ELSE Null
        BY <1>1, <1>5, <3>1, <3>2, <3>4
      <4>2. j < Len(order') <=> k < Len(order)
        BY <1>2, <1>4, <3>1, <3>4
      <4>3. k < Len(order) => order'[j + 1] = order[k + 1]
        BY <1>2, <1>4, <3>1, <3>4, <4>2
      <4> QED
        BY <4>1, <4>2, <4>3
    <3> QED
      BY <3>3, <3>4
  <2>4. order' # <<>> => size'[head'] = Len(order') /\ tail'[head'] = order'[Len(order')]
    <3> SUFFICES ASSUME order' # <<>>
                 PROVE  size'[head'] = Len(order') /\ tail'[head'] = order'[Len(order')]
      OBVIOUS
    <3>1. head' = NewHead /\ head' \in Nodes /\ head' # current
      BY <1>1, <1>2, <1>7
    <3>2. size'[head'] = Len(order')
      BY <1>1, <1>2, <1>4, <3>1
    <3>3. tail'[head'] = NewTail
      BY <1>1, <3>1
    <3>4. Len(order) - 1 \in DOMAIN order' /\ Len(order') = Len(order) - 1
      BY <1>2, <1>4
    <3>5. CASE i = Len(order)
      BY <1>2, <1>3, <1>4, <3>2, <3>3, <3>4, <3>5, SMTT(40) DEF NewTail
    <3>6. CASE i # Len(order)
      <4>1. NewTail = order[Len(order)]
        BY <1>3, <1>4, <1>5, <3>6 DEF NewTail
      <4>2. order'[Len(order) - 1] = order[Len(order)]
        BY <1>2, <1>3, <1>4, <3>4, <3>6
      <4> QED
        BY <3>2, <3>3, <3>4, <4>1, <4>2
    <3> QED
      BY <3>5, <3>6
  <2> QED
    BY <1>1, <1>7, <2>1, <2>2, <2>3, <2>4 DEF Shape
<1>c. WalkInv'
  BY <1>1, <1>9 DEF WalkInv
<1>d. DataInv'
  <2>1. DataInv /\ data[current] \in Datas
    BY <1>3 DEF IndInv, DataInv
  <2>2. \A j \in DOMAIN order' : \E k \in DOMAIN order :
          /\ k = (IF j < i THEN j ELSE j + 1) /\ k # i
          /\ data'[order'[j]] = data[order[k]]
    <3> SUFFICES ASSUME NEW j \in DOMAIN order'
                 PROVE  \E k \in DOMAIN order :
                          /\ k = (IF j < i THEN j ELSE j + 1) /\ k # i
                          /\ data'[order'[j]] = data[order[k]]
      OBVIOUS
    <3>1. PICK k \in DOMAIN order :
            /\ k = (IF j < i THEN j ELSE j + 1) /\ k # i
            /\ order'[j] = order[k] /\ order[k] # current
      BY <1>2
    <3>2. data'[order[k]] = data[order[k]]
      BY <1>1, <1>5, <3>1 DEF IndInv, TypeOK
    <3> QED
      BY <3>1, <3>2
  <2>3. \A j \in DOMAIN order' : data'[order'[j]] \in Datas
    BY <2>1, <2>2 DEF DataInv
  <2>4. \A j, k \in DOMAIN order' :
                      data'[order'[j]] \in Once /\ data'[order'[j]] = data'[order'[k]] => j = k
    <3> SUFFICES ASSUME NEW j \in DOMAIN order', NEW k \in DOMAIN order',
                        data'[order'[j]] \in Once, data'[order'[j]] = data'[order'[k]]
                 PROVE  j = k
      OBVIOUS
    <3>1. PICK j1 \in DOMAIN order :
            j1 = (IF j < i THEN j ELSE j + 1) /\ data'[order'[j]] = data[order[j1]]
      BY <2>2
    <3>2. PICK k1 \in DOMAIN order :
            k1 = (IF k < i THEN k ELSE k + 1) /\ data'[order'[k]] = data[order[k1]]
      BY <2>2
    <3>3. j1 = k1
      BY <2>1, <3>1, <3>2 DEF DataInv
    <3> QED
      BY <1>2, <1>4, <3>1, <3>2, <3>3
  <2>5. \A k \in DOMAIN order : k # i => data[order[k]] \notin freed'
    <3>1. CASE arg[2]
      <4>1. data[current] \in Once
        BY <1>1, <1>3, <3>1 DEF IndInv, WalkInv
      <4>2. \A k \in DOMAIN order : k # i => data[order[k]] # data[current]
        BY <1>3, <2>1, <4>1 DEF DataInv
      <4> QED
        BY <1>1, <2>1, <4>2 DEF DataInv, DataFreedOnce, FreedData
    <3>2. CASE ~ arg[2]
      BY <1>1, <2>1, <3>2 DEF DataInv, DataFreedOnce, FreedData
    <3> QED
      BY <3>1, <3>2
  <2>6. DataFreedOnce'
    BY <2>2, <2>5 DEF DataFreedOnce
  <2> QED
    BY <2>3, <2>4, <2>6 DEF DataInv
<1> QED
  BY <1>a, <1>b, <1>c, <1>d DEF IndInv

LEMMA NextInd == IndInv /\ [Next]_vars => IndInv'
<1> SUFFICES ASSUME IndInv, [Next]_vars PROVE IndInv'
  OBVIOUS
<1>1. CASE \E d \in Datas, call \in {"append", "prepend"} : OutOfMemory(call, d)
  BY <1>1, OutOfMemoryInd
<1>2. CASE \E d \in Datas, call \in {"append", "prepend"}, n \in Nodes : NewList(call, n, d)
  BY <1>2, NewListInd
<1>3. CASE \E d \in Datas, n \in Nodes : AppendNode(n, d)
  BY <1>3, AppendNodeInd
<1>4. CASE \E d \in Datas, n \in Nodes : PrependNode(n, d)
  BY <1>4, PrependNodeInd
<1>5. CASE \E d \in Datas, do_free \in BOOLEAN : StartRemove(d, do_free)
  BY <1>5, StartRemoveInd
<1>6. CASE \E do_free \in BOOLEAN : StartFree(do_free)
  BY <1>6, StartFreeInd
<1>7. CASE Walk
  BY <1>7, AdvanceInd, NotFoundInd, UnlinkInd, FreeNodeInd, FreeDoneInd DEF Walk
<1>8. CASE UNCHANGED vars
  <2>1. UNCHANGED <<head, live, data, next, tail, size, pc, current, prev, arg,
                    freed, order, last>>
    BY <1>8 DEF vars, heap, walking
  <2> QED
    BY <2>1 DEF IndInv, TypeOK, Shape, WalkInv, Searching, At, DataInv, DataFreedOnce
<1> QED
  BY <1>1, <1>2, <1>3, <1>4, <1>5, <1>6, <1>7, <1>8 DEF Next

LEMMA Invariance == Spec => []IndInv
BY InitInd, NextInd, PTL DEF Spec

-----------------------------------------------------------------------------
(* What holds in every reachable state *)

(* Every field of every node, and every variable of a walk, has its type. *)
THEOREM TypeCorrect == Spec => []TypeOK
<1>1. IndInv => TypeOK
  BY DEF IndInv
<1> QED
  BY <1>1, Invariance, PTL

(* However nodes are appended, prepended and removed, the pointers list    *)
(* them in order, nothing else is allocated, and the first node knows the  *)
(* size and the last node: what nc_list_append relies on.                  *)
THEOREM ShapeHolds == Spec => []Shape
<1>1. IndInv => Shape
  BY DEF IndInv
<1> QED
  BY <1>1, Invariance, PTL

(* No call of src/list.c reads or writes a node that has been freed.       *)
THEOREM FreedNeverUsed == Spec => []NoUseAfterFree
<1>1. IndInv => NoUseAfterFree
  <2> SUFFICES ASSUME IndInv PROVE NoUseAfterFree
    OBVIOUS
  <2>1. head # Null /\ pc # "free" => {head, tail[head]} \subseteq live
    BY HeadFacts DEF IndInv, Shape
  <2>2. {current, prev} \subseteq live \cup {Null}
    <3>1. CASE pc = "idle"
      BY <3>1 DEF IndInv, WalkInv
    <3>2. CASE pc = "walk"
      <4>1. CASE current = Null
        <5>1. prev \in live \cup {Null}
          <6>1. CASE \E k \in DOMAIN order : At(k)
            BY <3>2, <4>1, <6>1, ListAssumption DEF At, IndInv, TypeOK, Shape
          <6>2. CASE ~ \E k \in DOMAIN order : At(k)
            BY <3>2, <6>2 DEF IndInv, WalkInv, Searching
          <6> QED
            BY <6>1, <6>2
        <5> QED
          BY <4>1, <5>1
      <4>2. CASE current # Null
        <5>1. PICK k \in DOMAIN order : At(k)
          BY <3>2, <4>2 DEF IndInv, WalkInv, Searching
        <5>2. (IF k = 1 THEN 1 ELSE k - 1) \in DOMAIN order
          BY <3>2, HeadFacts
        <5> QED
          BY <5>1, <5>2 DEF At, IndInv, Shape
      <4> QED
        BY <4>1, <4>2
    <3>3. CASE pc = "free"
      <4>1. current = IF order = <<>> THEN Null ELSE order[1]
        BY <3>3 DEF IndInv, Shape
      <4>2. order # <<>> => 1 \in DOMAIN order
        BY DEF IndInv, TypeOK
      <4> QED
        BY <3>3, <4>1, <4>2 DEF IndInv, WalkInv, Shape
    <3> QED
      BY <3>1, <3>2, <3>3 DEF IndInv, TypeOK
  <2> QED
    BY <2>1, <2>2 DEF NoUseAfterFree
<1> QED
  BY <1>1, Invariance, PTL

(* The list never frees data that one of its nodes still points to.        *)
THEOREM DataFreedAtMostOnce == Spec => []DataFreedOnce
<1>1. IndInv => DataFreedOnce
  BY DEF IndInv, DataInv
<1> QED
  BY <1>1, Invariance, PTL

-----------------------------------------------------------------------------
(* Refinement: a step of the code is a step of ListSpec or none *)

Items == IF pc = "free" THEN <<>> ELSE [i \in DOMAIN order |-> data[order[i]]]

ItemsOK ==
  /\ Items \in Seq(Datas) /\ Len(Items) = Len(order)
  /\ DOMAIN Items = DOMAIN order
  /\ \A i \in DOMAIN order : Items[i] = data[order[i]]

LEMMA ItemsFacts == IndInv /\ pc # "free" => ItemsOK
<1> SUFFICES ASSUME IndInv, pc # "free" PROVE ItemsOK
  OBVIOUS
<1>1. Len(order) \in Nat /\ DOMAIN order = 1 .. Len(order)
  BY HeadFacts
<1>2. Items = [i \in 1 .. Len(order) |-> data[order[i]]]
  BY <1>1 DEF Items
<1>3. Items \in [1 .. Len(order) -> Datas]
  BY <1>1, <1>2 DEF IndInv, DataInv
<1>4. Items \in Seq(Datas) /\ Len(Items) = Len(order)
  BY <1>1, <1>3
<1> QED
  BY <1>1, <1>2, <1>4 DEF ItemsOK

LEMMA ItemsFactsNext == (IndInv /\ pc # "free" => ItemsOK)'
BY ItemsFacts, PTL

LEMMA SameItems ==
  ASSUME UNCHANGED <<data, order>>, pc # "free", pc' # "free"
  PROVE  Items' = Items
BY DEF Items

LEMMA SameSequence ==
  ASSUME NEW S, NEW s \in Seq(S), NEW t \in Seq(S), Len(s) = Len(t),
         \A i \in 1 .. Len(s) : s[i] = t[i]
  PROVE  s = t
OBVIOUS

LEMMA InitRefines == Init => Abstract!Init
<1> SUFFICES ASSUME Init PROVE Abstract!Init
  OBVIOUS
<1>1. pc = "idle" /\ order = <<>> /\ IndInv
  BY InitInd DEF Init
<1>2. Items \in Seq(Datas) /\ Len(Items) = 0
  BY <1>1, ItemsFacts DEF ItemsOK
<1>3. Items = <<>>
  BY <1>2
<1>4. last = <<"none", Null, TRUE>>
  BY DEF Init
<1> QED
  BY <1>3, <1>4, Zenon DEF Abstract!Init, Items

LEMMA OutOfMemoryRefines ==
  ASSUME IndInv, NEW call \in {"append", "prepend"}, NEW d \in Datas,
         OutOfMemory(call, d)
  PROVE  Abstract!AddLast(d) \/ Abstract!AddFirst(d)
<1>1. Items' = Items
  BY SameItems DEF OutOfMemory, MayAdd, heap, walking
<1>2. last' = <<call, d, FALSE>>
  BY DEF OutOfMemory
<1> QED
  BY <1>1, <1>2, Zenon DEF Abstract!AddLast, Abstract!AddFirst, Items

LEMMA NewListRefines ==
  ASSUME IndInv, NEW call \in {"append", "prepend"}, NEW n \in Nodes,
         NEW d \in Datas, NewList(call, n, d)
  PROVE  Abstract!AddLast(d) \/ Abstract!AddFirst(d)
<1>1. /\ pc = "idle" /\ pc' = "idle" /\ head = Null /\ order' = <<n>>
      /\ data' = [data EXCEPT ![n] = d]
  BY DEF NewList, MayAdd, NewNode, walking
<1>2. IndInv'
  BY NewListInd
<1>3. order = <<>> /\ Items = <<>>
  <2>1. order = <<>> /\ Items \in Seq(Datas) /\ Len(Items) = Len(order)
    BY <1>1, HeadFacts, ItemsFacts DEF ItemsOK
  <2> QED
    BY <2>1
<1>4. Items' \in Seq(Datas) /\ Len(Items') = 1 /\ Items'[1] = d
  <2>1. /\ Items' \in Seq(Datas) /\ Len(Items') = Len(order')
        /\ \A i \in DOMAIN order' : Items'[i] = data'[order'[i]]
    BY <1>1, <1>2, ItemsFactsNext DEF ItemsOK
  <2>2. data'[n] = d
    BY <1>1 DEF IndInv, TypeOK
  <2> QED
    BY <1>1, <2>1, <2>2
<1>5. Items' = Append(Items, d) /\ Items' = <<d>> \o Items
  BY <1>3, <1>4
<1>6. last' = <<call, d, TRUE>>
  BY DEF NewList
<1> QED
  BY <1>5, <1>6, Zenon DEF Abstract!AddLast, Abstract!AddFirst, Items

LEMMA AppendNodeRefines ==
  ASSUME IndInv, NEW n \in Nodes, NEW d \in Datas, AppendNode(n, d)
  PROVE  Abstract!AddLast(d)
<1>1. /\ pc = "idle" /\ pc' = "idle" /\ order' = Append(order, n)
      /\ data' = [data EXCEPT ![n] = d] /\ n \notin live
  BY DEF AppendNode, MayAdd, NewNode, walking
<1>2. IndInv'
  BY AppendNodeInd
<1>3. /\ Items' \in Seq(Datas) /\ Len(Items') = Len(order')
      /\ \A i \in DOMAIN order' : Items'[i] = data'[order'[i]]
  BY <1>1, <1>2, ItemsFactsNext DEF ItemsOK
<1>4. /\ Items \in Seq(Datas) /\ Len(Items) = Len(order) /\ Len(order) \in Nat
      /\ DOMAIN order = 1 .. Len(order)
      /\ \A i \in DOMAIN order : Items[i] = data[order[i]]
  BY <1>1, ItemsFacts, HeadFacts DEF ItemsOK
<1>5. /\ Len(order') = Len(order) + 1 /\ DOMAIN order' = 1 .. Len(order) + 1
      /\ order'[Len(order) + 1] = n
      /\ \A i \in DOMAIN order : order'[i] = order[i]
  BY <1>1, AppendFacts DEF IndInv, TypeOK
<1>6. /\ data'[n] = d
      /\ \A i \in DOMAIN order : data'[order[i]] = data[order[i]]
  BY <1>1 DEF IndInv, TypeOK, Shape
<1>7. Items' = Append(Items, d)
  <2>1. /\ Append(Items, d) \in Seq(Datas) /\ Len(Append(Items, d)) = Len(order) + 1
        /\ Append(Items, d)[Len(order) + 1] = d
        /\ \A i \in DOMAIN order : Append(Items, d)[i] = Items[i]
    BY <1>4, AppendFacts
  <2>2. \A i \in 1 .. Len(Items') : Items'[i] = Append(Items, d)[i]
    <3> SUFFICES ASSUME NEW i \in 1 .. Len(Items')
                 PROVE  Items'[i] = Append(Items, d)[i]
      OBVIOUS
    <3>1. i \in DOMAIN order \/ i = Len(order) + 1
      BY <1>3, <1>4, <1>5
    <3> QED
      BY <1>3, <1>4, <1>5, <1>6, <2>1, <3>1
  <2>3. Len(Items') = Len(Append(Items, d))
    BY <1>3, <1>5, <2>1
  <2> QED
    BY <1>3, <2>1, <2>2, <2>3, SameSequence
<1>8. last' = <<"append", d, TRUE>>
  BY DEF AppendNode
<1> QED
  BY <1>7, <1>8, Zenon DEF Abstract!AddLast, Items

LEMMA PrependNodeRefines ==
  ASSUME IndInv, NEW n \in Nodes, NEW d \in Datas, PrependNode(n, d)
  PROVE  Abstract!AddFirst(d)
<1>1. /\ pc = "idle" /\ pc' = "idle" /\ order' = <<n>> \o order
      /\ data' = [data EXCEPT ![n] = d] /\ n \notin live
  BY DEF PrependNode, MayAdd, NewNode, walking
<1>2. IndInv'
  BY PrependNodeInd
<1>3. /\ Items' \in Seq(Datas) /\ Len(Items') = Len(order')
      /\ \A i \in DOMAIN order' : Items'[i] = data'[order'[i]]
  BY <1>1, <1>2, ItemsFactsNext DEF ItemsOK
<1>4. /\ Items \in Seq(Datas) /\ Len(Items) = Len(order) /\ Len(order) \in Nat
      /\ DOMAIN order = 1 .. Len(order) /\ DOMAIN Items = DOMAIN order
      /\ \A i \in DOMAIN order : Items[i] = data[order[i]]
  BY <1>1, ItemsFacts, HeadFacts DEF ItemsOK
<1>5. /\ Len(order') = Len(order) + 1 /\ DOMAIN order' = 1 .. Len(order) + 1
      /\ order'[1] = n
      /\ \A i \in DOMAIN order : order'[i + 1] = order[i]
  BY <1>1, ConsFacts DEF IndInv, TypeOK
<1>6. /\ data'[n] = d
      /\ \A i \in DOMAIN order : data'[order[i]] = data[order[i]]
  BY <1>1 DEF IndInv, TypeOK, Shape
<1>7. Items' = <<d>> \o Items
  <2>1. /\ <<d>> \o Items \in Seq(Datas) /\ Len(<<d>> \o Items) = Len(order) + 1
        /\ (<<d>> \o Items)[1] = d
        /\ \A i \in DOMAIN order : (<<d>> \o Items)[i + 1] = Items[i]
    BY <1>4, ConsFacts
  <2>2. \A i \in 1 .. Len(Items') : Items'[i] = (<<d>> \o Items)[i]
    <3> SUFFICES ASSUME NEW i \in 1 .. Len(Items')
                 PROVE  Items'[i] = (<<d>> \o Items)[i]
      OBVIOUS
    <3>1. CASE i = 1
      BY <1>3, <1>4, <1>5, <1>6, <2>1, <3>1
    <3>2. CASE i # 1
      <4>1. i - 1 \in DOMAIN order /\ (i - 1) + 1 = i /\ i \in DOMAIN order'
        BY <1>3, <1>4, <1>5, <3>2
      <4>2. Items'[i] = data[order[i - 1]]
        BY <1>3, <1>5, <1>6, <4>1
      <4> QED
        BY <1>4, <2>1, <4>1, <4>2
    <3> QED
      BY <3>1, <3>2
  <2>3. Len(Items') = Len(<<d>> \o Items)
    BY <1>3, <1>5, <2>1
  <2> QED
    BY <1>3, <2>1, <2>2, <2>3, SameSequence
<1>8. last' = <<"prepend", d, TRUE>>
  BY DEF PrependNode
<1> QED
  BY <1>7, <1>8, Zenon DEF Abstract!AddFirst, Items

LEMMA UnlinkRefines ==
  ASSUME IndInv, Unlink
  PROVE  \E d \in Datas : Abstract!Remove(d)
<1>1. /\ pc = "walk" /\ pc' = "idle" /\ current # Null /\ data[current] = arg[1]
      /\ data' = [data EXCEPT ![current] = Null]
  BY DEF Unlink, Rest
<1>2. IndInv'
  BY UnlinkInd
<1>3. PICK i \in DOMAIN order :
        /\ At(i) /\ order' = Without(order, i)
        /\ order' \in Seq(Nodes) /\ Len(order') = Len(order) - 1
        /\ DOMAIN order' = 1 .. Len(order) - 1
        /\ \A j \in DOMAIN order' :
             /\ order'[j] = IF j < i THEN order[j] ELSE order[j + 1]
             /\ \E k \in DOMAIN order :
                  k = (IF j < i THEN j ELSE j + 1) /\ k # i
                  /\ order'[j] = order[k] /\ order[k] # current
  BY UnlinkFacts
<1>4. /\ Items' \in Seq(Datas) /\ Len(Items') = Len(order')
      /\ \A j \in DOMAIN order' : Items'[j] = data'[order'[j]]
  BY <1>1, <1>2, ItemsFactsNext DEF ItemsOK
<1>5. /\ Items \in Seq(Datas) /\ Len(Items) = Len(order) /\ Len(order) \in Nat
      /\ DOMAIN order = 1 .. Len(order) /\ DOMAIN Items = DOMAIN order
      /\ \A j \in DOMAIN order : Items[j] = data[order[j]]
  BY <1>1, ItemsFacts, HeadFacts DEF ItemsOK
<1>6. \A j \in DOMAIN order' :
        Items'[j] = IF j < i THEN Items[j] ELSE Items[j + 1]
  <2> SUFFICES ASSUME NEW j \in DOMAIN order'
               PROVE  Items'[j] = IF j < i THEN Items[j] ELSE Items[j + 1]
    OBVIOUS
  <2>1. PICK k \in DOMAIN order :
          k = (IF j < i THEN j ELSE j + 1) /\ order'[j] = order[k] /\ order[k] # current
    BY <1>3
  <2>2. data'[order[k]] = data[order[k]]
    BY <1>1, <2>1 DEF IndInv, TypeOK
  <2> QED
    BY <1>4, <1>5, <2>1, <2>2
<1>7. Items' = Abstract!Without(Items, i)
  <2>1. Items' = [j \in 1 .. Len(Items') |-> Items'[j]]
    BY <1>4
  <2>2. Len(Items') = Len(Items) - 1 /\ DOMAIN order' = 1 .. Len(Items) - 1
    BY <1>3, <1>4, <1>5
  <2> QED
    BY <1>6, <2>1, <2>2 DEF Abstract!Without
<1>8. /\ i \in DOMAIN Items /\ Items[i] = arg[1]
      /\ \A j \in 1 .. i - 1 : Items[j] # arg[1]
  <2>1. At(i) /\ i \in 1 .. Len(order)
    BY <1>3, <1>5
  <2>2. \A j \in 1 .. i - 1 : j \in DOMAIN order /\ data[order[j]] # arg[1]
    BY <1>5, <2>1 DEF At
  <2> QED
    BY <1>1, <1>5, <2>1, <2>2 DEF At
<1>9. arg[1] \in Datas
  BY <1>1 DEF IndInv, WalkInv, Searching
<1>a. last' = <<"remove", arg[1], TRUE>>
  BY DEF Unlink
<1>b. PICK d \in Datas : d = arg[1]
  BY <1>9
<1> QED
  BY <1>7, <1>8, <1>a, <1>b, Zenon DEF Abstract!Remove, Items

LEMMA NotFoundRefines ==
  ASSUME IndInv, NotFound
  PROVE  \E d \in Datas : Abstract!Remove(d)
<1>1. pc = "walk" /\ pc' = "idle" /\ current = Null /\ UNCHANGED <<data, order>>
  BY DEF NotFound, Rest, heap
<1>2. \A i \in DOMAIN order : order[i] # Null
  BY ListAssumption DEF IndInv, TypeOK
<1>3. arg[1] \in Datas /\ \A i \in DOMAIN order : data[order[i]] # arg[1]
  BY <1>1, <1>2 DEF IndInv, WalkInv, Searching, At
<1>4. Items' = Items
  BY <1>1, SameItems
<1>5. \A i \in DOMAIN Items : Items[i] # arg[1]
  BY <1>1, <1>3, ItemsFacts DEF ItemsOK
<1>6. last' = <<"remove", arg[1], FALSE>>
  BY DEF NotFound
<1>7. PICK d \in Datas : d = arg[1]
  BY <1>3
<1> QED
  BY <1>4, <1>5, <1>6, <1>7, Zenon DEF Abstract!Remove, Items

LEMMA StartFreeRefines ==
  ASSUME IndInv, NEW do_free \in BOOLEAN, StartFree(do_free)
  PROVE  Abstract!Free
<1>1. Items' = <<>>
  <2>1. CASE head = Null
    <3>1. pc = "idle" /\ UNCHANGED <<data, order, pc>>
      BY <2>1, Zenon DEF StartFree, walking, heap
    <3>2. Items \in Seq(Datas) /\ Len(Items) = 0
      BY <2>1, <3>1, HeadFacts, ItemsFacts DEF ItemsOK
    <3> QED
      BY <3>1, <3>2, SameItems
  <2>2. CASE head # Null
    <3>1. pc' = "free"
      BY <2>2, Zenon DEF StartFree
    <3> QED
      BY <3>1 DEF Items
  <2> QED
    BY <2>1, <2>2
<1>2. last' = <<"free", Null, TRUE>>
  BY Zenon DEF StartFree
<1> QED
  BY <1>1, <1>2, Zenon DEF Abstract!Free, Items

(* The steps that only search or free leave the items and the answer.      *)
LEMMA SilentSteps ==
  ASSUME IndInv,
         \/ \E d \in Datas, do_free \in BOOLEAN : StartRemove(d, do_free)
         \/ Advance \/ FreeNode \/ FreeDone \/ UNCHANGED vars
  PROVE  Items' = Items /\ last' = last
<1>1. CASE \E d \in Datas, do_free \in BOOLEAN : StartRemove(d, do_free)
  BY <1>1, SameItems DEF StartRemove, heap
<1>2. CASE Advance
  BY <1>2, SameItems DEF Advance, heap
<1>3. CASE FreeNode
  BY <1>3 DEF FreeNode, Items
<1>4. CASE FreeDone
  <2>1. pc = "free" /\ pc' = "idle" /\ current = Null /\ order' = order /\ last' = last
    BY <1>4 DEF FreeDone, Rest
  <2>2. IndInv' /\ order = <<>>
    BY <1>4, <2>1, FreeDoneInd, ListAssumption DEF IndInv, TypeOK, Shape
  <2>3. Items' \in Seq(Datas) /\ Len(Items') = 0
    BY <2>1, <2>2, ItemsFactsNext DEF ItemsOK
  <2> QED
    BY <2>1, <2>3 DEF Items
<1>5. CASE UNCHANGED vars
  BY <1>5 DEF vars, heap, walking, Items
<1> QED
  BY <1>1, <1>2, <1>3, <1>4, <1>5

LEMMA StepRefines == IndInv /\ [Next]_vars => [Abstract!Next]_(Abstract!vars)
<1> SUFFICES ASSUME IndInv, [Next]_vars
             PROVE  Abstract!Next \/ UNCHANGED Abstract!vars
  BY DEF Abstract!vars
<1>1. CASE \E d \in Datas, call \in {"append", "prepend"} : OutOfMemory(call, d)
  BY <1>1, OutOfMemoryRefines DEF Abstract!Next
<1>2. CASE \E d \in Datas, call \in {"append", "prepend"}, n \in Nodes : NewList(call, n, d)
  BY <1>2, NewListRefines DEF Abstract!Next
<1>3. CASE \E d \in Datas, n \in Nodes : AppendNode(n, d)
  BY <1>3, AppendNodeRefines DEF Abstract!Next
<1>4. CASE \E d \in Datas, n \in Nodes : PrependNode(n, d)
  BY <1>4, PrependNodeRefines DEF Abstract!Next
<1>5. CASE \E do_free \in BOOLEAN : StartFree(do_free)
  BY <1>5, StartFreeRefines DEF Abstract!Next
<1>6. CASE NotFound
  BY <1>6, NotFoundRefines DEF Abstract!Next
<1>7. CASE Unlink
  BY <1>7, UnlinkRefines DEF Abstract!Next
<1>8. CASE \/ \E d \in Datas, do_free \in BOOLEAN : StartRemove(d, do_free)
           \/ Advance \/ FreeNode \/ FreeDone \/ UNCHANGED vars
  <2>1. Items' = Items /\ last' = last
    BY <1>8, SilentSteps
  <2> QED
    BY <2>1, Zenon DEF Abstract!vars, Items
<1> QED
  BY <1>1, <1>2, <1>3, <1>4, <1>5, <1>6, <1>7, <1>8 DEF Next, Walk

(* The code of src/list.c implements ListSpec: each call takes effect on   *)
(* the sequence of data pointers in one step, a removal at the step that   *)
(* unlinks the first match, and answers as that sequence says.             *)
THEOREM ListImplements == Spec => ImplementsList
<1>1. Init => Abstract!Init
  BY InitRefines
<1>2. IndInv /\ [Next]_vars => [Abstract!Next]_(Abstract!vars)
  BY StepRefines
<1> QED
  BY <1>1, <1>2, Invariance, PTL DEF Spec, ImplementsList, Abstract!Spec

=============================================================================
