---------------------------- MODULE ArrayProofs ----------------------------
(***************************************************************************)
(* Theorems about Array, for every capacity, block size, set of pointers   *)
(* and comparison function: nothing outside the block is touched unless an *)
(* add has lost it, and until a growth loses the block the array           *)
(* implements ArraySpec.                                                   *)
(***************************************************************************)
EXTENDS Array, SequenceTheorems, TLAPS

Cells == Items \cup {Null, Wild}

IndInv ==
  /\ TypeOK
  /\ InBounds
  /\ status = "none" => len = 0

-----------------------------------------------------------------------------
(* greedy_realloc asks for more cells than are needed. *)
LEMMA SlotsEnough ==
  ASSUME NEW need \in Nat \ {0}
  PROVE  Slots(need) \in Nat /\ need <= Slots(need)
BY ArrayAssumption DEF Slots

LEMMA ReallocedFacts ==
  ASSUME NEW block \in Seq(Cells), NEW n \in Nat
  PROVE  /\ Realloced(block, n) \in Seq(Cells)
         /\ Len(Realloced(block, n)) = n
         /\ DOMAIN Realloced(block, n) = 1 .. n
         /\ \A i \in 1 .. n : i \in DOMAIN block => Realloced(block, n)[i] = block[i]
<1>1. /\ DOMAIN block = 1 .. Len(block) /\ Len(block) \in Nat
      /\ \A i \in DOMAIN block : block[i] \in Cells
  OBVIOUS
<1>2. Realloced(block, n) \in [1 .. n -> Cells]
  BY <1>1 DEF Realloced, Cells
<1>3. Realloced(block, n) \in Seq(Cells) /\ Len(Realloced(block, n)) = n
  BY <1>2
<1> QED
  BY <1>2, <1>3 DEF Realloced

LEMMA NewLenFacts ==
  ASSUME TypeOK
  PROVE  /\ NewLen \in 0 .. LenMod - 1
         /\ NewLen # 0 => NewLen = len + 1
         /\ NewLen = 0 => len = LenMod - 1
BY ArrayAssumption DEF TypeOK, NewLen

(* A successful add: the block holds what it held, and the new pointer     *)
(* behind it.                                                              *)
LEMMA AddedFacts ==
  ASSUME TypeOK, NEW d \in Items, NewLen # 0,
         NEW block \in Seq(Cells),
         data' = [Realloced(block, Slots(len + 1)) EXCEPT ![NewLen] = d]
  PROVE  /\ data' \in Seq(Cells) /\ len + 1 <= Len(data')
         /\ data'[len + 1] = d
         /\ \A i \in 1 .. len : i \in DOMAIN block => data'[i] = block[i]
<1>1. len \in Nat /\ NewLen = len + 1 /\ len + 1 \in Nat \ {0}
  BY NewLenFacts DEF TypeOK
<1>2. Slots(len + 1) \in Nat /\ len + 1 <= Slots(len + 1)
  BY <1>1, SlotsEnough
<1>3. /\ Realloced(block, Slots(len + 1)) \in Seq(Cells)
      /\ Len(Realloced(block, Slots(len + 1))) = Slots(len + 1)
      /\ DOMAIN Realloced(block, Slots(len + 1)) = 1 .. Slots(len + 1)
      /\ \A i \in 1 .. Slots(len + 1) :
           i \in DOMAIN block => Realloced(block, Slots(len + 1))[i] = block[i]
  BY <1>2, ReallocedFacts
<1>4. d \in Cells
  BY DEF Cells
<1>5. data' \in Seq(Cells) /\ Len(data') = Slots(len + 1)
  BY <1>1, <1>2, <1>3, <1>4
<1> QED
  BY <1>1, <1>2, <1>3, <1>5

-----------------------------------------------------------------------------
LEMMA InitInd == Init => IndInv
<1> SUFFICES ASSUME Init PROVE IndInv
  OBVIOUS
<1>1. status = "none" /\ data = <<>> /\ len = 0 /\ lost = FALSE
  BY DEF Init
<1>2. lost \in BOOLEAN
  BY <1>1, Zenon
<1>3. TypeOK
  <2>1. 0 \in 0 .. LenMod - 1 /\ <<>> \in Seq(Items \cup {Null, Wild})
    BY ArrayAssumption
  <2> QED
    BY <1>1, <1>2, <2>1, Zenon DEF TypeOK
<1> QED
  BY <1>1, <1>3 DEF IndInv, InBounds, GetAnswers

LEMMA AddInd ==
  ASSUME IndInv, NEW d \in Items, Add(d)
  PROVE  IndInv'
<1> DEFINE block == IF data = <<>> THEN <<Null>> ELSE data
<1>1. status = "live" /\ status' = "live" /\ TypeOK
  BY DEF Add, IndInv
<1>2. block \in Seq(Cells)
  <2>1. Null \in Cells
    BY DEF Cells
  <2>2. <<Null>> \in Seq(Cells) /\ data \in Seq(Cells)
    BY <1>1, <2>1 DEF TypeOK, Cells
  <2> QED
    BY <2>2
<1>3. CASE UNCHANGED <<data, len, lost>>
  BY <1>1, <1>3 DEF IndInv, TypeOK, InBounds, GetAnswers, Valid, Readable
<1>4. CASE NewLen = 0 /\ data' = block /\ UNCHANGED <<len, lost>>
  <2>1. TypeOK'
    BY <1>1, <1>2, <1>4 DEF TypeOK, Cells
  <2>2. InBounds'
    <3>1. CASE data = <<>>
      <4>1. ~lost => len = 0
        BY <1>1, <3>1 DEF IndInv, InBounds, GetAnswers, Valid, Readable, TypeOK
      <4>2. len = LenMod - 1
        BY <1>1, <1>4, NewLenFacts
      <4>3. len # 0
        BY <4>2, ArrayAssumption
      <4> QED
        BY <1>4, <4>1, <4>3 DEF InBounds
    <3>2. CASE data # <<>>
      BY <1>1, <1>4, <3>2 DEF IndInv, InBounds, GetAnswers, Valid, Readable
    <3> QED
      BY <3>1, <3>2
  <2> QED
    BY <1>1, <2>1, <2>2 DEF IndInv
<1>5. CASE data' = <<>> /\ lost' = (lost \/ len > 0) /\ UNCHANGED len
  <2>1. lost' \in BOOLEAN
    BY <1>5, Zenon
  <2>2. TypeOK'
    BY <1>1, <1>5, <2>1 DEF TypeOK
  <2>3. len > 0 => lost'
    BY <1>5, Zenon
  <2>4. ~lost' => Valid'
    BY <1>1, <1>5, <2>3 DEF TypeOK, Valid, Readable
  <2> QED
    BY <1>1, <2>2, <2>4 DEF IndInv, InBounds, GetAnswers
<1>6. CASE /\ NewLen # 0 /\ len' = NewLen /\ UNCHANGED lost
           /\ data' = [Realloced(block, Slots(len + 1)) EXCEPT ![NewLen] = d]
  <2>1. /\ data' \in Seq(Cells) /\ len + 1 <= Len(data')
        /\ data'[len + 1] = d
        /\ \A i \in 1 .. len : i \in DOMAIN block => data'[i] = block[i]
    BY <1>1, <1>2, <1>6, AddedFacts
  <2>2. len' = len + 1 /\ len \in Nat
    BY <1>1, <1>6, NewLenFacts DEF TypeOK
  <2>3. TypeOK'
    BY <1>1, <1>6, <2>1, NewLenFacts DEF TypeOK, Cells
  <2>4. InBounds'
    <3> SUFFICES ASSUME ~lost PROVE Valid'
      BY <1>1, <1>6 DEF InBounds, GetAnswers
    <3>1. len <= Len(data) /\ \A i \in 1 .. len : data[i] \in Items
      BY <1>1 DEF IndInv, InBounds, GetAnswers, Valid, Readable
    <3>2. \A i \in 1 .. len : i \in DOMAIN block /\ block[i] = data[i]
      BY <1>1, <2>2, <3>1 DEF TypeOK
    <3>3. \A i \in 1 .. len' : i \in 1 .. len \/ i = len + 1
      BY <2>2
    <3> QED
      BY <2>1, <2>2, <3>1, <3>2, <3>3 DEF Valid, Readable
  <2> QED
    BY <1>1, <2>3, <2>4 DEF IndInv
<1> QED
  BY <1>3, <1>4, <1>5, <1>6 DEF Add

(* An arrangement of the cells in use *)
LEMMA SortedFacts ==
  ASSUME TypeOK, Valid, NEW p \in Injection(1 .. len, 1 .. len),
         data' = [i \in DOMAIN data |-> IF i <= len THEN data[p[i]] ELSE data[i]]
  PROVE  /\ data' \in Seq(Cells) /\ Len(data') = Len(data)
         /\ \A i \in 1 .. len : data'[i] = data[p[i]] /\ data[p[i]] \in Items
<1>1. /\ data \in Seq(Cells) /\ DOMAIN data = 1 .. Len(data) /\ Len(data) \in Nat
      /\ len \in Nat /\ len <= Len(data)
      /\ \A i \in DOMAIN data : data[i] \in Cells
  BY DEF TypeOK, Cells, Valid, Readable
<1>2. \A i \in 1 .. len : p[i] \in 1 .. len
  BY DEF Injection
<1>3. \A i \in DOMAIN data :
        (IF i <= len THEN data[p[i]] ELSE data[i]) \in Cells
  BY <1>1, <1>2
<1>4. data' \in [1 .. Len(data) -> Cells]
  BY <1>1, <1>3
<1>5. data' \in Seq(Cells) /\ Len(data') = Len(data)
  BY <1>1, <1>4
<1> QED
  BY <1>1, <1>2, <1>5 DEF Valid

LEMMA SortInd ==
  ASSUME IndInv, Sort
  PROVE  IndInv'
<1>1. status = "live" /\ TypeOK
  BY DEF Sort, IndInv
<1>2. CASE Valid
  <2>1. PICK p \in Injection(1 .. len, 1 .. len) :
          data' = [i \in DOMAIN data |-> IF i <= len THEN data[p[i]] ELSE data[i]]
    BY <1>2 DEF Sort
  <2>2. UNCHANGED <<status, len, lost>>
    BY <1>2 DEF Sort
  <2>3. /\ data' \in Seq(Cells) /\ Len(data') = Len(data)
        /\ \A i \in 1 .. len : data'[i] = data[p[i]] /\ data[p[i]] \in Items
    BY <1>1, <1>2, <2>1, SortedFacts
  <2>4. TypeOK'
    BY <1>1, <2>2, <2>3 DEF TypeOK, Cells
  <2>5. Valid'
    BY <1>2, <2>2, <2>3 DEF Valid, Readable
  <2> QED
    BY <1>1, <2>2, <2>4, <2>5 DEF IndInv, InBounds, GetAnswers
<1>3. CASE ~Valid
  <2>1. status' = "crashed" /\ UNCHANGED <<data, len, lost>>
    BY <1>3 DEF Sort
  <2>2. lost
    BY <1>1, <1>3 DEF IndInv, InBounds, GetAnswers
  <2> QED
    BY <1>1, <2>1, <2>2 DEF IndInv, TypeOK, InBounds
<1> QED
  BY <1>2, <1>3

LEMMA GetInd ==
  ASSUME IndInv, NEW i \in 0 .. LenMod - 1, Get(i)
  PROVE  IndInv'
<1>1. UNCHANGED <<data, len, lost>> /\ status # "crashed"
  BY DEF Get
<1>2. CASE status = "live" /\ i < len /\ data = <<>>
  <2>1. status' = "crashed"
    BY <1>2 DEF Get
  <2>2. lost
    BY <1>2 DEF IndInv, TypeOK, InBounds, GetAnswers, Valid, Readable
  <2> QED
    BY <1>1, <2>1, <2>2 DEF IndInv, TypeOK, InBounds
<1>3. CASE ~ (status = "live" /\ i < len /\ data = <<>>)
  <2>1. status' = status
    BY <1>3 DEF Get
  <2> QED
    BY <1>1, <2>1 DEF IndInv, TypeOK, InBounds, GetAnswers, Valid, Readable
<1> QED
  BY <1>2, <1>3

LEMMA FreeInd ==
  ASSUME IndInv, NEW all \in BOOLEAN, Free(all)
  PROVE  IndInv'
<1>1. CASE all /\ status = "live" /\ ~Valid
  <2>1. status' = "crashed" /\ UNCHANGED <<data, len, lost>>
    BY <1>1 DEF Free
  <2>2. lost
    BY <1>1 DEF IndInv, InBounds, GetAnswers
  <2> QED
    BY <2>1, <2>2 DEF IndInv, TypeOK, InBounds
<1>2. CASE ~ (all /\ status = "live" /\ ~Valid)
  <2>1. status' = "none" /\ data' = <<>> /\ len' = 0 /\ lost' = FALSE
    BY <1>2 DEF Free
  <2>2. TypeOK'
    <3>1. 0 \in 0 .. LenMod - 1 /\ <<>> \in Seq(Items \cup {Null, Wild})
      BY ArrayAssumption
    <3>2. lost' \in BOOLEAN
      BY <2>1, Zenon
    <3> QED
      BY <2>1, <3>1, <3>2, Zenon DEF TypeOK
  <2> QED
    BY <2>1, <2>2 DEF IndInv, InBounds, GetAnswers
<1> QED
  BY <1>1, <1>2

LEMMA NextInd == IndInv /\ [Next]_vars => IndInv'
<1> SUFFICES ASSUME IndInv, [Next]_vars PROVE IndInv'
  OBVIOUS
<1>1. CASE New
  <2>1. /\ status = "none" /\ status' \in {"none", "live"}
        /\ UNCHANGED <<data, len, lost>>
    BY <1>1 DEF New
  <2> QED
    BY <2>1 DEF IndInv, TypeOK, InBounds, GetAnswers, Valid, Readable
<1>2. CASE Sort
  BY <1>2, SortInd
<1>3. CASE \E d \in Items : Add(d)
  BY <1>3, AddInd
<1>4. CASE \E d \in Items \cup {Null} : Refuse(d)
  <2>1. UNCHANGED <<status, data, len, lost>>
    BY <1>4 DEF Refuse
  <2> QED
    BY <2>1 DEF IndInv, TypeOK, InBounds, GetAnswers, Valid, Readable
<1>5. CASE \E i \in 0 .. LenMod - 1 : Get(i)
  BY <1>5, GetInd
<1>6. CASE \E all \in BOOLEAN : Free(all)
  BY <1>6, FreeInd
<1>7. CASE UNCHANGED vars
  BY <1>7 DEF vars, IndInv, TypeOK, InBounds, GetAnswers, Valid, Readable
<1> QED
  BY <1>1, <1>2, <1>3, <1>4, <1>5, <1>6, <1>7 DEF Next

LEMMA Invariance == Spec => []IndInv
BY InitInd, NextInd, PTL DEF Spec

(* len stays a 16-bit number and cells hold pointers or nothing. *)
THEOREM TypeCorrect == Spec => []TypeOK
<1>1. IndInv => TypeOK
  BY DEF IndInv
<1> QED
  BY <1>1, Invariance, PTL

(* Unless a failed add has lost the block, every index below len is that   *)
(* of a stored pointer and no call of src/array.c runs outside the block.  *)
THEOREM StaysInBounds == Spec => []InBounds
<1>1. IndInv => InBounds
  BY DEF IndInv
<1> QED
  BY <1>1, Invariance, PTL

-----------------------------------------------------------------------------
(* Refinement                                                              *)

(* The block is there. *)
NotLost == IndInv /\ ~lost

LEMMA StoredFacts ==
  ASSUME TypeOK, Valid
  PROVE  /\ Stored \in Seq(Items) /\ Len(Stored) = len /\ DOMAIN Stored = 1 .. len
         /\ \A i \in 1 .. len : Stored[i] = data[i]
<1>1. len \in Nat /\ Stored \in [1 .. len -> Items]
  BY ArrayAssumption DEF TypeOK, Valid, Stored
<1>2. Stored \in Seq(Items) /\ Len(Stored) = len
  BY <1>1
<1> QED
  BY <1>1, <1>2 DEF Stored

LEMMA InitRefines == Init => Abstract!Init
<1> SUFFICES ASSUME Init PROVE Abstract!Init
  OBVIOUS
<1>1. status = "none" /\ len = 0 /\ TypeOK /\ Valid
  BY InitInd DEF Init, IndInv, Valid, Readable
<1>2. Stored \in Seq(Items) /\ Len(Stored) = 0
  BY <1>1, StoredFacts
<1>3. Stored = <<>> /\ status # "live"
  BY <1>1, <1>2
<1>4. last = <<"none", TRUE>>
  BY DEF Init
<1> QED
  BY <1>3, <1>4, Zenon DEF Abstract!Init

(* What holds of the pointers in use between calls *)
LEMMA LiveFacts ==
  ASSUME NotLost
  PROVE  /\ TypeOK /\ status # "crashed" /\ len \in Nat
         /\ status = "live" => Valid
         /\ status = "none" => Valid /\ Stored = <<>>
<1>1. TypeOK /\ status # "crashed" /\ len \in Nat /\ (status = "live" => Valid)
  BY ArrayAssumption DEF NotLost, IndInv, InBounds, GetAnswers, TypeOK
<1>2. ASSUME status = "none" PROVE Valid /\ Stored = <<>>
  <2>1. len = 0
    BY <1>2 DEF NotLost, IndInv
  <2>2. Valid
    BY <1>1, <2>1 DEF Valid, Readable, TypeOK
  <2>3. Stored \in Seq(Items) /\ Len(Stored) = 0
    BY <1>1, <2>1, <2>2, StoredFacts
  <2> QED
    BY <2>2, <2>3
<1> QED
  BY <1>1, <1>2

LEMMA SameStored ==
  ASSUME UNCHANGED <<data, len>>
  PROVE  Stored' = Stored
BY DEF Stored

LEMMA AddRefines ==
  ASSUME NotLost, NEW d \in Items, Add(d), ~lost'
  PROVE  Abstract!Add(d)
<1> DEFINE block == IF data = <<>> THEN <<Null>> ELSE data
<1>1. /\ status = "live" /\ status' = status /\ d # Null
      /\ TypeOK /\ Valid /\ len \in Nat
  BY LiveFacts, ArrayAssumption DEF Add
<1>2. CASE UNCHANGED <<data, len>> /\ last' = <<"add", FALSE>>
  BY <1>1, <1>2, SameStored, Zenon DEF Abstract!Add
<1>3. CASE NewLen = 0 /\ data' = block /\ len' = len /\ last' = <<"add", FALSE>>
  <2>1. len # 0
    BY <1>1, <1>3, NewLenFacts, ArrayAssumption
  <2>2. data # <<>>
    BY <1>1, <2>1 DEF Valid, Readable
  <2>3. Stored' = Stored
    BY <1>3, <2>2, SameStored
  <2> QED
    BY <1>1, <1>3, <2>3, Zenon DEF Abstract!Add
<1>4. CASE /\ NewLen # 0 /\ len' = NewLen /\ last' = <<"add", TRUE>>
           /\ data' = [Realloced(block, Slots(len + 1)) EXCEPT ![NewLen] = d]
  <2>1. block \in Seq(Cells)
    <3>1. Null \in Cells
      BY DEF Cells
    <3>2. <<Null>> \in Seq(Cells) /\ data \in Seq(Cells)
      BY <1>1, <3>1 DEF TypeOK, Cells
    <3> QED
      BY <3>2
  <2>2. /\ data' \in Seq(Cells) /\ len + 1 <= Len(data')
        /\ data'[len + 1] = d
        /\ \A i \in 1 .. len : i \in DOMAIN block => data'[i] = block[i]
    BY <1>1, <1>4, <2>1, AddedFacts
  <2>3. len' = len + 1 /\ len < LenMod - 1
    BY <1>1, <1>4, NewLenFacts, ArrayAssumption
  <2>4. \A i \in 1 .. len : data'[i] = data[i] /\ data[i] \in Items
    BY <1>1, <2>2 DEF Valid, Readable, TypeOK
  <2>5. /\ Stored \in Seq(Items) /\ Len(Stored) = len
        /\ \A i \in 1 .. len : Stored[i] = data[i]
    BY <1>1, StoredFacts
  <2>6. Stored' = Append(Stored, d)
    <3>1. Stored' = [i \in 1 .. len + 1 |-> data'[i]]
      BY <2>3 DEF Stored
    <3>2. \A i \in 1 .. len + 1 : data'[i] = IF i = len + 1 THEN d ELSE Stored[i]
      BY <1>1, <2>2, <2>4, <2>5
    <3>3. Append(Stored, d) = [i \in 1 .. len + 1 |-> IF i = len + 1 THEN d ELSE Stored[i]]
      <4>1. Append(Stored, d) \in Seq(Items) /\ Len(Append(Stored, d)) = len + 1
        BY <1>1, <2>5
      <4>2. Append(Stored, d) = [i \in 1 .. len + 1 |-> Append(Stored, d)[i]]
        <5> DEFINE s == Append(Stored, d)
        <5>1. s \in Seq(Items) /\ Len(s) = len + 1
          BY <4>1
        <5> HIDE DEF s
        <5>2. s = [i \in 1 .. len + 1 |-> s[i]]
          BY <1>1, <5>1
        <5> QED
          BY <5>2 DEF s
      <4>3. \A i \in 1 .. len + 1 :
              Append(Stored, d)[i] = IF i = len + 1 THEN d ELSE Stored[i]
        BY <1>1, <2>5
      <4> QED
        BY <4>2, <4>3
    <3> QED
      BY <3>1, <3>2, <3>3
  <2>7. Len(Stored) < LenMod - 1
    BY <2>3, <2>5
  <2> QED
    BY <1>1, <1>4, <2>6, <2>7, Zenon DEF Abstract!Add
<1>5. CASE data' = <<>> /\ lost' = (lost \/ len > 0) /\ len' = len /\ last' = <<"add", FALSE>>
  <2>1. len = 0
    <3>1. ~ (len > 0)
      BY <1>5, Zenon
    <3> QED
      BY <1>1, <3>1
  <2>2. Stored = [i \in 1 .. 0 |-> data[i]] /\ Stored' = [i \in 1 .. 0 |-> data'[i]]
    BY <1>5, <2>1 DEF Stored
  <2>3. 1 .. 0 = {}
    OBVIOUS
  <2>4. Stored' = Stored
    BY <2>2, <2>3
  <2> QED
    BY <1>1, <1>5, <2>4, Zenon DEF Abstract!Add
<1> QED
  BY <1>2, <1>3, <1>4, <1>5, Zenon DEF Add

LEMMA SortRefines ==
  ASSUME NotLost, Sort
  PROVE  Abstract!Sort
<1>1. status = "live" /\ TypeOK /\ Valid /\ len \in Nat
  BY LiveFacts DEF Sort
<1>2. PICK p \in Injection(1 .. len, 1 .. len) :
        /\ \A i, j \in 1 .. len : i < j => Rank[data[p[i]]] <= Rank[data[p[j]]]
        /\ data' = [i \in DOMAIN data |-> IF i <= len THEN data[p[i]] ELSE data[i]]
  BY <1>1 DEF Sort
<1>3. UNCHANGED <<status, len>>
  BY <1>1 DEF Sort
<1>4. last' = <<"sort", TRUE>>
  BY <1>1, Zenon DEF Sort
<1>5. \A i \in 1 .. len : data'[i] = data[p[i]] /\ p[i] \in 1 .. len
  <2>1. \A i \in 1 .. len : p[i] \in 1 .. len
    BY DEF Injection
  <2> QED
    BY <1>1, <1>2, <2>1, SortedFacts
<1>6. DOMAIN Stored = 1 .. len /\ \A i \in 1 .. len : Stored[i] = data[i]
  BY <1>1, StoredFacts
<1>7. Stored' = [i \in 1 .. len |-> Stored[p[i]]]
  BY <1>3, <1>5, <1>6 DEF Stored
<1>8. Stored' \in Abstract!Arrangements(Stored)
  <2>1. p \in Abstract!Injection(1 .. len, 1 .. len)
    BY DEF Injection, IsInjective, Abstract!Injection, Abstract!IsInjective
  <2> QED
    BY <1>6, <1>7, <2>1, Zenon DEF Abstract!Arrangements
<1>9. DOMAIN Stored' = 1 .. len
      /\ \A i, j \in 1 .. len : i < j => Rank[Stored'[i]] <= Rank[Stored'[j]]
  BY <1>2, <1>5, <1>6, <1>7
<1> QED
  BY <1>1, <1>3, <1>4, <1>8, <1>9, Zenon DEF Abstract!Sort

LEMMA GetRefines ==
  ASSUME NotLost, NEW i \in 0 .. LenMod - 1, Get(i)
  PROVE  Abstract!Get(i)
<1>1. /\ TypeOK /\ Valid /\ len \in Nat /\ i \in Nat
      /\ status = "live" \/ (status = "none" /\ Stored = <<>>)
  BY LiveFacts, ArrayAssumption DEF TypeOK
<1>2. ~ (status = "live" /\ i < len /\ data = <<>>)
  BY <1>1 DEF Valid, Readable
<1>3. /\ UNCHANGED <<data, len, status>>
      /\ last' = <<"get", IF status = "live" /\ i < len THEN data[i + 1] ELSE Null>>
  BY <1>2 DEF Get
<1>4. Len(Stored) = len /\ \A j \in 1 .. len : Stored[j] = data[j]
  BY <1>1, StoredFacts
<1>5. (IF status = "live" /\ i < len THEN data[i + 1] ELSE Null)
        = IF i < Len(Stored) THEN Stored[i + 1] ELSE Null
  <2>1. CASE status = "live"
    BY <1>1, <1>4, <2>1
  <2>2. CASE status = "none" /\ Stored = <<>>
    BY <1>1, <2>2
  <2> QED
    BY <1>1, <2>1, <2>2
<1>6. Stored' = Stored
  BY <1>3, SameStored
<1> QED
  BY <1>3, <1>5, <1>6, Zenon DEF Abstract!Get

LEMMA FreeRefines ==
  ASSUME NotLost, NEW all \in BOOLEAN, Free(all)
  PROVE  Abstract!Free(all)
<1>1. ~ (all /\ status = "live" /\ ~Valid)
  BY LiveFacts
<1>2. status' = "none" /\ len' = 0
  BY <1>1, Zenon DEF Free
<1>3. last' = <<"free", IF all THEN Stored ELSE <<>>>>
  BY <1>1, Zenon DEF Free
<1>4. Stored' = <<>>
  <2>1. Stored' = [i \in 1 .. 0 |-> data'[i]]
    BY <1>2 DEF Stored
  <2>2. 1 .. 0 = {}
    OBVIOUS
  <2> QED
    BY <2>1, <2>2
<1>5. status' # "live"
  BY <1>2
<1> QED
  BY <1>3, <1>4, <1>5, Zenon DEF Abstract!Free

LEMMA NewRefines ==
  ASSUME NotLost, New
  PROVE  Abstract!New
<1>1. UNCHANGED <<data, len>> /\ status = "none"
  BY DEF New
<1>2. Stored' = Stored /\ status # "live"
  BY <1>1, SameStored
<1>3. \/ status' = "live" /\ last' = <<"new", TRUE>>
      \/ status' = "none" /\ last' = <<"new", FALSE>>
  BY Zenon DEF New
<1>4. CASE status' = "live" /\ last' = <<"new", TRUE>>
  BY <1>2, <1>4, Zenon DEF Abstract!New
<1>5. CASE status' = "none" /\ last' = <<"new", FALSE>>
  <2>1. status' # "live"
    BY <1>5
  <2> QED
    BY <1>2, <1>5, <2>1, Zenon DEF Abstract!New
<1> QED
  BY <1>3, <1>4, <1>5

LEMMA RefuseRefines ==
  ASSUME NEW d, Refuse(d)
  PROVE  Abstract!Add(d)
<1>1. UNCHANGED <<status, data, len>> /\ last' = <<"add", FALSE>>
  BY Zenon DEF Refuse
<1>2. Stored' = Stored
  BY <1>1, SameStored
<1> QED
  BY <1>1, <1>2, Zenon DEF Abstract!Add

LEMMA StepRefines ==
  IndInv /\ [Next]_vars => [lost \/ lost' \/ Abstract!Next]_(Abstract!vars)
<1> SUFFICES ASSUME IndInv, [Next]_vars, ~lost, ~lost'
             PROVE  Abstract!Next \/ UNCHANGED Abstract!vars
  BY DEF Abstract!vars
<1> NotLost
  BY DEF NotLost
<1>1. CASE New
  BY <1>1, NewRefines DEF Abstract!Next
<1>2. CASE Sort
  BY <1>2, SortRefines DEF Abstract!Next
<1>3. CASE \E d \in Items : Add(d)
  BY <1>3, AddRefines DEF Abstract!Next
<1>4. CASE \E d \in Items \cup {Null} : Refuse(d)
  BY <1>4, RefuseRefines DEF Abstract!Next
<1>5. CASE \E i \in 0 .. LenMod - 1 : Get(i)
  BY <1>5, GetRefines DEF Abstract!Next
<1>6. CASE \E all \in BOOLEAN : Free(all)
  BY <1>6, FreeRefines DEF Abstract!Next
<1>7. CASE UNCHANGED vars
  BY <1>7, SameStored, Zenon DEF vars, Abstract!vars
<1> QED
  BY <1>1, <1>2, <1>3, <1>4, <1>5, <1>6, <1>7 DEF Next

(* src/array.c implements ArraySpec: whatever allocations fail, every call *)
(* acts on a sequence of at most 2^16 - 1 pointers and answers from it,    *)
(* unless an add has failed to grow the block since nc_array_new.          *)
THEOREM ArrayImplements == Spec => ImplementsArray
<1>1. Init => Abstract!Init
  BY InitRefines
<1>2. IndInv /\ [Next]_vars => [lost \/ lost' \/ Abstract!Next]_(Abstract!vars)
  BY StepRefines
<1> QED
  BY <1>1, <1>2, Invariance, PTL DEF Spec, ImplementsArray

=============================================================================
