---------------------------- MODULE FilesProofs ----------------------------
(***************************************************************************)
(* Theorems about the file helpers of module Files.                        *)
(***************************************************************************)
EXTENDS Files, FiniteSetTheorems, WellFoundedInduction, TLAPS

-----------------------------------------------------------------------------
(* Sequences and prefixes *)

Seqs == Seq(Names)

To(p, i) == SubSeq(p, 1, i)

LEMMA ToFacts ==
  ASSUME NEW p \in Seqs, NEW i \in 0 .. Len(p)
  PROVE  /\ To(p, i) \in Seqs /\ Len(To(p, i)) = i
         /\ \A j \in 1 .. i : To(p, i)[j] = p[j]
BY DEF Seqs, To

LEMMA ToAll == ASSUME NEW p \in Seqs PROVE To(p, Len(p)) = p /\ To(p, 0) = Top
BY DEF Seqs, To, Top

LEMMA SameSeq ==
  ASSUME NEW p \in Seqs, NEW q \in Seqs, Len(p) = Len(q),
         \A j \in 1 .. Len(p) : p[j] = q[j]
  PROVE  p = q
BY DEF Seqs

LEMMA ToTo ==
  ASSUME NEW p \in Seqs, NEW i \in 0 .. Len(p), NEW j \in 0 .. i
  PROVE  To(To(p, i), j) = To(p, j)
<1>1. To(p, i) \in Seqs /\ Len(To(p, i)) = i /\ \A k \in 1 .. i : To(p, i)[k] = p[k]
  BY ToFacts
<1>2. To(To(p, i), j) \in Seqs /\ Len(To(To(p, i), j)) = j
  BY <1>1, ToFacts
<1>3. \A k \in 1 .. j : To(To(p, i), j)[k] = p[k]
  BY <1>1, ToFacts
<1>4. To(p, j) \in Seqs /\ Len(To(p, j)) = j /\ \A k \in 1 .. j : To(p, j)[k] = p[k]
  BY ToFacts
<1> QED
  BY <1>2, <1>3, <1>4, SameSeq

LEMMA TopFacts == Top \in Seqs /\ Len(Top) = 0 /\ \A p \in Seqs : Len(p) = 0 => p = Top
BY DEF Seqs, Top

LEMMA FrontLast ==
  ASSUME NEW p \in Seqs, p # Top
  PROVE  /\ Front(p) = To(p, Len(p) - 1) /\ Front(p) \in Seqs /\ Len(Front(p)) = Len(p) - 1
         /\ Last(p) \in Names /\ Append(Front(p), Last(p)) = p /\ Len(p) \in Nat \ {0}
<1>1. Len(p) \in Nat \ {0}
  BY TopFacts DEF Seqs
<1>2. Front(p) = To(p, Len(p) - 1) /\ Front(p) \in Seqs /\ Len(Front(p)) = Len(p) - 1
  <2>1. Front(p) = To(p, Len(p) - 1) /\ Len(p) - 1 \in 0 .. Len(p)
    BY <1>1 DEF Front, To
  <2> QED
    BY <2>1, ToFacts
<1>3. Last(p) \in Names /\ Last(p) = p[Len(p)]
  BY <1>1 DEF Last, Seqs
<1>4. Append(Front(p), Last(p)) \in Seqs
  BY <1>2, <1>3 DEF Seqs
<1>5. /\ Len(Append(Front(p), Last(p))) = Len(p)
      /\ \A j \in 1 .. Len(p) : Append(Front(p), Last(p))[j] = p[j]
  <2>1. Len(Append(Front(p), Last(p))) = Len(p) /\ Append(Front(p), Last(p))[Len(p)] = p[Len(p)]
    BY <1>1, <1>2, <1>3 DEF Seqs
  <2>2. ASSUME NEW j \in 1 .. Len(p) - 1 PROVE Append(Front(p), Last(p))[j] = p[j]
    <3>1. Front(p)[j] = p[j]
      BY <1>1, <1>2, ToFacts
    <3>2. Append(Front(p), Last(p))[j] = Front(p)[j]
      BY <1>1, <1>2, <1>3 DEF Seqs
    <3> QED
      BY <3>1, <3>2
  <2> QED
    BY <1>1, <2>1, <2>2
<1> QED
  BY <1>1, <1>2, <1>3, <1>4, <1>5, SameSeq

LEMMA AppendFacts ==
  ASSUME NEW p \in Seqs, NEW n \in Names
  PROVE  /\ Append(p, n) \in Seqs /\ Append(p, n) # Top
         /\ Len(Append(p, n)) = Len(p) + 1 /\ Append(p, n)[Len(p) + 1] = n
         /\ \A j \in 1 .. Len(p) : Append(p, n)[j] = p[j]
         /\ Front(Append(p, n)) = p /\ Last(Append(p, n)) = n
         /\ \A j \in 0 .. Len(p) : To(Append(p, n), j) = To(p, j)
<1> DEFINE q == Append(p, n)
<1>1. /\ q \in Seqs /\ Len(q) = Len(p) + 1 /\ Len(p) \in Nat
      /\ q[Len(p) + 1] = n /\ \A j \in 1 .. Len(p) : q[j] = p[j]
  BY DEF Seqs
<1> HIDE DEF q
<1>2. q # Top
  BY <1>1, TopFacts
<1>3. ASSUME NEW j \in 0 .. Len(p) PROVE To(q, j) = To(p, j)
  <2>1. /\ To(p, j) \in Seqs /\ Len(To(p, j)) = j
        /\ \A k \in 1 .. j : To(p, j)[k] = p[k]
    BY ToFacts
  <2>2. /\ To(q, j) \in Seqs /\ Len(To(q, j)) = j
        /\ \A k \in 1 .. j : To(q, j)[k] = q[k]
    <3>1. j \in 0 .. Len(q)
      BY <1>1
    <3> QED
      BY <1>1, <3>1, ToFacts
  <2> QED
    BY <1>1, <2>1, <2>2, SameSeq
<1>4. Front(q) = p
  <2>1. Front(q) = To(q, Len(p))
    BY <1>1, <1>2, FrontLast
  <2>2. Len(p) \in 0 .. Len(p)
    BY <1>1
  <2> QED
    BY <1>3, <2>1, <2>2, ToAll
<1>5. Last(q) = n
  BY <1>1 DEF Last
<1> QED
  BY <1>1, <1>2, <1>3, <1>4, <1>5 DEF q

(* A prefix, name by name *)
LEMMA PrefixByName ==
  ASSUME NEW p \in Seqs, NEW q \in Seqs
  PROVE  IsPrefix(p, q) <=> Len(p) <= Len(q) /\ \A j \in 1 .. Len(p) : p[j] = q[j]
<1> DEFINE s == SubSeq(q, 1, Len(p))
<1>1. Len(p) \in Nat /\ Len(q) \in Nat /\ SubSeq(p, 1, Len(p)) = p
  BY DEF Seqs
<1>2. Len(p) <= Len(q) => s \in Seqs /\ Len(s) = Len(p) /\ \A j \in 1 .. Len(p) : s[j] = q[j]
  BY <1>1, ToFacts DEF To
<1>3. Len(p) <= Len(q) /\ (\A j \in 1 .. Len(p) : p[j] = q[j]) => p = s
  BY <1>2, SameSeq
<1> QED
  BY <1>1, <1>2, <1>3 DEF IsPrefix

LEMMA PrefixTo ==
  ASSUME NEW p \in Seqs, NEW q \in Seqs
  PROVE  IsPrefix(p, q) <=> Len(p) <= Len(q) /\ p = To(q, Len(p))
BY DEF IsPrefix, To, Seqs

-----------------------------------------------------------------------------
(* Where a path leads *)

(* What Reached computes, turn by turn *)
At(t, path, f) ==
  f = [i \in 0 .. Len(path) |-> IF i = 0 THEN Top ELSE Enter(t, f[i - 1], path[i])]

LEMMA FirstNumber ==
  ASSUME NEW S, S \subseteq Nat, S # {}
  PROVE  \E i \in S : \A j \in S : i <= j
<1> DEFINE T == {0 .. i : i \in S}
           R == StrictSubsetOrdering(Nat)
<1>1. IsWellFoundedOn(R, FiniteSubsetsOf(Nat))
  BY FS_StrictSubsetOrderingWellFounded
<1>2. T \subseteq FiniteSubsetsOf(Nat) /\ T # {}
  <2>1. ASSUME NEW i \in S PROVE 0 .. i \in SUBSET Nat /\ IsFiniteSet(0 .. i)
    BY FS_Interval
  <2> QED
    BY <2>1 DEF FiniteSubsetsOf
<1>3. PICK x \in T : \A y \in T : ~(<<y, x>> \in R)
  <2> HIDE DEF T, R
  <2> QED
    BY <1>1, <1>2, WFMin
<1>4. PICK i \in S : x = 0 .. i
  OBVIOUS
<1>5. ASSUME NEW j \in S PROVE i <= j
  <2> SUFFICES ASSUME j < i PROVE FALSE
    OBVIOUS
  <2>1. 0 .. j \in T /\ 0 .. j \in SUBSET Nat /\ x \in SUBSET Nat
    BY <1>4
  <2>2. 0 .. j \subseteq x /\ 0 .. j # x
    BY <1>4
  <2> QED
    BY <1>3, <2>1, <2>2 DEF StrictSubsetOrdering
<1> QED
  BY <1>5

(* There is only one such list of places.                                  *)
LEMMA AtUnique ==
  ASSUME NEW t, NEW path \in Seqs, NEW f, NEW g, At(t, path, f), At(t, path, g)
  PROVE  f = g
<1> DEFINE D == 0 .. Len(path)
           B == {i \in D : f[i] # g[i]}
<1>1. Len(path) \in Nat
  BY DEF Seqs
<1>2. /\ DOMAIN f = D /\ DOMAIN g = D /\ f = [i \in D |-> f[i]] /\ g = [i \in D |-> g[i]]
  BY DEF At
<1>3. \A i \in D : /\ f[i] = (IF i = 0 THEN Top ELSE Enter(t, f[i - 1], path[i]))
                   /\ g[i] = (IF i = 0 THEN Top ELSE Enter(t, g[i - 1], path[i]))
  BY DEF At
<1>4. B = {}
  <2> SUFFICES ASSUME B # {} PROVE FALSE
    OBVIOUS
  <2>1. B \subseteq Nat
    BY <1>1
  <2>2. PICK i \in B : \A j \in B : i <= j
    <3> HIDE DEF B
    <3> QED
      BY <2>1, FirstNumber
  <2>3. i \in D /\ i # 0
    BY <1>3
  <2>4. i - 1 \in D /\ i - 1 \notin B
    BY <1>1, <2>2, <2>3
  <2>5. f[i - 1] = g[i - 1]
    BY <2>4
  <2> QED
    BY <1>3, <2>2, <2>3, <2>5
<1> QED
  BY <1>2, <1>4

LEMMA ReachedAt ==
  ASSUME NEW t, NEW path \in Seqs, NEW f, At(t, path, f)
  PROVE  Reached(t, path) = f[Len(path)]
<1> DEFINE c == CHOOSE g : At(t, path, g)
<1>1. At(t, path, c)
  OBVIOUS
<1>2. c = f
  <2> HIDE DEF c
  <2> QED
    BY <1>1, AtUnique
<1>3. Reached(t, path) = c[Len(path)]
  BY DEF Reached, At
<1> QED
  BY <1>2, <1>3

Follow(t, p) == IF Is("link", t, p) THEN t[p].to ELSE p

LEMMA TreeFacts ==
  ASSUME NEW t, IsTree(t)
  PROVE  /\ DOMAIN t \subseteq Seqs /\ None \notin DOMAIN t /\ Is("dir", t, Top)
         /\ \A p \in DOMAIN t : \A i \in 0 .. Len(p) - 1 : Is("dir", t, To(p, i))
         /\ \A p : ~(Is("dir", t, p) /\ Is("link", t, p))
BY TreeAssumption DEF IsTree, Seqs, To, Is

LEMMA EmptyReached == ASSUME NEW t PROVE Reached(t, Top) = Top
<1> DEFINE f == [i \in 0 .. 0 |-> Top]
<1>1. At(t, Top, f)
  BY TopFacts DEF At
<1> QED
  BY <1>1, TopFacts, ReachedAt

-----------------------------------------------------------------------------
(* Where a path leads, name by name, whatever links it passes *)

LEMMA AtExists ==
  ASSUME NEW t, NEW path \in Seqs PROVE \E f : At(t, path, f)
<1> DEFINE S == {k \in 0 .. Len(path) : \A f : ~At(t, To(path, k), f)}
<1>1. Len(path) \in Nat
  BY DEF Seqs
<1>2. ASSUME S # {} PROVE FALSE
  <2>1. S \subseteq Nat
    BY <1>1
  <2>2. PICK k \in S : \A j \in S : k <= j
    <3> HIDE DEF S
    <3> QED
      BY <1>2, <2>1, FirstNumber
  <2>3. k \in 0 .. Len(path) /\ k \in Nat
    BY <1>1, <2>2
  <2>4. k # 0
    <3> SUFFICES ASSUME k = 0 PROVE FALSE
      OBVIOUS
    <3>1. To(path, k) = Top
      BY ToAll
    <3>2. At(t, Top, [i \in 0 .. 0 |-> Top])
      BY TopFacts DEF At
    <3> QED
      BY <2>2, <3>1, <3>2
  <2>5. k - 1 \in 0 .. Len(path) /\ k - 1 \notin S /\ k - 1 \in 0 .. k
    <3>1. k - 1 \in 0 .. Len(path) /\ k - 1 \in 0 .. k /\ ~(k <= k - 1)
      BY <1>1, <2>3, <2>4
    <3> QED
      BY <2>2, <3>1
  <2>6. PICK f : At(t, To(path, k - 1), f)
    BY <2>5
  <2> DEFINE p == To(path, k - 1)
             q == To(path, k)
             g == [i \in 0 .. k |-> IF i = k THEN Enter(t, f[k - 1], q[k]) ELSE f[i]]
  <2>7. /\ Len(p) = k - 1 /\ Len(q) = k
        /\ \A j \in 1 .. k - 1 : p[j] = q[j]
    BY <2>3, <2>5, ToFacts
  <2>8. At(t, q, g)
    <3> HIDE DEF p, q
    <3>1. ASSUME NEW i \in 0 .. k
          PROVE  g[i] = IF i = 0 THEN Top ELSE Enter(t, g[i - 1], q[i])
      <4>1. CASE i = k
        <5>1. g[i] = Enter(t, f[k - 1], q[k]) /\ g[i - 1] = f[k - 1]
          BY <2>3, <2>4, <4>1
        <5> QED
          BY <2>4, <4>1, <5>1
      <4>2. CASE i # k
        <5>1. i \in 0 .. k - 1 /\ (i # 0 => i - 1 \in 0 .. k /\ i - 1 # k /\ i \in 1 .. k - 1)
          BY <2>3, <4>2
        <5>2. g[i] = f[i] /\ (i # 0 => g[i - 1] = f[i - 1])
          BY <5>1
        <5>3. f[i] = IF i = 0 THEN Top ELSE Enter(t, f[i - 1], p[i])
          BY <2>6, <2>7, <5>1 DEF At, p
        <5> QED
          BY <2>7, <5>1, <5>2, <5>3
      <4> QED
        BY <4>1, <4>2
    <3>2. DOMAIN g = 0 .. k /\ g = [i \in 0 .. k |-> g[i]]
      OBVIOUS
    <3> HIDE DEF g
    <3> QED
      BY <2>7, <3>1, <3>2 DEF At
  <2> HIDE DEF g
  <2> QED
    BY <2>2, <2>8
<1>3. Len(path) \in 0 .. Len(path) /\ To(path, Len(path)) = path
  BY <1>1, ToAll
<1> QED
  BY <1>2, <1>3

LEMMA AppendReached ==
  ASSUME NEW t, NEW p \in Seqs, NEW n \in Names
  PROVE  Reached(t, Append(p, n)) = Enter(t, Reached(t, p), n)
<1> DEFINE q == Append(p, n)
<1>1. /\ q \in Seqs /\ Len(q) = Len(p) + 1 /\ q[Len(p) + 1] = n
      /\ (\A j \in 1 .. Len(p) : q[j] = p[j]) /\ Len(p) \in Nat
  BY AppendFacts DEF Seqs
<1> HIDE DEF q
<1>2. PICK f : At(t, q, f)
  BY <1>1, AtExists
<1>3. \A i \in 0 .. Len(p) + 1 : f[i] = IF i = 0 THEN Top ELSE Enter(t, f[i - 1], q[i])
  BY <1>1, <1>2 DEF At
<1> DEFINE g == [i \in 0 .. Len(p) |-> f[i]]
<1>4. At(t, p, g)
  <2>1. ASSUME NEW i \in 0 .. Len(p)
        PROVE  g[i] = IF i = 0 THEN Top ELSE Enter(t, g[i - 1], p[i])
    <3>1. i \in 0 .. Len(p) + 1 /\ (i # 0 => i - 1 \in 0 .. Len(p) /\ i \in 1 .. Len(p))
      BY <1>1
    <3>2. g[i] = f[i] /\ (i # 0 => g[i - 1] = f[i - 1])
      BY <3>1
    <3> QED
      BY <1>1, <1>3, <3>1, <3>2
  <2>2. g = [i \in 0 .. Len(p) |-> g[i]]
    OBVIOUS
  <2> HIDE DEF g
  <2> QED
    BY <2>1, <2>2 DEF At
<1>5. Reached(t, p) = f[Len(p)]
  <2>1. Reached(t, p) = g[Len(p)]
    <3> HIDE DEF g
    <3> QED
      BY <1>4, ReachedAt
  <2> QED
    BY <1>1, <2>1
<1>6. Reached(t, q) = f[Len(p) + 1]
  BY <1>1, <1>2, ReachedAt
<1>7. f[Len(p) + 1] = Enter(t, f[Len(p)], n)
  <2>1. Len(p) + 1 \in 0 .. Len(p) + 1 /\ Len(p) + 1 # 0 /\ (Len(p) + 1) - 1 = Len(p)
    BY <1>1
  <2> QED
    BY <1>1, <1>3, <2>1
<1> QED
  BY <1>5, <1>6, <1>7 DEF q

LEMMA ToNext ==
  ASSUME NEW p \in Seqs, NEW i \in 0 .. Len(p) - 1
  PROVE  /\ To(p, i) \in Seqs /\ Len(To(p, i)) = i /\ p[i + 1] \in Names
         /\ To(p, i + 1) = Append(To(p, i), p[i + 1])
<1>1. Len(p) \in Nat /\ i \in 0 .. Len(p) /\ i + 1 \in 1 .. Len(p) /\ i + 1 \in 0 .. Len(p) /\ i \in Nat
  BY DEF Seqs
<1>2. p[i + 1] \in Names
  BY <1>1 DEF Seqs
<1>3. To(p, i) \in Seqs /\ Len(To(p, i)) = i /\ \A j \in 1 .. i : To(p, i)[j] = p[j]
  BY <1>1, ToFacts
<1>4. To(p, i + 1) \in Seqs /\ Len(To(p, i + 1)) = i + 1 /\ \A j \in 1 .. i + 1 : To(p, i + 1)[j] = p[j]
  BY <1>1, ToFacts
<1> DEFINE a == Append(To(p, i), p[i + 1])
<1>5. a \in Seqs /\ Len(a) = i + 1 /\ a[i + 1] = p[i + 1] /\ \A j \in 1 .. i : a[j] = p[j]
  BY <1>2, <1>3, AppendFacts
<1> HIDE DEF a
<1>6. ASSUME NEW j \in 1 .. i + 1 PROVE To(p, i + 1)[j] = a[j]
  <2>1. j = i + 1 \/ j \in 1 .. i
    BY <1>1
  <2> QED
    BY <1>4, <1>5, <2>1
<1>7. To(p, i + 1) = a
  BY <1>4, <1>5, <1>6, SameSeq
<1> QED
  BY <1>2, <1>3, <1>7 DEF a

(* A path that leads to an entry leads through directories, each of which  *)
(* has the next name.                                                      *)
LEMMA PathThere ==
  ASSUME NEW t, IsTree(t), NEW q \in Seqs, Reached(t, q) \in DOMAIN t, NEW m \in 0 .. Len(q) - 1
  PROVE  LET d == Reached(t, To(q, m)) IN
         Is("dir", t, d) /\ Append(d, q[m + 1]) \in DOMAIN t
<1> DEFINE There(i) == /\ Is("dir", t, Reached(t, To(q, i)))
                       /\ Append(Reached(t, To(q, i)), q[i + 1]) \in DOMAIN t
           S == {k \in 0 .. Len(q) - 1 : ~There(Len(q) - 1 - k)}
<1>1. Len(q) \in Nat /\ To(q, Len(q)) = q /\ None \notin DOMAIN t
  BY ToAll, TreeFacts DEF Seqs
<1>2. ASSUME NEW i \in 0 .. Len(q) - 1, ~There(i) PROVE Reached(t, To(q, i + 1)) \notin DOMAIN t
  <2> DEFINE d == Reached(t, To(q, i))
  <2>1. Reached(t, To(q, i + 1)) = Enter(t, d, q[i + 1])
    <3>1. /\ To(q, i) \in Seqs /\ q[i + 1] \in Names
          /\ To(q, i + 1) = Append(To(q, i), q[i + 1])
      BY ToNext
    <3> QED
      BY <3>1, AppendReached
  <2>2. ~Is("dir", t, d) \/ Append(d, q[i + 1]) \notin DOMAIN t
    BY <1>2
  <2> HIDE DEF d
  <2> QED
    BY <1>1, <2>1, <2>2 DEF Enter, Is
<1>3. S = {}
  <2> SUFFICES ASSUME S # {} PROVE FALSE
    OBVIOUS
  <2>1. S \subseteq Nat
    BY <1>1
  <2>2. PICK k \in S : \A j \in S : k <= j
    <3> HIDE DEF S
    <3> QED
      BY <2>1, FirstNumber
  <2> DEFINE i == Len(q) - 1 - k
  <2>3. i \in 0 .. Len(q) - 1 /\ k \in 0 .. Len(q) - 1 /\ ~There(i)
    BY <1>1, <2>2
  <2>4. Reached(t, To(q, i + 1)) \notin DOMAIN t
    <3> HIDE DEF There, i
    <3> QED
      BY <1>2, <2>3
  <2>5. k # 0
    <3>1. k = 0 => i + 1 = Len(q)
      BY <1>1, <2>3
    <3> QED
      BY <1>1, <2>4, <3>1
  <2>6. k - 1 \in 0 .. Len(q) - 1 /\ ~(k <= k - 1) /\ Len(q) - 1 - (k - 1) = i + 1
    BY <1>1, <2>3, <2>5
  <2>7. There(i + 1)
    <3> HIDE DEF There, i
    <3> QED
      BY <2>2, <2>6
  <2> QED
    BY <2>4, <2>7 DEF Is
<1>4. There(m)
  <2>1. Len(q) - 1 - m \in 0 .. Len(q) - 1 /\ Len(q) - 1 - (Len(q) - 1 - m) = m
    BY <1>1
  <2> HIDE DEF There
  <2> QED
    BY <1>3, <2>1
<1> QED
  BY <1>4

(* Numbers upwards from 0 *)
LEMMA Upwards ==
  ASSUME NEW n \in Nat, NEW S, 0 \in S, \A i \in 0 .. n - 1 : i \in S => i + 1 \in S
  PROVE  0 .. n \subseteq S
<1> DEFINE T == {i \in 0 .. n : i \notin S}
<1> SUFFICES ASSUME T # {} PROVE FALSE
  OBVIOUS
<1>1. PICK i \in T : \A j \in T : i <= j
  <2>1. T \subseteq Nat
    OBVIOUS
  <2> HIDE DEF T
  <2> QED
    BY <2>1, FirstNumber
<1>2. i \in 0 .. n /\ i \notin S /\ i # 0
  BY <1>1
<1>3. i - 1 \in 0 .. n - 1 /\ i - 1 \in 0 .. n /\ ~(i <= i - 1) /\ (i - 1) + 1 = i
  BY <1>2
<1>4. i - 1 \in S
  BY <1>1, <1>3
<1> QED
  BY <1>2, <1>3, <1>4

(* The last name of a path *)
LEMMA LastName ==
  ASSUME NEW t, IsTree(t), NEW q \in Seqs \ {Top}
  PROVE  LET d == Reached(t, Front(q)) IN
         /\ Place(t, q) = IF Is("dir", t, d) THEN Append(d, Last(q)) ELSE None
         /\ Reached(t, q) = IF Is("dir", t, d) THEN Follow(t, Place(t, q)) ELSE None
         /\ Is("dir", t, d) =>
              /\ d \in Seqs /\ Place(t, q) \in Seqs \ {Top} /\ Place(t, q) # None
              /\ Front(Place(t, q)) = d /\ Last(Place(t, q)) = Last(q)
              /\ Len(Place(t, q)) = Len(d) + 1
         /\ Exists(t, q) => Is("dir", t, d)
<1> DEFINE d == Reached(t, Front(q))
<1>1. Front(q) \in Seqs /\ Last(q) \in Names /\ Append(Front(q), Last(q)) = q
  BY FrontLast
<1>2. Reached(t, q) = Enter(t, d, Last(q))
  BY <1>1, AppendReached
<1>3. Place(t, q) = IF Is("dir", t, d) THEN Append(d, Last(q)) ELSE None
  BY DEF Place
<1>4. Is("dir", t, d) => d \in Seqs
  BY TreeFacts DEF Is
<1> HIDE DEF d
<1>5. Is("dir", t, d) =>
        /\ Append(d, Last(q)) \in Seqs \ {Top} /\ Front(Append(d, Last(q))) = d
        /\ Last(Append(d, Last(q))) = Last(q) /\ Len(Append(d, Last(q))) = Len(d) + 1
  BY <1>1, <1>4, AppendFacts
<1>6. Reached(t, q) = IF Is("dir", t, d) THEN Follow(t, Append(d, Last(q))) ELSE None
  BY <1>2 DEF Enter, Follow
<1>7. None \notin DOMAIN t /\ \A p \in Seqs : p # None
  BY TreeFacts, TreeAssumption DEF Seqs
<1> QED
  BY <1>3, <1>4, <1>5, <1>6, <1>7 DEF d, Exists

LEMMA ReachedSeq ==
  ASSUME NEW t, IsTree(t), NEW q \in Seqs PROVE Reached(t, q) \in Seqs \cup {None}
<1>1. CASE q = Top
  BY <1>1, EmptyReached, TopFacts
<1>2. CASE q # Top
  <2>1. \A p \in Seqs : Follow(t, p) \in Seqs
    BY DEF Follow, Is, IsTree, IsEntry, Dir, File, Seqs
  <2> QED
    BY <1>2, <2>1, LastName
<1> QED
  BY <1>1, <1>2

(* The next name of a path *)
LEMMA NextName ==
  ASSUME NEW t, NEW q \in Seqs, NEW i \in 0 .. Len(q) - 1
  PROVE  Reached(t, To(q, i + 1)) = Enter(t, Reached(t, To(q, i)), q[i + 1])
<1>1. To(q, i) \in Seqs /\ q[i + 1] \in Names /\ To(q, i + 1) = Append(To(q, i), q[i + 1])
  BY ToNext
<1> QED
  BY <1>1, AppendReached

(* More entries do not change where a path leads that led to one, ...      *)
Extends(t, u) ==
  \A p \in DOMAIN t :
    /\ p \in DOMAIN u /\ (Is("dir", t, p) => Is("dir", u, p))
    /\ Is("link", u, p) <=> Is("link", t, p)
    /\ Is("link", t, p) => u[p].to = t[p].to

LEMMA ExtendedReached ==
  ASSUME NEW t, IsTree(t), NEW u, Extends(t, u), NEW q \in Seqs, Reached(t, q) \in DOMAIN t
  PROVE  Reached(u, q) = Reached(t, q)
<1> DEFINE S == {i \in 0 .. Len(q) : Reached(u, To(q, i)) = Reached(t, To(q, i))}
<1>1. Len(q) \in Nat /\ To(q, Len(q)) = q /\ To(q, 0) = Top
  BY ToAll DEF Seqs
<1>2. 0 \in S
  BY <1>1, EmptyReached
<1>3. ASSUME NEW i \in 0 .. Len(q) - 1, i \in S PROVE i + 1 \in S
  <2> DEFINE d == Reached(t, To(q, i))
  <2>1. Is("dir", t, d) /\ Append(d, q[i + 1]) \in DOMAIN t
    BY PathThere
  <2>2. Reached(u, To(q, i)) = d
    BY <1>3
  <2>3. /\ Reached(t, To(q, i + 1)) = Enter(t, d, q[i + 1])
        /\ Reached(u, To(q, i + 1)) = Enter(u, d, q[i + 1])
    BY <2>2, NextName
  <2> HIDE DEF d
  <2>4. Enter(u, d, q[i + 1]) = Enter(t, d, q[i + 1])
    BY <2>1 DEF Extends, Enter, Is
  <2>5. i + 1 \in 0 .. Len(q)
    BY <1>1
  <2> QED
    BY <2>3, <2>4, <2>5
<1>4. Len(q) \in S
  <2>1. 0 .. Len(q) \subseteq S
    <3> HIDE DEF S
    <3> QED
      BY <1>1, <1>2, <1>3, Upwards
  <2> QED
    BY <1>1, <2>1
<1> QED
  BY <1>1, <1>4

(* ... and after one is taken away a path leads to no other than before.   *)
LEMMA LessWays ==
  ASSUME NEW t, IsTree(t), NEW p
  PROVE  \A q \in Seqs : Reached(Less(t, {p}), q) \in DOMAIN Less(t, {p}) =>
                           Reached(Less(t, {p}), q) = Reached(t, q)
<1> DEFINE u == Less(t, {p})
<1>1. DOMAIN u = DOMAIN t \ {p} /\ \A q \in DOMAIN u : u[q] = t[q]
  BY DEF Less
<1> HIDE DEF u
<1> SUFFICES ASSUME NEW q \in Seqs
             PROVE  Reached(u, q) = Reached(t, q) \/ Reached(u, q) \notin DOMAIN u
  BY DEF u
<1> DEFINE S == {i \in 0 .. Len(q) : \/ Reached(u, To(q, i)) = Reached(t, To(q, i))
                                     \/ Reached(u, To(q, i)) \notin DOMAIN u}
<1>2. Len(q) \in Nat /\ To(q, Len(q)) = q /\ To(q, 0) = Top
  BY ToAll DEF Seqs
<1>3. 0 \in S
  BY <1>2, EmptyReached
<1>4. None \notin DOMAIN u
  BY <1>1, TreeFacts
<1>5. ASSUME NEW i \in 0 .. Len(q) - 1, i \in S PROVE i + 1 \in S
  <2> DEFINE r == Reached(u, To(q, i))
             s == Reached(t, To(q, i))
             n == q[i + 1]
  <2>1. i + 1 \in 0 .. Len(q)
    BY <1>2
  <2>2. /\ Reached(t, To(q, i + 1)) = Enter(t, s, n)
        /\ Reached(u, To(q, i + 1)) = Enter(u, r, n)
    BY NextName
  <2>3. r = s \/ r \notin DOMAIN u
    BY <1>5
  <2> HIDE DEF r, s, n
  <2>4. CASE ~Is("dir", u, r)
    BY <1>4, <2>1, <2>2, <2>4 DEF Enter
  <2>5. CASE Is("dir", u, r)
    <3>1. r = s /\ Is("dir", t, r)
      BY <1>1, <2>3, <2>5 DEF Is
    <3>2. Append(r, n) # p => Enter(u, r, n) = Enter(t, r, n)
      BY <1>1, <2>5, <3>1 DEF Enter, Is
    <3>3. Append(r, n) = p => Enter(u, r, n) \notin DOMAIN u
      BY <1>1, <2>5 DEF Enter, Is
    <3> QED
      BY <2>1, <2>2, <3>1, <3>2, <3>3
  <2> QED
    BY <2>4, <2>5
<1>6. 0 .. Len(q) \subseteq S
  <2> HIDE DEF S
  <2> QED
    BY <1>2, <1>3, <1>5, Upwards
<1> QED
  BY <1>2, <1>6

(* As long as no link is put where none was, whatever else becomes of the  *)
(* tree, a path leads to no directory it did not lead to before, ...       *)
LEMMA OldWays ==
  ASSUME NEW t, IsTree(t), NEW u, IsTree(u), ~NewLink(t, u), NEW q \in Seqs,
         Is("dir", t, Reached(u, q))
  PROVE  Reached(u, q) = Reached(t, q)
<1> DEFINE S == {i \in 0 .. Len(q) : \/ Reached(u, To(q, i)) = Reached(t, To(q, i))
                                     \/ ~Is("dir", t, Reached(u, To(q, i)))}
<1>1. Len(q) \in Nat /\ To(q, Len(q)) = q /\ To(q, 0) = Top
  BY ToAll DEF Seqs
<1>2. 0 \in S
  BY <1>1, EmptyReached
<1>3. None \notin DOMAIN t /\ DOMAIN u \subseteq Seqs /\ \A p : ~(Is("dir", t, p) /\ Is("link", t, p))
  BY TreeFacts
<1>4. ASSUME NEW p \in Seqs, NEW n \in Names, Append(p, n) \in DOMAIN t PROVE Is("dir", t, p)
  <2>1. Len(p) \in 0 .. Len(Append(p, n)) - 1 /\ To(Append(p, n), Len(p)) = p
    BY AppendFacts, ToAll DEF Seqs
  <2> QED
    BY <1>4, <2>1, TreeFacts
<1>5. ASSUME NEW i \in 0 .. Len(q) - 1, i \in S PROVE i + 1 \in S
  <2> DEFINE r == Reached(u, To(q, i))
             s == Reached(t, To(q, i))
             n == q[i + 1]
             c == Append(r, n)
  <2>1. n \in Names /\ i + 1 \in 0 .. Len(q)
    <3>1. n \in Names
      BY ToNext
    <3> QED
      BY <1>1, <3>1
  <2>2. /\ Reached(t, To(q, i + 1)) = Enter(t, s, n)
        /\ Reached(u, To(q, i + 1)) = Enter(u, r, n)
    BY NextName
  <2>3. r = s \/ ~Is("dir", t, r)
    BY <1>5
  <2> HIDE DEF r, s, n
  <2>4. CASE ~Is("dir", u, r)
    <3>1. Enter(u, r, n) = None
      BY <2>4 DEF Enter
    <3> QED
      BY <1>3, <2>1, <2>2, <3>1 DEF Is
  <2>5. CASE Is("dir", u, r)
    <3>1. r \in Seqs
      BY <1>3, <2>5 DEF Is
    <3>2. Enter(u, r, n) = IF Is("link", u, c) THEN u[c].to ELSE c
      BY <2>5 DEF Enter
    <3> HIDE DEF c
    <3>3. Is("link", u, c) => c \in DOMAIN t /\ t[c] = u[c] /\ Is("link", t, c)
      BY DEF NewLink, Is
    <3>4. c \in DOMAIN t => Is("dir", t, r)
      BY <1>4, <2>1, <3>1 DEF c
    <3>5. Is("dir", t, Enter(u, r, n)) => Enter(t, r, n) = Enter(u, r, n) /\ Is("dir", t, r)
      <4>1. Is("dir", t, r) => Enter(t, r, n) = IF Is("link", t, c) THEN t[c].to ELSE c
        BY DEF Enter, c
      <4>2. CASE Is("link", u, c)
        BY <3>2, <3>3, <3>4, <4>1, <4>2
      <4>3. CASE ~Is("link", u, c)
        <5>1. Is("dir", t, c) => c \in DOMAIN t /\ ~Is("link", t, c)
          BY <1>3 DEF Is
        <5> QED
          BY <3>2, <3>4, <4>1, <4>3, <5>1
      <4> QED
        BY <4>2, <4>3
    <3> QED
      BY <2>1, <2>2, <2>3, <3>5
  <2> QED
    BY <2>4, <2>5
<1>6. 0 .. Len(q) \subseteq S
  <2> HIDE DEF S
  <2> QED
    BY <1>1, <1>2, <1>5, Upwards
<1> QED
  BY <1>1, <1>6

(* ... and to no link. *)
LEMMA NoNewLinkPlace ==
  ASSUME NEW t, NEW u, IsTree(t), IsTree(u), ~NewLink(t, u)
  PROVE  \A q \in Seqs \ {Top} : Is("link", u, Place(u, q)) => Is("link", t, Place(t, q))
<1> SUFFICES ASSUME NEW q \in Seqs \ {Top}, Is("link", u, Place(u, q))
             PROVE  Is("link", t, Place(t, q))
  OBVIOUS
<1> DEFINE d == Reached(u, Front(q))
           p == Place(u, q)
<1>1. Front(q) \in Seqs
  BY FrontLast
<1>2. Is("dir", u, d) /\ p \in Seqs \ {Top} /\ Front(p) = d /\ p = Append(d, Last(q))
  <2>1. Exists(u, q)
    BY DEF Exists, Is
  <2> QED
    BY <2>1, LastName
<1>3. Is("link", t, p)
  BY DEF NewLink, Is
<1> HIDE DEF p, d
<1>4. Is("dir", t, d)
  <2>1. Len(p) \in Nat \ {0} /\ d = To(p, Len(p) - 1) /\ p \in DOMAIN t
    BY <1>2, <1>3, FrontLast DEF Is
  <2>2. Len(p) - 1 \in 0 .. Len(p) - 1
    BY <2>1
  <2> QED
    BY <2>1, <2>2, TreeFacts
<1>5. Reached(t, Front(q)) = d
  BY <1>1, <1>4, OldWays DEF d
<1>6. Place(t, q) = p
  BY <1>2, <1>4, <1>5, LastName
<1> QED
  BY <1>3, <1>6

-----------------------------------------------------------------------------
(* What stays true of the tree, whoever changes it *)

LEMMA WithTree ==
  ASSUME NEW t, IsTree(t), NEW p \in Seqs, p \notin DOMAIN t, Is("dir", t, Front(p)),
         NEW e, IsEntry(e), e.kind # "link"
  PROVE  /\ IsTree(With(t, p, e))
         /\ ~NewLink(t, With(t, p, e))
<1> DEFINE new == With(t, p, e)
<1>0. new = [q \in DOMAIN new |-> new[q]]
  BY DEF With
<1>1. /\ DOMAIN new = DOMAIN t \cup {p} /\ new[p] = e
      /\ \A q \in DOMAIN t : new[q] = t[q]
  BY DEF With
<1> HIDE DEF new
<1>2. \A q : Is("dir", t, q) => Is("dir", new, q)
  BY <1>1 DEF Is
<1>3. Is("dir", new, Top) /\ p # Top
  BY <1>2, TreeFacts DEF Is
<1>4. ASSUME NEW q \in DOMAIN new, NEW i \in 0 .. Len(q) - 1
      PROVE  Is("dir", new, SubSeq(q, 1, i))
  <2>1. CASE q \in DOMAIN t
    BY <1>2, <1>4, <2>1 DEF IsTree
  <2>2. CASE q = p
    <3>1. Len(p) \in Nat \ {0} /\ Front(p) = To(p, Len(p) - 1) /\ Len(Front(p)) = Len(p) - 1
      BY <1>3, FrontLast
    <3>2. CASE i = Len(p) - 1
      BY <1>2, <2>2, <3>1, <3>2 DEF To
    <3>3. CASE i # Len(p) - 1
      <4>1. i \in 0 .. Len(Front(p)) - 1 /\ i \in 0 .. Len(p) - 1 /\ Len(p) - 1 \in 0 .. Len(p)
        BY <1>4, <2>2, <3>1, <3>3
      <4>2. To(Front(p), i) = To(p, i)
        BY <3>1, <4>1, ToTo
      <4> QED
        BY <1>2, <2>2, <4>1, <4>2, TreeFacts DEF Is, To
    <3> QED
      BY <3>2, <3>3
  <2> QED
    BY <1>1, <2>1, <2>2
<1>5. DOMAIN new \subseteq Seq(Names) /\ \A q \in DOMAIN new : IsEntry(new[q])
  BY <1>1 DEF IsTree, Seqs
<1>6. ~NewLink(t, new)
  BY <1>1 DEF NewLink, Is
<1> QED
  BY <1>0, <1>3, <1>4, <1>5, <1>6 DEF IsTree, new

LEMMA LessTree ==
  ASSUME NEW t, IsTree(t), NEW p \in DOMAIN t, p # Top, Under(t, p) = {p}
  PROVE  /\ IsTree(Less(t, {p}))
         /\ ~NewLink(t, Less(t, {p}))
<1> DEFINE new == Less(t, {p})
<1>0. new = [q \in DOMAIN new |-> new[q]]
  BY DEF Less
<1>1. DOMAIN new = DOMAIN t \ {p} /\ \A q \in DOMAIN new : new[q] = t[q]
  BY DEF Less
<1> HIDE DEF new
<1>2. Is("dir", new, Top)
  BY <1>1, TreeFacts DEF Is
<1>3. ASSUME NEW q \in DOMAIN new, NEW i \in 0 .. Len(q) - 1
      PROVE  Is("dir", new, SubSeq(q, 1, i))
  <2>1. q \in DOMAIN t /\ q \in Seqs /\ q # p /\ Len(q) \in Nat /\ p \in Seqs
    BY <1>1, TreeFacts DEF Seqs
  <2>2. Is("dir", t, To(q, i))
    BY <1>3, <2>1, TreeFacts
  <2>3. i \in 0 .. Len(q)
    BY <1>3, <2>1
  <2>4. To(q, i) # p
    <3> SUFFICES ASSUME To(q, i) = p PROVE FALSE
      OBVIOUS
    <3>1. Len(p) = i
      BY <2>1, <2>3, ToFacts
    <3>2. IsPrefix(p, q)
      BY <2>1, <2>3, <3>1, PrefixTo
    <3> QED
      BY <2>1, <3>2 DEF Under
  <2> QED
    BY <1>1, <2>2, <2>4 DEF Is, To
<1>4. DOMAIN new \subseteq Seq(Names) /\ \A q \in DOMAIN new : IsEntry(new[q])
  BY <1>1 DEF IsTree
<1>5. ~NewLink(t, new)
  BY <1>1 DEF NewLink, Is
<1> QED
  BY <1>0, <1>2, <1>3, <1>4, <1>5 DEF IsTree, new

LEMMA LeafAlone ==
  ASSUME NEW t, IsTree(t), NEW p \in DOMAIN t, ~Is("dir", t, p)
  PROVE  Under(t, p) = {p} /\ p # Top
<1>1. p \in Seqs
  BY TreeFacts
<1>2. p \in Under(t, p)
  BY <1>1, PrefixByName DEF Under, Seqs
<1>3. ASSUME NEW q \in Under(t, p) PROVE q = p
  <2>1. q \in DOMAIN t /\ IsPrefix(p, q) /\ q \in Seqs
    BY TreeFacts DEF Under
  <2>2. Len(p) <= Len(q) /\ p = To(q, Len(p)) /\ Len(p) \in Nat /\ Len(q) \in Nat
    BY <1>1, <2>1, PrefixTo DEF Seqs
  <2>3. ~(Len(p) \in 0 .. Len(q) - 1)
    BY <2>1, <2>2, TreeFacts
  <2>4. Len(p) = Len(q)
    BY <2>2, <2>3
  <2> QED
    BY <2>1, <2>2, <2>4, ToAll
<1> QED
  BY <1>2, <1>3, TreeFacts

LEMMA Removable ==
  ASSUME NEW t, IsTree(t), NEW path, CanUnlink(t, path) \/ CanRmdir(t, path)
  PROVE  /\ Place(t, path) \in DOMAIN t /\ Place(t, path) # Top
         /\ Under(t, Place(t, path)) = {Place(t, path)}
         /\ IsTree(Removed(t, path)) /\ ~NewLink(t, Removed(t, path))
<1> DEFINE p == Place(t, path)
<1>1. p \in DOMAIN t /\ p # Top /\ Under(t, p) = {p}
  <2>1. CASE CanUnlink(t, path)
    BY <2>1, LeafAlone DEF CanUnlink, Exists
  <2>2. CASE CanRmdir(t, path)
    BY <2>2 DEF CanRmdir, Is
  <2> QED
    BY <2>1, <2>2
<1> QED
  BY <1>1, LessTree DEF Removed

LEMMA Makeable ==
  ASSUME NEW t, IsTree(t), NEW path \in Seqs, CanMake(t, path)
  PROVE  /\ Place(t, path) \in Seqs /\ Place(t, path) \notin DOMAIN t
         /\ Is("dir", t, Front(Place(t, path)))
<1> DEFINE r == Reached(t, Front(path))
<1>1. Place(t, path) # None /\ Place(t, path) \notin DOMAIN t
  BY DEF CanMake, Exists
<1>2. path # Top
  BY <1>1, TreeFacts DEF Place, Is
<1>3. Is("dir", t, r) /\ Place(t, path) = Append(r, Last(path))
  BY <1>1, <1>2 DEF Place
<1>4. r \in Seqs /\ Last(path) \in Names
  BY <1>2, <1>3, TreeFacts, FrontLast DEF Is
<1> HIDE DEF r
<1>5. Append(r, Last(path)) \in Seqs /\ Front(Append(r, Last(path))) = r
  BY <1>4, AppendFacts
<1> QED
  BY <1>1, <1>3, <1>5

ClientPaths == Paths \ {Top}
Frames == [path : Seqs \ {Top}, names : SUBSET Names]
Types  == {"unknown", "dir", "file", "link", "gone", "next", "done"}

Has(fields) == call = [k \in fields |-> call[k]]

MkdirTyped ==
  /\ Has({"op", "path", "at"}) /\ call.op = "mkdir"
  /\ call.path \in ClientPaths /\ call.at \in 1 .. Len(call.path)

RmTyped ==
  /\ Has({"op", "open", "at", "type"}) /\ call.op = "rm"
  /\ call.open \in Seq(Frames) /\ call.at \in Seqs \ {Top} /\ call.type \in Types
  /\ call.type = "next" => call.open # <<>>

CopyTyped ==
  /\ Has({"op", "src", "dst", "remove", "do", "src_fd", "dest_fd", "pos", "r", "buffer"})
  /\ call.op = "copy"
  /\ call.src \in ClientPaths /\ call.dst \in ClientPaths /\ call.remove \in BOOLEAN

CaseTyped == Has({"op", "base", "names", "root", "at"}) /\ call.op = "case"

CallTyped == call = Idle \/ MkdirTyped \/ RmTyped \/ CopyTyped \/ CaseTyped

LEMMA OpTyped ==
  ASSUME CallTyped
  PROVE  /\ call.op = "none" <=> call = Idle
         /\ call.op = "mkdir" <=> MkdirTyped
         /\ call.op = "rm" <=> RmTyped
         /\ call.op = "copy" <=> CopyTyped
         /\ call.op = "case" <=> CaseTyped
BY DEF CallTyped, MkdirTyped, RmTyped, CopyTyped, CaseTyped, Idle, Has

LEMMA PathsAreSeqs == ClientPaths \subseteq Seqs
BY FilesAssumption DEF ClientPaths, Seqs

DiskInv == IsTree(tree) /\ IsTree(before) /\ before \in Trees

(* As long as the other process puts no link where none was, no path comes *)
(* to lead to one.                                                         *)
NoNewLink ==
  ~astray' =>
    /\ ~astray
    /\ \A q \in Seqs \ {Top} : Is("link", tree', Place(tree', q)) => Is("link", tree, Place(tree, q))

LEMMA DiskSame ==
  ASSUME DiskInv, UNCHANGED <<tree, before, astray>> PROVE DiskInv' /\ NoNewLink
BY DEF DiskInv, NoNewLink

LEMMA DiskChange ==
  ASSUME DiskInv, NEW new, tree' = new, before' = before, IsTree(new),
         ~astray' => ~astray /\ ~NewLink(tree, new)
  PROVE  DiskInv' /\ NoNewLink
<1>1. DiskInv' /\ IsTree(tree)
  BY DEF DiskInv
<1>2. ~NewLink(tree, new) =>
        \A q \in Seqs \ {Top} : Is("link", new, Place(new, q)) => Is("link", tree, Place(tree, q))
  BY <1>1, NoNewLinkPlace
<1> QED
  BY <1>1, <1>2 DEF NoNewLink

LEMMA TypedInit == Init => CallTyped /\ DiskInv
BY FilesAssumption DEF Init, CallTyped, DiskInv

LEMMA TypedCopy ==
  ASSUME CopyTyped,
         CopyStat \/ CopyUnlink \/ CopyOpen \/ CopyCreate \/ CopyRead \/ CopyWrite
  PROVE  CopyTyped' \/ call' = Idle
<1>1. CASE CopyStat \/ CopyUnlink
  BY <1>1 DEF CopyStat, CopyUnlink, Fails, Return, CopyTyped, Has
<1>2. CASE CopyOpen \/ CopyCreate
  BY <1>2 DEF CopyOpen, CopyCreate, Fails, Return, CopyTyped, Has
<1>3. CASE CopyRead \/ CopyWrite
  BY <1>3 DEF CopyRead, CopyWrite, Fails, Return, CopyTyped, Has
<1> QED
  BY <1>1, <1>2, <1>3

(* The names in a directory, and the paths they make *)
LEMMA NamesAreNames ==
  ASSUME NEW t, IsTree(t), NEW p \in Seqs PROVE NamesIn(t, p) \subseteq Names
<1> SUFFICES ASSUME NEW q \in DOMAIN t, Len(q) = Len(p) + 1 PROVE Last(q) \in Names
  BY DEF NamesIn, Under
<1>1. q \in Seqs /\ Len(p) \in Nat
  BY TreeFacts DEF Seqs
<1>2. q # Top
  BY <1>1, TopFacts
<1> QED
  BY <1>1, <1>2, FrontLast

LEMMA KindTyped ==
  ASSUME NEW p, DiskInv PROVE Kind(p) \in {"dir", "file", "link", "gone"}
BY DEF Kind, DiskInv, IsTree, IsEntry, Exists, Dir, File

LEMMA OpenFacts ==
  ASSUME NEW s \in Seq(Frames), s # <<>>
  PROVE  /\ Len(s) \in Nat \ {0} /\ Len(s) \in DOMAIN s /\ Last(s) = s[Len(s)] /\ Last(s) \in Frames
         /\ Front(s) \in Seq(Frames) /\ Len(Front(s)) = Len(s) - 1
         /\ \A i \in 1 .. Len(s) - 1 : Front(s)[i] = s[i]
BY DEF Last, Front

LEMMA OpenMore ==
  ASSUME NEW s \in Seq(Frames), NEW f
  PROVE  /\ Len(Append(s, f)) = Len(s) + 1 /\ Append(s, f)[Len(s) + 1] = f /\ Len(s) \in Nat
         /\ \A i \in 1 .. Len(s) : Append(s, f)[i] = s[i]
<1> DEFINE S == Frames \cup {f}
<1>1. s \in Seq(S) /\ f \in S
  OBVIOUS
<1> HIDE DEF S
<1> QED
  BY <1>1

LEMMA TypedRm ==
  ASSUME RmTyped, DiskInv, RmLook \/ RmOpen \/ RmClosed \/ RmNext \/ RmCallback
  PROVE  RmTyped' \/ call' = Idle
<1>1. CASE RmLook
  BY <1>1, KindTyped DEF RmLook, Return, RmTyped, Types, Has
<1>2. CASE RmOpen
  <2>1. CASE call' = Idle
    BY <2>1
  <2>2. CASE call' # Idle
    <3> DEFINE f == [path |-> call.at, names |-> NamesIn(tree, Reached(tree, call.at))]
    <3>1. /\ Is("dir", tree, Reached(tree, call.at))
          /\ call' = [call EXCEPT !.open = Append(@, f), !.type = "next"]
      BY <1>2, <2>2 DEF RmOpen, Return
    <3>2. f \in Frames
      <4>1. Reached(tree, call.at) \in Seqs
        BY <3>1, TreeFacts DEF Is, DiskInv
      <4> QED
        BY <4>1, NamesAreNames DEF DiskInv, Frames, RmTyped
    <3> HIDE DEF f
    <3>3. Append(call.open, f) \in Seq(Frames) /\ Append(call.open, f) # <<>>
      BY <3>2 DEF RmTyped
    <3> QED
      BY <3>1, <3>3 DEF RmTyped, Types, Has
  <2> QED
    BY <2>1, <2>2
<1>3. CASE RmClosed
  BY <1>3, SMTT(60) DEF RmClosed, RmTyped, Types, Has
<1>4. CASE RmNext
  <2> DEFINE d == Last(call.open)
  <2>1. call.open # <<>> /\ call.type = "next"
    BY <1>4 DEF RmNext, RmTyped
  <2>2. /\ d \in Frames /\ Front(call.open) \in Seq(Frames) /\ Len(call.open) \in DOMAIN call.open
        /\ call.open[Len(call.open)] = d
    BY <2>1, OpenFacts DEF RmTyped
  <2>3. CASE \E n \in d.names :
               call' = [call EXCEPT !.open[Len(call.open)].names = @ \ {n},
                                    !.at = Append(d.path, n), !.type = "unknown"]
    <3>1. PICK n \in d.names :
               call' = [call EXCEPT !.open[Len(call.open)].names = @ \ {n},
                                    !.at = Append(d.path, n), !.type = "unknown"]
      BY <2>3
    <3>2. d.path \in Seqs /\ d.names \subseteq Names
      BY <2>2 DEF Frames
    <3>3. Append(d.path, n) \in Seqs \ {Top}
      BY <3>2, AppendFacts
    <3> DEFINE o == [call.open EXCEPT ![Len(call.open)].names = @ \ {n}]
    <3>4. o \in Seq(Frames)
      BY <2>2 DEF RmTyped, Frames
    <3>5. /\ call'.op = "rm" /\ call'.open = o /\ call'.at = Append(d.path, n)
          /\ call'.type = "unknown" /\ Has({"op", "open", "at", "type"})'
      BY <3>1 DEF RmTyped, Has
    <3> HIDE DEF o, d
    <3> QED
      BY <3>3, <3>4, <3>5 DEF RmTyped, Types, Has
  <2>4. CASE call' = [call EXCEPT !.open = Front(@), !.at = d.path, !.type = "done"]
    <3>1. d.path # Top
      BY <2>2 DEF Frames
    <3> QED
      BY <2>2, <2>4, <3>1 DEF RmTyped, Types, Frames, Has
  <2> QED
    BY <1>4, <2>3, <2>4 DEF RmNext
<1>5. CASE RmCallback
  BY <1>5 DEF RmCallback, CallbackFails, Fails, Return, RmTyped, Types, Has
<1> QED
  BY <1>1, <1>2, <1>3, <1>4, <1>5

LEMMA TypedStart ==
  ASSUME Start PROVE CallTyped' /\ UNCHANGED <<tree, content, answer, moves, astray, before, fault>>
<1>1. ASSUME NEW path \in Paths, StartMkdir(path) PROVE MkdirTyped'
  <2>1. path \in Seqs /\ path # Top
    BY <1>1, FilesAssumption DEF StartMkdir, Seqs
  <2>2. 1 \in 1 .. Len(path)
    BY <2>1, FrontLast
  <2> QED
    BY <1>1, <2>1, <2>2 DEF StartMkdir, Begin, MkdirTyped, Has, ClientPaths
<1>2. ASSUME NEW path \in Paths, StartRm(path) PROVE RmTyped'
  <2>1. path \in Seqs /\ path # Top
    BY <1>2, FilesAssumption DEF StartRm, Seqs
  <2> QED
    BY <1>2, <2>1 DEF StartRm, Begin, RmTyped, Has, Types
<1>3. ASSUME NEW path \in Paths, NEW dst \in Paths, NEW remove \in BOOLEAN,
             StartCopy(path, dst, remove)
      PROVE  CopyTyped'
  BY <1>3 DEF StartCopy, Begin, CopyTyped, Has, ClientPaths
<1>4. ASSUME NEW base \in Bases, NEW names \in NameLists, StartCase(base, names)
      PROVE  CaseTyped'
  BY <1>4 DEF StartCase, Begin, CaseTyped, Has
<1>5. UNCHANGED <<tree, content, answer, moves, astray, before, fault>>
  BY DEF Start, StartMkdir, StartRm, StartCopy, StartCase, Begin, disk, world
<1> QED
  BY <1>1, <1>2, <1>3, <1>4, <1>5 DEF Start, CallTyped

LEMMA TypedMkdir ==
  ASSUME MkdirTyped, Mkdir PROVE MkdirTyped' \/ call' = Idle
<1>1. call.path \in Seqs /\ Len(call.path) \in Nat
  BY PathsAreSeqs DEF MkdirTyped, Seqs
<1>2. (call.at < Len(call.path) /\ call' = [call EXCEPT !.at = @ + 1]) \/ call' = Idle
  BY DEF Mkdir, Fails, Return
<1>3. CASE call.at < Len(call.path) /\ call' = [call EXCEPT !.at = @ + 1]
  <2>1. /\ call'.op = "mkdir" /\ call'.path = call.path /\ call'.at = call.at + 1
        /\ Has({"op", "path", "at"})'
    BY <1>3 DEF MkdirTyped, Has
  <2>2. call.at + 1 \in 1 .. Len(call.path)
    BY <1>1, <1>3 DEF MkdirTyped
  <2> QED
    BY <2>1, <2>2 DEF MkdirTyped
<1> QED
  BY <1>2, <1>3

LEMMA TypedCase ==
  ASSUME CaseTyped, CaseName \/ CaseEnd PROVE CaseTyped' \/ call' = Idle
<1>1. CASE CaseName
  <2>1. PICK p : p = call.names[call.at]
    OBVIOUS
  <2>2. \/ \E n : call' = [call EXCEPT !.at = @ + 1,
                          !.root = IF @ = None THEN None ELSE Append(@, n)]
        \/ call' = [call EXCEPT !.at = @ + 1,
                    !.root = IF @ = None THEN <<p>> ELSE Append(@, p)]
        \/ call' = Idle
    BY <1>1, <2>1 DEF CaseName, Return
  <2> QED
    BY <2>2 DEF CaseTyped, Has
<1>2. CASE CaseEnd
  BY <1>2 DEF CaseEnd, Return
<1> QED
  BY <1>1, <1>2

LEMMA MkdirPath ==
  ASSUME MkdirTyped
  PROVE  Parent \in Seqs \ {Top} /\ Parent = To(call.path, call.at)
<1>1. call.path \in Seqs /\ call.at \in 1 .. Len(call.path) /\ Len(call.path) \in Nat
  BY PathsAreSeqs DEF MkdirTyped, Seqs
<1>2. To(call.path, call.at) \in Seqs /\ Len(To(call.path, call.at)) = call.at
  BY <1>1, ToFacts
<1> QED
  BY <1>1, <1>2, TopFacts DEF Parent, To

(* Every step keeps the tree a tree, and only the other process makes a    *)
(* link.                                                                   *)
LEMMA DiskStep ==
  ASSUME CallTyped, DiskInv, [Next]_vars
  PROVE  DiskInv' /\ NoNewLink
<1> USE DEF disk, world, Fails
<1>0. IsTree(tree)
  BY DEF DiskInv
<1>1. CASE Mkdir
  <2>1. CASE tree' = tree
    BY <1>1, <2>1, DiskSame DEF Mkdir
  <2>2. CASE tree' # tree
    <3>1. CanMake(tree, Parent) /\ tree' = With(tree, Place(tree, Parent), Dir) /\ UNCHANGED <<before, astray>>
      BY <1>1, <2>2 DEF Mkdir
    <3>2. MkdirTyped
      BY <1>1, OpTyped DEF Mkdir
    <3>3. IsTree(tree') /\ ~NewLink(tree, tree')
      <4>1. IsEntry(Dir) /\ Dir.kind # "link"
        BY DEF IsEntry, Dir
      <4>2. /\ Place(tree, Parent) \in Seqs /\ Place(tree, Parent) \notin DOMAIN tree
            /\ Is("dir", tree, Front(Place(tree, Parent)))
        BY <1>0, <3>1, <3>2, MkdirPath, Makeable
      <4> QED
        BY <1>0, <3>1, <4>1, <4>2, WithTree
    <3> QED
      BY <3>1, <3>3, DiskChange
  <2> QED
    BY <2>1, <2>2
<1>2. CASE RmCallback
  <2>1. CASE tree' = tree
    BY <1>2, <2>1, DiskSame DEF RmCallback
  <2>2. CASE tree' # tree
    <3>1. /\ CanUnlink(tree, call.at) \/ CanRmdir(tree, call.at)
          /\ tree' = Removed(tree, call.at) /\ UNCHANGED <<before, astray>>
      BY <1>2, <2>2 DEF RmCallback
    <3> QED
      BY <1>0, <3>1, Removable, DiskChange
  <2> QED
    BY <2>1, <2>2
<1>3. CASE CopyUnlink
  <2>1. CASE tree' = tree
    BY <1>3, <2>1, DiskSame DEF CopyUnlink
  <2>2. CASE tree' # tree
    <3>1. CanUnlink(tree, call.dst) /\ tree' = Removed(tree, call.dst) /\ UNCHANGED <<before, astray>>
      BY <1>3, <2>2 DEF CopyUnlink
    <3> QED
      BY <1>0, <3>1, Removable, DiskChange
  <2> QED
    BY <2>1, <2>2
<1>4. CASE CopyCreate
  <2>1. CASE tree' = tree
    BY <1>4, <2>1, DiskSame DEF CopyCreate
  <2>2. CASE tree' # tree
    <3> DEFINE p == Reached(tree, call.dst)
               i == IF Is("file", tree, p) THEN tree[p].ino ELSE NewInode
    <3>1. tree' = With(tree, p, File(i)) /\ UNCHANGED <<before, astray>> /\ (Is("file", tree, p) \/ HasRoom(p))
      BY <1>4, <2>2 DEF CopyCreate
    <3>2. ~Is("file", tree, p)
      <4> SUFFICES ASSUME Is("file", tree, p) PROVE FALSE
        OBVIOUS
      <4>1. tree[p] = File(i) /\ p \in DOMAIN tree
        BY <1>0 DEF Is, IsTree, IsEntry, Dir, Link
      <4>2. With(tree, p, File(i)) = [q \in DOMAIN tree |-> tree[q]]
        <5> HIDE DEF p, i
        <5> QED
          BY <4>1 DEF With
      <4>3. tree = [q \in DOMAIN tree |-> tree[q]]
        BY <1>0 DEF IsTree
      <4> QED
        BY <2>2, <3>1, <4>2, <4>3
    <3>3. p \in Seqs /\ p \notin DOMAIN tree /\ Is("dir", tree, Front(p))
      <4>1. p # None /\ p # Top /\ p \notin DOMAIN tree /\ Is("dir", tree, Front(p))
        BY <3>1, <3>2 DEF HasRoom
      <4>2. call.dst \in Seqs
        BY <1>4, OpTyped, PathsAreSeqs DEF CopyCreate, Copying, CopyTyped
      <4> QED
        BY <1>0, <4>1, <4>2, ReachedSeq
    <3>4. IsEntry(File(i)) /\ File(i).kind # "link"
      BY DEF IsEntry, File
    <3> HIDE DEF p, i
    <3> QED
      BY <1>0, <3>1, <3>3, <3>4, WithTree, DiskChange
  <2> QED
    BY <2>1, <2>2
<1>5. CASE Other
  <2>1. before' = before /\ (~astray' => ~astray /\ ~NewLink(tree, tree'))
    BY <1>5 DEF Other
  <2>2. IsTree(tree')
    BY <1>5, FilesAssumption DEF Other
  <2> QED
    BY <2>1, <2>2, DiskChange
<1>6. CASE Start
  BY <1>6, TypedStart, DiskSame
<1>7. CASE \/ RmLook \/ RmOpen \/ RmClosed \/ RmNext
           \/ CopyStat \/ CopyOpen \/ CopyRead \/ CopyWrite
           \/ CaseName \/ CaseEnd \/ UNCHANGED vars
  <2>1. UNCHANGED <<tree, before, astray>>
    BY <1>7 DEF RmLook, RmOpen, RmClosed, RmNext, CopyStat, CopyOpen, CopyRead, CopyWrite,
       CaseName, CaseEnd, vars
  <2> QED
    BY <2>1, DiskSame, SMTT(60)
<1> QED
  BY <1>1, <1>2, <1>3, <1>4, <1>5, <1>6, <1>7 DEF Next, Run

LEMMA TypedStep ==
  ASSUME CallTyped, DiskInv, [Next]_vars PROVE CallTyped'
<1>1. CASE Start
  BY <1>1, TypedStart
<1>2. CASE Mkdir
  BY <1>2, OpTyped, TypedMkdir DEF Mkdir, CallTyped
<1>3. CASE RmLook \/ RmOpen \/ RmClosed \/ RmNext \/ RmCallback
  <2>1. RmTyped
    BY <1>3, OpTyped DEF RmLook, RmOpen, RmClosed, RmNext, RmCallback
  <2> QED
    BY <1>3, <2>1, TypedRm DEF CallTyped
<1>4. CASE CopyStat \/ CopyUnlink \/ CopyOpen \/ CopyCreate \/ CopyRead \/ CopyWrite
  <2>1. CopyTyped
    BY <1>4, OpTyped DEF CopyStat, CopyUnlink, CopyOpen, CopyCreate, CopyRead, CopyWrite, Copying
  <2> QED
    BY <1>4, <2>1, TypedCopy DEF CallTyped
<1>5. CASE CaseName \/ CaseEnd
  BY <1>5, OpTyped, TypedCase DEF CaseName, CaseEnd, CallTyped
<1>6. CASE Other \/ UNCHANGED vars
  <2>1. call' = call
    BY <1>6 DEF Other, vars
  <2> QED
    BY <2>1 DEF CallTyped, MkdirTyped, RmTyped, CopyTyped, CaseTyped, Has, Idle
<1> QED
  BY <1>1, <1>2, <1>3, <1>4, <1>5, <1>6 DEF Next, Run

-----------------------------------------------------------------------------
(* nc_mkdir_p *)

(* No call has begun yet. *)
Fresh ==
  call = Idle /\ answer = <<>> =>
    tree = before /\ content = Contents /\ moves = 0 /\ ~fault

LEMMA FreshStep == ASSUME Fresh, CallTyped, [Next]_vars PROVE Fresh'
<1>1. CASE call = Idle
  <2>1. Start \/ UNCHANGED vars
    BY <1>1, OpTyped DEF Next, Run, Mkdir, RmLook, RmOpen, RmClosed, RmNext, RmCallback, CopyStat,
       CopyUnlink, CopyOpen, CopyCreate, CopyRead, CopyWrite, Copying, CaseName, CaseEnd, Other, Idle
  <2> QED
    BY <2>1, TypedStart, <1>1 DEF Fresh, vars
<1>2. CASE call # Idle
  <2>1. CASE Start
    BY <1>2, <2>1 DEF Start, StartMkdir, StartRm, StartCopy, StartCase, Begin
  <2>2. CASE Mkdir
    <3>1. MkdirTyped
      BY <2>2, OpTyped DEF Mkdir
    <3>2. CASE call' = [call EXCEPT !.at = @ + 1]
      BY <3>1, <3>2 DEF MkdirTyped, Has, Idle, Fresh
    <3>3. CASE \E v : Return(v)
      BY <3>3 DEF Return, Fresh
    <3> QED
      BY <2>2, <3>2, <3>3 DEF Mkdir, Fails
  <2>3. CASE RmLook \/ RmOpen \/ RmClosed \/ RmNext \/ RmCallback
    <3>1. RmTyped /\ DOMAIN call = {"op", "open", "at", "type"}
      BY <2>3, OpTyped DEF RmLook, RmOpen, RmClosed, RmNext, RmCallback, RmTyped, Has
    <3>2. CASE \E v : Return(v)
      BY <3>2 DEF Return, Fresh
    <3>3. CASE ~(\E v : Return(v))
      <4>1. CASE RmLook \/ RmOpen \/ RmClosed
        BY <3>1, <3>3, <4>1 DEF RmLook, RmOpen, RmClosed, RmTyped, Idle, Fresh
      <4>2. CASE RmNext
        <5>1. call'.op = call.op
          BY <3>1, <4>2 DEF RmNext
        <5> QED
          BY <3>1, <5>1 DEF RmTyped, Idle, Fresh
      <4>3. CASE RmCallback
        <5>1. call' = [call EXCEPT !.type = "next"]
          BY <3>3, <4>3 DEF RmCallback, CallbackFails, Fails
        <5> QED
          BY <3>1, <5>1 DEF RmTyped, Idle, Fresh
      <4> QED
        BY <2>3, <4>1, <4>2, <4>3
    <3> QED
      BY <3>2, <3>3
  <2>4. CASE CopyStat \/ CopyUnlink \/ CopyOpen \/ CopyCreate \/ CopyRead \/ CopyWrite
    <3>1. CopyTyped
      BY <2>4, OpTyped DEF CopyStat, CopyUnlink, CopyOpen, CopyCreate, CopyRead, CopyWrite, Copying
    <3>2. CASE \E v : Return(v)
      BY <3>2 DEF Return, Fresh
    <3>3. CASE ~(\E v : Return(v))
      <4>1. call'.op = "copy"
        <5>1. CASE CopyStat \/ CopyUnlink
          BY <3>1, <3>3, <5>1 DEF CopyStat, CopyUnlink, Fails, CopyTyped, Has
        <5>2. CASE CopyOpen
          BY <3>1, <3>3, <5>2 DEF CopyOpen, Fails, CopyTyped, Has
        <5>3. CASE CopyCreate
          BY <3>1, <3>3, <5>3 DEF CopyCreate, Fails, CopyTyped, Has
        <5>4. CASE CopyRead
          BY <3>1, <3>3, <5>4 DEF CopyRead, Fails, CopyTyped, Has
        <5>5. CASE CopyWrite
          BY <3>1, <3>3, <5>5 DEF CopyWrite, CopyTyped, Has
        <5> QED
          BY <2>4, <5>1, <5>2, <5>3, <5>4, <5>5
      <4> QED
        BY <4>1 DEF Idle, Fresh
    <3> QED
      BY <3>2, <3>3
  <2>5. CASE CaseName \/ CaseEnd
    <3>1. CaseTyped
      BY <2>5, OpTyped DEF CaseName, CaseEnd
    <3>2. CASE \E v : Return(v)
      BY <3>2 DEF Return, Fresh
    <3>3. CASE ~(\E v : Return(v))
      <4>1. \E k, r : call' = [call EXCEPT !.at = k, !.root = r]
        BY <2>5, <3>3 DEF CaseName, CaseEnd
      <4> QED
        BY <3>1, <4>1 DEF CaseTyped, Has, Idle, Fresh
    <3> QED
      BY <3>2, <3>3
  <2>6. CASE Other \/ UNCHANGED vars
    BY <1>2, <2>6 DEF Other, vars, Fresh
  <2> QED
    BY <2>1, <2>2, <2>3, <2>4, <2>5, <2>6 DEF Next, Run
<1> QED
  BY <1>1, <1>2

(* The tree with the directories made for the first n names of the path:   *)
(* once one of them is made, all that follow are.                          *)
MadeAt(b, t, path, n) ==
  /\ \A p \in DOMAIN b : p \in DOMAIN t /\ t[p] = b[p]
  /\ \A p \in DOMAIN t \ DOMAIN b : t[p] = Dir /\ \E i \in 1 .. n : p = Place(t, To(path, i))
  /\ Exists(t, To(path, n))
  /\ IF Exists(b, To(path, n)) THEN t = b ELSE Place(t, To(path, n)) \notin DOMAIN b
  /\ \A i \in 1 .. n - 1 : Exists(b, To(path, i)) => Is("dir", b, Reached(b, To(path, i)))

MkdirInv ==
  call.op = "mkdir" /\ moves = 0 /\ ~fault => MadeAt(before, tree, call.path, call.at - 1)

LEMMA WayThere ==
  ASSUME NEW t, IsTree(t), NEW q \in Seqs, Reached(t, q) \in DOMAIN t, NEW n \in 0 .. Len(q)
  PROVE  Exists(t, To(q, n))
<1>1. CASE n = 0
  BY <1>1, ToAll, TreeFacts DEF Exists, Place, Is
<1>2. CASE n # 0
  <2>1. n - 1 \in 0 .. Len(q) - 1 /\ (n - 1) + 1 = n /\ n \in Nat
    BY <1>2
  <2>2. Is("dir", t, Reached(t, To(q, n - 1))) /\ Append(Reached(t, To(q, n - 1)), q[n]) \in DOMAIN t
    BY <2>1, PathThere
  <2>3. /\ To(q, n) = Append(To(q, n - 1), q[n]) /\ To(q, n - 1) \in Seqs /\ q[n] \in Names
    BY <2>1, ToNext
  <2>4. To(q, n) # Top /\ Front(To(q, n)) = To(q, n - 1) /\ Last(To(q, n)) = q[n]
    BY <2>3, AppendFacts
  <2> QED
    BY <2>2, <2>4 DEF Exists, Place
<1> QED
  BY <1>1, <1>2

(* The next name of a path, as mkdir sees it *)
LEMMA NextPlace ==
  ASSUME NEW t, IsTree(t), NEW path \in Seqs, NEW n \in 0 .. Len(path) - 1
  PROVE  LET d == Reached(t, To(path, n))
             q == To(path, n + 1)
         IN  /\ q \in Seqs \ {Top} /\ Front(q) = To(path, n)
             /\ Is("dir", t, d) => /\ Place(t, q) \in Seqs \ {Top} /\ Place(t, q) # None
                                   /\ Front(Place(t, q)) = d
             /\ ~Is("dir", t, d) => Place(t, q) = None
             /\ CanMake(t, q) \/ Exists(t, q) <=> Is("dir", t, d)
             /\ Exists(t, q) => Exists(t, To(path, n))
<1> DEFINE d == Reached(t, To(path, n))
           q == To(path, n + 1)
<1>1. /\ To(path, n) \in Seqs /\ path[n + 1] \in Names /\ q = Append(To(path, n), path[n + 1])
      /\ Len(To(path, n)) = n
  BY ToNext
<1>2. q \in Seqs \ {Top} /\ Front(q) = To(path, n)
  BY <1>1, AppendFacts
<1> HIDE DEF q
<1>3. /\ Place(t, q) = IF Is("dir", t, d) THEN Append(d, Last(q)) ELSE None
      /\ Is("dir", t, d) => /\ Place(t, q) \in Seqs \ {Top} /\ Place(t, q) # None
                            /\ Front(Place(t, q)) = d
      /\ Exists(t, q) => Is("dir", t, d)
  BY <1>2, LastName
<1>4. Exists(t, q) => Exists(t, To(path, n))
  <2> SUFFICES ASSUME Exists(t, q) PROVE Exists(t, To(path, n))
    OBVIOUS
  <2>1. d \in DOMAIN t
    BY <1>3 DEF Is
  <2>2. n \in 0 .. Len(To(path, n)) /\ To(To(path, n), n) = To(path, n)
    <3>1. n \in 0 .. n /\ n \in 0 .. Len(path)
      OBVIOUS
    <3> QED
      BY <1>1, <3>1, ToTo
  <2> QED
    BY <1>1, <2>1, <2>2, WayThere
<1> QED
  BY <1>2, <1>3, <1>4 DEF CanMake, q

LEMMA SamePlace ==
  ASSUME NEW t, IsTree(t), NEW u, IsTree(u), Extends(t, u), NEW q \in Seqs \ {Top},
         Is("dir", t, Reached(t, Front(q)))
  PROVE  Place(u, q) = Place(t, q) /\ Reached(u, Front(q)) = Reached(t, Front(q))
<1>1. Front(q) \in Seqs
  BY FrontLast
<1>2. Reached(u, Front(q)) = Reached(t, Front(q))
  BY <1>1, ExtendedReached DEF Is
<1>3. Is("dir", u, Reached(t, Front(q)))
  BY DEF Extends, Is
<1> QED
  BY <1>2, <1>3, LastName

LEMMA MadeNext ==
  ASSUME NEW b, IsTree(b), NEW t, IsTree(t), NEW path \in Seqs, NEW n \in 0 .. Len(path) - 1,
         MadeAt(b, t, path, n), Is("dir", t, Reached(t, To(path, n))), NEW u,
         u = IF CanMake(t, To(path, n + 1)) THEN With(t, Place(t, To(path, n + 1)), Dir) ELSE t
  PROVE  MadeAt(b, u, path, n + 1)
<1> DEFINE q == To(path, n + 1)
           d == Reached(t, To(path, n))
<1>1. /\ \A p \in DOMAIN b : p \in DOMAIN t /\ t[p] = b[p]
      /\ \A p \in DOMAIN t \ DOMAIN b : t[p] = Dir /\ \E i \in 1 .. n : p = Place(t, To(path, i))
      /\ Exists(t, To(path, n))
      /\ Exists(b, To(path, n)) => t = b
      /\ ~Exists(b, To(path, n)) => Place(t, To(path, n)) \notin DOMAIN b
      /\ \A i \in 1 .. n - 1 : Exists(b, To(path, i)) => Is("dir", b, Reached(b, To(path, i)))
  BY DEF MadeAt
<1>2. /\ q \in Seqs \ {Top} /\ Front(q) = To(path, n)
      /\ Place(t, q) \in Seqs \ {Top} /\ Place(t, q) # None /\ Front(Place(t, q)) = d
      /\ CanMake(t, q) \/ Exists(t, q)
      /\ Exists(b, q) => Exists(b, To(path, n))
  BY NextPlace
<1> HIDE DEF q, d
<1>3. \A i \in 1 .. n : Exists(b, To(path, i)) => Is("dir", b, Reached(b, To(path, i)))
  <2> SUFFICES ASSUME NEW i \in 1 .. n, Exists(b, To(path, i))
               PROVE  Is("dir", b, Reached(b, To(path, i)))
    OBVIOUS
  <2>1. CASE i = n
    BY <1>1, <2>1
  <2>2. CASE i # n
    BY <1>1, <2>2
  <2> QED
    BY <2>1, <2>2
<1>4. Exists(b, q) => t = b /\ ~CanMake(t, q)
  BY <1>1, <1>2 DEF CanMake
<1>5. CASE CanMake(t, q)
  <2>1. /\ DOMAIN u = DOMAIN t \cup {Place(t, q)} /\ u[Place(t, q)] = Dir
        /\ \A p \in DOMAIN t : u[p] = t[p]
        /\ Place(t, q) \notin DOMAIN t
    BY <1>5 DEF With, CanMake, Exists, q
  <2>2. IsTree(u)
    <3>1. IsEntry(Dir) /\ Dir.kind # "link" /\ Is("dir", t, Front(Place(t, q)))
      BY <1>2 DEF IsEntry, Dir, d
    <3>2. u = With(t, Place(t, q), Dir)
      BY <1>5 DEF q
    <3> QED
      BY <1>2, <2>1, <3>1, <3>2, WithTree
  <2>3. Extends(t, u)
    BY <2>1 DEF Extends, Is
  <2>4. Place(u, q) = Place(t, q)
    BY <1>2, <2>2, <2>3, SamePlace
  <2>5. ASSUME NEW p \in DOMAIN u \ DOMAIN b
        PROVE  u[p] = Dir /\ \E i \in 1 .. n + 1 : p = Place(u, To(path, i))
    <3>1. CASE p = Place(t, q)
      <4>1. n + 1 \in 1 .. n + 1
        OBVIOUS
      <4> QED
        BY <2>1, <2>4, <3>1, <4>1 DEF q
    <3>2. CASE p # Place(t, q)
      <4>1. p \in DOMAIN t \ DOMAIN b
        BY <2>1, <3>2
      <4>2. PICK i \in 1 .. n : p = Place(t, To(path, i))
        BY <1>1, <4>1
      <4>3. i - 1 \in 0 .. Len(path) - 1 /\ (i - 1) + 1 = i /\ i \in 1 .. n + 1
        OBVIOUS
      <4>4. /\ To(path, i) \in Seqs \ {Top} /\ Front(To(path, i)) = To(path, i - 1)
            /\ Is("dir", t, Reached(t, To(path, i - 1)))
        <5>1. p # None
          BY <4>1, TreeFacts
        <5> QED
          BY <4>2, <4>3, <5>1, NextPlace
      <4>5. Place(u, To(path, i)) = p
        BY <2>2, <2>3, <4>2, <4>4, SamePlace
      <4> QED
        BY <1>1, <2>1, <4>1, <4>3, <4>5
    <3> QED
      BY <3>1, <3>2
  <2>6. Exists(u, q) /\ Place(u, q) \notin DOMAIN b
    BY <1>1, <2>1, <2>4 DEF Exists
  <2>7. (n + 1) - 1 = n
    OBVIOUS
  <2>8. \A p \in DOMAIN b : p \in DOMAIN u /\ u[p] = b[p]
    BY <1>1, <2>1
  <2> QED
    BY <1>3, <1>4, <1>5, <2>5, <2>6, <2>7, <2>8 DEF MadeAt, q
<1>6. CASE ~CanMake(t, q)
  <2>1. u = t /\ Exists(t, q)
    BY <1>2, <1>6 DEF q
  <2>2. ~Exists(b, q) => Place(t, q) \notin DOMAIN b
    <3> SUFFICES ASSUME ~Exists(b, q), Place(t, q) \in DOMAIN b PROVE FALSE
      OBVIOUS
    <3>1. Is("dir", b, d)
      <4>1. Len(Place(t, q)) - 1 \in 0 .. Len(Place(t, q)) - 1 /\ d = To(Place(t, q), Len(Place(t, q)) - 1)
        BY <1>2, FrontLast
      <4> QED
        BY <4>1, TreeFacts
    <3>2. t # b
      BY <2>1
    <3>3. Place(t, To(path, n)) \notin DOMAIN b /\ Place(t, To(path, n)) \in DOMAIN t /\ t[Place(t, To(path, n))] = Dir
      BY <1>1, <3>2 DEF Exists
    <3>4. To(path, n) \in Seqs \ {Top}
      <4>1. To(path, n) \in Seqs
        BY ToNext
      <4>2. To(path, n) # Top
        BY <3>3, TreeFacts DEF Place, Is
      <4> QED
        BY <4>1, <4>2
    <3>5. d = Place(t, To(path, n))
      <4>1. d = Follow(t, Place(t, To(path, n)))
        BY <1>1, <3>4, LastName DEF d
      <4> QED
        BY <3>3, <4>1 DEF Follow, Is, Dir
    <3> QED
      BY <3>1, <3>3, <3>5 DEF Is
  <2>3. (n + 1) - 1 = n /\ \A i \in 1 .. n : i \in 1 .. n + 1
    OBVIOUS
  <2>4. \A p \in DOMAIN t \ DOMAIN b : t[p] = Dir /\ \E i \in 1 .. n + 1 : p = Place(t, To(path, i))
    BY <1>1, <2>3
  <2> QED
    BY <1>1, <1>3, <1>4, <2>1, <2>2, <2>3, <2>4 DEF MadeAt, q
<1> QED
  BY <1>5, <1>6

LEMMA MadeStops ==
  ASSUME NEW b, IsTree(b), NEW t, IsTree(t), NEW path \in Seqs, NEW n \in 0 .. Len(path) - 1,
         MadeAt(b, t, path, n), ~Is("dir", t, Reached(t, To(path, n)))
  PROVE  n # 0 /\ Exists(b, To(path, n)) /\ ~Is("dir", b, Reached(b, To(path, n)))
<1>1. n # 0
  BY ToAll, EmptyReached, TreeFacts
<1>2. To(path, n) \in Seqs \ {Top}
  <2>1. To(path, n) \in Seqs /\ Len(To(path, n)) = n
    BY ToNext
  <2> QED
    BY <1>1, <2>1, TopFacts
<1>3. Exists(b, To(path, n))
  <2> SUFFICES ASSUME ~Exists(b, To(path, n)) PROVE FALSE
    OBVIOUS
  <2> DEFINE p == Place(t, To(path, n))
  <2>1. p \in DOMAIN t /\ t[p] = Dir /\ Exists(t, To(path, n))
    BY DEF MadeAt, Exists
  <2>2. Reached(t, To(path, n)) = Follow(t, p)
    BY <1>2, <2>1, LastName
  <2> HIDE DEF p
  <2>3. Follow(t, p) = p /\ Is("dir", t, p)
    BY <2>1 DEF Follow, Is, Dir
  <2> QED
    BY <2>2, <2>3
<1>4. t = b
  BY <1>3 DEF MadeAt
<1> QED
  BY <1>1, <1>3, <1>4

(* What a turn of nc_mkdir_p does, when nothing interferes: the parent is   *)
(* there afterwards, or the one above it is no directory.                  *)
LEMMA MkdirTurn ==
  ASSUME CallTyped, DiskInv, MkdirInv, Mkdir, moves = 0, ~fault'
  PROVE  LET path == call.path
             n    == call.at - 1
         IN
         \/ /\ MadeAt(before, tree', path, call.at)
            /\ IF call.at < Len(path)
               THEN call' = [call EXCEPT !.at = @ + 1] /\ answer' = answer
               ELSE call' = Idle /\ answer' = <<TRUE>>
         \/ /\ MadeAt(before, tree', path, n)
            /\ n # 0 /\ Exists(before, To(path, n)) /\ ~Is("dir", before, Reached(before, To(path, n)))
            /\ call' = Idle /\ answer' = <<FALSE>>
<1> DEFINE path == call.path
           n == call.at - 1
<1>1. MkdirTyped /\ call.op = "mkdir" /\ ~fault
  <2>1. MkdirTyped /\ call.op = "mkdir"
    BY OpTyped DEF Mkdir
  <2>2. fault' = fault \/ fault' = TRUE
    BY DEF Mkdir, Fails
  <2> QED
    BY <2>1, <2>2
<1>2. path \in Seqs /\ n \in 0 .. Len(path) - 1 /\ n + 1 = call.at
  BY <1>1, PathsAreSeqs DEF MkdirTyped, Seqs
<1>3. Parent = To(path, n + 1) /\ IsTree(tree) /\ IsTree(before)
  BY <1>1, <1>2, MkdirPath DEF DiskInv
<1>4. MadeAt(before, tree, path, n)
  BY <1>1 DEF MkdirInv
<1>5. CanMake(tree, Parent) \/ Tolerated <=> Is("dir", tree, Reached(tree, To(path, n)))
  BY <1>2, <1>3, NextPlace DEF Tolerated
<1>6. CASE CanMake(tree, Parent) \/ Tolerated
  <2>1. /\ tree' = IF CanMake(tree, Parent) THEN With(tree, Place(tree, Parent), Dir) ELSE tree
        /\ IF call.at < Len(path)
           THEN call' = [call EXCEPT !.at = @ + 1] /\ answer' = answer
           ELSE call' = Idle /\ answer' = <<TRUE>>
    BY <1>1, <1>6 DEF Mkdir, Return, Fails
  <2>2. MadeAt(before, tree', path, n + 1)
    <3> HIDE DEF path, n
    <3> QED
      BY <1>2, <1>3, <1>4, <1>5, <1>6, <2>1, MadeNext
  <2> QED
    BY <1>2, <2>1, <2>2
<1>7. CASE ~CanMake(tree, Parent) /\ ~Tolerated
  <2>1. tree' = tree /\ call' = Idle /\ answer' = <<FALSE>>
    BY <1>1, <1>7 DEF Mkdir, Return, Fails, disk
  <2>2. n # 0 /\ Exists(before, To(path, n)) /\ ~Is("dir", before, Reached(before, To(path, n)))
    <3> HIDE DEF path, n
    <3>1. ~Is("dir", tree, Reached(tree, To(path, n)))
      BY <1>5, <1>7, Zenon
    <3> QED
      BY <1>2, <1>3, <1>4, <3>1, MadeStops
  <2> QED
    BY <1>4, <2>1, <2>2
<1> QED
  BY <1>6, <1>7

(* The steps of one function are no steps of another. *)
LEMMA WhoseStep ==
  ASSUME Next
  PROVE  \/ Other \/ (call = Idle /\ Start)
         \/ call.op = "mkdir" /\ Mkdir
         \/ call.op = "rm" /\ (RmLook \/ RmOpen \/ RmClosed \/ RmNext \/ RmCallback)
         \/ call.op = "copy" /\ (CopyStat \/ CopyUnlink \/ CopyOpen \/ CopyCreate \/ CopyRead \/ CopyWrite)
         \/ call.op = "case" /\ (CaseName \/ CaseEnd)
<1>1. Start => call = Idle
  BY DEF Start, StartMkdir, StartRm, StartCopy, StartCase, Begin
<1> QED
  BY <1>1 DEF Next, Run, Mkdir, RmLook, RmOpen, RmClosed, RmNext, RmCallback, CopyStat,
     CopyUnlink, CopyOpen, CopyCreate, CopyRead, CopyWrite, Copying, CaseName, CaseEnd

(* Nothing undoes a disturbance. *)
LEMMA StaysDisturbed ==
  ASSUME [Next]_vars, moves \in Nat
  PROVE  /\ moves' \in Nat /\ (moves' = 0 => moves = 0 /\ ~Other) /\ (~fault' => ~fault)
         /\ before' = before
<1>1. CASE Start
  BY <1>1, TypedStart DEF Start, StartMkdir, StartRm, StartCopy, StartCase, Begin, Other
<1>2. CASE Other
  BY <1>2 DEF Other
<1>3. CASE Mkdir
  <2>1. moves' = moves /\ before' = before /\ (fault' = fault \/ fault' = TRUE)
    BY <1>3 DEF Mkdir, Fails, world
  <2> QED
    BY <2>1 DEF Other
<1>4. CASE RmLook \/ RmOpen \/ RmClosed \/ RmNext \/ RmCallback
  <2>1. moves' = moves /\ before' = before /\ (fault' = fault \/ fault' = TRUE)
    BY <1>4 DEF RmLook, RmOpen, RmClosed, RmNext, RmCallback, Fails, world
  <2> QED
    BY <2>1 DEF Other
<1>5. CASE CopyStat \/ CopyUnlink \/ CopyOpen \/ CopyCreate \/ CopyRead
  <2>1. moves' = moves /\ before' = before /\ (fault' = fault \/ fault' = TRUE)
    BY <1>5 DEF CopyStat, CopyUnlink, CopyOpen, CopyCreate, CopyRead, Fails, world
  <2> QED
    BY <2>1 DEF Other
<1>6. CASE CopyWrite
  <2>1. moves' = moves /\ before' = before
    BY <1>6 DEF CopyWrite, world
  <2>2. \E w : fault' = (fault \/ w # BufferSize)
    BY <1>6 DEF CopyWrite
  <2>3. ~fault' => ~fault
    BY <2>2
  <2> QED
    BY <2>1, <2>3 DEF Other
<1>7. CASE CaseName \/ CaseEnd
  <2>1. moves' = moves /\ before' = before
    BY <1>7 DEF CaseName, CaseEnd, world
  <2>2. fault' = fault \/ fault' = TRUE \/ \E a : fault' = (a \/ fault)
    BY <1>7 DEF CaseName, CaseEnd
  <2>3. ~fault' => ~fault
    BY <2>2
  <2> QED
    BY <2>1, <2>3 DEF Other
<1>8. CASE UNCHANGED vars
  BY <1>8 DEF vars, Other
<1> QED
  BY <1>1, <1>2, <1>3, <1>4, <1>5, <1>6, <1>7, <1>8 DEF Next, Run

LEMMA MkdirStep ==
  ASSUME CallTyped, DiskInv, Fresh, moves \in Nat, MkdirInv, [Next]_vars
  PROVE  MkdirInv'
<1> SUFFICES ASSUME call'.op = "mkdir", moves' = 0, ~fault'
             PROVE  MadeAt(before', tree', call'.path, call'.at - 1)
  BY DEF MkdirInv
<1>1. moves = 0 /\ ~Other /\ ~fault /\ before' = before
  BY StaysDisturbed
<1>2. CASE UNCHANGED vars
  BY <1>1, <1>2 DEF MkdirInv, vars
<1>3. CASE call = Idle /\ Start
  <2>1. PICK path \in Paths : StartMkdir(path)
    BY <1>3 DEF Start, StartRm, StartCopy, StartCase, Begin
  <2>2. /\ tree' = before' /\ call'.at - 1 = 0 /\ call'.path = path /\ path \in Seqs
        /\ IsTree(before')
    <3>1. tree' = tree /\ answer = <<>>
      BY <1>3, <2>1, TypedStart DEF StartMkdir, Begin
    <3>2. path \in Seqs
      BY FilesAssumption DEF Seqs
    <3> QED
      BY <1>1, <1>3, <2>1, <3>1, <3>2 DEF Fresh, DiskInv, StartMkdir, Begin
  <2>3. To(path, 0) = Top /\ Exists(before', Top)
    BY <2>2, ToAll, TreeFacts DEF Exists, Place, Is
  <2> QED
    BY <2>2, <2>3 DEF MadeAt
<1>4. CASE call.op = "mkdir" /\ Mkdir
  <2>1. CASE call' = [call EXCEPT !.at = @ + 1]
    <3>1. MkdirTyped
      BY <1>4, OpTyped
    <3>2. call'.at - 1 = call.at /\ call'.path = call.path
      BY <2>1, <3>1 DEF MkdirTyped, Has
    <3>3. ~(call' = Idle)
      BY DEF Idle
    <3> QED
      BY <1>1, <1>4, <3>2, <3>3, MkdirTurn
  <2>2. CASE call' = Idle
    BY <2>2 DEF Idle
  <2> QED
    BY <1>1, <1>4, <2>1, <2>2, MkdirTurn
<1>5. CASE \/ call.op = "rm" /\ (RmLook \/ RmOpen \/ RmClosed \/ RmNext \/ RmCallback)
           \/ call.op = "copy" /\ (CopyStat \/ CopyUnlink \/ CopyOpen \/ CopyCreate \/ CopyRead \/ CopyWrite)
           \/ call.op = "case" /\ (CaseName \/ CaseEnd)
  <2>1. RmTyped' \/ CopyTyped' \/ CaseTyped' \/ call' = Idle
    BY <1>5, OpTyped, TypedRm, TypedCopy, TypedCase
  <2> QED
    BY <2>1 DEF RmTyped, CopyTyped, CaseTyped, Idle
<1> QED
  BY <1>1, <1>2, <1>3, <1>4, <1>5, WhoseStep

(* What nc_mkdir_p promises of the step that returns *)
MkdirAnswer ==
  LET path    == call.path
      blocked == \E i \in 1 .. Len(path) - 1 :
                   /\ Exists(before, To(path, i))
                   /\ ~Is("dir", before, Reached(before, To(path, i)))
  IN  /\ answer' = <<~blocked>>
      /\ \A p \in DOMAIN before : p \in DOMAIN tree' /\ tree'[p] = before[p]
      /\ \A p \in DOMAIN tree' \ DOMAIN before :
           /\ tree'[p] = Dir
           /\ \E i \in 1 .. Len(path) : p = Place(tree', To(path, i))
      /\ ~blocked => /\ Exists(tree', path)
                     /\ \A i \in 1 .. Len(path) - 1 :
                          Is("dir", tree', Reached(tree', To(path, i)))

LEMMA MkdirReturns ==
  ASSUME CallTyped, DiskInv, DiskInv', MkdirInv, Mkdir, moves = 0, ~fault', before' = before,
         answer' # answer
  PROVE  MkdirAnswer
<1> DEFINE path == call.path
           n == call.at - 1
<1>1. /\ path \in Seqs \ {Top} /\ n \in 0 .. Len(path) - 1 /\ n + 1 = call.at
      /\ Len(path) \in Nat \ {0} /\ IsTree(tree')
  <2>1. MkdirTyped
    BY OpTyped DEF Mkdir
  <2> QED
    BY <2>1, PathsAreSeqs DEF MkdirTyped, ClientPaths, Seqs, DiskInv
<1>2. CASE MadeAt(before, tree', path, Len(path)) /\ answer' = <<TRUE>>
  <2>1. To(path, Len(path)) = path
    BY <1>1, ToAll
  <2>2. /\ \A i \in 1 .. Len(path) - 1 :
             Exists(before, To(path, i)) => Is("dir", before, Reached(before, To(path, i)))
        /\ Exists(tree', path)
        /\ \A p \in DOMAIN before : p \in DOMAIN tree' /\ tree'[p] = before[p]
        /\ \A p \in DOMAIN tree' \ DOMAIN before :
             /\ tree'[p] = Dir
             /\ \E i \in 1 .. Len(path) : p = Place(tree', To(path, i))
    BY <1>2, <2>1 DEF MadeAt
  <2>3. ASSUME NEW i \in 1 .. Len(path) - 1 PROVE Is("dir", tree', Reached(tree', To(path, i)))
    <3> DEFINE up == To(path, Len(path) - 1)
    <3>1. Is("dir", tree', Reached(tree', up)) /\ up \in Seqs /\ Len(up) = Len(path) - 1
      BY <1>1, <2>2, FrontLast, LastName
    <3>2. CASE i = Len(path) - 1
      BY <3>1, <3>2
    <3>3. CASE i # Len(path) - 1
      <4>1. To(up, i) = To(path, i)
        <5>1. Len(path) - 1 \in 0 .. Len(path) /\ i \in 0 .. Len(path) - 1
          BY <1>1
        <5> QED
          BY <1>1, <5>1, ToTo
      <4>2. i \in 0 .. Len(up) - 1 /\ Reached(tree', up) \in DOMAIN tree'
        BY <1>1, <3>1, <3>3 DEF Is
      <4> HIDE DEF up
      <4> QED
        BY <1>1, <3>1, <4>1, <4>2, PathThere
    <3> QED
      BY <3>2, <3>3
  <2> QED
    BY <1>2, <2>2, <2>3 DEF MkdirAnswer
<1>3. CASE /\ MadeAt(before, tree', path, n) /\ n # 0 /\ answer' = <<FALSE>>
           /\ Exists(before, To(path, n)) /\ ~Is("dir", before, Reached(before, To(path, n)))
  <2>1. n \in 1 .. Len(path) - 1 /\ \A i \in 1 .. n : i \in 1 .. Len(path)
    BY <1>1, <1>3
  <2>2. /\ \A p \in DOMAIN before : p \in DOMAIN tree' /\ tree'[p] = before[p]
        /\ \A p \in DOMAIN tree' \ DOMAIN before :
             /\ tree'[p] = Dir
             /\ \E i \in 1 .. n : p = Place(tree', To(path, i))
    BY <1>3 DEF MadeAt
  <2>3. \A p \in DOMAIN tree' \ DOMAIN before :
          /\ tree'[p] = Dir
          /\ \E i \in 1 .. Len(path) : p = Place(tree', To(path, i))
    BY <2>1, <2>2
  <2>4. ~(\A i \in 1 .. Len(path) - 1 :
            ~(/\ Exists(before, To(path, i))
              /\ ~Is("dir", before, Reached(before, To(path, i)))))
    BY <1>3, <2>1
  <2> QED
    BY <1>3, <2>2, <2>3, <2>4 DEF MkdirAnswer
<1> QED
  <2>1. call.at < Len(path) \/ call.at = Len(path)
    BY <1>1
  <2> QED
    BY <1>2, <1>3, <2>1, MkdirTurn

(* The parts of every invariant below *)
Base == CallTyped /\ DiskInv /\ Fresh /\ moves \in Nat

LEMMA BaseInit == Init => Base
BY TypedInit DEF Init, Base, Fresh

LEMMA BaseStep == Base /\ [Next]_vars => Base'
BY DiskStep, TypedStep, FreshStep, StaysDisturbed DEF Base

(* nc_mkdir_p makes the directories of its path and nothing else, and      *)
(* answers false exactly when one of the parents is no directory, for      *)
(* every tree and path, whatever links it passes.                          *)
THEOREM MkdirAlwaysExact == Spec => MkdirExact
<1>1. Init => MkdirInv
  BY DEF Init, MkdirInv, Idle
<1>2. Base /\ MkdirInv /\ [Next]_vars => MkdirInv'
  BY MkdirStep DEF Base
<1>3. Base /\ Base' /\ MkdirInv /\ [Next]_vars =>
        [StepOf("mkdir") /\ Returns /\ Undisturbed => MkdirAnswer]_vars
  <2> SUFFICES ASSUME Base, Base', MkdirInv, [Next]_vars, StepOf("mkdir"), Returns, Undisturbed,
                      ~UNCHANGED vars
               PROVE  MkdirAnswer
    OBVIOUS
  <2>1. call.op = "mkdir" /\ moves = 0 /\ ~fault' /\ answer' # answer /\ moves' = 0
    BY DEF StepOf, Returns, Undisturbed
  <2>2. before' = before /\ ~Other
    BY <2>1, StaysDisturbed DEF Base
  <2>3. Mkdir
    BY <2>1, <2>2, WhoseStep DEF Idle
  <2> QED
    BY <2>1, <2>2, <2>3, MkdirReturns DEF Base
<1>4. Spec => [][StepOf("mkdir") /\ Returns /\ Undisturbed => MkdirAnswer]_vars
  BY <1>1, <1>2, <1>3, BaseInit, BaseStep, PTL DEF Spec
<1> QED
  BY <1>4 DEF MkdirExact, MkdirAnswer, To

-----------------------------------------------------------------------------
(* nc_rm_rf *)

(* The path the walk has come to *)
Deep == IF call.type = "next" THEN Last(call.open).path ELSE call.at

(* The open directories lead from the path of the call to the place the    *)
(* walk has come to, and none of them was a link when it was opened, nor   *)
(* is one now unless another process has put links (s).                    *)
ShapeAt(P, D, o, y, t, s) ==
  /\ P \in ClientPaths
  /\ Len(D) = Len(P) + Len(o) - (IF y = "next" THEN 1 ELSE 0)
  /\ \A i \in 1 .. Len(o) : o[i].path = To(D, Len(P) + i - 1)
  /\ ~s => \A i \in Len(P) .. Len(D) - 1 : ~Is("link", t, Place(t, To(D, i)))
  /\ ~s /\ y \in {"next", "dir", "done"} => ~Is("link", t, Place(t, D))

RmShape == call.op = "rm" => ShapeAt(RmPath, Deep, call.open, call.type, tree, astray)

LEMMA RmGeometry ==
  ASSUME RmTyped, RmShape
  PROVE  /\ RmPath \in Seqs \ {Top} /\ Deep \in Seqs \ {Top}
         /\ Len(RmPath) \in Nat \ {0} /\ Len(Deep) \in Nat /\ Len(call.open) \in Nat
         /\ Len(RmPath) <= Len(Deep) /\ To(Deep, Len(RmPath)) = RmPath
         /\ \A i \in Len(RmPath) .. Len(Deep) : To(Deep, i) \in Seqs \ {Top}
<1>1. RmPath \in ClientPaths /\ RmPath \in Seqs \ {Top} /\ Len(RmPath) \in Nat \ {0}
  <2>1. RmPath \in ClientPaths
    BY DEF RmShape, ShapeAt, RmTyped
  <2> QED
    BY <2>1, PathsAreSeqs, FrontLast DEF ClientPaths
<1>2. Deep \in Seqs \ {Top} /\ Len(call.open) \in Nat
  <2>1. CASE call.type = "next"
    BY <2>1, OpenFacts DEF Deep, RmTyped, Frames
  <2>2. CASE call.type # "next"
    BY <2>2 DEF Deep, RmTyped
  <2> QED
    BY <2>1, <2>2
<1>3. Len(Deep) \in Nat
  BY <1>2 DEF Seqs
<1>4. /\ Len(Deep) = Len(RmPath) + Len(call.open) - (IF call.type = "next" THEN 1 ELSE 0)
      /\ \A i \in 1 .. Len(call.open) : call.open[i].path = To(Deep, Len(RmPath) + i - 1)
  BY DEF RmShape, ShapeAt, RmTyped
<1>5. Len(RmPath) <= Len(Deep) /\ To(Deep, Len(RmPath)) = RmPath
  <2>1. CASE call.open = <<>>
    <3>1. RmPath = Deep
      BY <2>1 DEF RmPath, Deep, RmTyped
    <3> QED
      BY <1>2, <1>3, <3>1, ToAll
  <2>2. CASE call.open # <<>>
    <3>1. Len(call.open) \in Nat \ {0} /\ 1 \in 1 .. Len(call.open)
      BY <2>2, OpenFacts DEF RmTyped
    <3>2. call.open[1].path = To(Deep, Len(RmPath) + 1 - 1) /\ RmPath = call.open[1].path
      BY <1>4, <2>2, <3>1 DEF RmPath
    <3>3. Len(RmPath) + 1 - 1 = Len(RmPath)
      BY <1>1
    <3>4. Len(RmPath) <= Len(Deep)
      BY <1>1, <1>3, <1>4, <3>1
    <3> QED
      BY <3>2, <3>3, <3>4
  <2> QED
    BY <2>1, <2>2
<1>6. ASSUME NEW i \in Len(RmPath) .. Len(Deep) PROVE To(Deep, i) \in Seqs \ {Top}
  <2>1. i \in 0 .. Len(Deep) /\ i # 0
    BY <1>1, <1>3
  <2> QED
    BY <1>2, <2>1, ToFacts, TopFacts
<1> QED
  BY <1>1, <1>2, <1>3, <1>5, <1>6

(* Between the steps of a walk only the number of links can fall. *)
LEMMA RmShapeKept ==
  ASSUME RmShape, RmTyped, NoNewLink
  PROVE  ShapeAt(RmPath, Deep, call.open, call.type, tree', astray')
<1>1. ShapeAt(RmPath, Deep, call.open, call.type, tree, astray)
  BY DEF RmShape, RmTyped
<1>2. ASSUME ~astray', NEW i \in Len(RmPath) .. Len(Deep) - 1
      PROVE  ~Is("link", tree', Place(tree', To(Deep, i)))
  <2>1. i \in Len(RmPath) .. Len(Deep)
    BY RmGeometry
  <2> QED
    BY <1>1, <1>2, <2>1, RmGeometry DEF ShapeAt, NoNewLink
<1>3. ~astray' /\ call.type \in {"next", "dir", "done"} => ~Is("link", tree', Place(tree', Deep))
  BY <1>1, RmGeometry DEF ShapeAt, NoNewLink
<1> QED
  BY <1>1, <1>2, <1>3 DEF ShapeAt

LEMMA RmShapeFrom ==
  ASSUME NEW P, NEW D, NEW o, NEW y, ShapeAt(P, D, o, y, tree', astray'),
         RmPath' = P, Deep' = D, call'.open = o, call'.type = y
  PROVE  RmShape'
BY DEF RmShape

(* What a walk does in a step *)
RmLooks(y) ==
  /\ call.type = "unknown" /\ y = Kind(call.at) /\ UNCHANGED tree
  /\ Deep' = Deep /\ call'.open = call.open /\ call'.type = y

RmGivesUp ==
  /\ call.type = "dir" /\ fault'
  /\ Deep' = Deep /\ call'.open = call.open /\ call'.type = "done"

RmOpens(f) ==
  /\ call.type = "dir" /\ f.path = Deep /\ f.names = NamesIn(tree, Reached(tree, Deep))
  /\ Is("dir", tree, Reached(tree, Deep)) /\ UNCHANGED tree
  /\ Deep' = Deep /\ call'.open = Append(call.open, f) /\ call'.type = "next"

RmTakes(n) ==
  /\ call.type = "next" /\ n \in Last(call.open).names /\ UNCHANGED tree
  /\ call'.open = [call.open EXCEPT ![Len(call.open)].names = @ \ {n}]
  /\ Deep' = Append(Deep, n) /\ call'.type = "unknown"

RmLeaves ==
  /\ call.type = "next" /\ Last(call.open).names = {} /\ UNCHANGED tree
  /\ call'.open = Front(call.open) /\ Deep' = Deep /\ call'.type = "done"

RmRemoves ==
  /\ call.type \in {"file", "link", "gone", "done"} /\ call.open # <<>>
  /\ IF call.type \in {"file", "link"} THEN CanUnlink(tree, Deep) ELSE CanRmdir(tree, Deep)
  /\ tree' = Removed(tree, Deep)
  /\ call'.open = call.open /\ Deep' = Last(call.open).path /\ call'.type = "next"

LEMMA RmMove ==
  ASSUME RmTyped, DiskInv, call'.op = "rm", call' # Idle,
         RmLook \/ RmOpen \/ RmClosed \/ RmNext \/ RmCallback
  PROVE  /\ RmPath' = RmPath
         /\ \/ (\E y \in {"dir", "file", "link", "gone"} : RmLooks(y)) \/ RmGivesUp
            \/ (\E f : RmOpens(f)) \/ (\E n \in Names : RmTakes(n)) \/ RmLeaves \/ RmRemoves
<1> DEFINE o == call.open
<1>1. CASE RmLook
  <2>1. /\ call.type = "unknown" /\ call'.open = o /\ call'.at = call.at
        /\ call'.type = Kind(call.at) /\ tree' = tree
    BY <1>1 DEF RmLook, Return, RmTyped, Has, disk
  <2>2. call'.type \in {"dir", "file", "link", "gone"}
    BY <2>1, KindTyped
  <2>3. RmPath' = RmPath /\ Deep' = Deep
    BY <2>1, <2>2 DEF RmPath, Deep
  <2> QED
    BY <2>1, <2>2, <2>3 DEF RmLooks
<1>2. CASE RmClosed
  <2>1. /\ call.type = "dir" /\ call'.open = o /\ call'.at = call.at
        /\ call'.type = "done" /\ fault'
    BY <1>2 DEF RmClosed, RmTyped, Has
  <2>2. RmPath' = RmPath /\ Deep' = Deep
    BY <2>1 DEF RmPath, Deep
  <2> QED
    BY <2>1, <2>2 DEF RmGivesUp
<1>3. CASE RmOpen
  <2> DEFINE f == [path |-> call.at, names |-> NamesIn(tree, Reached(tree, call.at))]
  <2>1. /\ call.type = "dir" /\ call' = [call EXCEPT !.open = Append(@, f), !.type = "next"]
        /\ Is("dir", tree, Reached(tree, call.at)) /\ tree' = tree
    BY <1>3 DEF RmOpen, Return, disk
  <2>2. call'.open = Append(o, f) /\ call'.type = "next"
    BY <2>1 DEF RmTyped, Has
  <2>3. call.at = Deep
    BY <2>1 DEF Deep
  <2>4. f.path = call.at /\ f.names = NamesIn(tree, Reached(tree, call.at))
    OBVIOUS
  <2> HIDE DEF f
  <2>5. /\ call'.open # <<>> /\ Last(call'.open) = f
        /\ \A i \in 1 .. Len(o) : call'.open[i] = o[i]
        /\ o = <<>> => call'.open[1] = f
    BY <2>2 DEF RmTyped, Last
  <2>6. Deep' = Deep
    BY <2>2, <2>3, <2>4, <2>5 DEF Deep
  <2>7. RmPath' = RmPath
    <3>1. CASE o = <<>>
      BY <2>4, <2>5, <3>1 DEF RmPath
    <3>2. CASE o # <<>>
      <4>1. 1 \in 1 .. Len(o)
        BY <3>2, OpenFacts DEF RmTyped
      <4> QED
        BY <2>5, <3>2, <4>1 DEF RmPath
    <3> QED
      BY <3>1, <3>2
  <2>8. RmOpens(f)
    BY <2>1, <2>2, <2>3, <2>4, <2>6, SMTT(60) DEF RmOpens
  <2> QED
    BY <2>7, <2>8
<1>4. CASE RmNext
  <2>1. o # <<>> /\ call.type = "next" /\ Deep = Last(o).path /\ tree' = tree
    BY <1>4 DEF RmNext, RmTyped, Deep, disk
  <2>2. /\ Len(o) \in Nat \ {0} /\ Len(o) \in DOMAIN o /\ Last(o) = o[Len(o)] /\ Last(o) \in Frames
        /\ Front(o) \in Seq(Frames) /\ Len(Front(o)) = Len(o) - 1
        /\ \A i \in 1 .. Len(o) - 1 : Front(o)[i] = o[i]
    BY <2>1, OpenFacts DEF RmTyped
  <2>3. RmPath = o[1].path /\ DOMAIN o = 1 .. Len(o)
    BY <2>1 DEF RmPath, RmTyped
  <2>4. CASE \E n \in Last(o).names :
               call' = [call EXCEPT !.open[Len(call.open)].names = @ \ {n},
                                    !.at = Append(Last(o).path, n), !.type = "unknown"]
    <3>1. PICK n \in Last(o).names :
               call' = [call EXCEPT !.open[Len(call.open)].names = @ \ {n},
                                    !.at = Append(Last(o).path, n), !.type = "unknown"]
      BY <2>4
    <3>2. n \in Names
      BY <2>2 DEF Frames
    <3>3. /\ call'.open = [o EXCEPT ![Len(o)].names = @ \ {n}]
          /\ call'.at = Append(Deep, n) /\ call'.type = "unknown"
      BY <2>1, <3>1 DEF RmTyped, Has
    <3>4. call'.open # <<>> /\ \A i \in 1 .. Len(o) : call'.open[i].path = o[i].path
      BY <2>2, <3>3 DEF RmTyped, Frames
    <3>5. Deep' = Append(Deep, n) /\ RmPath' = RmPath
      BY <2>2, <2>3, <3>3, <3>4 DEF Deep, RmPath
    <3>6. RmTakes(n)
      BY <2>1, <3>3, <3>5 DEF RmTakes
    <3> QED
      BY <3>2, <3>5, <3>6
  <2>5. CASE /\ Last(o).names = {}
             /\ call' = [call EXCEPT !.open = Front(@), !.at = Last(o).path, !.type = "done"]
    <3>1. call'.open = Front(o) /\ call'.at = Deep /\ call'.type = "done"
      BY <2>1, <2>5 DEF RmTyped, Has
    <3>2. Deep' = Deep
      BY <3>1 DEF Deep
    <3>3. RmPath' = RmPath
      <4>1. CASE Len(o) = 1
        BY <2>1, <2>2, <2>3, <3>1, <4>1 DEF RmPath
      <4>2. CASE Len(o) # 1
        <5>0. \A k \in Nat \ {0} : k # 1 => 1 \in 1 .. k - 1
          OBVIOUS
        <5>1. 1 \in 1 .. Len(o) - 1
          BY <2>2, <4>2, <5>0
        <5>2. Front(o) # <<>>
          BY <2>2, <5>1
        <5> QED
          BY <2>2, <2>3, <3>1, <5>1, <5>2 DEF RmPath
      <4> QED
        BY <4>1, <4>2
    <3> QED
      BY <2>1, <2>5, <3>1, <3>2, <3>3 DEF RmLeaves
  <2> QED
    BY <1>4, <2>4, <2>5 DEF RmNext
<1>5. CASE RmCallback
  <2>1. /\ o # <<>> /\ call.type \in {"file", "link", "gone", "done"}
        /\ call' = [call EXCEPT !.type = "next"] /\ tree' = Removed(tree, call.at)
        /\ IF call.type \in {"file", "link"} THEN CanUnlink(tree, call.at)
           ELSE CanRmdir(tree, call.at)
    BY <1>5 DEF RmCallback, CallbackFails, Fails, Return, Idle
  <2>2. call'.open = o /\ call'.type = "next"
    BY <2>1 DEF RmTyped, Has
  <2>3. Deep = call.at /\ Deep' = Last(o).path /\ RmPath' = RmPath
    BY <2>1, <2>2 DEF Deep, RmPath
  <2> QED
    BY <2>1, <2>2, <2>3 DEF RmRemoves
<1> QED
  BY <1>1, <1>2, <1>3, <1>4, <1>5

LEMMA RmShapeStep ==
  ASSUME CallTyped, DiskInv, NoNewLink, RmShape, [Next]_vars
  PROVE  RmShape'
<1> SUFFICES ASSUME call'.op = "rm" PROVE RmShape'
  BY DEF RmShape
<1>1. CASE Other \/ UNCHANGED vars
  <2>1. call' = call
    BY <1>1 DEF Other, vars
  <2>2. RmTyped
    BY <2>1, OpTyped
  <2> QED
    <3>1. /\ RmPath' = RmPath /\ Deep' = Deep /\ call'.open = call.open
          /\ call'.type = call.type
      BY <2>1 DEF RmPath, Deep
    <3> QED
      BY <2>2, <3>1, RmShapeKept, RmShapeFrom
<1>2. CASE call = Idle /\ Start
  <2>1. PICK path \in Paths : StartRm(path)
    BY <1>2 DEF Start, StartMkdir, StartCopy, StartCase, Begin
  <2>2. path \in ClientPaths /\ path \in Seqs /\ Len(path) \in Nat
    BY <2>1, PathsAreSeqs DEF StartRm, ClientPaths, Seqs
  <2>3. RmPath' = path /\ Deep' = path /\ call'.open = <<>> /\ call'.type = "unknown"
    BY <2>1 DEF StartRm, Begin, RmPath, Deep
  <2> QED
    <3>1. ShapeAt(path, path, <<>>, "unknown", tree', astray')
      BY <2>2 DEF ShapeAt
    <3> QED
      BY <2>3, <3>1, RmShapeFrom
<1>3. CASE call.op = "rm" /\ (RmLook \/ RmOpen \/ RmClosed \/ RmNext \/ RmCallback)
  <2>1. RmTyped /\ call' # Idle
    BY <1>3, OpTyped DEF Idle
  <2> DEFINE P == RmPath
             D == Deep
             o == call.open
  <2>2. /\ P \in Seqs \ {Top} /\ D \in Seqs \ {Top} /\ Len(P) \in Nat \ {0} /\ Len(D) \in Nat
        /\ Len(o) \in Nat /\ Len(P) <= Len(D) /\ To(D, Len(P)) = P
    BY <2>1, RmGeometry
  <2>3. /\ P \in ClientPaths /\ Len(D) = Len(P) + Len(o) - (IF call.type = "next" THEN 1 ELSE 0)
        /\ \A i \in 1 .. Len(o) : o[i].path = To(D, Len(P) + i - 1)
        /\ ~astray' => \A i \in Len(P) .. Len(D) - 1 : ~Is("link", tree', Place(tree', To(D, i)))
        /\ ~astray' /\ call.type \in {"next", "dir", "done"} => ~Is("link", tree', Place(tree', D))
    BY <2>1, RmShapeKept DEF ShapeAt
  <2>4. RmPath' = P
    BY <1>3, <2>1, RmMove
  <2> HIDE DEF P, D
  <2>5. ASSUME NEW y \in {"dir", "file", "link", "gone"}, RmLooks(y) PROVE RmShape'
    <3>1. Deep' = D /\ call'.open = o /\ call'.type = y /\ y = Kind(D) /\ call.type = "unknown"
      BY <2>5 DEF RmLooks, D, Deep
    <3>2. y = "dir" => ~Is("link", tree', Place(tree', D))
      BY <2>5, <3>1 DEF RmLooks, Kind, Exists, Is
    <3>3. ShapeAt(P, D, o, y, tree', astray')
      BY <2>3, <3>1, <3>2 DEF ShapeAt
    <3> QED
      BY <2>4, <3>1, <3>3, RmShapeFrom
  <2>6. CASE RmGivesUp
    <3>1. Deep' = D /\ call'.open = o /\ call'.type = "done" /\ call.type = "dir"
      BY <2>6 DEF RmGivesUp, D
    <3>2. ShapeAt(P, D, o, "done", tree', astray')
      BY <2>3, <3>1 DEF ShapeAt
    <3> QED
      BY <2>4, <3>1, <3>2, RmShapeFrom
  <2>7. ASSUME NEW f, RmOpens(f) PROVE RmShape'
    <3>1. /\ call.type = "dir" /\ Deep' = D /\ call'.open = Append(o, f) /\ call'.type = "next"
          /\ f.path = D
      BY <2>7 DEF RmOpens, D
    <3>2. /\ Len(call'.open) = Len(o) + 1 /\ call'.open[Len(o) + 1] = f
          /\ \A i \in 1 .. Len(o) : call'.open[i] = o[i]
      BY <2>1, <3>1, OpenMore DEF RmTyped
    <3>3. \A i \in 1 .. Len(call'.open) : call'.open[i].path = To(D, Len(P) + i - 1)
      <4>0. Len(D) = Len(P) + Len(o)
        BY <2>2, <2>3, <3>1
      <4>1. Len(P) + (Len(o) + 1) - 1 = Len(D) /\ To(D, Len(D)) = D
        BY <2>2, <4>0, ToAll
      <4>2. ASSUME NEW i \in 1 .. Len(o) + 1
            PROVE  call'.open[i].path = To(D, Len(P) + i - 1)
        <5>1. CASE i = Len(o) + 1
          BY <3>1, <3>2, <4>1, <5>1
        <5>2. CASE i # Len(o) + 1
          <6>1. i \in 1 .. Len(o)
            BY <2>2, <5>2
          <6> QED
            BY <2>3, <3>2, <6>1
        <5> QED
          BY <5>1, <5>2
      <4> QED
        BY <3>2, <4>2
    <3>4. Len(D) = Len(P) + Len(call'.open) - 1
      BY <2>2, <2>3, <3>1, <3>2
    <3>5. ShapeAt(P, D, call'.open, "next", tree', astray')
      BY <2>3, <3>1, <3>3, <3>4 DEF ShapeAt
    <3> QED
      BY <2>4, <3>1, <3>5, RmShapeFrom
  <2>8. ASSUME NEW n \in Names, RmTakes(n) PROVE RmShape'
    <3>1. /\ call.type = "next" /\ Deep' = Append(D, n) /\ call'.type = "unknown"
          /\ call'.open = [o EXCEPT ![Len(o)].names = @ \ {n}]
      BY <2>8 DEF RmTakes, D
    <3>2. Len(call'.open) = Len(o) /\ \A i \in 1 .. Len(o) : call'.open[i].path = o[i].path
      BY <2>1, <2>2, <3>1 DEF RmTyped, Frames
    <3>3. /\ Len(Append(D, n)) = Len(D) + 1
          /\ \A j \in 0 .. Len(D) : To(Append(D, n), j) = To(D, j)
      BY <2>2, AppendFacts
    <3>4. \A i \in 1 .. Len(o) : call'.open[i].path = To(Append(D, n), Len(P) + i - 1)
      <4>1. \A i \in 1 .. Len(o) : Len(P) + i - 1 \in 0 .. Len(D)
        BY <2>2, <2>3, <3>1
      <4> QED
        BY <2>3, <3>2, <3>3, <4>1
    <3>5. ASSUME ~astray', NEW i \in Len(P) .. Len(Append(D, n)) - 1
          PROVE  ~Is("link", tree', Place(tree', To(Append(D, n), i)))
      <4>1. i \in 0 .. Len(D) /\ To(Append(D, n), i) = To(D, i)
        BY <2>2, <3>3
      <4>2. CASE i = Len(D)
        BY <2>2, <2>3, <3>1, <3>5, <4>1, <4>2, ToAll
      <4>3. CASE i # Len(D)
        <5>1. i \in Len(P) .. Len(D) - 1
          BY <2>2, <3>3, <4>3
        <5> QED
          BY <2>3, <3>5, <4>1, <5>1
      <4> QED
        BY <4>2, <4>3
    <3>6. /\ Len(Append(D, n)) = Len(P) + Len(call'.open) - 0
          /\ \A i \in 1 .. Len(call'.open) :
               call'.open[i].path = To(Append(D, n), Len(P) + i - 1)
      BY <2>2, <2>3, <3>1, <3>2, <3>3, <3>4
    <3>7. ShapeAt(P, Append(D, n), call'.open, "unknown", tree', astray')
      BY <2>3, <3>5, <3>6 DEF ShapeAt
    <3> QED
      BY <2>4, <3>1, <3>7, RmShapeFrom
  <2>9. CASE RmLeaves
    <3>1. /\ call.type = "next" /\ Deep' = D /\ call'.type = "done" /\ call'.open = Front(o)
      BY <2>9 DEF RmLeaves, D
    <3>2. Len(Front(o)) = Len(o) - 1 /\ \A i \in 1 .. Len(o) - 1 : Front(o)[i] = o[i]
      BY <2>1, <3>1, OpenFacts DEF RmTyped
    <3>3. Len(D) = Len(P) + Len(Front(o)) - 0
      BY <2>2, <2>3, <3>1, <3>2
    <3>4. \A i \in 1 .. Len(Front(o)) : Front(o)[i].path = To(D, Len(P) + i - 1)
      <4>1. \A i \in 1 .. Len(Front(o)) : i \in 1 .. Len(o) /\ i \in 1 .. Len(o) - 1
        BY <2>2, <3>2
      <4> QED
        BY <2>3, <3>2, <4>1
    <3>5. ShapeAt(P, D, Front(o), "done", tree', astray')
      BY <2>3, <3>1, <3>3, <3>4 DEF ShapeAt
    <3> QED
      BY <2>4, <3>1, <3>5, RmShapeFrom
  <2>10. CASE RmRemoves
    <3>1. /\ o # <<>> /\ call.type # "next" /\ call'.open = o /\ call'.type = "next"
          /\ Deep' = Last(o).path
      BY <2>10 DEF RmRemoves
    <3>2. Len(o) \in Nat \ {0} /\ Len(o) \in 1 .. Len(o) /\ Last(o) = o[Len(o)]
      BY <2>1, <3>1, OpenFacts DEF RmTyped
    <3>3. Deep' = To(D, Len(D) - 1)
      <4>1. Len(P) + Len(o) - 1 = Len(D) - 1
        BY <2>2, <2>3, <3>1
      <4> QED
        BY <2>3, <3>1, <3>2, <4>1
    <3>4. Len(D) - 1 \in 0 .. Len(D) /\ Len(D) - 1 >= Len(P)
      BY <2>2, <2>3, <3>1, <3>2
    <3>5. Len(Deep') = Len(D) - 1 /\ \A j \in 0 .. Len(D) - 1 : To(Deep', j) = To(D, j)
      BY <2>2, <3>3, <3>4, ToFacts, ToTo
    <3>6. \A i \in 1 .. Len(o) : o[i].path = To(Deep', Len(P) + i - 1)
      <4>1. \A i \in 1 .. Len(o) : Len(P) + i - 1 \in 0 .. Len(D) - 1
        BY <2>2, <2>3, <3>1
      <4> QED
        BY <2>3, <3>5, <4>1
    <3>7. ~astray' => \A i \in Len(P) .. Len(Deep') - 1 : ~Is("link", tree', Place(tree', To(Deep', i)))
      <4>1. \A i \in Len(P) .. Len(Deep') - 1 : i \in 0 .. Len(D) - 1 /\ i \in Len(P) .. Len(D) - 1
        BY <2>2, <3>5
      <4> QED
        BY <2>3, <3>5, <4>1
    <3>8. ~astray' => ~Is("link", tree', Place(tree', Deep'))
      <4>1. Len(D) - 1 \in Len(P) .. Len(D) - 1
        BY <2>2, <3>4
      <4> QED
        BY <2>3, <3>3, <4>1
    <3>9. Len(Deep') = Len(P) + Len(o) - 1
      BY <2>2, <2>3, <3>1, <3>5
    <3>10. ShapeAt(P, Deep', o, "next", tree', astray')
      BY <2>3, <3>6, <3>7, <3>8, <3>9 DEF ShapeAt
    <3> QED
      BY <2>4, <3>1, <3>10, RmShapeFrom
  <2> QED
    BY <1>3, <2>1, <2>5, <2>6, <2>7, <2>8, <2>9, <2>10, RmMove
<1>4. CASE \/ call.op = "mkdir" /\ Mkdir
           \/ call.op = "copy" /\ (CopyStat \/ CopyUnlink \/ CopyOpen \/ CopyCreate \/ CopyRead \/ CopyWrite)
           \/ call.op = "case" /\ (CaseName \/ CaseEnd)
  <2>1. MkdirTyped' \/ CopyTyped' \/ CaseTyped' \/ call' = Idle
    BY <1>4, OpTyped, TypedMkdir, TypedCopy, TypedCase
  <2> QED
    BY <2>1 DEF MkdirTyped, CopyTyped, CaseTyped, Idle
<1> QED
  BY <1>1, <1>2, <1>3, <1>4, WhoseStep

(* The order of prefixes *)
LEMMA PrefixOrder ==
  ASSUME NEW p \in Seqs, NEW q \in Seqs
  PROVE  /\ IsPrefix(p, p)
         /\ IsPrefix(p, q) /\ IsPrefix(q, p) => p = q
         /\ IsPrefix(p, q) /\ p # q => Len(p) < Len(q)
         /\ \A r \in Seqs : IsPrefix(p, q) /\ IsPrefix(q, r) => IsPrefix(p, r)
         /\ \A r \in Seqs : IsPrefix(p, r) /\ IsPrefix(q, r) /\ Len(p) <= Len(q) => IsPrefix(p, q)
<1>1. Len(p) \in Nat /\ Len(q) \in Nat
  BY DEF Seqs
<1>2. IsPrefix(p, q) /\ Len(q) <= Len(p) => p = q
  BY <1>1, PrefixByName, SameSeq
<1>3. IsPrefix(p, q) => Len(p) <= Len(q)
  BY PrefixByName
<1>4. IsPrefix(q, p) => Len(q) <= Len(p)
  BY PrefixByName
<1>5. IsPrefix(p, p)
  BY <1>1, PrefixByName
<1>6. ASSUME NEW r \in Seqs, IsPrefix(p, q), IsPrefix(q, r) PROVE IsPrefix(p, r)
  <2>1. Len(r) \in Nat
    BY DEF Seqs
  <2>2. /\ Len(p) <= Len(q) /\ Len(q) <= Len(r) /\ \A j \in 1 .. Len(p) : p[j] = q[j]
        /\ \A j \in 1 .. Len(q) : q[j] = r[j]
    BY <1>6, PrefixByName
  <2>3. Len(p) <= Len(r) /\ \A j \in 1 .. Len(p) : p[j] = r[j]
    BY <1>1, <2>1, <2>2
  <2> QED
    BY <2>3, PrefixByName
<1>7. ASSUME NEW r \in Seqs, IsPrefix(p, r), IsPrefix(q, r), Len(p) <= Len(q) PROVE IsPrefix(p, q)
  <2>1. /\ \A j \in 1 .. Len(p) : p[j] = r[j]
        /\ \A j \in 1 .. Len(q) : q[j] = r[j]
    BY <1>7, PrefixByName
  <2>2. \A j \in 1 .. Len(p) : p[j] = q[j]
    BY <1>1, <1>7, <2>1
  <2> QED
    BY <1>7, <2>2, PrefixByName
<1> QED
  BY <1>1, <1>2, <1>3, <1>4, <1>5, <1>6, <1>7

LEMMA PrefixChild ==
  ASSUME NEW p \in Seqs, NEW n \in Names, NEW q \in Seqs
  PROVE  /\ IsPrefix(p, Append(p, n)) /\ ~IsPrefix(Append(p, n), p)
         /\ IsPrefix(q, Append(p, n)) <=> IsPrefix(q, p) \/ q = Append(p, n)
<1> DEFINE c == Append(p, n)
<1>1. /\ c \in Seqs /\ Len(c) = Len(p) + 1 /\ \A j \in 1 .. Len(p) : c[j] = p[j]
      /\ Len(p) \in Nat /\ Len(q) \in Nat
  BY AppendFacts DEF Seqs
<1> HIDE DEF c
<1>2. IsPrefix(p, c)
  BY <1>1, PrefixByName
<1>3. ~IsPrefix(c, p)
  BY <1>1, PrefixByName
<1>4. IsPrefix(q, c) /\ q # c => IsPrefix(q, p)
  <2> SUFFICES ASSUME IsPrefix(q, c), q # c PROVE IsPrefix(q, p)
    OBVIOUS
  <2>1. Len(q) < Len(c)
    BY <1>1, PrefixOrder
  <2>2. Len(q) <= Len(p)
    BY <1>1, <2>1
  <2> QED
    BY <1>1, <1>2, <2>2, PrefixOrder
<1>5. IsPrefix(q, p) => IsPrefix(q, c)
  BY <1>1, <1>2, PrefixOrder
<1>6. IsPrefix(c, c)
  BY <1>1, PrefixOrder
<1> QED
  BY <1>2, <1>3, <1>4, <1>5, <1>6 DEF c

(* A path that leads to an entry leads there name by name. *)
LEMMA OnPath ==
  ASSUME NEW t, IsTree(t), NEW D \in Seqs \ {Top}, Exists(t, D), NEW j \in 0 .. Len(D) - 1
  PROVE  /\ Is("dir", t, Reached(t, To(D, j))) /\ Exists(t, To(D, j + 1))
         /\ To(D, j + 1) \in Seqs \ {Top} /\ Front(To(D, j + 1)) = To(D, j)
         /\ Place(t, To(D, j + 1)) = Append(Reached(t, To(D, j)), D[j + 1])
<1>1. /\ Len(D) \in Nat \ {0} /\ Front(D) \in Seqs /\ Front(D) = To(D, Len(D) - 1)
      /\ Len(Front(D)) = Len(D) - 1
  BY FrontLast
<1>2. Is("dir", t, Reached(t, Front(D))) /\ Reached(t, Front(D)) \in DOMAIN t
  BY LastName DEF Is
<1>3. \A i \in 0 .. Len(D) - 1 : To(Front(D), i) = To(D, i)
  <2>1. Len(D) - 1 \in 0 .. Len(D)
    BY <1>1
  <2> QED
    BY <1>1, <2>1, ToTo
<1>4. Is("dir", t, Reached(t, To(D, j)))
  <2>1. CASE j = Len(D) - 1
    BY <1>1, <1>2, <2>1
  <2>2. CASE j # Len(D) - 1
    <3>1. j \in 0 .. Len(Front(D)) - 1
      BY <1>1, <2>2
    <3> QED
      BY <1>1, <1>2, <1>3, <3>1, PathThere
  <2> QED
    BY <2>1, <2>2
<1>5. /\ To(D, j) \in Seqs /\ D[j + 1] \in Names
      /\ To(D, j + 1) = Append(To(D, j), D[j + 1])
  BY ToNext
<1>6. /\ To(D, j + 1) \in Seqs \ {Top} /\ Front(To(D, j + 1)) = To(D, j)
      /\ Last(To(D, j + 1)) = D[j + 1]
  <2> DEFINE a == Append(To(D, j), D[j + 1])
  <2>1. a \in Seqs \ {Top} /\ Front(a) = To(D, j) /\ Last(a) = D[j + 1]
    BY <1>5, AppendFacts
  <2> QED
    BY <1>5, <2>1
<1>7. Place(t, To(D, j + 1)) = Append(Reached(t, To(D, j)), D[j + 1])
  BY <1>4, <1>6, LastName
<1>8. Exists(t, To(D, j + 1))
  <2>1. CASE j + 1 = Len(D)
    BY <2>1, ToAll
  <2>2. CASE j + 1 # Len(D)
    <3>1. j + 1 \in 0 .. Len(Front(D)) /\ j + 1 \in 0 .. Len(D) - 1
      BY <1>1, <2>2
    <3>2. Exists(t, To(Front(D), j + 1))
      BY <1>1, <1>2, <3>1, WayThere
    <3> QED
      BY <1>3, <3>1, <3>2
  <2> QED
    BY <2>1, <2>2
<1> QED
  BY <1>4, <1>6, <1>7, <1>8

(* Without a link from P on, the path stays below P. *)
LEMMA Beneath ==
  ASSUME NEW t, IsTree(t), NEW P \in Seqs \ {Top}, NEW D \in Seqs \ {Top}, Exists(t, D),
         Len(P) <= Len(D), To(D, Len(P)) = P,
         \A i \in Len(P) .. Len(D) - 1 : ~Is("link", t, Place(t, To(D, i)))
  PROVE  Exists(t, P) /\ Place(t, D) \in Under(t, Place(t, P))
<1> DEFINE n == Len(D) - Len(P)
           S == {k \in 0 .. n : /\ Exists(t, To(D, Len(P) + k))
                                /\ IsPrefix(Place(t, P), Place(t, To(D, Len(P) + k)))}
<1>1. /\ Len(D) \in Nat /\ Len(P) \in Nat \ {0} /\ n \in Nat /\ Len(P) + n = Len(D)
      /\ To(D, Len(D)) = D /\ Len(P) + 0 = Len(P)
  BY FrontLast, ToAll
<1>2. DOMAIN t \subseteq Seqs /\ None \notin DOMAIN t
  BY TreeFacts
<1>3. Exists(t, P)
  <2> DEFINE j == Len(P) - 1
  <2>1. j \in 0 .. Len(D) - 1 /\ j + 1 = Len(P)
    BY <1>1
  <2> HIDE DEF j
  <2>2. Exists(t, To(D, j + 1))
    BY <2>1, OnPath
  <2> QED
    BY <2>1, <2>2
<1>4. 0 \in S
  <2>1. IsPrefix(Place(t, P), Place(t, P))
    BY <1>2, <1>3, PrefixOrder DEF Exists
  <2> QED
    BY <1>1, <1>3, <2>1
<1>5. ASSUME NEW k \in 0 .. n - 1, k \in S PROVE k + 1 \in S
  <2> DEFINE j == Len(P) + k
             c == To(D, j)
             i == j - 1
  <2>1. /\ j \in 0 .. Len(D) - 1 /\ i \in 0 .. Len(D) - 1 /\ i + 1 = j
        /\ j \in Len(P) .. Len(D) - 1 /\ Len(P) + (k + 1) = j + 1 /\ k + 1 \in 0 .. n
    BY <1>1
  <2>2. IsPrefix(Place(t, P), Place(t, c)) /\ ~Is("link", t, Place(t, c))
    BY <1>5, <2>1
  <2> HIDE DEF i, j
  <2>3. /\ c \in Seqs \ {Top} /\ Exists(t, c) /\ Is("dir", t, Reached(t, c))
        /\ Exists(t, To(D, j + 1)) /\ Place(t, To(D, j + 1)) = Append(Reached(t, c), D[j + 1])
    <3>1. To(D, i + 1) \in Seqs \ {Top} /\ Exists(t, To(D, i + 1))
      BY <2>1, OnPath
    <3> QED
      BY <2>1, <3>1, OnPath
  <2>4. D[j + 1] \in Names
    BY <2>1, ToNext
  <2> HIDE DEF c
  <2>5. Reached(t, c) = Place(t, c)
    BY <2>2, <2>3, LastName DEF Follow
  <2>6. Place(t, c) \in Seqs /\ Place(t, P) \in Seqs
    BY <1>2, <1>3, <2>3 DEF Exists
  <2>7. IsPrefix(Place(t, P), Append(Place(t, c), D[j + 1]))
    BY <2>2, <2>4, <2>6, PrefixChild
  <2> QED
    BY <2>1, <2>3, <2>5, <2>7
<1>6. n \in S
  <2>1. 0 .. n \subseteq S
    <3> HIDE DEF S, n
    <3> QED
      BY <1>1, <1>4, <1>5, Upwards
  <2> HIDE DEF S, n
  <2> QED
    BY <1>1, <2>1
<1> QED
  BY <1>1, <1>3, <1>6 DEF Under, Exists

(* The path still leads to its entry if only entries below that are gone.  *)
LEMMA WayLeft ==
  ASSUME NEW t, IsTree(t), NEW T, IsTree(T), NEW P \in Seqs \ {Top}, Exists(T, P), ~Through(T, P),
         Place(T, P) \in DOMAIN t,
         \A q \in DOMAIN T : ~IsPrefix(Place(T, P), q) => q \in DOMAIN t /\ t[q] = T[q]
  PROVE  Place(t, P) = Place(T, P)
<1> DEFINE n == Len(P) - 1
           S == {k \in 0 .. n : Reached(t, To(P, k)) = Reached(T, To(P, k))}
<1>1. Len(P) \in Nat \ {0} /\ n \in Nat /\ Front(P) = To(P, n)
  BY FrontLast
<1>2. 0 \in S
  <2>1. To(P, 0) = Top
    BY ToAll
  <2> QED
    BY <1>1, <2>1, EmptyReached
<1>3. ASSUME NEW k \in 0 .. n - 1, k \in S PROVE k + 1 \in S
  <2> DEFINE d == Reached(T, To(P, k))
             e == Place(T, To(P, k + 1))
  <2>1. /\ k \in 0 .. Len(P) - 1 /\ k + 1 \in 1 .. Len(P) - 1 /\ k + 1 \in 0 .. n
    BY <1>1
  <2>2. Is("dir", T, d) /\ e \in DOMAIN T /\ e = Append(d, P[k + 1])
    BY <2>1, OnPath DEF Exists
  <2>3. ~IsPrefix(Place(T, P), e)
    BY <2>1 DEF Through, To
  <2>4. e \in DOMAIN t /\ t[e] = T[e]
    BY <2>2, <2>3
  <2>5. Reached(t, To(P, k)) = d
    BY <1>3
  <2>6. /\ Reached(T, To(P, k + 1)) = Enter(T, d, P[k + 1])
        /\ Reached(t, To(P, k + 1)) = Enter(t, d, P[k + 1])
    BY <2>1, <2>5, NextName
  <2>7. d \in Seqs /\ P[k + 1] \in Names
    BY <2>1, <2>2, TreeFacts, ToNext DEF Is
  <2> HIDE DEF d, e
  <2>8. Is("dir", t, d)
    <3>1. Len(d) \in 0 .. Len(e) - 1 /\ To(e, Len(d)) = d
      BY <2>2, <2>7, AppendFacts, ToAll DEF Seqs
    <3> QED
      BY <2>4, <3>1, TreeFacts
  <2>9. Enter(t, d, P[k + 1]) = Enter(T, d, P[k + 1])
    BY <2>2, <2>4, <2>8 DEF Enter, Is
  <2> QED
    BY <2>1, <2>6, <2>9
<1>4. Reached(t, Front(P)) = Reached(T, Front(P))
  <2>1. 0 .. n \subseteq S
    <3> HIDE DEF S, n
    <3> QED
      BY <1>1, <1>2, <1>3, Upwards
  <2> QED
    BY <1>1, <2>1
<1> DEFINE d == Reached(T, Front(P))
<1>5. /\ Is("dir", T, d) /\ d \in Seqs /\ Place(T, P) = Append(d, Last(P))
      /\ Last(P) \in Names
  BY LastName, FrontLast
<1> HIDE DEF d
<1>6. Is("dir", t, d)
  <2>1. Len(d) \in 0 .. Len(Place(T, P)) - 1 /\ To(Place(T, P), Len(d)) = d
    BY <1>5, AppendFacts, ToAll DEF Seqs
  <2> QED
    BY <2>1, TreeFacts
<1>7. Reached(t, Front(P)) = d
  BY <1>4 DEF d
<1> QED
  BY <1>5, <1>6, <1>7, LastName

(* D goes on from P as E does from B. *)
Mirror(P, D, B, E) ==
  /\ Len(E) + Len(P) = Len(D) + Len(B)
  /\ \A i \in 1 .. Len(D) - Len(P) : E[Len(B) + i] = D[Len(P) + i]

LEMMA MirrorPlace ==
  ASSUME NEW t, IsTree(t), NEW P \in Seqs \ {Top}, NEW D \in Seqs \ {Top}, NEW B \in Seqs \ {Top},
         NEW E \in Seqs \ {Top}, Len(P) <= Len(D), To(D, Len(P)) = P, To(E, Len(B)) = B,
         Mirror(P, D, B, E), Place(t, P) = B, E \in DOMAIN t
  PROVE  Place(t, D) = E /\ Reached(t, D) = Follow(t, E)
<1> DEFINE n == Len(D) - Len(P)
           S == {k \in 0 .. n : Place(t, To(D, Len(P) + k)) = To(E, Len(B) + k)}
<1>1. /\ Len(D) \in Nat /\ Len(P) \in Nat \ {0} /\ n \in Nat /\ Len(P) + n = Len(D)
      /\ Len(E) \in Nat /\ Len(B) \in Nat \ {0} /\ Len(B) + n = Len(E)
      /\ Len(P) + 0 = Len(P) /\ Len(B) + 0 = Len(B)
  BY FrontLast DEF Mirror
<1>2. To(D, Len(D)) = D /\ To(E, Len(E)) = E
  BY ToAll
<1>3. 0 \in S
  BY <1>1
<1>4. ASSUME NEW k \in 0 .. n - 1, k \in S PROVE k + 1 \in S
  <2> DEFINE i == Len(P) + k
             j == Len(B) + k
             c == To(D, i)
             e == To(E, j)
  <2>1. /\ i \in 0 .. Len(D) - 1 /\ j \in 0 .. Len(E) - 1 /\ i # 0 /\ i \in 0 .. Len(D)
        /\ Len(P) + (k + 1) = i + 1 /\ Len(B) + (k + 1) = j + 1 /\ k + 1 \in 1 .. n
        /\ k + 1 \in 0 .. n
    BY <1>1
  <2>2. Place(t, c) = e
    BY <1>4
  <2>3. E[j + 1] = D[i + 1]
    BY <2>1 DEF Mirror
  <2> HIDE DEF i, j
  <2>4. c \in Seqs \ {Top}
    BY <2>1, ToFacts, TopFacts
  <2>5. Is("dir", t, e)
    BY <2>1, TreeFacts
  <2>6. /\ To(D, i + 1) = Append(c, D[i + 1]) /\ D[i + 1] \in Names
        /\ To(E, j + 1) = Append(e, E[j + 1])
    BY <2>1, ToNext
  <2> HIDE DEF c, e
  <2>7. Reached(t, c) = e
    <3>1. Exists(t, c)
      BY <2>2, <2>5 DEF Exists, Is
    <3>2. Reached(t, c) = Follow(t, e)
      BY <2>2, <2>4, <3>1, LastName
    <3> QED
      BY <2>5, <3>2, TreeFacts DEF Follow
  <2>8. /\ To(D, i + 1) \in Seqs \ {Top} /\ Front(To(D, i + 1)) = c
        /\ Last(To(D, i + 1)) = D[i + 1]
    <3> DEFINE a == Append(c, D[i + 1])
    <3>1. a \in Seqs \ {Top} /\ Front(a) = c /\ Last(a) = D[i + 1]
      BY <2>4, <2>6, AppendFacts
    <3> QED
      BY <2>6, <3>1
  <2>9. Place(t, To(D, i + 1)) = Append(e, D[i + 1])
    BY <2>5, <2>7, <2>8, LastName
  <2> QED
    BY <2>1, <2>3, <2>6, <2>9
<1>5. n \in S
  <2>1. 0 .. n \subseteq S
    <3> HIDE DEF S, n
    <3> QED
      BY <1>1, <1>3, <1>4, Upwards
  <2>2. n \in 0 .. n
    BY <1>1
  <2> HIDE DEF S, n
  <2> QED
    BY <2>1, <2>2
<1>6. Place(t, D) = E
  BY <1>1, <1>2, <1>5
<1> QED
  BY <1>6, LastName DEF Exists

(* The entries of T that are left when a walk over P has come to D: all     *)
(* that are not below P, the directories that are open, what is below D if *)
(* D is still to do, and what is below the names still to do.              *)
LeftAt(P, D, o, y, T) ==
  {q \in DOMAIN T :
     \/ ~IsPrefix(P, q) \/ IsPrefix(q, D)
     \/ y \notin {"next", "done"} /\ IsPrefix(D, q)
     \/ \E i \in 1 .. Len(o) : \E n \in o[i].names : IsPrefix(Append(o[i].path, n), q)}

WalkAt(P, D, o, y, t, T) ==
  /\ t = [q \in LeftAt(P, D, o, y, T) |-> T[q]]
  /\ \A i \in 1 .. Len(o) : \A n \in o[i].names :
       Append(o[i].path, n) \in DOMAIN T /\ ~IsPrefix(Append(o[i].path, n), D)
  /\ y # "gone"
  /\ y # "unknown" \/ o # <<>> => D \in DOMAIN T
  /\ y \in {"dir", "next", "done"} => Is("dir", T, D)
  /\ y \in {"file", "link"} => ~Is("dir", T, D)

(* What the walk is at *)
LEMMA WalkHere ==
  ASSUME NEW P, NEW D \in Seqs, NEW o, NEW y, NEW t, NEW T, WalkAt(P, D, o, y, t, T)
  PROVE  /\ D \in DOMAIN t <=> D \in DOMAIN T
         /\ D \in DOMAIN t => t[D] = T[D]
<1>1. IsPrefix(D, D)
  BY PrefixOrder
<1>2. DOMAIN t = LeftAt(P, D, o, y, T) /\ \A q \in DOMAIN t : t[q] = T[q]
  BY DEF WalkAt
<1> QED
  BY <1>1, <1>2 DEF LeftAt

LEMMA WalkLook ==
  ASSUME NEW P, NEW D, NEW o, NEW t, NEW T, WalkAt(P, D, o, "unknown", t, T),
         D \in DOMAIN T, NEW y \in {"dir", "file", "link"}, y = T[D].kind
  PROVE  WalkAt(P, D, o, y, t, T)
<1>1. LeftAt(P, D, o, y, T) = LeftAt(P, D, o, "unknown", T)
  BY DEF LeftAt
<1> QED
  BY <1>1 DEF WalkAt, Is

LEMMA WalkOpen ==
  ASSUME NEW P, NEW D \in Seqs, NEW o \in Seq(Frames), NEW t, NEW T, IsTree(t), IsTree(T),
         WalkAt(P, D, o, "dir", t, T), NEW f, f.path = D, f.names = NamesIn(t, D)
  PROVE  WalkAt(P, D, Append(o, f), "next", t, T)
<1> DEFINE N == NamesIn(t, D)
           new == Append(o, f)
<1>1. DOMAIN t = LeftAt(P, D, o, "dir", T)
  BY DEF WalkAt
<1>2. f.path = D /\ f.names = N
  OBVIOUS
<1>3. N \subseteq Names /\ DOMAIN T \subseteq Seqs /\ Len(D) \in Nat
  BY NamesAreNames, TreeFacts DEF Seqs
<1>4. ASSUME NEW n \in N PROVE Append(D, n) \in DOMAIN T /\ ~IsPrefix(Append(D, n), D)
  <2>1. PICK q \in DOMAIN t : IsPrefix(D, q) /\ Len(q) = Len(D) + 1 /\ n = Last(q)
    BY <1>4 DEF NamesIn, Under
  <2>2. q \in DOMAIN T /\ q \in Seqs
    BY <1>1, <1>3 DEF LeftAt
  <2>3. q # Top /\ Front(q) = To(q, Len(D)) /\ Append(Front(q), Last(q)) = q
    BY <1>3, <2>1, <2>2, TopFacts, FrontLast
  <2>4. D = To(q, Len(D))
    BY <2>1, <2>2, PrefixTo
  <2>5. ~IsPrefix(Append(D, n), D)
    BY <1>3, <1>4, PrefixChild
  <2> QED
    BY <2>1, <2>2, <2>3, <2>4, <2>5
<1>5. ASSUME NEW q \in DOMAIN T
      PROVE  IsPrefix(D, q) <=> q = D \/ \E n \in N : IsPrefix(Append(D, n), q)
  <2>0. q \in Seqs /\ Len(q) \in Nat
    BY <1>3 DEF Seqs
  <2>1. ASSUME IsPrefix(D, q), q # D PROVE \E n \in N : IsPrefix(Append(D, n), q)
    <3> DEFINE k == Len(D) + 1
               c == To(q, k)
    <3>1. Len(D) < Len(q) /\ D = To(q, Len(D)) /\ k \in 0 .. Len(q)
      BY <1>3, <2>0, <2>1, PrefixOrder, PrefixTo
    <3>2. c \in Seqs /\ Len(c) = k /\ c # Top
      BY <1>3, <2>0, <3>1, ToFacts, TopFacts
    <3>3. Len(D) \in 0 .. k
      BY <1>3
    <3>4. Front(c) = D
      BY <2>0, <3>1, <3>2, <3>3, FrontLast, ToTo
    <3>5. Append(D, Last(c)) = c /\ Last(c) \in Names
      BY <3>2, <3>4, FrontLast
    <3>6. IsPrefix(c, q)
      BY <2>0, <3>1, <3>2, PrefixTo
    <3>7. IsPrefix(D, c)
      <4>1. IsPrefix(D, Append(D, Last(c)))
        BY <3>5, PrefixChild
      <4> QED
        BY <3>5, <4>1
    <3>8. c \in DOMAIN T
      <4>1. CASE k = Len(q)
        BY <2>0, <4>1, ToAll
      <4>2. CASE k # Len(q)
        <5>1. k \in 0 .. Len(q) - 1
          BY <2>0, <3>1, <4>2
        <5> QED
          BY <5>1, TreeFacts DEF Is
      <4> QED
        BY <4>1, <4>2
    <3>9. c \in DOMAIN t
      BY <1>1, <3>7, <3>8 DEF LeftAt
    <3>10. Last(c) \in N
      BY <3>2, <3>7, <3>9 DEF NamesIn, Under
    <3> QED
      BY <3>5, <3>6, <3>10
  <2>2. ASSUME NEW n \in N, IsPrefix(Append(D, n), q) PROVE IsPrefix(D, q)
    <3>1. Append(D, n) \in Seqs /\ IsPrefix(D, Append(D, n))
      BY <1>3, <2>2, AppendFacts, PrefixChild
    <3> QED
      BY <2>0, <2>2, <3>1, PrefixOrder
  <2>3. IsPrefix(D, D)
    BY PrefixOrder
  <2> QED
    BY <2>1, <2>2, <2>3
<1> HIDE DEF N
<1>6. /\ Len(new) = Len(o) + 1 /\ new[Len(o) + 1] = f /\ \A i \in 1 .. Len(o) : new[i] = o[i]
      /\ Len(o) \in Nat
  BY OpenMore
<1> HIDE DEF new
<1>7. \A i \in 1 .. Len(new) : i \in 1 .. Len(o) \/ i = Len(o) + 1
  BY <1>6
<1>8. 1 .. Len(o) \subseteq 1 .. Len(new) /\ Len(o) + 1 \in 1 .. Len(new)
  BY <1>6
<1>9. ASSUME NEW q \in DOMAIN T
      PROVE  (\E i \in 1 .. Len(new) : \E n \in new[i].names : IsPrefix(Append(new[i].path, n), q))
             <=> \/ \E i \in 1 .. Len(o) : \E n \in o[i].names : IsPrefix(Append(o[i].path, n), q)
                 \/ \E n \in N : IsPrefix(Append(D, n), q)
  BY <1>2, <1>6, <1>7, <1>8
<1>10. LeftAt(P, D, new, "next", T) = LeftAt(P, D, o, "dir", T)
  <2>1. \A q \in DOMAIN T : q = D => IsPrefix(q, D)
    BY PrefixOrder
  <2> QED
    BY <1>5, <1>9, <2>1 DEF LeftAt
<1>11. \A i \in 1 .. Len(new) : \A n \in new[i].names :
         Append(new[i].path, n) \in DOMAIN T /\ ~IsPrefix(Append(new[i].path, n), D)
  BY <1>2, <1>4, <1>6, <1>7 DEF WalkAt
<1>12. WalkAt(P, D, new, "next", t, T)
  BY <1>10, <1>11 DEF WalkAt
<1> QED
  BY <1>12 DEF new

(* Where the open directories are: the one at i is i - 1 names below P. *)
OnWay(P, D, o) ==
  /\ P \in Seqs \ {Top} /\ D \in Seqs \ {Top} /\ o \in Seq(Frames)
  /\ Len(P) <= Len(D) /\ To(D, Len(P)) = P
  /\ \A i \in 1 .. Len(o) : o[i].path = To(D, Len(P) + i - 1)

LEMMA OnWayAt ==
  ASSUME NEW P, NEW D, NEW o, OnWay(P, D, o), NEW i \in 1 .. Len(o), Len(P) + i - 1 <= Len(D)
  PROVE  /\ o[i] \in Frames /\ o[i].path \in Seqs /\ Len(o[i].path) = Len(P) + i - 1
         /\ o[i].names \subseteq Names
<1>1. o[i] \in Frames /\ i \in Nat \ {0}
  BY DEF OnWay
<1>2. o[i].path = To(D, Len(P) + i - 1) /\ Len(P) \in Nat /\ Len(D) \in Nat /\ D \in Seqs
  BY DEF OnWay, Seqs
<1>3. Len(P) + i - 1 \in 0 .. Len(D)
  BY <1>1, <1>2
<1> QED
  BY <1>1, <1>2, <1>3, ToFacts DEF Frames

(* A name is taken from the innermost directory. *)
LEMMA WalkTake ==
  ASSUME NEW P, NEW D, NEW o, NEW t, NEW T, IsTree(t), IsTree(T),
         WalkAt(P, D, o, "next", t, T), OnWay(P, D, o),
         o # <<>>, Len(D) = Len(P) + Len(o) - 1, NEW n \in Last(o).names
  PROVE  WalkAt(P, Append(D, n), [o EXCEPT ![Len(o)].names = @ \ {n}], "unknown", t, T)
<1> DEFINE c == Append(D, n)
           k == Len(o)
           new == [o EXCEPT ![k].names = @ \ {n}]
<1>1. /\ k \in Nat \ {0} /\ k \in 1 .. k /\ Last(o) = o[k] /\ o[k] \in Frames
      /\ o \in Seq(Frames) /\ D \in Seqs /\ DOMAIN o = 1 .. k
  BY OpenFacts DEF OnWay
<1>2. n \in Names /\ DOMAIN T \subseteq Seqs /\ Len(D) \in Nat /\ Len(P) \in Nat
  BY <1>1, TreeFacts DEF Frames, Seqs, OnWay
<1>3. o[k].path = D
  <2>1. Len(P) + k - 1 = Len(D) /\ To(D, Len(D)) = D
    BY <1>1, ToAll
  <2> QED
    BY <1>1, <2>1 DEF OnWay
<1>4. c \in Seqs /\ Len(c) = Len(D) + 1 /\ IsPrefix(c, c) /\ Front(c) = D /\ Last(c) = n
  BY <1>1, <1>2, AppendFacts, PrefixOrder
<1>5. /\ Len(new) = k /\ new[k].path = D /\ new[k].names = o[k].names \ {n}
      /\ \A i \in 1 .. k : i # k => new[i] = o[i]
  BY <1>1, <1>3 DEF Frames
<1>6. \A q \in Seqs : IsPrefix(q, c) <=> IsPrefix(q, D) \/ q = c
  BY <1>1, <1>2, PrefixChild
<1>7. c \in DOMAIN T
  <2>1. Append(o[k].path, n) \in DOMAIN T
    BY <1>1 DEF WalkAt
  <2> QED
    BY <1>3, <2>1
<1> HIDE DEF c, new
<1>8. ASSUME NEW i \in 1 .. k, NEW m \in new[i].names
      PROVE  /\ new[i].path = o[i].path /\ m \in o[i].names /\ m \in Names
             /\ Append(o[i].path, m) # c
  <2>0. o[i] \in Frames /\ i \in 1 .. k
    BY <1>1, <1>8
  <2>1. new[i].path = o[i].path /\ m \in o[i].names
    <3>1. CASE i = k
      BY <1>3, <1>5, <1>8, <3>1
    <3>2. CASE i # k
      BY <1>5, <1>8, <3>2
    <3> QED
      BY <3>1, <3>2
  <2>2. m \in Names /\ o[i].path \in Seqs
    BY <2>0, <2>1 DEF Frames
  <2>3. Front(Append(o[i].path, m)) = o[i].path /\ Last(Append(o[i].path, m)) = m
    BY <2>2, AppendFacts
  <2>4. CASE i = k
    BY <1>4, <1>5, <1>8, <2>1, <2>2, <2>3, <2>4
  <2>5. CASE i # k
    <3>0. \A a, b, j \in Nat : j <= b /\ j # b => a + j - 1 < a + b - 1 /\ a + j - 1 <= a + b - 1
      OBVIOUS
    <3>1. i \in Nat /\ i <= k /\ k \in Nat /\ Len(D) = Len(P) + k - 1
      BY <1>1, <2>0
    <3> HIDE DEF k
    <3>4. Len(P) + i - 1 < Len(D) /\ Len(P) + i - 1 <= Len(D)
      BY <1>2, <2>5, <3>0, <3>1
    <3>2. Len(o[i].path) = Len(P) + i - 1
      <4>1. i \in 1 .. Len(o)
        BY <2>0 DEF k
      <4> QED
        BY <3>4, <4>1, OnWayAt
    <3>3. o[i].path # D
      BY <1>2, <3>1, <3>2, <3>4, SMTT(60)
    <3> QED
      BY <1>4, <2>1, <2>2, <2>3, <3>3
  <2> QED
    BY <2>4, <2>5
<1>9. ASSUME NEW q \in DOMAIN T
      PROVE  (\E i \in 1 .. k : \E m \in o[i].names : IsPrefix(Append(o[i].path, m), q))
             <=> \/ \E i \in 1 .. k : \E m \in new[i].names : IsPrefix(Append(new[i].path, m), q)
                 \/ IsPrefix(c, q)
  <2>1. ASSUME NEW i \in 1 .. k, NEW m \in o[i].names, ~(i = k /\ m = n) PROVE m \in new[i].names
    BY <1>5, <2>1
  <2>2. IsPrefix(Append(o[k].path, n), q) <=> IsPrefix(c, q)
    BY <1>3 DEF c
  <2> QED
    BY <1>1, <1>8, <2>1, <2>2
<1>10. LeftAt(P, c, new, "unknown", T) = LeftAt(P, D, o, "next", T)
  BY <1>2, <1>4, <1>5, <1>6, <1>9 DEF LeftAt
<1>11. \A i \in 1 .. k : \A m \in new[i].names :
         Append(new[i].path, m) \in DOMAIN T /\ ~IsPrefix(Append(new[i].path, m), c)
  BY <1>2, <1>6, <1>8 DEF WalkAt
<1>12. WalkAt(P, c, new, "unknown", t, T)
  BY <1>5, <1>7, <1>10, <1>11 DEF WalkAt
<1> QED
  BY <1>12 DEF c, new

(* No name is left in the innermost directory. *)
LEMMA WalkLeave ==
  ASSUME NEW P, NEW D, NEW o, NEW t, NEW T, WalkAt(P, D, o, "next", t, T),
         o \in Seq(Frames), o # <<>>, Last(o).names = {}
  PROVE  WalkAt(P, D, Front(o), "done", t, T)
<1>1. /\ Len(o) \in Nat \ {0} /\ Last(o) = o[Len(o)] /\ Len(Front(o)) = Len(o) - 1
      /\ \A i \in 1 .. Len(o) - 1 : Front(o)[i] = o[i]
  BY OpenFacts
<1>2. \A i \in 1 .. Len(o) : i \in 1 .. Len(o) - 1 \/ i = Len(o)
  BY <1>1
<1>3. 1 .. Len(o) - 1 \subseteq 1 .. Len(o)
  BY <1>1
<1>4. ASSUME NEW q
      PROVE  (\E i \in 1 .. Len(o) : \E n \in o[i].names : IsPrefix(Append(o[i].path, n), q))
             <=> \E i \in 1 .. Len(Front(o)) : \E n \in Front(o)[i].names :
                   IsPrefix(Append(Front(o)[i].path, n), q)
  BY <1>1, <1>2, <1>3
<1>5. LeftAt(P, D, Front(o), "done", T) = LeftAt(P, D, o, "next", T)
  BY <1>4 DEF LeftAt
<1>6. \A i \in 1 .. Len(Front(o)) : \A n \in Front(o)[i].names :
         Append(Front(o)[i].path, n) \in DOMAIN T /\ ~IsPrefix(Append(Front(o)[i].path, n), D)
  BY <1>1, <1>3 DEF WalkAt
<1> QED
  BY <1>5, <1>6 DEF WalkAt

(* The entry the walk is at has nothing left below it.                     *)
LEMMA WalkBare ==
  ASSUME NEW P, NEW D, NEW o, NEW y \in {"file", "link", "done"}, NEW t, NEW T, IsTree(t), IsTree(T),
         WalkAt(P, D, o, y, t, T), OnWay(P, D, o), Len(D) = Len(P) + Len(o)
  PROVE  /\ D \in DOMAIN t /\ Under(t, D) = {D}
         /\ Is("dir", t, D) <=> y = "done"
<1>1. /\ P \in Seqs /\ D \in Seqs \ {Top} /\ Len(P) \in Nat /\ Len(D) \in Nat /\ IsPrefix(D, D)
      /\ IsPrefix(P, D) /\ Len(o) \in Nat
  BY PrefixTo, PrefixOrder DEF OnWay, Seqs
<1>2. D \in DOMAIN T
  BY DEF WalkAt, Is
<1>3. D \in DOMAIN t /\ t[D] = T[D] /\ DOMAIN t = LeftAt(P, D, o, y, T)
  <2>1. DOMAIN t = LeftAt(P, D, o, y, T)
    BY DEF WalkAt
  <2>2. D \in DOMAIN t /\ t[D] = T[D]
    BY <1>1, <1>2, WalkHere
  <2> QED
    BY <2>1, <2>2
<1>4. CASE y \in {"file", "link"}
  <2>1. ~Is("dir", t, D)
    BY <1>2, <1>3, <1>4 DEF WalkAt, Is
  <2> QED
    BY <1>3, <1>4, <2>1, LeafAlone
<1>5. CASE y = "done"
  <2>1. Is("dir", t, D)
    BY <1>3, <1>5 DEF WalkAt, Is
  <2>2. ASSUME NEW q \in DOMAIN t, IsPrefix(D, q) PROVE q = D
    <3>1. q \in Seqs
      BY TreeFacts
    <3>2. IsPrefix(P, q)
      BY <1>1, <2>2, <3>1, PrefixOrder
    <3>3. ASSUME NEW i \in 1 .. Len(o), NEW n \in o[i].names
          PROVE  ~IsPrefix(Append(o[i].path, n), q)
      <4>1. i \in Nat /\ i <= Len(o) /\ Len(P) + i <= Len(D) /\ Len(P) + i - 1 <= Len(D)
        BY <1>1, <3>3
      <4>2. n \in Names /\ o[i].path \in Seqs /\ Len(o[i].path) = Len(P) + i - 1
        BY <3>3, <4>1, OnWayAt
      <4>3. Append(o[i].path, n) \in Seqs /\ Len(Append(o[i].path, n)) <= Len(D)
        BY <1>1, <4>1, <4>2, AppendFacts
      <4>4. ~IsPrefix(Append(o[i].path, n), D)
        BY <3>3 DEF WalkAt
      <4> QED
        BY <1>1, <2>2, <3>1, <4>3, <4>4, PrefixOrder
    <3>4. IsPrefix(q, D)
      BY <1>3, <1>5, <3>2, <3>3 DEF LeftAt
    <3> QED
      BY <1>1, <2>2, <3>1, <3>4, PrefixOrder
  <2>3. Under(t, D) = {D}
    BY <1>1, <1>3, <2>2 DEF Under
  <2> QED
    BY <1>3, <1>5, <2>1, <2>3
<1> QED
  BY <1>4, <1>5

(* It is removed, and there is an open directory.                          *)
LEMMA WalkRemove ==
  ASSUME NEW P, NEW D, NEW o, NEW y \in {"file", "link", "done"}, NEW t, NEW T, IsTree(t), IsTree(T),
         WalkAt(P, D, o, y, t, T), OnWay(P, D, o), Len(D) = Len(P) + Len(o), o # <<>>
  PROVE  WalkAt(P, Front(D), o, "next", Less(t, {D}), T)
<1> DEFINE F == Front(D)
           new == Less(t, {D})
<1>1. /\ D \in DOMAIN t /\ Under(t, D) = {D} /\ DOMAIN t = LeftAt(P, D, o, y, T)
      /\ \A q \in DOMAIN t : t[q] = T[q]
  BY WalkBare DEF WalkAt
<1>2. /\ P \in Seqs /\ D \in Seqs \ {Top} /\ Len(P) \in Nat /\ Len(D) \in Nat /\ IsPrefix(D, D)
      /\ IsPrefix(P, D) /\ Len(o) \in Nat \ {0} /\ DOMAIN T \subseteq Seqs
  BY OpenFacts, PrefixTo, PrefixOrder, TreeFacts DEF OnWay, Seqs
<1>3. /\ F \in Seqs /\ Last(D) \in Names /\ Append(F, Last(D)) = D
      /\ F = To(D, Len(D) - 1) /\ Len(F) = Len(D) - 1
  BY <1>2, FrontLast
<1> HIDE DEF F, new
<1>4. \A q \in Seqs : IsPrefix(q, D) <=> IsPrefix(q, F) \/ q = D
  <2>1. \A q \in Seqs : IsPrefix(q, Append(F, Last(D))) <=> IsPrefix(q, F) \/ q = Append(F, Last(D))
    BY <1>3, PrefixChild
  <2> QED
    BY <1>3, <2>1
<1>5. ~IsPrefix(D, F)
  <2>1. ~IsPrefix(Append(F, Last(D)), F)
    BY <1>3, PrefixChild
  <2> QED
    BY <1>3, <2>1
<1>6. D \in DOMAIN T
  BY <1>1 DEF LeftAt
<1>7. Is("dir", T, F)
  <2>1. Len(D) - 1 \in 0 .. Len(D) - 1
    BY <1>2, <1>3, FrontLast
  <2> QED
    BY <1>3, <1>6, <2>1, TreeFacts
<1>8. ASSUME NEW i \in 1 .. Len(o), NEW n \in o[i].names
      PROVE  /\ Append(o[i].path, n) \in DOMAIN T /\ ~IsPrefix(Append(o[i].path, n), D)
             /\ ~IsPrefix(Append(o[i].path, n), F)
  BY <1>2, <1>4 DEF WalkAt
<1>9. y \in {"file", "link"} => \A q \in DOMAIN T : IsPrefix(D, q) => q = D
  <2>1. y \in {"file", "link"} => ~Is("dir", T, D)
    BY DEF WalkAt
  <2> QED
    BY <1>6, <2>1, LeafAlone DEF Under
<1>10. LeftAt(P, F, o, "next", T) = LeftAt(P, D, o, y, T) \ {D}
  <2>1. ASSUME NEW q \in DOMAIN T, q # D
        PROVE  q \in LeftAt(P, F, o, "next", T) <=> q \in LeftAt(P, D, o, y, T)
    BY <1>2, <1>4, <1>9, <2>1 DEF LeftAt
  <2>2. D \notin LeftAt(P, F, o, "next", T)
    BY <1>2, <1>5, <1>8 DEF LeftAt
  <2>3. LeftAt(P, F, o, "next", T) \subseteq DOMAIN T /\ LeftAt(P, D, o, y, T) \subseteq DOMAIN T
    BY DEF LeftAt
  <2> QED
    BY <2>1, <2>2, <2>3
<1>11. new = [q \in LeftAt(P, F, o, "next", T) |-> T[q]]
  BY <1>1, <1>10 DEF new, Less
<1>12. F \in DOMAIN T
  BY <1>7 DEF Is
<1>13. WalkAt(P, F, o, "next", new, T)
  BY <1>7, <1>8, <1>11, <1>12 DEF WalkAt
<1> QED
  BY <1>13 DEF F, new

(* It is removed, and was the path of the call. *)
LEMMA WalkEnd ==
  ASSUME NEW P \in Seqs, NEW y, NEW t, NEW T, IsTree(t), IsTree(T),
         WalkAt(P, P, <<>>, y, t, T), y \in {"file", "link", "done"}
  PROVE  Less(t, {P}) = Less(T, Under(T, P))
<1>1. DOMAIN t = LeftAt(P, P, <<>>, y, T) /\ \A q \in DOMAIN t : t[q] = T[q]
  BY DEF WalkAt
<1>2. DOMAIN T \subseteq Seqs /\ IsPrefix(P, P)
  BY TreeFacts, PrefixOrder
<1>3. y \in {"file", "link"} => \A q \in DOMAIN T : IsPrefix(P, q) => q = P
  BY LeafAlone DEF Under, WalkAt
<1>4. ASSUME NEW q \in DOMAIN T PROVE q \in DOMAIN t \ {P} <=> ~IsPrefix(P, q)
  <2>1. IsPrefix(P, q) /\ IsPrefix(q, P) => q = P
    BY <1>2, PrefixOrder
  <2> QED
    BY <1>1, <1>2, <1>3, <2>1 DEF LeftAt
<1>5. DOMAIN t \ {P} = DOMAIN T \ Under(T, P)
  BY <1>1, <1>4 DEF Under, LeftAt
<1> QED
  BY <1>1, <1>5 DEF Less

(* There was nothing at the path of the call. *)
LEMMA WalkBegin ==
  ASSUME NEW P, NEW t, NEW T, IsTree(T)
  PROVE  WalkAt(P, P, <<>>, "unknown", t, T) <=> t = T
<1>1. LeftAt(P, P, <<>>, "unknown", T) = DOMAIN T
  BY DEF LeftAt
<1>2. T = [q \in DOMAIN T |-> T[q]]
  BY DEF IsTree
<1> QED
  BY <1>1, <1>2 DEF WalkAt

LEMMA RmOnWay ==
  ASSUME RmTyped, RmShape
  PROVE  /\ OnWay(RmPath, Deep, call.open)
         /\ call.type # "next" => Len(Deep) = Len(RmPath) + Len(call.open)
         /\ call.type = "next" => Len(Deep) = Len(RmPath) + Len(call.open) - 1
<1>1. ShapeAt(RmPath, Deep, call.open, call.type, tree, astray) /\ call.open \in Seq(Frames)
  BY DEF RmShape, RmTyped
<1>2. OnWay(RmPath, Deep, call.open)
  BY <1>1, RmGeometry DEF ShapeAt, OnWay
<1>3. Len(RmPath) \in Nat /\ Len(call.open) \in Nat
  BY RmGeometry
<1>4. call.type # "next" => Len(Deep) = Len(RmPath) + Len(call.open) - 0
  BY <1>1 DEF ShapeAt
<1>5. call.type = "next" => Len(Deep) = Len(RmPath) + Len(call.open) - 1
  BY <1>1 DEF ShapeAt
<1> QED
  BY <1>2, <1>3, <1>4, <1>5

(* E and w are the places of the path D and of the open directories o, if  *)
(* B is that of P.                                                         *)
Shadow(P, D, o, B, E, w) ==
  /\ OnWay(B, E, w) /\ Mirror(P, D, B, E)
  /\ Len(w) = Len(o) /\ \A i \in 1 .. Len(o) : w[i].names = o[i].names

(* The walk as the tree has it: over places *)
WalkOf(P, D, o, y, t, T) ==
  /\ ~Exists(T, P) => t = T /\ D = P /\ o = <<>> /\ y = "unknown"
  /\ Exists(T, P) /\ ~Through(T, P) =>
       \E E \in Seqs, w \in Seq(Frames) :
         Shadow(P, D, o, Place(T, P), E, w) /\ WalkAt(Place(T, P), E, w, y, t, T)

RmWalk ==
  call.op = "rm" /\ moves = 0 /\ ~fault =>
    WalkOf(RmPath, Deep, call.open, call.type, tree, before)

LEMMA RmWalkFrom ==
  ASSUME NEW P, NEW D, NEW o, NEW y, WalkOf(P, D, o, y, tree', before'),
         RmPath' = P, Deep' = D, call'.open = o, call'.type = y
  PROVE  RmWalk'
BY DEF RmWalk

(* The place of the path, while there is one *)
LEMMA ShadowPlace ==
  ASSUME NEW P, NEW D, NEW o, OnWay(P, D, o), NEW y,
         y # "next" => Len(D) = Len(P) + Len(o), y = "next" => Len(D) = Len(P) + Len(o) - 1,
         NEW t, IsTree(t), NEW T, IsTree(T), Exists(T, P), ~Through(T, P),
         NEW E, NEW w, Shadow(P, D, o, Place(T, P), E, w), WalkAt(Place(T, P), E, w, y, t, T)
  PROVE  /\ E \in DOMAIN t /\ E \in DOMAIN T /\ t[E] = T[E]
         /\ Place(t, P) = Place(T, P) /\ Place(T, P) \in DOMAIN t
         /\ Place(t, D) = E /\ Reached(t, D) = Follow(t, E)
         /\ y # "next" => Len(E) = Len(Place(T, P)) + Len(w)
         /\ y = "next" => Len(E) = Len(Place(T, P)) + Len(w) - 1
         /\ o = <<>> => w = <<>> /\ E = Place(T, P)
<1> DEFINE B == Place(T, P)
<1>1. /\ P \in Seqs \ {Top} /\ D \in Seqs \ {Top} /\ Len(P) <= Len(D) /\ To(D, Len(P)) = P
      /\ B \in Seqs \ {Top} /\ E \in Seqs \ {Top} /\ Len(B) <= Len(E) /\ To(E, Len(B)) = B
      /\ Mirror(P, D, B, E) /\ Len(w) = Len(o)
  BY DEF OnWay, Shadow
<1>2. B \in DOMAIN T
  BY DEF Exists
<1>3. /\ Len(P) \in Nat /\ Len(D) \in Nat /\ Len(B) \in Nat /\ Len(E) \in Nat
      /\ Len(o) \in Nat /\ (o = <<>> <=> Len(o) = 0) /\ (w = <<>> <=> Len(w) = 0)
      /\ Len(E) + Len(P) = Len(D) + Len(B)
  BY <1>1 DEF Seqs, OnWay, Shadow, Mirror
<1> HIDE DEF B
<1>4. /\ y # "next" => Len(E) = Len(B) + Len(w)
      /\ y = "next" => Len(E) = Len(B) + Len(w) - 1
  BY <1>1, <1>3
<1>5. o = <<>> => w = <<>> /\ E = B
  <2> SUFFICES ASSUME o = <<>> PROVE w = <<>> /\ E = B
    OBVIOUS
  <2>1. w = <<>> /\ Len(E) = Len(B)
    BY <1>1, <1>3
  <2> QED
    BY <1>1, <2>1, ToAll
<1>6. WalkAt(B, E, w, y, t, T)
  BY DEF B
<1>7. E \in DOMAIN T
  <2>1. CASE o = <<>>
    BY <1>2, <1>5, <2>1 DEF B
  <2>2. CASE o # <<>>
    BY <1>1, <1>3, <1>6, <2>2 DEF WalkAt
  <2> QED
    BY <2>1, <2>2
<1>8. E \in DOMAIN t /\ t[E] = T[E]
  BY <1>1, <1>6, <1>7, WalkHere
<1>9. B \in DOMAIN t
  <2>1. CASE Len(B) = Len(E)
    BY <1>1, <1>8, <2>1, ToAll
  <2>2. CASE Len(B) # Len(E)
    <3>1. Len(B) \in 0 .. Len(E) - 1
      BY <1>1, <1>3, <2>2
    <3> QED
      BY <1>1, <1>8, <3>1, TreeFacts DEF Is
  <2> QED
    BY <2>1, <2>2
<1>10. Place(t, P) = B
  <2>1. \A q \in DOMAIN T : ~IsPrefix(B, q) => q \in DOMAIN t /\ t[q] = T[q]
    BY <1>6 DEF WalkAt, LeftAt
  <2> QED
    BY <1>1, <1>9, <2>1, WayLeft DEF B
<1>11. Place(t, D) = E /\ Reached(t, D) = Follow(t, E)
  BY <1>1, <1>8, <1>10, MirrorPlace
<1> QED
  BY <1>4, <1>5, <1>7, <1>8, <1>9, <1>10, <1>11 DEF B

(* How the places follow the walk *)
LEMMA ShadowFacts ==
  ASSUME NEW P, NEW D, NEW o, NEW B, NEW E, NEW w, OnWay(P, D, o), Shadow(P, D, o, B, E, w)
  PROVE  /\ P \in Seqs /\ D \in Seqs \ {Top} /\ Len(P) \in Nat \ {0} /\ Len(D) \in Nat
         /\ B \in Seqs \ {Top} /\ E \in Seqs \ {Top} /\ Len(B) \in Nat \ {0} /\ Len(E) \in Nat
         /\ Len(P) <= Len(D) /\ Len(B) <= Len(E) /\ To(E, Len(B)) = B
         /\ Mirror(P, D, B, E)
         /\ o \in Seq(Frames) /\ w \in Seq(Frames) /\ Len(o) \in Nat /\ Len(w) = Len(o)
         /\ \A i \in 1 .. Len(o) : w[i].names = o[i].names
         /\ \A i \in 1 .. Len(o) : w[i].path = To(E, Len(B) + i - 1)
<1>1. /\ P \in Seqs \ {Top} /\ D \in Seqs \ {Top} /\ B \in Seqs \ {Top} /\ E \in Seqs \ {Top}
      /\ o \in Seq(Frames) /\ w \in Seq(Frames)
  BY DEF Shadow, OnWay
<1>2. /\ Len(P) \in Nat \ {0} /\ Len(D) \in Nat /\ Len(B) \in Nat \ {0} /\ Len(E) \in Nat
      /\ Len(o) \in Nat
  BY <1>1, FrontLast
<1> QED
  BY <1>1, <1>2 DEF Shadow, OnWay

LEMMA ShadowOpen ==
  ASSUME NEW P, NEW D, NEW o, NEW B, NEW E, NEW w, OnWay(P, D, o), Shadow(P, D, o, B, E, w),
         Len(E) = Len(B) + Len(w), NEW f, NEW g \in Frames, g.path = E, f.names = g.names
  PROVE  Shadow(P, D, Append(o, f), B, E, Append(w, g))
<1> DEFINE k == Len(o)
<1>1. /\ o \in Seq(Frames) /\ w \in Seq(Frames) /\ k \in Nat /\ Len(w) = k /\ E \in Seqs
      /\ Len(B) \in Nat /\ \A i \in 1 .. k : w[i].names = o[i].names
      /\ \A i \in 1 .. k : w[i].path = To(E, Len(B) + i - 1)
  BY ShadowFacts
<1>2. /\ Len(Append(o, f)) = k + 1 /\ Append(o, f)[k + 1] = f
      /\ \A i \in 1 .. k : Append(o, f)[i] = o[i]
      /\ Len(Append(w, g)) = k + 1 /\ Append(w, g)[k + 1] = g
      /\ \A i \in 1 .. k : Append(w, g)[i] = w[i]
  BY <1>1, OpenMore
<1>3. Append(w, g) \in Seq(Frames)
  BY <1>1
<1>4. ASSUME NEW i \in 1 .. k + 1
      PROVE  /\ Append(w, g)[i].names = Append(o, f)[i].names
             /\ Append(w, g)[i].path = To(E, Len(B) + i - 1)
  <2>1. CASE i = k + 1
    <3>1. Len(B) + i - 1 = Len(E)
      BY <1>1, <2>1
    <3>2. To(E, Len(E)) = E
      BY <1>1, ToAll
    <3> QED
      BY <1>2, <2>1, <3>1, <3>2
  <2>2. CASE i # k + 1
    <3>1. i \in 1 .. k
      BY <1>1, <2>2
    <3> QED
      BY <1>1, <1>2, <3>1
  <2> QED
    BY <2>1, <2>2
<1> QED
  BY <1>2, <1>3, <1>4 DEF Shadow, OnWay

(* The open directories when a name is taken from the one at k *)
Taken(s, k, n) == [s EXCEPT ![k].names = @ \ {n}]

LEMMA NameTaken ==
  ASSUME NEW s \in Seq(Frames), NEW k \in 1 .. Len(s), NEW n
  PROVE  /\ Taken(s, k, n) \in Seq(Frames) /\ Len(Taken(s, k, n)) = Len(s)
         /\ Taken(s, k, n)[k].path = s[k].path /\ Taken(s, k, n)[k].names = s[k].names \ {n}
         /\ \A i \in 1 .. Len(s) : i # k => Taken(s, k, n)[i] = s[i]
<1> DEFINE u == Taken(s, k, n)
           f == [s[k] EXCEPT !.names = @ \ {n}]
<1>1. s[k] \in Frames
  OBVIOUS
<1>2. f \in Frames /\ f.path = s[k].path /\ f.names = s[k].names \ {n}
  BY <1>1 DEF Frames
<1>3. u = [s EXCEPT ![k] = f]
  BY DEF Taken
<1> HIDE DEF u, f
<1>4. /\ u \in Seq(Frames) /\ Len(u) = Len(s)
      /\ \A i \in 1 .. Len(s) : u[i] = IF i = k THEN f ELSE s[i]
  BY <1>2, <1>3
<1> QED
  BY <1>2, <1>4 DEF u

LEMMA ShadowTake ==
  ASSUME NEW P, NEW D, NEW o, NEW B, NEW E, NEW w, OnWay(P, D, o), Shadow(P, D, o, B, E, w),
         o # <<>>, Len(E) = Len(B) + Len(w) - 1, NEW n \in Names
  PROVE  Shadow(P, Append(D, n), Taken(o, Len(o), n), B, Append(E, n), Taken(w, Len(w), n))
<1> DEFINE k == Len(o)
           p == Taken(o, Len(o), n)
           v == Taken(w, Len(w), n)
<1>1. /\ o \in Seq(Frames) /\ w \in Seq(Frames) /\ k \in Nat /\ Len(w) = k
      /\ D \in Seqs \ {Top} /\ E \in Seqs \ {Top} /\ Len(B) \in Nat \ {0}
      /\ Len(P) \in Nat \ {0} /\ Len(D) \in Nat
      /\ Len(E) \in Nat /\ Len(P) <= Len(D) /\ Len(B) <= Len(E) /\ To(E, Len(B)) = B
      /\ Mirror(P, D, B, E)
      /\ \A i \in 1 .. k : w[i].names = o[i].names
      /\ \A i \in 1 .. k : w[i].path = To(E, Len(B) + i - 1)
  BY ShadowFacts
<1>2. /\ Len(p) = k /\ Len(v) = k /\ v \in Seq(Frames)
      /\ \A i \in 1 .. k : v[i].names = p[i].names /\ v[i].path = w[i].path
  <2>1. k \in 1 .. k
    BY <1>1
  <2>2. /\ Len(p) = k /\ p[k].names = o[k].names \ {n}
        /\ \A i \in 1 .. k : i # k => p[i] = o[i]
    BY <1>1, <2>1, NameTaken
  <2>3. v = Taken(w, k, n)
    BY <1>1
  <2>4. /\ Len(v) = k /\ v \in Seq(Frames)
        /\ v[k].names = w[k].names \ {n} /\ v[k].path = w[k].path
        /\ \A i \in 1 .. k : i # k => v[i] = w[i]
    <3> HIDE DEF v, k
    <3>1. w \in Seq(Frames) /\ k \in 1 .. Len(w) /\ Len(w) = k
      BY <1>1, <2>1
    <3> QED
      BY <2>3, <3>1, NameTaken
  <2> HIDE DEF p, v
  <2> QED
    BY <1>1, <2>1, <2>2, <2>4
<1>3. /\ Append(D, n) \in Seqs \ {Top} /\ Len(Append(D, n)) = Len(D) + 1
      /\ Append(D, n)[Len(D) + 1] = n /\ \A j \in 1 .. Len(D) : Append(D, n)[j] = D[j]
  BY <1>1, AppendFacts
<1>4. /\ Append(E, n) \in Seqs \ {Top} /\ Len(Append(E, n)) = Len(E) + 1
      /\ Append(E, n)[Len(E) + 1] = n /\ (\A j \in 1 .. Len(E) : Append(E, n)[j] = E[j])
      /\ \A j \in 0 .. Len(E) : To(Append(E, n), j) = To(E, j)
  BY <1>1, AppendFacts
<1>5. ASSUME NEW i \in 1 .. k PROVE v[i].path = To(Append(E, n), Len(B) + i - 1)
  <2>1. Len(B) + i - 1 \in 0 .. Len(E)
    BY <1>1
  <2> QED
    BY <1>1, <1>2, <1>4, <2>1
<1>6. Mirror(P, Append(D, n), B, Append(E, n))
  <2>0. \A i \in 1 .. Len(D) - Len(P) : E[Len(B) + i] = D[Len(P) + i]
    BY <1>1 DEF Mirror
  <2>4. /\ Len(E) + Len(P) = Len(D) + Len(B)
        /\ Len(E) \in Nat /\ Len(P) \in Nat /\ Len(D) \in Nat /\ Len(B) \in Nat
        /\ Len(P) <= Len(D) /\ Len(B) <= Len(E)
    BY <1>1 DEF Mirror
  <2>5. Len(Append(D, n)) = Len(D) + 1 /\ Len(Append(E, n)) = Len(E) + 1
    BY <1>3, <1>4
  <2>1. ASSUME NEW i \in 1 .. Len(D) + 1 - Len(P)
        PROVE  Append(E, n)[Len(B) + i] = Append(D, n)[Len(P) + i]
    <3>1. CASE i = Len(D) + 1 - Len(P)
      <4>1. Len(P) + i = Len(D) + 1 /\ Len(B) + i = Len(E) + 1
        BY <2>4, <3>1
      <4> QED
        BY <1>3, <1>4, <4>1
    <3>2. CASE i # Len(D) + 1 - Len(P)
      <4>1. i \in 1 .. Len(D) - Len(P)
        BY <2>4, <3>2
      <4>2. Len(P) + i \in 1 .. Len(D) /\ Len(B) + i \in 1 .. Len(E)
        BY <2>4, <4>1
      <4> QED
        BY <1>3, <1>4, <2>0, <4>1, <4>2
    <3> QED
      BY <3>1, <3>2
  <2>2. Len(Append(E, n)) + Len(P) = Len(Append(D, n)) + Len(B)
    BY <2>4, <2>5
  <2>3. Len(Append(D, n)) - Len(P) = Len(D) + 1 - Len(P)
    BY <2>4, <2>5
  <2> QED
    BY <2>1, <2>2, <2>3 DEF Mirror
<1>7. /\ To(Append(E, n), Len(B)) = B /\ Len(B) <= Len(Append(E, n))
  <2>1. Len(B) \in 0 .. Len(E)
    BY <1>1
  <2> QED
    BY <1>1, <1>4, <2>1
<1> HIDE DEF p, v
<1>8. Shadow(P, Append(D, n), p, B, Append(E, n), v)
  BY <1>2, <1>4, <1>5, <1>6, <1>7 DEF Shadow, OnWay
<1> QED
  BY <1>8 DEF p, v

LEMMA ShadowLeave ==
  ASSUME NEW P, NEW D, NEW o, NEW B, NEW E, NEW w, OnWay(P, D, o), Shadow(P, D, o, B, E, w),
         o # <<>>
  PROVE  Shadow(P, D, Front(o), B, E, Front(w))
<1> DEFINE k == Len(o)
<1>1. /\ o \in Seq(Frames) /\ w \in Seq(Frames) /\ k \in Nat /\ Len(w) = k
      /\ \A i \in 1 .. k : w[i].names = o[i].names
      /\ \A i \in 1 .. k : w[i].path = To(E, Len(B) + i - 1)
  BY ShadowFacts
<1>2. w # <<>>
  BY <1>1
<1>3. /\ Len(Front(o)) = k - 1 /\ \A i \in 1 .. k - 1 : Front(o)[i] = o[i]
  BY <1>1, OpenFacts
<1>4. /\ Front(w) \in Seq(Frames) /\ Len(Front(w)) = k - 1
      /\ \A i \in 1 .. k - 1 : Front(w)[i] = w[i]
  BY <1>1, <1>2, OpenFacts
<1>5. 1 .. k - 1 \subseteq 1 .. k
  BY <1>1
<1> QED
  BY <1>1, <1>3, <1>4, <1>5 DEF Shadow, OnWay

LEMMA ShadowRemove ==
  ASSUME NEW P, NEW D, NEW o, NEW B, NEW E, NEW w, OnWay(P, D, o), Shadow(P, D, o, B, E, w),
         o # <<>>, Len(E) = Len(B) + Len(w)
  PROVE  Shadow(P, Front(D), o, B, Front(E), w)
<1> DEFINE k == Len(o)
<1>1. /\ o \in Seq(Frames) /\ w \in Seq(Frames) /\ k \in Nat /\ Len(w) = k
      /\ D \in Seqs \ {Top} /\ E \in Seqs \ {Top} /\ Len(B) \in Nat \ {0} /\ Len(P) \in Nat \ {0}
      /\ Len(D) \in Nat /\ Len(E) \in Nat /\ To(E, Len(B)) = B
      /\ Mirror(P, D, B, E)
      /\ \A i \in 1 .. k : w[i].names = o[i].names
      /\ \A i \in 1 .. k : w[i].path = To(E, Len(B) + i - 1)
  BY ShadowFacts
<1>2. k # 0
  BY <1>1
<1>3. /\ Front(D) = To(D, Len(D) - 1) /\ Len(Front(D)) = Len(D) - 1
      /\ Front(E) = To(E, Len(E) - 1) /\ Len(Front(E)) = Len(E) - 1 /\ Front(E) \in Seqs
  BY <1>1, FrontLast
<1>0. /\ Len(E) + Len(P) = Len(D) + Len(B)
      /\ \A i \in 1 .. Len(D) - Len(P) : E[Len(B) + i] = D[Len(P) + i]
  BY <1>1 DEF Mirror
<1>4. Len(E) - 1 \in 0 .. Len(E) /\ Len(D) - 1 \in 0 .. Len(D) /\ Len(B) <= Len(E) - 1
  BY <1>0, <1>1, <1>2
<1>5. /\ \A j \in 0 .. Len(E) - 1 : To(Front(E), j) = To(E, j)
      /\ \A j \in 1 .. Len(E) - 1 : Front(E)[j] = E[j]
      /\ \A j \in 1 .. Len(D) - 1 : Front(D)[j] = D[j]
  <2>1. \A j \in 0 .. Len(E) - 1 : To(To(E, Len(E) - 1), j) = To(E, j)
    BY <1>1, <1>4, ToTo
  <2>2. /\ \A j \in 1 .. Len(E) - 1 : To(E, Len(E) - 1)[j] = E[j]
        /\ \A j \in 1 .. Len(D) - 1 : To(D, Len(D) - 1)[j] = D[j]
    BY <1>1, <1>4, ToFacts
  <2> QED
    BY <1>3, <2>1, <2>2
<1>6. Front(E) # Top
  BY <1>1, <1>3, <1>4, TopFacts
<1>7. To(Front(E), Len(B)) = B
  <2>1. Len(B) \in 0 .. Len(E) - 1
    BY <1>1, <1>4
  <2> QED
    BY <1>1, <1>5, <2>1
<1>8. ASSUME NEW i \in 1 .. k PROVE w[i].path = To(Front(E), Len(B) + i - 1)
  <2>1. Len(B) + i - 1 \in 0 .. Len(E) - 1
    BY <1>1
  <2> QED
    BY <1>1, <1>5, <2>1
<1>9. Mirror(P, Front(D), B, Front(E))
  <2>1. ASSUME NEW i \in 1 .. Len(D) - 1 - Len(P)
        PROVE  Front(E)[Len(B) + i] = Front(D)[Len(P) + i]
    <3>1. /\ i \in 1 .. Len(D) - Len(P) /\ Len(P) + i \in 1 .. Len(D) - 1
          /\ Len(B) + i \in 1 .. Len(E) - 1
      BY <1>0, <1>1
    <3> QED
      BY <1>0, <1>5, <3>1
  <2>2. Len(Front(E)) + Len(P) = Len(Front(D)) + Len(B)
    <3>1. /\ Len(E) + Len(P) = Len(D) + Len(B)
          /\ Len(E) \in Nat /\ Len(P) \in Nat /\ Len(D) \in Nat /\ Len(B) \in Nat
      BY <1>0, <1>1
    <3>2. Len(Front(D)) = Len(D) - 1 /\ Len(Front(E)) = Len(E) - 1
      BY <1>3
    <3> QED
      BY <3>1, <3>2
  <2> QED
    BY <1>3, <2>1, <2>2 DEF Mirror
<1>10. B \in Seqs \ {Top} /\ Len(B) <= Len(Front(E))
  BY <1>3, <1>4 DEF Shadow, OnWay
<1> QED
  BY <1>1, <1>3, <1>6, <1>7, <1>8, <1>9, <1>10 DEF Shadow, OnWay

LEMMA RmWalkShadow ==
  ASSUME NEW P, NEW D, NEW o, NEW y, RmPath' = P, Deep' = D, call'.open = o, call'.type = y,
         Exists(before', P), NEW E, NEW w, Shadow(P, D, o, Place(before', P), E, w),
         WalkAt(Place(before', P), E, w, y, tree', before')
  PROVE  RmWalk'
<1>1. E \in Seqs /\ w \in Seq(Frames)
  BY DEF Shadow, OnWay
<1>2. WalkOf(P, D, o, y, tree', before')
  BY <1>1 DEF WalkOf
<1> QED
  BY <1>2, RmWalkFrom

LEMMA RmWalkStep ==
  ASSUME Base, RmShape, RmWalk, [Next]_vars
  PROVE  RmWalk'
<1> SUFFICES ASSUME call'.op = "rm", moves' = 0, ~fault' PROVE RmWalk'
  BY DEF RmWalk
<1>0. /\ moves = 0 /\ ~fault /\ ~Other /\ before' = before
      /\ CallTyped /\ DiskInv /\ Fresh /\ IsTree(tree) /\ IsTree(before)
  <2>1. CallTyped /\ DiskInv /\ Fresh /\ IsTree(tree) /\ IsTree(before)
    BY DEF Base, DiskInv
  <2>2. moves = 0 /\ ~fault /\ ~Other /\ before' = before
    BY StaysDisturbed DEF Base
  <2> QED
    BY <2>1, <2>2
<1>1. CASE UNCHANGED vars
  <2>1. UNCHANGED <<call, tree, before>>
    BY <1>1 DEF vars
  <2>2. /\ RmPath' = RmPath /\ Deep' = Deep /\ call'.open = call.open /\ call'.type = call.type
        /\ WalkOf(RmPath, Deep, call.open, call.type, tree, before)
    BY <1>0, <2>1 DEF RmPath, Deep, RmWalk
  <2> QED
    BY <2>1, <2>2, RmWalkFrom
<1>2. CASE call = Idle /\ Start
  <2>1. PICK path \in Paths : StartRm(path)
    BY <1>2 DEF Start, StartMkdir, StartCopy, StartCase, Begin
  <2>2. /\ RmPath' = path /\ Deep' = path /\ call'.open = <<>> /\ call'.type = "unknown"
        /\ answer = <<>> /\ tree' = tree /\ path \in Seqs \ {Top}
    BY <2>1, PathsAreSeqs DEF StartRm, Begin, RmPath, Deep, disk, ClientPaths
  <2>3. tree' = before'
    BY <1>0, <1>2, <2>2 DEF Fresh
  <2> DEFINE B == Place(before', path)
  <2>4. ASSUME Exists(before', path)
        PROVE  Shadow(path, path, <<>>, B, B, <<>>) /\ WalkAt(B, B, <<>>, "unknown", tree', before')
    <3>1. B \in Seqs \ {Top}
      BY <1>0, <2>2, <2>4, LastName
    <3> HIDE DEF B
    <3>2. OnWay(B, B, <<>>) /\ Mirror(path, path, B, B)
      <4>1. Len(B) \in Nat /\ Len(path) \in Nat /\ To(B, Len(B)) = B
        BY <2>2, <3>1, ToAll DEF Seqs
      <4> QED
        BY <3>1, <4>1 DEF OnWay, Mirror
    <3> QED
      BY <1>0, <2>3, <3>2, WalkBegin DEF Shadow
  <2>5. CASE Exists(before', path)
    BY <2>2, <2>4, <2>5, RmWalkShadow
  <2>6. CASE ~Exists(before', path)
    <3>1. WalkOf(path, path, <<>>, "unknown", tree', before')
      BY <2>3, <2>6 DEF WalkOf
    <3> QED
      BY <2>2, <3>1, RmWalkFrom
  <2> QED
    BY <2>5, <2>6
<1>3. CASE call.op = "rm" /\ (RmLook \/ RmOpen \/ RmClosed \/ RmNext \/ RmCallback)
  <2>1. RmTyped /\ call' # Idle
    BY <1>0, <1>3, OpTyped DEF Idle
  <2> DEFINE P == RmPath
             D == Deep
             o == call.open
             y == call.type
             B == Place(before, P)
  <2>2. /\ OnWay(P, D, o)
        /\ y # "next" => Len(D) = Len(P) + Len(o)
        /\ y = "next" => Len(D) = Len(P) + Len(o) - 1
    BY <2>1, RmOnWay
  <2>3. WalkOf(P, D, o, y, tree, before) /\ D \in Seqs \ {Top} /\ o \in Seq(Frames)
    BY <1>0, <1>3, <2>2 DEF RmWalk, OnWay
  <2>4. /\ RmPath' = P
        /\ \/ (\E z \in {"dir", "file", "link", "gone"} : RmLooks(z)) \/ RmGivesUp
           \/ (\E f : RmOpens(f)) \/ (\E n \in Names : RmTakes(n)) \/ RmLeaves \/ RmRemoves
    BY <1>0, <1>3, <2>1, RmMove
  <2>5. o = <<>> /\ y = "unknown" => Kind(D) # "gone"
    BY <1>3, <2>1 DEF RmLook, RmOpen, RmClosed, RmNext, RmCallback, Return, Deep
  <2>6. ~RmGivesUp
    BY DEF RmGivesUp
  <2>7. Exists(before, P)
    <3> SUFFICES ASSUME ~Exists(before, P) PROVE FALSE
      OBVIOUS
    <3>1. tree = before /\ D = P /\ o = <<>> /\ y = "unknown"
      BY <2>3 DEF WalkOf
    <3> QED
      BY <2>5, <3>1 DEF Kind
  <2>8. CASE Through(before, P)
    <3>1. \A d, p, z : WalkOf(P, d, p, z, tree', before')
      BY <1>0, <2>7, <2>8 DEF WalkOf
    <3> QED
      BY <2>4, <3>1, RmWalkFrom
  <2>9. CASE ~Through(before, P)
    <3>1. PICK E \in Seqs, w \in Seq(Frames) : Shadow(P, D, o, B, E, w) /\ WalkAt(B, E, w, y, tree, before)
      BY <2>3, <2>7, <2>9 DEF WalkOf
    <3>2. /\ E \in DOMAIN tree /\ E \in DOMAIN before /\ tree[E] = before[E]
          /\ Place(tree, D) = E /\ Reached(tree, D) = Follow(tree, E)
          /\ y # "next" => Len(E) = Len(B) + Len(w)
          /\ y = "next" => Len(E) = Len(B) + Len(w) - 1
      BY <1>0, <2>2, <2>7, <2>9, <3>1, ShadowPlace
    <3> HIDE DEF P, D, o, y, B
    <3>3. /\ E \in Seqs \ {Top} /\ OnWay(B, E, w) /\ Len(w) = Len(o) /\ Len(o) \in Nat
          /\ \A i \in 1 .. Len(o) : w[i].names = o[i].names
      <4>1. OnWay(B, E, w)
        BY <3>1 DEF Shadow
      <4> QED
        BY <2>2, <3>1, <4>1, ShadowFacts
    <3>4. Exists(before', P) /\ Place(before', P) = B
      BY <1>0, <2>7 DEF B
    <3>5. o # <<>> => w # <<>> /\ Last(w).names = Last(o).names
      <4> SUFFICES ASSUME o # <<>> PROVE w # <<>> /\ Last(w).names = Last(o).names
        OBVIOUS
      <4>1. Len(o) \in Nat \ {0} /\ Last(o) = o[Len(o)]
        BY <2>3, OpenFacts
      <4>2. w # <<>>
        BY <3>3, <4>1
      <4>3. Last(w) = w[Len(w)]
        BY <3>1, <4>2, OpenFacts
      <4> QED
        BY <3>3, <4>1, <4>2, <4>3
    <3>6. ASSUME NEW z \in {"dir", "file", "link", "gone"}, RmLooks(z) PROVE RmWalk'
      <4>1. /\ Deep' = D /\ call'.open = o /\ call'.type = z /\ y = "unknown" /\ tree' = tree
            /\ z = Kind(D)
        BY <3>6 DEF RmLooks, Deep, D, o, y
      <4>2. z = before[E].kind
        BY <3>2, <4>1 DEF Kind, Exists
      <4>3. z \in {"dir", "file", "link"}
        <5>1. IsEntry(before[E])
          BY <1>0, <3>2 DEF IsTree
        <5> QED
          BY <4>2, <5>1 DEF IsEntry, Dir
      <4>4. WalkAt(B, E, w, z, tree', before')
        BY <1>0, <3>1, <3>2, <4>1, <4>2, <4>3, WalkLook
      <4> QED
        BY <2>4, <3>1, <3>4, <4>1, <4>4, RmWalkShadow
    <3>7. ASSUME NEW f, RmOpens(f) PROVE RmWalk'
      <4>1. /\ y = "dir" /\ tree' = tree /\ f.names = NamesIn(tree, Reached(tree, D))
            /\ Deep' = D /\ call'.open = Append(o, f) /\ call'.type = "next"
        BY <3>7 DEF RmOpens, D, o, y
      <4>2. Reached(tree, D) = E
        <5>1. Is("dir", before, E)
          BY <3>1, <4>1 DEF WalkAt
        <5> QED
          BY <3>2, <5>1 DEF Is, Follow
      <4> DEFINE g == [path |-> E, names |-> NamesIn(tree, E)]
      <4>3. g \in Frames
        BY <1>0, <3>3, NamesAreNames DEF Frames
      <4>4. g.path = E /\ g.names = NamesIn(tree, E) /\ f.names = g.names
        BY <4>1, <4>2
      <4> HIDE DEF g
      <4>5. Shadow(P, D, Append(o, f), B, E, Append(w, g))
        BY <2>2, <3>1, <3>2, <4>1, <4>3, <4>4, ShadowOpen
      <4>6. WalkAt(B, E, Append(w, g), "next", tree', before')
        BY <1>0, <3>1, <4>1, <4>4, WalkOpen
      <4> QED
        BY <2>4, <3>4, <4>1, <4>5, <4>6, RmWalkShadow
    <3>8. ASSUME NEW n \in Names, RmTakes(n) PROVE RmWalk'
      <4>1. /\ y = "next" /\ n \in Last(o).names /\ tree' = tree
            /\ call'.open = Taken(o, Len(o), n)
            /\ Deep' = Append(D, n) /\ call'.type = "unknown"
        BY <3>8 DEF RmTakes, Taken, D, o, y
      <4>2. o # <<>>
        BY <2>1, <4>1 DEF RmTyped, o, y
      <4>3. WalkAt(B, Append(E, n), Taken(w, Len(w), n), "unknown", tree', before')
        BY <1>0, <3>1, <3>2, <3>3, <3>5, <4>1, <4>2, WalkTake DEF Taken
      <4>4. Shadow(P, Append(D, n), Taken(o, Len(o), n), B, Append(E, n), Taken(w, Len(w), n))
        BY <2>2, <3>1, <3>2, <4>1, <4>2, ShadowTake
      <4> QED
        BY <2>4, <3>4, <4>1, <4>3, <4>4, RmWalkShadow
    <3>9. CASE RmLeaves
      <4>1. /\ y = "next" /\ Last(o).names = {} /\ tree' = tree
            /\ call'.open = Front(o) /\ Deep' = D /\ call'.type = "done"
        BY <3>9 DEF RmLeaves, D, o, y
      <4>2. o # <<>>
        BY <2>1, <4>1 DEF RmTyped, o, y
      <4>3. WalkAt(B, E, Front(w), "done", tree', before')
        BY <1>0, <3>1, <3>5, <4>1, <4>2, WalkLeave
      <4>4. Shadow(P, D, Front(o), B, E, Front(w))
        BY <2>2, <3>1, <4>2, ShadowLeave
      <4> QED
        BY <2>4, <3>4, <4>1, <4>3, <4>4, RmWalkShadow
    <3>10. CASE RmRemoves
      <4>1. /\ y \in {"file", "link", "gone", "done"} /\ o # <<>> /\ tree' = Removed(tree, D)
            /\ call'.open = o /\ Deep' = Last(o).path /\ call'.type = "next"
        BY <3>10 DEF RmRemoves, D, o, y
      <4>2. y \in {"file", "link", "done"}
        BY <3>1, <4>1 DEF WalkAt
      <4>3. tree' = Less(tree, {E}) /\ Len(E) = Len(B) + Len(w) /\ Len(D) = Len(P) + Len(o)
        BY <2>2, <3>2, <4>1, <4>2 DEF Removed
      <4>4. Last(o).path = Front(D)
        <5>1. Last(o) = o[Len(o)] /\ Len(o) \in Nat \ {0} /\ Len(o) \in 1 .. Len(o)
          BY <2>3, <4>1, OpenFacts
        <5>2. Len(P) + Len(o) - 1 = Len(D) - 1
          BY <4>3
        <5>3. Front(D) = To(D, Len(D) - 1)
          BY <2>3, FrontLast
        <5> QED
          BY <2>2, <5>1, <5>2, <5>3 DEF OnWay
      <4>5. WalkAt(B, Front(E), w, "next", Less(tree, {E}), before)
        BY <1>0, <3>1, <3>3, <3>5, <4>1, <4>2, <4>3, WalkRemove
      <4>6. Shadow(P, Front(D), o, B, Front(E), w)
        BY <2>2, <3>1, <4>1, <4>3, ShadowRemove
      <4> QED
        BY <1>0, <2>4, <3>4, <4>1, <4>3, <4>4, <4>5, <4>6, RmWalkShadow
    <3> QED
      BY <2>4, <2>6, <3>6, <3>7, <3>8, <3>9, <3>10
  <2> QED
    BY <2>8, <2>9
<1>4. CASE \/ call.op = "mkdir" /\ Mkdir
           \/ call.op = "copy" /\ (CopyStat \/ CopyUnlink \/ CopyOpen \/ CopyCreate \/ CopyRead \/ CopyWrite)
           \/ call.op = "case" /\ (CaseName \/ CaseEnd)
  <2>1. MkdirTyped' \/ CopyTyped' \/ CaseTyped' \/ call' = Idle
    BY <1>0, <1>4, OpTyped, TypedMkdir, TypedCopy, TypedCase
  <2> QED
    BY <2>1 DEF MkdirTyped, CopyTyped, CaseTyped, Idle
<1> QED
  BY <1>0, <1>1, <1>2, <1>3, <1>4, WhoseStep

(* What RmExact says of a step of the walk *)
RmAnswer ==
  LET place == Place(tree, RmPath) IN
  /\ tree' # tree /\ ~astray =>
       place \in DOMAIN tree /\ DOMAIN tree \ DOMAIN tree' \subseteq Under(tree, place)
  /\ Returns /\ answer' = <<TRUE>> => place \notin DOMAIN tree'
  /\ Returns /\ Undisturbed /\ ~Through(before, RmPath) =>
       /\ answer' = <<place \in DOMAIN before>>
       /\ tree' = IF place \in DOMAIN before THEN Less(before, Under(before, place))
                  ELSE before

LEMMA RmReturns ==
  ASSUME Base, RmShape, RmWalk, call.op = "rm", [Next]_vars,
         RmLook \/ RmOpen \/ RmClosed \/ RmNext \/ RmCallback
  PROVE  RmAnswer
<1> DEFINE P == RmPath
           D == Deep
           o == call.open
           y == call.type
<1>1. RmTyped /\ DiskInv /\ IsTree(tree) /\ IsTree(before)
  BY OpTyped DEF Base, DiskInv
<1>2. /\ OnWay(P, D, o)
      /\ y # "next" => Len(D) = Len(P) + Len(o)
      /\ y = "next" => Len(D) = Len(P) + Len(o) - 1
      /\ P \in Seqs \ {Top} /\ D \in Seqs \ {Top} /\ Len(P) <= Len(D) /\ To(D, Len(P)) = P
      /\ ~astray => \A i \in Len(P) .. Len(D) - 1 : ~Is("link", tree, Place(tree, To(D, i)))
  BY <1>1, RmOnWay, RmGeometry DEF RmShape, ShapeAt
<1>3. y # "next" => D = call.at /\ (o = <<>> => P = D)
  BY DEF Deep, RmPath
<1> HIDE DEF P, D
<1>4. ASSUME CanUnlink(tree, D) \/ CanRmdir(tree, D), ~astray
      PROVE  /\ Removed(tree, D) = Less(tree, {Place(tree, D)})
             /\ Place(tree, P) \in DOMAIN tree /\ Place(tree, D) \in Under(tree, Place(tree, P))
  <2>1. Exists(tree, D)
    BY <1>1, <1>4, Removable DEF Exists
  <2> QED
    BY <1>1, <1>2, <1>4, <2>1, Beneath DEF Removed, Exists
<1> DEFINE can == IF y \in {"file", "link"} THEN CanUnlink(tree, D) ELSE CanRmdir(tree, D)
<1>5. ASSUME RmCallback
      PROVE  /\ y \in {"file", "link", "gone", "done"}
             /\ \/ /\ can /\ tree' = Removed(tree, D)
                   /\ IF o = <<>> THEN answer' = <<TRUE>> ELSE answer' = answer
                \/ ~can /\ tree' = tree /\ answer' = <<FALSE>>
                \/ fault' /\ tree' = tree /\ answer' = <<FALSE>>
  BY <1>3, <1>5 DEF RmCallback, CallbackFails, Fails, Return, disk
<1>6. ASSUME ~RmCallback
      PROVE  /\ tree' = tree
             /\ answer' # answer =>
                  /\ answer' = <<FALSE>>
                  /\ \/ y = "unknown" /\ o = <<>> /\ Kind(D) = "gone"
                     \/ y = "dir" /\ ~Is("dir", tree, Reached(tree, D))
  <2>1. CASE RmLook
    BY <1>3, <2>1 DEF RmLook, Return, disk
  <2>2. CASE RmOpen
    BY <1>3, <2>2 DEF RmOpen, Return, disk
  <2>3. CASE RmClosed \/ RmNext
    BY <2>3 DEF RmClosed, RmNext, disk
  <2> QED
    BY <1>6, <2>1, <2>2, <2>3
<1>7. ASSUME tree' # tree, ~astray
      PROVE  /\ Place(tree, P) \in DOMAIN tree
             /\ DOMAIN tree \ DOMAIN tree' \subseteq Under(tree, Place(tree, P))
  <2>1. can /\ tree' = Removed(tree, D)
    BY <1>5, <1>6, <1>7
  <2>2. /\ tree' = Less(tree, {Place(tree, D)}) /\ Place(tree, P) \in DOMAIN tree
        /\ Place(tree, D) \in Under(tree, Place(tree, P))
    BY <1>4, <1>7, <2>1
  <2> QED
    BY <2>2 DEF Less
<1>8. ASSUME Returns, answer' = <<TRUE>> PROVE Place(tree, P) \notin DOMAIN tree'
  <2>1. RmCallback
    BY <1>6, <1>8 DEF Returns
  <2>2. y # "next" /\ can /\ o = <<>> /\ tree' = Removed(tree, D)
    BY <1>5, <1>8, <2>1 DEF Returns
  <2>3. tree' = Less(tree, {Place(tree, P)})
    BY <1>3, <2>2 DEF Removed
  <2> QED
    BY <2>3 DEF Less
<1>9. ASSUME Returns, Undisturbed, ~Through(before, P)
      PROVE  /\ answer' = <<Place(tree, P) \in DOMAIN before>>
             /\ tree' = IF Place(tree, P) \in DOMAIN before
                        THEN Less(before, Under(before, Place(tree, P))) ELSE before
  <2>1. WalkOf(P, D, o, y, tree, before)
    <3>1. moves = 0 /\ ~fault
      BY <1>9, StaysDisturbed DEF Undisturbed, Base
    <3> QED
      BY <3>1 DEF RmWalk, P, D
  <2>2. CASE ~Exists(before, P)
    <3>1. tree = before /\ D = P /\ o = <<>> /\ y = "unknown"
      BY <2>1, <2>2 DEF WalkOf
    <3>2. tree' = tree /\ answer' = <<FALSE>>
      BY <1>5, <1>6, <1>9, <3>1 DEF Returns
    <3>3. (Place(tree, P) \in DOMAIN before) = FALSE
      BY <2>2, <3>1 DEF Exists
    <3> QED
      BY <3>1, <3>2, <3>3
  <2>3. CASE Exists(before, P)
    <3> DEFINE B == Place(before, P)
    <3>1. PICK E \in Seqs, w \in Seq(Frames) : Shadow(P, D, o, B, E, w) /\ WalkAt(B, E, w, y, tree, before)
      BY <1>9, <2>1, <2>3 DEF WalkOf
    <3>2. /\ E \in DOMAIN tree /\ E \in DOMAIN before /\ tree[E] = before[E]
          /\ Place(tree, P) = B /\ Place(tree, D) = E /\ Reached(tree, D) = Follow(tree, E)
          /\ y # "next" => Len(E) = Len(B) + Len(w)
          /\ o = <<>> => w = <<>> /\ E = B
      <4>1. /\ y # "next" => Len(D) = Len(P) + Len(o)
            /\ y = "next" => Len(D) = Len(P) + Len(o) - 1
        BY <1>2
      <4> HIDE DEF o, y
      <4> QED
        BY <1>1, <1>2, <1>9, <2>3, <3>1, <4>1, ShadowPlace
    <3>3. OnWay(B, E, w) /\ B \in DOMAIN before
      BY <2>3, <3>1 DEF Shadow, Exists
    <3> HIDE DEF B
    <3>4. RmCallback
      <4> SUFFICES ASSUME ~RmCallback PROVE FALSE
        OBVIOUS
      <4>1. \/ y = "unknown" /\ o = <<>> /\ Kind(D) = "gone"
            \/ y = "dir" /\ ~Is("dir", tree, Reached(tree, D))
        BY <1>6, <1>9 DEF Returns
      <4>2. ~(y = "dir" /\ ~Is("dir", tree, Reached(tree, D)))
        <5> SUFFICES ASSUME y = "dir" PROVE Is("dir", tree, Reached(tree, D))
          OBVIOUS
        <5>1. Is("dir", before, E)
          BY <3>1 DEF WalkAt
        <5> QED
          BY <3>2, <5>1 DEF Is, Follow
      <4>3. tree[E].kind = "gone"
        BY <3>2, <4>1, <4>2 DEF Kind, Exists
      <4>4. IsEntry(tree[E])
        BY <1>1, <3>2 DEF IsTree
      <4> QED
        BY <4>3, <4>4 DEF IsEntry, Dir
    <3>5. y \in {"file", "link", "done"}
      BY <1>5, <3>1, <3>4 DEF WalkAt
    <3>6. can
      <4>1. Under(tree, E) = {E} /\ (Is("dir", tree, E) <=> y = "done")
        BY <1>1, <3>1, <3>2, <3>3, <3>5, WalkBare
      <4>2. E # Top
        BY <3>3 DEF OnWay
      <4> QED
        BY <3>2, <3>5, <4>1, <4>2 DEF CanUnlink, CanRmdir, Exists, Is
    <3>7. o = <<>> /\ answer' = <<TRUE>> /\ tree' = Removed(tree, D)
      BY <1>5, <1>9, <3>4, <3>6 DEF Returns, Undisturbed
    <3>8. tree' = Less(tree, {B})
      BY <3>2, <3>7 DEF Removed
    <3>9. Less(tree, {B}) = Less(before, Under(before, B))
      <4>1. WalkAt(B, B, <<>>, y, tree, before) /\ B \in Seqs
        BY <3>1, <3>2, <3>3, <3>7 DEF OnWay
      <4> HIDE DEF y
      <4>2. y \in {"file", "link", "done"} /\ IsTree(tree) /\ IsTree(before)
        BY <1>1, <3>5
      <4> QED
        BY <4>1, <4>2, WalkEnd
    <3> QED
      BY <3>2, <3>3, <3>7, <3>8, <3>9
  <2> QED
    BY <2>2, <2>3
<1> QED
  BY <1>7, <1>8, <1>9 DEF RmAnswer, P

(* nc_rm_rf removes only what is at its path or below it, wherever links   *)
(* lead and whatever the other process makes of the tree, as long as it    *)
(* puts no link where none was, for every tree and path; when it answers   *)
(* true the path is gone; undisturbed it removes all that is there, unless *)
(* the path leads through what it names.                                   *)
THEOREM RmAlwaysExact == Spec => RmExact
<1>1. Init => RmShape /\ RmWalk
  BY DEF Init, RmShape, RmWalk, Idle
<1>2. Base /\ RmShape /\ [Next]_vars => RmShape'
  BY RmShapeStep, DiskStep DEF Base
<1>3. Base /\ RmShape /\ RmWalk /\ [Next]_vars => RmWalk'
  BY RmWalkStep
<1>4. Base /\ RmShape /\ RmWalk /\ [Next]_vars => [StepOf("rm") => RmAnswer]_vars
  <2> SUFFICES ASSUME Base, RmShape, RmWalk, [Next]_vars, StepOf("rm"), ~UNCHANGED vars
               PROVE  RmAnswer
    OBVIOUS
  <2>1. call.op = "rm" /\ moves' = moves /\ moves \in Nat
    BY DEF StepOf, Base
  <2>2. ~Other
    BY <2>1 DEF Other
  <2>3. RmLook \/ RmOpen \/ RmClosed \/ RmNext \/ RmCallback
    BY <2>1, <2>2, WhoseStep DEF Idle
  <2> QED
    BY <2>1, <2>3, RmReturns
<1>5. Spec => [][StepOf("rm") => RmAnswer]_vars
  BY <1>1, <1>2, <1>3, <1>4, BaseInit, BaseStep, PTL DEF Spec
<1> QED
  BY <1>5 DEF RmExact, RmAnswer

-----------------------------------------------------------------------------
(* nc_copy_file: the bytes *)

(* What the buffer holds when n bytes of s are in the target *)
LastBlock(s, n) == [j \in 1 .. BufferSize |-> IF n = 0 THEN Zero ELSE s[n - BufferSize + j]]

(* The next bytes of s in it *)
Filled(s, n, r) == [j \in 1 .. BufferSize |-> IF j <= r THEN s[n + j] ELSE LastBlock(s, n)[j]]

Blocks(n) == \E k \in Nat : n = k * BufferSize

LEMMA BlockFacts ==
  ASSUME NEW n \in Nat, Blocks(n)
  PROVE  /\ BufferSize \in Nat \ {0} /\ (n = 0 \/ n >= BufferSize) /\ Blocks(n + BufferSize)
         /\ \A r \in Nat : r < BufferSize => ((n + r) \div BufferSize + 1) * BufferSize = n + BufferSize
<1> DEFINE B == BufferSize
<1>1. B \in Nat \ {0}
  BY FilesAssumption
<1>2. PICK k \in Nat : n = k * B
  BY DEF Blocks
<1> HIDE DEF B
<1>3. n = 0 \/ n >= B
  <2>1. CASE k = 0
    BY <1>1, <1>2, <2>1
  <2>2. CASE k # 0
    <3>1. k - 1 \in Nat /\ (k - 1) * B \in Nat /\ k * B = (k - 1) * B + B
      BY <1>1, <2>2
    <3> QED
      BY <1>1, <1>2, <3>1
  <2> QED
    BY <2>1, <2>2
<1>4. k + 1 \in Nat /\ n + B = (k + 1) * B
  BY <1>1, <1>2
<1>5. ASSUME NEW r \in Nat, r < B PROVE (n + r) \div B = k
  <2> DEFINE q == (n + r) \div B
  <2>1. q \in Int /\ q * B <= n + r /\ n + r < q * B + B
    BY <1>1, <1>5
  <2> HIDE DEF q
  <2>2. ~(q < k)
    <3> SUFFICES ASSUME q < k PROVE FALSE
      OBVIOUS
    <3>1. k - q - 1 \in Nat /\ (k - q - 1) * B \in Nat /\ k * B = q * B + B + (k - q - 1) * B
      BY <1>1, <2>1
    <3> QED
      BY <1>1, <1>2, <1>5, <2>1, <3>1
  <2>3. ~(q > k)
    <3> SUFFICES ASSUME q > k PROVE FALSE
      OBVIOUS
    <3>1. q - k - 1 \in Nat /\ (q - k - 1) * B \in Nat /\ q * B = k * B + B + (q - k - 1) * B
      BY <1>1, <2>1
    <3> QED
      BY <1>1, <1>2, <1>5, <2>1, <3>1
  <2> QED
    BY <2>1, <2>2, <2>3 DEF q
<1> QED
  BY <1>1, <1>3, <1>4, <1>5 DEF Blocks, B

LEMMA LastBlockTyped ==
  ASSUME NEW s \in Seq(Bytes), NEW n \in Nat, Blocks(n), n <= Len(s)
  PROVE  LastBlock(s, n) \in [1 .. BufferSize -> Bytes]
<1>1. BufferSize \in Nat \ {0} /\ (n = 0 \/ n >= BufferSize) /\ Zero \in Bytes
  BY BlockFacts, FilesAssumption
<1>2. ASSUME NEW j \in 1 .. BufferSize, n # 0 PROVE s[n - BufferSize + j] \in Bytes
  <2>1. n - BufferSize + j \in 1 .. Len(s)
    BY <1>1, <1>2
  <2> QED
    BY <2>1
<1> QED
  BY <1>1, <1>2 DEF LastBlock

LEMMA FilledTyped ==
  ASSUME NEW s \in Seq(Bytes), NEW n \in Nat, Blocks(n), NEW r \in 0 .. BufferSize, n + r <= Len(s)
  PROVE  Filled(s, n, r) \in [1 .. BufferSize -> Bytes]
<1>1. BufferSize \in Nat \ {0}
  BY FilesAssumption
<1>2. LastBlock(s, n) \in [1 .. BufferSize -> Bytes]
  BY <1>1, LastBlockTyped
<1>3. ASSUME NEW j \in 1 .. BufferSize, j <= r PROVE s[n + j] \in Bytes
  <2>1. n + j \in 1 .. Len(s)
    BY <1>1, <1>3
  <2> QED
    BY <2>1
<1> QED
  BY <1>2, <1>3 DEF Filled

(* What a write makes of the target *)
LEMMA Written ==
  ASSUME NEW s \in Seq(Bytes), NEW n \in Nat, n <= Len(s), NEW f \in [1 .. BufferSize -> Bytes]
  PROVE  LET w == SubSeq(s, 1, n) \o SubSeq(f, 1, BufferSize) IN
         /\ w \in Seq(Bytes) /\ Len(w) = n + BufferSize
         /\ \A i \in 1 .. n + BufferSize : w[i] = IF i <= n THEN s[i] ELSE f[i - n]
<1>1. BufferSize \in Nat \ {0}
  BY FilesAssumption
<1>2. /\ SubSeq(s, 1, n) \in Seq(Bytes) /\ Len(SubSeq(s, 1, n)) = n
      /\ \A i \in 1 .. n : SubSeq(s, 1, n)[i] = s[i]
  OBVIOUS
<1>3. f \in Seq(Bytes) /\ Len(f) = BufferSize
  BY <1>1
<1>4. /\ SubSeq(f, 1, BufferSize) \in Seq(Bytes) /\ Len(SubSeq(f, 1, BufferSize)) = BufferSize
      /\ \A i \in 1 .. BufferSize : SubSeq(f, 1, BufferSize)[i] = f[i]
  BY <1>1, <1>3
<1> QED
  BY <1>1, <1>2, <1>4

LEMMA SameBytes ==
  ASSUME NEW v \in Seq(Bytes), NEW w \in Seq(Bytes), Len(v) = Len(w), \A i \in 1 .. Len(v) : v[i] = w[i]
  PROVE  v = w
OBVIOUS

LEMMA FullBlock ==
  ASSUME NEW s \in Seq(Bytes), NEW n \in Nat, Blocks(n), n + BufferSize <= Len(s)
  PROVE  /\ SubSeq(s, 1, n) \o SubSeq(Filled(s, n, BufferSize), 1, BufferSize)
              = SubSeq(s, 1, n + BufferSize)
         /\ Filled(s, n, BufferSize) = LastBlock(s, n + BufferSize)
<1> DEFINE f == Filled(s, n, BufferSize)
<1>1. BufferSize \in Nat \ {0}
  BY FilesAssumption
<1>2. f \in [1 .. BufferSize -> Bytes] /\ \A j \in 1 .. BufferSize : f[j] = s[n + j]
  BY <1>1, FilledTyped DEF Filled
<1>3. f = LastBlock(s, n + BufferSize)
  BY <1>1 DEF LastBlock, Filled
<1> HIDE DEF f
<1>4. SubSeq(s, 1, n) \o SubSeq(f, 1, BufferSize) = SubSeq(s, 1, n + BufferSize)
  <2> DEFINE v == SubSeq(s, 1, n) \o SubSeq(f, 1, BufferSize)
             w == SubSeq(s, 1, n + BufferSize)
  <2>1. /\ v \in Seq(Bytes) /\ Len(v) = n + BufferSize
        /\ \A i \in 1 .. n + BufferSize : v[i] = IF i <= n THEN s[i] ELSE f[i - n]
    <3>1. n <= Len(s) /\ f \in [1 .. BufferSize -> Bytes]
      BY <1>1, <1>2
    <3> QED
      BY <3>1, Written
  <2> DEFINE l == n + BufferSize
  <2>l. l \in 0 .. Len(s) /\ l \in Nat /\ Len(s) \in Nat
    BY <1>1
  <2>2. w \in Seq(Bytes) /\ Len(w) = l /\ \A i \in 1 .. l : w[i] = s[i]
    <3> HIDE DEF l
    <3>1. LET u == SubSeq(s, 1, l) IN u \in Seq(Bytes) /\ Len(u) = l /\ \A i \in 1 .. l : u[i] = s[i]
      BY <2>l
    <3> QED
      BY <3>1 DEF l
  <2> HIDE DEF v, w
  <2>3. ASSUME NEW i \in 1 .. l PROVE v[i] = w[i]
    <3>1. CASE i <= n
      BY <2>1, <2>2, <3>1
    <3>2. CASE ~(i <= n)
      <4>1. i - n \in 1 .. BufferSize /\ n + (i - n) = i
        BY <1>1, <3>2
      <4> QED
        BY <1>2, <2>1, <2>2, <3>2, <4>1
    <3> QED
      BY <3>1, <3>2
  <2>4. v = w
    BY <2>1, <2>2, <2>3, SameBytes
  <2> QED
    BY <2>4 DEF v, w
<1> QED
  BY <1>3, <1>4 DEF f

LEMMA EndBlock ==
  ASSUME NEW s \in Seq(Bytes), NEW n \in Nat, Blocks(n), NEW r \in Nat, r < BufferSize,
         Len(s) = n + r
  PROVE  SubSeq(s, 1, n) \o SubSeq(Filled(s, n, r), 1, BufferSize) = Padded(s)
<1> DEFINE f == Filled(s, n, r)
           v == SubSeq(s, 1, n) \o SubSeq(f, 1, BufferSize)
<1>1. /\ BufferSize \in Nat \ {0} /\ (n = 0 \/ n >= BufferSize) /\ Zero \in Bytes
      /\ (Len(s) \div BufferSize + 1) * BufferSize = n + BufferSize
  BY BlockFacts, FilesAssumption
<1>2. /\ f \in [1 .. BufferSize -> Bytes]
      /\ \A j \in 1 .. BufferSize :
           f[j] = IF j <= r THEN s[n + j] ELSE IF n = 0 THEN Zero ELSE s[n - BufferSize + j]
  <2>1. r \in 0 .. BufferSize /\ n + r <= Len(s)
    BY <1>1
  <2>2. f \in [1 .. BufferSize -> Bytes]
    BY <2>1, FilledTyped
  <2>3. \A j \in 1 .. BufferSize :
           f[j] = IF j <= r THEN s[n + j] ELSE IF n = 0 THEN Zero ELSE s[n - BufferSize + j]
    BY DEF Filled, LastBlock
  <2> QED
    BY <2>2, <2>3
<1> HIDE DEF f
<1>3. /\ v \in Seq(Bytes) /\ Len(v) = n + BufferSize
      /\ \A i \in 1 .. n + BufferSize : v[i] = IF i <= n THEN s[i] ELSE f[i - n]
  <2>1. n <= Len(s)
    OBVIOUS
  <2> QED
    BY <1>2, <2>1, Written
<1> HIDE DEF v
<1>4. v = [i \in 1 .. n + BufferSize |-> v[i]]
  <2>1. v = [i \in 1 .. Len(v) |-> v[i]]
    BY <1>3
  <2> QED
    BY <1>3, <2>1
<1>5. ASSUME NEW i \in 1 .. n + BufferSize
      PROVE  v[i] = IF i <= Len(s) THEN s[i] ELSE IF i <= BufferSize THEN Zero ELSE s[i - BufferSize]
  <2>1. CASE i <= n
    BY <1>1, <1>3, <2>1
  <2>2. CASE ~(i <= n)
    <3>1. i - n \in 1 .. BufferSize /\ n + (i - n) = i /\ n - BufferSize + (i - n) = i - BufferSize
      BY <1>1, <2>2
    <3>2. v[i] = IF i - n <= r THEN s[i] ELSE IF n = 0 THEN Zero ELSE s[i - BufferSize]
      BY <1>2, <1>3, <2>2, <3>1
    <3>3. i - n <= r <=> i <= Len(s)
      BY <1>1
    <3>4. n = 0 <=> i <= BufferSize
      BY <1>1, <2>2, <3>1
    <3> QED
      BY <3>2, <3>3, <3>4
  <2> QED
    BY <2>1, <2>2
<1>6. v = Padded(s)
  BY <1>1, <1>4, <1>5 DEF Padded
<1> QED
  BY <1>6 DEF v, f

(* A call of nc_copy_file: the tree it works in when the target was        *)
(* removed, the places its paths lead to there, and what it reads          *)
Began  == IF call.remove THEN Removed(before, call.dst) ELSE before
From   == Reached(Began, call.src)
Onto   == Reached(Began, call.dst)
SrcFd  == IF Is("file", Began, From) THEN Began[From].ino ELSE None
Same   == /\ Is("file", Began, From) /\ Is("file", Began, Onto)
          /\ Began[From].ino = Began[Onto].ino
Source == IF SrcFd = None \/ Same THEN <<>> ELSE Contents[SrcFd]

LEMMA FileOver ==
  ASSUME NEW t, IsTree(t), NEW p, NEW i,
         \/ Is("file", t, p)
         \/ p \in Seqs /\ p \notin DOMAIN t /\ Is("dir", t, Front(p))
  PROVE  /\ IsTree(With(t, p, File(i))) /\ Is("file", With(t, p, File(i)), p)
         /\ With(t, p, File(i))[p].ino = i
         /\ \A q : Is("dir", With(t, p, File(i)), q) <=> Is("dir", t, q)
         /\ \A q : Is("link", With(t, p, File(i)), q) <=> Is("link", t, q)
         /\ \A q \in DOMAIN t : q # p => With(t, p, File(i))[q] = t[q]
<1> DEFINE new == With(t, p, File(i))
           e == File(i)
<1>1. IsEntry(e) /\ e.kind = "file" /\ e.ino = i
  BY DEF IsEntry, File
<1>2. /\ new = [q \in DOMAIN new |-> new[q]] /\ DOMAIN new = DOMAIN t \cup {p} /\ new[p] = e
      /\ \A q \in DOMAIN t : q # p => new[q] = t[q]
  BY DEF With
<1>3. ~Is("dir", t, p) /\ ~Is("link", t, p)
  BY DEF Is
<1> HIDE DEF new, e
<1>4. /\ \A q : Is("dir", new, q) <=> Is("dir", t, q)
      /\ \A q : Is("link", new, q) <=> Is("link", t, q)
      /\ Is("file", new, p)
  BY <1>1, <1>2, <1>3 DEF Is
<1>5. IsTree(new)
  <2>1. CASE Is("file", t, p)
    <3>1. DOMAIN new = DOMAIN t /\ \A q \in DOMAIN new : IsEntry(new[q])
      BY <1>1, <1>2, <2>1 DEF IsTree, Is
    <3> QED
      BY <1>2, <1>4, <3>1 DEF IsTree
  <2>2. CASE p \in Seqs /\ p \notin DOMAIN t /\ Is("dir", t, Front(p))
    BY <1>1, <2>2, WithTree DEF new, e
  <2> QED
    BY <2>1, <2>2
<1> QED
  BY <1>1, <1>2, <1>4, <1>5 DEF new, e

(* A file is made, or made empty, where a path leads: that is where the    *)
(* path leads afterwards.                                                  *)
LEMMA OpenedAt ==
  ASSUME NEW t, IsTree(t), NEW path \in Seqs \ {Top}, NEW i, NEW p, p = Reached(t, path),
         Is("file", t, p) \/ (p # None /\ p \notin DOMAIN t /\ Is("dir", t, Front(p)))
  PROVE  /\ p \in Seqs /\ IsTree(With(t, p, File(i)))
         /\ Is("file", With(t, p, File(i)), p) /\ With(t, p, File(i))[p].ino = i
         /\ Reached(With(t, p, File(i)), path) = p
<1> DEFINE new == With(t, p, File(i))
           q == Place(t, path)
<1>1. p # None /\ p \in Seqs
  BY TreeFacts, ReachedSeq DEF Is
<1>2. Is("dir", t, Reached(t, Front(path))) /\ p = Follow(t, q)
  BY <1>1, LastName
<1>3. /\ IsTree(new) /\ Is("file", new, p) /\ new[p].ino = i
      /\ \A r : Is("dir", new, r) <=> Is("dir", t, r)
      /\ \A r : Is("link", new, r) <=> Is("link", t, r)
      /\ DOMAIN t \subseteq DOMAIN new /\ \A r \in DOMAIN t : r # p => new[r] = t[r]
  <2>1. DOMAIN t \subseteq DOMAIN new
    BY DEF With
  <2>2. Is("file", t, p) \/ (p \in Seqs /\ p \notin DOMAIN t /\ Is("dir", t, Front(p)))
    BY <1>1
  <2> QED
    BY <2>1, <2>2, FileOver
<1> HIDE DEF new, q
<1>4. \A r : Is("link", t, r) => new[r].to = t[r].to
  <2>1. \A r : Is("link", t, r) => r \in DOMAIN t /\ r # p
    BY <1>3 DEF Is
  <2> QED
    BY <1>3, <2>1
<1>5. Extends(t, new)
  BY <1>3, <1>4 DEF Extends
<1>6. Place(new, path) = q /\ Reached(new, Front(path)) = Reached(t, Front(path))
  BY <1>2, <1>3, <1>5, SamePlace DEF q
<1>7. Reached(new, path) = Follow(new, q)
  BY <1>2, <1>3, <1>6, LastName
<1>8. Follow(new, q) = Follow(t, q)
  BY <1>3, <1>4 DEF Follow
<1> QED
  BY <1>1, <1>2, <1>3, <1>7, <1>8 DEF new

(* The tree a copy works in *)
LEMMA BeganFacts ==
  ASSUME CopyTyped, DiskInv
  PROVE  /\ call.src \in Seqs \ {Top} /\ call.dst \in Seqs \ {Top}
         /\ DOMAIN Began \subseteq DOMAIN before /\ None \notin DOMAIN Began
         /\ \A q \in DOMAIN Began : Began[q] = before[q]
         /\ ~Exists(before, call.dst) => Began = before
         /\ CanUnlink(before, call.dst) => IsTree(Began)
<1>1. /\ call.src \in Seqs \ {Top} /\ call.dst \in Seqs \ {Top} /\ IsTree(before)
  BY PathsAreSeqs DEF CopyTyped, ClientPaths, DiskInv
<1>2. DOMAIN Began \subseteq DOMAIN before /\ \A q \in DOMAIN Began : Began[q] = before[q]
  BY DEF Began, Removed, Less
<1>3. ~Exists(before, call.dst) => Began = before
  BY <1>1 DEF Exists, Began, Removed, Less, IsTree
<1>4. CanUnlink(before, call.dst) => IsTree(Began)
  BY <1>1, Removable DEF Began
<1> QED
  BY <1>1, <1>2, <1>3, <1>4, TreeFacts

(* A removed target is no file in the tree the copy works in. *)
LEMMA NoTarget ==
  ASSUME CopyTyped, DiskInv, call.remove PROVE ~Is("file", Began, Onto)
<1> DEFINE P == call.dst
           d == Reached(before, Front(P))
           r == Reached(Began, Front(P))
           p == Place(before, P)
<1>1. P \in Seqs \ {Top} /\ None \notin DOMAIN Began /\ IsTree(before)
  BY BeganFacts DEF DiskInv
<1>2. Began = Less(before, {p}) /\ p \notin DOMAIN Began
  BY DEF Began, Removed, Less
<1>3. Front(P) \in Seqs /\ Last(P) \in Names /\ Append(Front(P), Last(P)) = P
  BY <1>1, FrontLast
<1>4. Onto = Enter(Began, r, Last(P))
  BY <1>3, AppendReached DEF Onto
<1>5. p = IF Is("dir", before, d) THEN Append(d, Last(P)) ELSE None
  BY <1>1, LastName
<1>6. Is("dir", Began, r) => r = d /\ Is("dir", before, d)
  <2>1. r \in DOMAIN Began => r = d
    <3>1. \A q \in Seqs : Reached(Began, q) \in DOMAIN Began => Reached(Began, q) = Reached(before, q)
      <4> HIDE DEF d, r, p
      <4> QED
        BY <1>1, <1>2, LessWays
    <3> QED
      BY <1>3, <3>1
  <2>2. \A q : Is("dir", Began, q) => Is("dir", before, q)
    BY <1>2 DEF Less, Is
  <2> HIDE DEF d, r, p
  <2> QED
    BY <2>1, <2>2 DEF Is
<1> HIDE DEF d, r, p
<1> QED
  BY <1>1, <1>2, <1>4, <1>5, <1>6 DEF Enter, Is

(* What a copy has done when it has come to a step *)
Fields == /\ call.do \in {"stat", "unlink", "open", "create", "read", "write"}
          /\ call.do \in {"stat", "unlink"} => call.remove

Unstarted ==
  /\ content = Contents /\ call.pos = 0 /\ call.buffer = Zeros
  /\ call.dest_fd = None
  /\ tree = IF call.do \in {"stat", "unlink"} THEN before ELSE Began
  /\ call.do = "create" => From \in DOMAIN Began /\ call.src_fd = SrcFd

(* The target is a file of its own, unless it is the source. *)
Started ==
  /\ call.src_fd = SrcFd /\ call.dest_fd \in Inodes
  /\ IsTree(Began) /\ tree = With(Began, Onto, File(call.dest_fd))
  /\ \/ Is("file", Began, Onto) /\ call.dest_fd = Began[Onto].ino
     \/ /\ Onto # None /\ Onto \notin DOMAIN Began /\ Is("dir", Began, Front(Onto))
        /\ call.dest_fd \notin InodesIn(Began)
  /\ DOMAIN content = Inodes
  /\ \A i \in Inodes : i # call.dest_fd => content[i] = Contents[i]

(* n bytes of the source are in the target; in the buffer is the block     *)
(* before them, or the one that comes next.                                *)
LoopAt(n) ==
  /\ Blocks(n) /\ n <= Len(Source) /\ content[call.dest_fd] = SubSeq(Source, 1, n)
  /\ call.do = "read" => call.pos = n /\ call.buffer = LastBlock(Source, n)
  /\ call.do = "write" =>
       /\ SrcFd # None
       /\ call.r = IF Len(Source) - n < BufferSize THEN Len(Source) - n ELSE BufferSize
       /\ call.pos = n + call.r /\ call.buffer = Filled(Source, n, call.r)

CopyInv ==
  call.op = "copy" /\ moves = 0 =>
    /\ Fields
    /\ call.do \notin {"read", "write"} => Unstarted
    /\ call.do \in {"read", "write"} => Started /\ (~fault => \E n \in Nat : LoopAt(n))

LEMMA SourceTyped ==
  ASSUME CopyTyped, DiskInv
  PROVE  /\ Source \in Seq(Bytes) /\ SrcFd \in Inodes \cup {None}
         /\ InodesIn(Began) \subseteq InodesIn(before)
         /\ SrcFd # None <=> Is("file", Began, From)
<1>1. InodesIn(Began) \subseteq InodesIn(before)
  BY BeganFacts DEF InodesIn
<1>2. InodesIn(before) \subseteq Inodes /\ None \notin Inodes /\ Contents \in [Inodes -> Seq(Bytes)]
  BY FilesAssumption DEF DiskInv
<1>3. Is("file", Began, From) => Began[From].ino \in InodesIn(Began)
  BY DEF Is, InodesIn
<1>4. SrcFd \in Inodes \cup {None} /\ (SrcFd # None <=> Is("file", Began, From))
  BY <1>1, <1>2, <1>3 DEF SrcFd
<1>5. Source \in Seq(Bytes)
  BY <1>2, <1>4 DEF Source
<1> QED
  BY <1>1, <1>4, <1>5

(* The target is the file that is read only if both paths lead to it.      *)
LEMMA Apart ==
  ASSUME CopyTyped, DiskInv, SrcFd # None, NEW i,
         \/ Is("file", Began, Onto) /\ i = Began[Onto].ino
         \/ Onto \notin DOMAIN Began /\ i \notin InodesIn(Began)
  PROVE  i = SrcFd <=> Same
<1>1. /\ Is("file", Began, From) /\ SrcFd = Began[From].ino /\ SrcFd \in InodesIn(Began)
  BY SourceTyped DEF SrcFd, InodesIn, Is
<1>2. CASE Is("file", Began, Onto) /\ i = Began[Onto].ino
  BY <1>1, <1>2 DEF Same
<1>3. CASE Onto \notin DOMAIN Began /\ i \notin InodesIn(Began)
  BY <1>1, <1>3 DEF Same, Is
<1> QED
  BY <1>2, <1>3

(* What is read is the source, unless it has become the target.            *)
LEMMA SourceIs ==
  ASSUME CopyTyped, DiskInv, Started, SrcFd # None, NEW n \in Nat, LoopAt(n)
  PROVE  content[SrcFd] = Source
<1>1. Source \in Seq(Bytes) /\ SrcFd \in Inodes /\ (call.dest_fd = SrcFd <=> Same)
  BY SourceTyped, Apart DEF Started
<1>2. CASE Same
  <2>1. Source = <<>> /\ call.dest_fd = SrcFd
    BY <1>1, <1>2 DEF Source
  <2>2. n = 0 /\ SubSeq(Source, 1, n) = <<>>
    BY <2>1 DEF LoopAt
  <2> QED
    BY <2>1, <2>2 DEF LoopAt
<1>3. CASE ~Same
  <2>1. Source = Contents[SrcFd] /\ call.dest_fd # SrcFd
    BY <1>1, <1>3 DEF Source
  <2> QED
    BY <1>1, <2>1 DEF Started
<1> QED
  BY <1>2, <1>3

(* Of a call only the progress changes. *)
LEMMA CopyKeeps ==
  ASSUME CopyTyped, call'.op = "copy", before' = before,
         CopyStat \/ CopyUnlink \/ CopyOpen \/ CopyCreate \/ CopyRead \/ CopyWrite
  PROVE  /\ call'.src = call.src /\ call'.dst = call.dst /\ call'.remove = call.remove
         /\ Began' = Began /\ From' = From /\ Onto' = Onto /\ SrcFd' = SrcFd
         /\ Same' = Same /\ Source' = Source
<1>1. call'.src = call.src /\ call'.dst = call.dst /\ call'.remove = call.remove
  <2>0. call' # Idle
    BY DEF Idle
  <2>1. CASE CopyStat
    BY <2>1 DEF CopyStat, CopyTyped, Has
  <2>2. CASE CopyUnlink
    BY <2>0, <2>2 DEF CopyUnlink, Fails, Return, CopyTyped, Has
  <2>3. CASE CopyOpen
    BY <2>0, <2>3 DEF CopyOpen, Fails, Return, CopyTyped, Has
  <2>4. CASE CopyCreate
    BY <2>0, <2>4 DEF CopyCreate, Fails, Return, CopyTyped, Has
  <2>5. CASE CopyRead
    BY <2>0, <2>5 DEF CopyRead, Fails, Return, CopyTyped, Has
  <2>6. CASE CopyWrite
    BY <2>0, <2>6 DEF CopyWrite, Return, CopyTyped, Has
  <2> QED
    BY <2>1, <2>2, <2>3, <2>4, <2>5, <2>6
<1>2. Began' = Began
  BY <1>1 DEF Began
<1>3. From' = From /\ Onto' = Onto
  BY <1>1, <1>2 DEF From, Onto
<1>4. SrcFd' = SrcFd /\ Same' = Same
  BY <1>2, <1>3 DEF SrcFd, Same
<1> QED
  BY <1>1, <1>2, <1>3, <1>4 DEF Source

(* Opening the target *)
LEMMA CopyCreates ==
  ASSUME CopyTyped, DiskInv, Unstarted, CopyCreate, call'.op = "copy",
         before' = before
  PROVE  Started' /\ LoopAt(0)' /\ call'.do = "read"
<1> DEFINE i == IF Is("file", tree, Onto) THEN tree[Onto].ino ELSE NewInode
<1>1. tree = Began /\ IsTree(Began) /\ call.do = "create" /\ From \in DOMAIN Began
  BY DEF CopyCreate, Copying, Unstarted, DiskInv
<1>2. /\ content = Contents /\ call.pos = 0 /\ call.buffer = Zeros /\ call.dest_fd = None
      /\ call.src_fd = SrcFd
  BY <1>1 DEF Unstarted
<1>3. call' # Idle
  BY DEF Idle
<1>4. /\ Is("file", tree, Onto) \/ HasRoom(Onto)
      /\ tree' = With(tree, Onto, File(i)) /\ content' = Truncated(i)
      /\ call' = [call EXCEPT !.do = "read", !.dest_fd = i]
  BY <1>1, <1>3 DEF CopyCreate, Fails, Return, Onto
<1>5. i \in Inodes /\ (~Is("file", tree, Onto) => i \notin InodesIn(Began))
  <2>1. InodesIn(Began) \subseteq InodesIn(before) /\ InodesIn(before) \subseteq Inodes
    BY SourceTyped, FilesAssumption DEF DiskInv
  <2>2. CASE Is("file", tree, Onto)
    <3>1. i \in InodesIn(Began)
      BY <1>1, <2>2 DEF InodesIn, Is
    <3> QED
      BY <2>1, <2>2, <3>1
  <2>3. CASE ~Is("file", tree, Onto)
    <3>1. InodesIn(Began) \subseteq InUse
      BY <1>1 DEF InUse
    <3>2. NewInode \in Inodes /\ NewInode \notin InUse
      BY <1>4, <2>3 DEF HasRoom, InodeLeft, NewInode
    <3> QED
      BY <2>3, <3>1, <3>2
  <2> QED
    BY <2>2, <2>3
<1> HIDE DEF i
<1>6. /\ call'.do = "read" /\ call'.dest_fd = i /\ call'.src_fd = SrcFd /\ call'.pos = 0
      /\ call'.buffer = Zeros
  BY <1>2, <1>4 DEF CopyTyped, Has
<1>7. Began' = Began /\ Onto' = Onto /\ SrcFd' = SrcFd /\ Source' = Source
  BY CopyKeeps
<1>8. /\ DOMAIN content' = Inodes /\ content'[i] = <<>>
      /\ \A j \in Inodes : j # i => content'[j] = Contents[j]
  BY <1>2, <1>4, <1>5, FilesAssumption DEF Truncated
<1>9. Started'
  <2>1. /\ tree' = With(Began, Onto, File(i))
        /\ \/ Is("file", Began, Onto) /\ i = Began[Onto].ino
           \/ /\ Onto # None /\ Onto \notin DOMAIN Began /\ Is("dir", Began, Front(Onto))
              /\ i \notin InodesIn(Began)
    BY <1>1, <1>4, <1>5 DEF HasRoom, i
  <2> QED
    BY <1>1, <1>5, <1>6, <1>7, <1>8, <2>1 DEF Started
<1>10. LoopAt(0)'
  <2>1. Source \in Seq(Bytes)
    BY SourceTyped
  <2>2. SubSeq(Source, 1, 0) = <<>> /\ 0 <= Len(Source) /\ Zeros = LastBlock(Source, 0)
    BY <2>1 DEF Zeros, LastBlock
  <2>3. Blocks(0)
    <3>1. 0 = 0 * BufferSize
      BY FilesAssumption
    <3> QED
      BY <3>1 DEF Blocks
  <2> QED
    BY <1>6, <1>7, <1>8, <2>2, <2>3 DEF LoopAt
<1> QED
  BY <1>6, <1>9, <1>10

(* Reading a block *)
LEMMA CopyReads ==
  ASSUME CopyTyped, DiskInv, Started, CopyRead, call'.op = "copy",
         before' = before
  PROVE  /\ Started' /\ call'.do = "write"
         /\ \A n \in Nat : LoopAt(n) => LoopAt(n)'
<1>1. call' # Idle
  BY DEF Idle
<1> DEFINE c == content[SrcFd]
           rest == SubSeq(c, call.pos + 1, Len(c))
           r == IF Len(rest) < BufferSize THEN Len(rest) ELSE BufferSize
           b == [j \in 1 .. BufferSize |-> IF j <= r THEN rest[j] ELSE call.buffer[j]]
<1>2. /\ call.src_fd = SrcFd /\ SrcFd # None /\ call.do = "read"
      /\ call' = [call EXCEPT !.do = "write", !.r = r, !.pos = @ + r, !.buffer = b]
      /\ tree' = tree /\ content' = content
  <2>1. call.src_fd = SrcFd
    BY DEF Started
  <2> QED
    BY <1>1, <2>1 DEF CopyRead, Copying, Fails, Return, disk
<1> HIDE DEF b, r
<1>3. /\ call'.do = "write" /\ call'.dest_fd = call.dest_fd /\ call'.src_fd = call.src_fd
      /\ call'.r = r /\ call'.pos = call.pos + r /\ call'.buffer = b
  BY <1>2 DEF CopyTyped, Has
<1>4. Began' = Began /\ Onto' = Onto /\ SrcFd' = SrcFd /\ Source' = Source
  BY CopyKeeps
<1>5. Started'
  BY <1>2, <1>3, <1>4 DEF Started
<1>6. ASSUME NEW n \in Nat, LoopAt(n) PROVE LoopAt(n)'
  <2>1. c = Source /\ Source \in Seq(Bytes)
    BY <1>2, <1>6, SourceIs, SourceTyped
  <2>2. call.pos = n /\ n <= Len(Source) /\ call.buffer = LastBlock(Source, n)
    BY <1>2, <1>6 DEF LoopAt
  <2>3. Len(rest) = Len(Source) - n /\ \A j \in 1 .. Len(rest) : rest[j] = Source[n + j]
    BY <2>1, <2>2
  <2>4. r = (IF Len(Source) - n < BufferSize THEN Len(Source) - n ELSE BufferSize)
    BY <2>3 DEF r
  <2>5. \A j \in 1 .. BufferSize : j <= r => j \in 1 .. Len(rest)
    BY <2>1, <2>2, <2>3, <2>4, FilesAssumption
  <2>6. b = Filled(Source, n, r)
    <3> HIDE DEF rest
    <3> QED
      BY <2>2, <2>3, <2>5 DEF b, Filled
  <2> QED
    BY <1>2, <1>3, <1>4, <1>6, <2>2, <2>4, <2>6 DEF LoopAt
<1> QED
  BY <1>3, <1>5, <1>6

(* Writing one, the last but for the end *)
LEMMA CopyWrites ==
  ASSUME CopyTyped, DiskInv, Started, CopyWrite, call'.op = "copy",
         before' = before
  PROVE  /\ Started' /\ call'.do = "read"
         /\ \A n \in Nat : ~fault' /\ LoopAt(n) => LoopAt(n + BufferSize)'
<1>1. call' # Idle
  BY DEF Idle
<1>2. PICK w \in {-1} \cup 1 .. BufferSize :
        /\ content' = [content EXCEPT ![call.dest_fd] = @ \o SubSeq(call.buffer, 1, w)]
        /\ fault' = (fault \/ w # BufferSize)
        /\ w = call.r /\ call' = [call EXCEPT !.do = "read"]
  BY <1>1 DEF CopyWrite, GoesOn, Return
<1>3. call.do = "write" /\ tree' = tree
  BY DEF CopyWrite, Copying
<1>4. /\ call'.do = "read" /\ call'.dest_fd = call.dest_fd /\ call'.src_fd = call.src_fd
      /\ call'.pos = call.pos /\ call'.buffer = call.buffer
  BY <1>2 DEF CopyTyped, Has
<1>5. Began' = Began /\ Onto' = Onto /\ SrcFd' = SrcFd /\ Source' = Source
  BY CopyKeeps
<1>6. /\ DOMAIN content' = DOMAIN content
      /\ \A i \in Inodes : i # call.dest_fd => content'[i] = content[i]
      /\ content'[call.dest_fd] = content[call.dest_fd] \o SubSeq(call.buffer, 1, w)
  BY <1>2 DEF Started
<1>7. Started'
  BY <1>3, <1>4, <1>5, <1>6 DEF Started
<1>8. ASSUME NEW n \in Nat, ~fault', LoopAt(n) PROVE LoopAt(n + BufferSize)'
  <2>1. w = BufferSize /\ call.r = BufferSize
    BY <1>2, <1>8
  <2>2. Source \in Seq(Bytes) /\ BufferSize \in Nat \ {0}
    BY SourceTyped, FilesAssumption
  <2>3. /\ Blocks(n) /\ n <= Len(Source) /\ content[call.dest_fd] = SubSeq(Source, 1, n)
        /\ call.r = (IF Len(Source) - n < BufferSize THEN Len(Source) - n ELSE BufferSize)
        /\ call.pos = n + call.r /\ call.buffer = Filled(Source, n, call.r)
    BY <1>3, <1>8 DEF LoopAt
  <2>4. n + BufferSize <= Len(Source)
    BY <2>1, <2>2, <2>3
  <2>5. /\ content'[call.dest_fd] = SubSeq(Source, 1, n + BufferSize)
        /\ call.buffer = LastBlock(Source, n + BufferSize)
    BY <1>6, <2>1, <2>2, <2>3, <2>4, FullBlock
  <2>6. Blocks(n + BufferSize)
    BY <2>3, BlockFacts
  <2> QED
    BY <1>4, <1>5, <2>1, <2>3, <2>4, <2>5, <2>6 DEF LoopAt
<1> QED
  BY <1>4, <1>7, <1>8

LEMMA CopyInvStep ==
  ASSUME Base, CopyInv, [Next]_vars
  PROVE  CopyInv'
<1> SUFFICES ASSUME call'.op = "copy", moves' = 0
             PROVE  /\ Fields'
                    /\ call'.do \notin {"read", "write"} => Unstarted'
                    /\ call'.do \in {"read", "write"} =>
                         Started' /\ (~fault' => \E n \in Nat : LoopAt(n)')
  BY DEF CopyInv
<1>1. /\ moves = 0 /\ ~Other /\ (~fault' => ~fault) /\ before' = before
      /\ CallTyped /\ DiskInv /\ Fresh
  BY StaysDisturbed DEF Base
<1>2. CASE UNCHANGED vars
  <2>1. call' = call /\ tree' = tree /\ content' = content /\ fault' = fault
    BY <1>2 DEF vars
  <2>2. Began' = Began
    BY <1>1, <2>1 DEF Began
  <2>3. From' = From /\ Onto' = Onto
    BY <2>1, <2>2 DEF From, Onto
  <2>4. SrcFd' = SrcFd /\ Same' = Same
    BY <2>2, <2>3 DEF SrcFd, Same
  <2>5. Source' = Source
    BY <2>4 DEF Source
  <2>6. Fields' /\ (call'.do \notin {"read", "write"} => Unstarted')
    BY <1>1, <2>1, <2>2, <2>3, <2>4 DEF CopyInv, Fields, Unstarted
  <2>7. call.do \in {"read", "write"} => Started'
    BY <1>1, <2>1, <2>2, <2>3, <2>4 DEF CopyInv, Started
  <2>8. \A n \in Nat : LoopAt(n) => LoopAt(n)'
    BY <2>1, <2>4, <2>5 DEF LoopAt
  <2> QED
    BY <1>1, <2>1, <2>6, <2>7, <2>8 DEF CopyInv
<1>3. CASE call = Idle /\ Start
  <2>1. PICK src \in Paths, dst \in Paths, remove \in BOOLEAN : StartCopy(src, dst, remove)
    BY <1>3 DEF Start, StartMkdir, StartRm, StartCase, Begin
  <2>2. /\ call'.remove = remove /\ call'.do = (IF remove THEN "stat" ELSE "open")
        /\ call'.dest_fd = None /\ call'.pos = 0 /\ call'.buffer = Zeros
        /\ answer = <<>> /\ tree' = tree /\ content' = content
    BY <2>1 DEF StartCopy, Begin, disk
  <2>3. tree' = before' /\ content' = Contents
    BY <1>1, <1>3, <2>2 DEF Fresh
  <2>4. ~remove => Began' = before'
    BY <2>2 DEF Began
  <2>5. Fields' /\ Unstarted' /\ call'.do \notin {"read", "write"}
    BY <2>2, <2>3, <2>4 DEF Fields, Unstarted
  <2> QED
    BY <2>5
<1>4. CASE call.op = "copy" /\ (CopyStat \/ CopyUnlink \/ CopyOpen \/ CopyCreate \/ CopyRead \/ CopyWrite)
  <2>1. CopyTyped /\ call' # Idle /\ Fields
    BY <1>1, <1>4, OpTyped DEF Idle, CopyInv
  <2>2. /\ Began' = Began /\ From' = From /\ SrcFd' = SrcFd /\ call'.remove = call.remove
    BY <1>1, <1>4, <2>1, CopyKeeps
  <2>3. CASE CopyStat
    <3>1. /\ call.do = "stat" /\ tree' = tree /\ content' = content
          /\ call'.do = (IF Exists(tree, call.dst) THEN "unlink" ELSE "open")
          /\ call'.dest_fd = call.dest_fd /\ call'.pos = call.pos /\ call'.buffer = call.buffer
      BY <2>1, <2>3 DEF CopyStat, Copying, disk, CopyTyped, Has
    <3>2. Unstarted /\ call.remove /\ tree = before
      BY <1>1, <1>4, <2>1, <3>1 DEF CopyInv, Unstarted, Fields
    <3>3. ~Exists(before, call.dst) => Began = before
      BY <1>1, <2>1, BeganFacts
    <3>4. Fields' /\ Unstarted' /\ call'.do \notin {"read", "write"}
      BY <1>1, <2>2, <3>1, <3>2, <3>3 DEF Fields, Unstarted
    <3> QED
      BY <3>4
  <2>4. CASE CopyUnlink
    <3>1. /\ call.do = "unlink" /\ content' = content /\ tree' = Removed(tree, call.dst)
          /\ call'.do = "open"
          /\ call'.dest_fd = call.dest_fd /\ call'.pos = call.pos /\ call'.buffer = call.buffer
      BY <2>1, <2>4 DEF CopyUnlink, Copying, Fails, Return, CopyTyped, Has
    <3>2. Unstarted /\ call.remove /\ tree = before
      BY <1>1, <1>4, <2>1, <3>1 DEF CopyInv, Unstarted, Fields
    <3>3. tree' = Began
      BY <3>1, <3>2 DEF Began
    <3>4. Fields' /\ Unstarted' /\ call'.do \notin {"read", "write"}
      BY <2>2, <3>1, <3>2, <3>3 DEF Fields, Unstarted
    <3> QED
      BY <3>4
  <2>5. CASE CopyOpen
    <3> DEFINE p == Reached(tree, call.src)
               i == IF Is("file", tree, p) THEN tree[p].ino ELSE None
    <3>1. /\ call.do = "open" /\ tree' = tree /\ content' = content /\ p \in DOMAIN tree
          /\ call' = [call EXCEPT !.do = "create", !.src_fd = i]
      BY <2>1, <2>5 DEF CopyOpen, Copying, Fails, Return, disk
    <3>2. Unstarted /\ tree = Began
      BY <1>1, <1>4, <2>1, <3>1 DEF CopyInv, Unstarted
    <3>3. p = From /\ i = SrcFd
      BY <3>2 DEF From, SrcFd
    <3> HIDE DEF p, i
    <3>4. /\ call'.do = "create" /\ call'.src_fd = i /\ call'.dest_fd = call.dest_fd
          /\ call'.pos = call.pos /\ call'.buffer = call.buffer
      BY <2>1, <3>1 DEF CopyTyped, Has
    <3>5. Fields' /\ Unstarted' /\ call'.do \notin {"read", "write"}
      BY <2>2, <3>1, <3>2, <3>3, <3>4 DEF Fields, Unstarted
    <3> QED
      BY <3>5
  <2>6. CASE CopyCreate
    <3>1. Unstarted
      BY <1>1, <1>4, <2>6 DEF CopyInv, CopyCreate, Copying
    <3>2. Started' /\ LoopAt(0)' /\ call'.do = "read"
      BY <1>1, <2>1, <2>6, <3>1, CopyCreates
    <3> QED
      BY <3>2 DEF Fields
  <2>7. CASE CopyRead
    <3>1. Started /\ (~fault => \E n \in Nat : LoopAt(n))
      BY <1>1, <1>4, <2>7 DEF CopyInv, CopyRead, Copying
    <3>2. Started' /\ call'.do = "write" /\ \A n \in Nat : LoopAt(n) => LoopAt(n)'
      BY <1>1, <2>1, <2>7, <3>1, CopyReads
    <3> QED
      BY <1>1, <3>1, <3>2 DEF Fields
  <2>8. CASE CopyWrite
    <3>1. Started /\ (~fault => \E n \in Nat : LoopAt(n))
      BY <1>1, <1>4, <2>8 DEF CopyInv, CopyWrite, Copying
    <3>2. /\ Started' /\ call'.do = "read"
          /\ \A n \in Nat : ~fault' /\ LoopAt(n) => LoopAt(n + BufferSize)'
      BY <1>1, <2>1, <2>8, <3>1, CopyWrites
    <3>3. \A n \in Nat : n + BufferSize \in Nat
      BY FilesAssumption
    <3> QED
      BY <1>1, <3>1, <3>2, <3>3 DEF Fields
  <2> QED
    BY <1>4, <2>3, <2>4, <2>5, <2>6, <2>7, <2>8
<1>5. CASE \/ call.op = "mkdir" /\ Mkdir
           \/ call.op = "rm" /\ (RmLook \/ RmOpen \/ RmClosed \/ RmNext \/ RmCallback)
           \/ call.op = "case" /\ (CaseName \/ CaseEnd)
  <2>1. MkdirTyped' \/ RmTyped' \/ CaseTyped' \/ call' = Idle
    BY <1>1, <1>5, OpTyped, TypedMkdir, TypedRm, TypedCase
  <2> QED
    BY <2>1 DEF MkdirTyped, RmTyped, CaseTyped, Idle
<1> QED
  BY <1>1, <1>2, <1>3, <1>4, <1>5, WhoseStep

(* What nc_copy_file promises of its steps *)
CopyAnswer ==
  LET now == Reached(tree', call.dst) IN
  /\ moves = 0 /\ content' # content /\ Is("file", Began, From) /\ ~Same =>
       content'[Began[From].ino] = content[Began[From].ino]
  /\ Returns /\ Undisturbed =>
       /\ ~Is("file", Began, From) => answer' = <<FALSE>>
       /\ answer' = <<TRUE>> =>
            /\ Is("file", tree', now)
            /\ content'[tree'[now].ino] =
                 IF Same THEN Zeros ELSE Padded(Contents[Began[From].ino])
       /\ Same => answer' = <<TRUE>>

LEMMA EmptyPadded == Padded(<<>>) = Zeros
<1>1. (0 \div BufferSize + 1) * BufferSize = BufferSize /\ Len(<<>>) = 0
  <2>1. BufferSize \in Nat \ {0}
    BY FilesAssumption
  <2>2. 0 \div BufferSize = 0
    BY <2>1
  <2> QED
    BY <2>1, <2>2
<1> QED
  BY <1>1 DEF Padded, Zeros

LEMMA CopyKeepsSource ==
  ASSUME Base, CopyInv, CopyTyped, [Next]_vars, moves = 0,
         CopyStat \/ CopyUnlink \/ CopyOpen \/ CopyCreate \/ CopyRead \/ CopyWrite,
         content' # content, SrcFd # None, ~Same
  PROVE  content'[SrcFd] = content[SrcFd]
<1>1. DiskInv /\ before' = before /\ call.op = "copy" /\ SrcFd \in Inodes
  BY StaysDisturbed, SourceTyped DEF Base, CopyTyped
<1>2. CopyCreate \/ CopyWrite
  BY DEF CopyStat, CopyUnlink, CopyOpen, CopyRead, Fails, disk
<1>3. CASE CopyCreate
  <2>1. Unstarted
    BY <1>1, <1>3 DEF CopyInv, CopyCreate, Copying
  <2>2. call'.op = "copy"
    <3>1. call' # Idle /\ (CopyTyped' \/ call' = Idle)
      <4>1. \E p, i : call' = [call EXCEPT !.do = "read", !.dest_fd = i]
        BY <1>3 DEF CopyCreate, Fails, disk
      <4>2. call' # Idle
        BY <1>1, <4>1 DEF CopyTyped, Has, Idle
      <4> QED
        BY <1>3, <4>2, TypedCopy
    <3> QED
      BY <3>1 DEF CopyTyped
  <2>3. Started' /\ Began' = Began /\ Onto' = Onto
    BY <1>1, <1>3, <2>1, <2>2, CopyCreates, CopyKeeps
  <2>4. /\ \/ Is("file", Began, Onto) /\ call'.dest_fd = Began[Onto].ino
           \/ Onto \notin DOMAIN Began /\ call'.dest_fd \notin InodesIn(Began)
        /\ \A i \in Inodes : i # call'.dest_fd => content'[i] = Contents[i]
    BY <2>3 DEF Started
  <2>5. call'.dest_fd # SrcFd
    BY <1>1, <2>4, Apart
  <2> QED
    BY <1>1, <2>1, <2>4, <2>5 DEF Unstarted
<1>4. CASE CopyWrite
  <2>1. Started
    BY <1>1, <1>4 DEF CopyInv, CopyWrite, Copying
  <2>2. call.dest_fd # SrcFd
    BY <1>1, <2>1, Apart, SMTT(30) DEF Started
  <2>3. \E x : content' = [content EXCEPT ![call.dest_fd] = x]
    BY <1>4 DEF CopyWrite
  <2> QED
    BY <1>1, <2>1, <2>2, <2>3, SMTT(30) DEF Started
<1> QED
  BY <1>2, <1>3, <1>4

LEMMA CopyEnds ==
  ASSUME Base, CopyInv, CopyTyped, moves = 0, ~fault, ~fault', CopyWrite,
         answer' # answer
  PROVE  /\ SrcFd # None /\ answer' = <<TRUE>>
         /\ Is("file", tree', Reached(tree', call.dst))
         /\ content'[tree'[Reached(tree', call.dst)].ino] =
              IF Same THEN Zeros ELSE Padded(Contents[SrcFd])
<1>1. DiskInv /\ call.op = "copy" /\ call.do = "write" /\ tree' = tree
  BY DEF Base, CopyTyped, CopyWrite, Copying
<1>2. Started /\ \E n \in Nat : LoopAt(n)
  BY <1>1 DEF CopyInv
<1>3. PICK n \in Nat : LoopAt(n)
  BY <1>2
<1>4. /\ Blocks(n) /\ n <= Len(Source) /\ content[call.dest_fd] = SubSeq(Source, 1, n)
      /\ call.r = (IF Len(Source) - n < BufferSize THEN Len(Source) - n ELSE BufferSize)
      /\ call.buffer = Filled(Source, n, call.r) /\ SrcFd # None
  BY <1>1, <1>3 DEF LoopAt
<1>5. /\ content' = [content EXCEPT ![call.dest_fd] = @ \o SubSeq(call.buffer, 1, BufferSize)]
      /\ BufferSize # call.r /\ answer' = <<TRUE>>
  <2>1. PICK w \in {-1} \cup 1 .. BufferSize :
          /\ content' = [content EXCEPT ![call.dest_fd] = @ \o SubSeq(call.buffer, 1, w)]
          /\ fault' = (fault \/ w # BufferSize)
          /\ w # call.r /\ answer' = <<TRUE>>
    BY DEF CopyWrite, GoesOn, Return
  <2>2. w = BufferSize
    BY <2>1
  <2> QED
    BY <2>1, <2>2
<1>6. /\ Source \in Seq(Bytes) /\ BufferSize \in Nat \ {0}
      /\ (Same => Source = <<>>) /\ (~Same => Source = Contents[SrcFd])
  BY <1>1, <1>4, SourceTyped, FilesAssumption DEF Source
<1>7. call.r \in Nat /\ call.r < BufferSize /\ Len(Source) = n + call.r
  BY <1>4, <1>5, <1>6
<1>8. content'[call.dest_fd] = Padded(Source)
  <2>1. content'[call.dest_fd] = content[call.dest_fd] \o SubSeq(call.buffer, 1, BufferSize)
    BY <1>2, <1>5 DEF Started
  <2>2. SubSeq(Source, 1, n) \o SubSeq(Filled(Source, n, call.r), 1, BufferSize) = Padded(Source)
    BY <1>4, <1>6, <1>7, EndBlock
  <2> QED
    BY <1>4, <2>1, <2>2
<1>9. /\ Is("file", tree', Onto) /\ tree'[Onto].ino = call.dest_fd
      /\ Reached(tree', call.dst) = Onto
  <2>1. /\ IsTree(Began) /\ tree = With(Began, Onto, File(call.dest_fd))
        /\ \/ Is("file", Began, Onto)
           \/ Onto # None /\ Onto \notin DOMAIN Began /\ Is("dir", Began, Front(Onto))
    BY <1>2 DEF Started
  <2>2. call.dst \in Seqs \ {Top}
    BY <1>1, BeganFacts
  <2>3. Onto = Reached(Began, call.dst)
    BY DEF Onto
  <2> QED
    BY <1>1, <2>1, <2>2, <2>3, OpenedAt
<1> QED
  BY <1>4, <1>5, <1>6, <1>8, <1>9, EmptyPadded

LEMMA CopyReturns ==
  ASSUME Base, CopyInv, CopyTyped, [Next]_vars,
         CopyStat \/ CopyUnlink \/ CopyOpen \/ CopyCreate \/ CopyRead \/ CopyWrite
  PROVE  CopyAnswer
<1>1. DiskInv /\ call.op = "copy" /\ (~fault' => ~fault)
  BY StaysDisturbed DEF Base, CopyTyped
<1>2. /\ SrcFd # None <=> Is("file", Began, From)
      /\ SrcFd # None => SrcFd = Began[From].ino
  BY <1>1, SourceTyped DEF SrcFd
<1>3. ASSUME moves = 0, content' # content, Is("file", Began, From), ~Same
      PROVE  content'[Began[From].ino] = content[Began[From].ino]
  BY <1>2, <1>3, CopyKeepsSource
<1>4. ASSUME Returns, Undisturbed, ~CopyWrite
      PROVE  answer' = <<FALSE>> /\ ~Same
  <2>1. moves = 0 /\ ~fault' /\ answer' # answer
    BY <1>4 DEF Returns, Undisturbed
  <2>2. ~CopyStat
    BY <2>1 DEF CopyStat
  <2>3. Fields /\ (call.do \notin {"read", "write"} => Unstarted)
        /\ (call.do \in {"read", "write"} => Started)
    BY <1>1, <2>1 DEF CopyInv
  <2>4. CASE CopyUnlink
    <3>1. call.do = "unlink" /\ answer' = <<FALSE>>
      BY <2>1, <2>4 DEF CopyUnlink, Copying, Fails, Return
    <3>2. ~Is("file", Began, Onto)
      BY <1>1, <2>3, <3>1, NoTarget DEF Fields
    <3> QED
      BY <3>1, <3>2 DEF Same
  <2>5. CASE CopyOpen
    <3>1. /\ call.do = "open" /\ answer' = <<FALSE>> /\ Reached(tree, call.src) \notin DOMAIN tree
      BY <2>1, <2>5 DEF CopyOpen, Copying, Fails, Return
    <3>2. tree = Began
      BY <2>3, <3>1 DEF Unstarted
    <3> QED
      BY <3>1, <3>2 DEF Same, From, Is
  <2>6. CASE CopyCreate
    <3>1. /\ call.do = "create" /\ answer' = <<FALSE>>
          /\ ~Is("file", tree, Reached(tree, call.dst))
      BY <2>1, <2>6 DEF CopyCreate, Copying, Fails, Return
    <3>2. tree = Began
      BY <2>3, <3>1 DEF Unstarted
    <3> QED
      BY <3>1, <3>2 DEF Same, Onto
  <2>7. CASE CopyRead
    <3>1. call.do = "read" /\ answer' = <<FALSE>> /\ call.src_fd = None
      BY <2>1, <2>7 DEF CopyRead, Copying, Fails, Return
    <3>2. SrcFd = None
      BY <2>3, <3>1 DEF Started
    <3> QED
      BY <1>2, <3>1, <3>2 DEF Same
  <2> QED
    BY <1>4, <2>2, <2>4, <2>5, <2>6, <2>7
<1>5. ASSUME Returns, Undisturbed, CopyWrite
      PROVE  /\ SrcFd # None /\ answer' = <<TRUE>>
             /\ Is("file", tree', Reached(tree', call.dst))
             /\ content'[tree'[Reached(tree', call.dst)].ino] =
                  IF Same THEN Zeros ELSE Padded(Contents[SrcFd])
  BY <1>1, <1>5, CopyEnds DEF Returns, Undisturbed
<1>6. <<FALSE>> # <<TRUE>>
  <2>1. <<FALSE>>[1] = FALSE /\ <<TRUE>>[1] = TRUE
    OBVIOUS
  <2> QED
    BY <2>1
<1>7. ASSUME Returns, Undisturbed
      PROVE  /\ ~Is("file", Began, From) => answer' = <<FALSE>>
             /\ answer' = <<TRUE>> =>
                  /\ Is("file", tree', Reached(tree', call.dst))
                  /\ content'[tree'[Reached(tree', call.dst)].ino] =
                       IF Same THEN Zeros ELSE Padded(Contents[Began[From].ino])
             /\ Same => answer' = <<TRUE>>
  <2>1. CASE ~CopyWrite
    BY <1>4, <1>6, <1>7, <2>1
  <2>2. CASE CopyWrite
    BY <1>2, <1>5, <1>7, <2>2
  <2> QED
    BY <2>1, <2>2
<1> QED
  BY <1>3, <1>7 DEF CopyAnswer

(* nc_copy_file leaves its source alone, and what it answers true for is   *)
(* the source padded to full buffers, for every tree, file and buffer      *)
(* size, whatever links the paths pass and whatever names a file has.      *)
THEOREM CopyAlwaysPadded == Spec => CopyContent
<1>1. Init => CopyInv
  BY DEF Init, CopyInv, Idle
<1>2. Base /\ CopyInv /\ [Next]_vars => CopyInv'
  BY CopyInvStep
<1>3. Base /\ CopyInv /\ [Next]_vars => [StepOf("copy") => CopyAnswer]_vars
  <2> SUFFICES ASSUME Base, CopyInv, [Next]_vars, StepOf("copy"), ~UNCHANGED vars
               PROVE  CopyAnswer
    OBVIOUS
  <2>1. call.op = "copy" /\ moves' = moves /\ moves \in Nat
    BY DEF StepOf, Base
  <2>2. ~Other
    BY <2>1 DEF Other
  <2>3. CopyStat \/ CopyUnlink \/ CopyOpen \/ CopyCreate \/ CopyRead \/ CopyWrite
    BY <2>1, <2>2, WhoseStep DEF Idle
  <2>4. CopyTyped
    BY <2>1, OpTyped DEF Base
  <2> QED
    BY <2>3, <2>4, CopyReturns
<1>4. Spec => [][StepOf("copy") => CopyAnswer]_vars
  BY <1>1, <1>2, <1>3, BaseInit, BaseStep, PTL DEF Spec
<1> QED
  BY <1>4 DEF CopyContent, CopyAnswer, Began, From, Onto, Same

-----------------------------------------------------------------------------
(* nc_build_case_correct_path *)

(* The path r begins with the base, ... *)
Based(base, r) == Len(base) <= Len(r) /\ \A j \in 1 .. Len(base) : r[j] = base[j]

(* ... and after b names has, but for their case, those from k + 1 to a.   *)
Spelled(names, r, b, k, a) ==
  Len(r) = b + (a - k) /\ \A j \in 1 .. a - k : Lower[r[b + j]] = Lower[names[k + j]]

(* A path that the client may mean *)
Asked(base, names, q) == Based(base, q) /\ Spelled(names, q, Len(base), 0, Len(names))

InTop(t, name) == \E n \in NamesIn(t, Top) : Lower[n] = Lower[name]
Out(t, names, k) ==
  /\ \A i \in 1 .. k : InTop(t, names[i])
  /\ k < Len(names) => ~InTop(t, names[k + 1])

Calm == moves = 0 /\ ~fault

CaseWell ==
  /\ Has({"op", "base", "names", "root", "at"}) /\ call.op = "case"
  /\ call.base \in Seqs \cup {None} /\ call.names \in Seqs /\ call.root \in Seqs \cup {None}
  /\ call.at \in 1 .. Len(call.names) + 1
  /\ DOMAIN tree \subseteq Seqs /\ (moves = 0 => IsTree(tree))

CaseBased ==
  call.base # None =>
    /\ call.root # None /\ Based(call.base, call.root)
    /\ Spelled(call.names, call.root, Len(call.base), 0, call.at - 1)

CaseUnbased ==
  call.base = None =>
    /\ call.root # None => \E k \in 0 .. call.at - 2 :
                             /\ Spelled(call.names, call.root, 0, k, call.at - 1)
                             /\ Calm => Out(tree, call.names, k)
    /\ call.root = None /\ Calm => \A i \in 1 .. call.at - 1 : InTop(tree, call.names[i])

CaseFound ==
  call.base # None /\ Calm /\ ~Ambiguous(tree) =>
    \A q \in Seqs : Asked(call.base, call.names, q) /\ Reached(tree, q) \in DOMAIN tree =>
                      call.root = To(q, Len(call.root))

CaseGood == CaseWell /\ CaseBased /\ CaseUnbased /\ CaseFound

CaseInv ==
  /\ "op" \in DOMAIN call /\ moves \in Nat
  /\ call = Idle /\ answer = <<>> => IsTree(tree)
  /\ call.op = "case" => CaseGood

LEMMA NoSeq == \A q \in Seqs : q # None
BY TreeAssumption DEF Seqs

LEMMA CaseInit == Init => CaseInv
BY FilesAssumption DEF Init, CaseInv, Idle

LEMMA CaseBegins ==
  ASSUME NEW base \in Bases, NEW names \in NameLists, StartCase(base, names), CaseInv
  PROVE  CaseGood'
<1>1. /\ call' = [op |-> "case", base |-> base, names |-> names, root |-> base, at |-> 1]
      /\ UNCHANGED <<tree, moves, fault>> /\ IsTree(tree)
  BY DEF StartCase, Begin, CaseInv, disk, world
<1>2. base \in Seqs \cup {None} /\ names \in Seqs /\ Len(names) \in Nat
  BY FilesAssumption DEF Seqs
<1>3. CaseWell'
  BY <1>1, <1>2, TreeFacts DEF CaseWell, Has
<1>4. base # None => Len(base) \in Nat
  BY <1>2 DEF Seqs
<1>5. CaseBased'
  BY <1>1, <1>4 DEF CaseBased, Based, Spelled
<1>6. CaseUnbased'
  BY <1>1 DEF CaseUnbased
<1>7. CaseFound'
  <2> SUFFICES ASSUME base # None, NEW q \in Seqs, Len(base) <= Len(q),
                      \A j \in 1 .. Len(base) : q[j] = base[j]
               PROVE  base = To(q, Len(base))
    BY <1>1 DEF CaseFound, Asked, Based
  <2>1. Len(base) \in 0 .. Len(q) /\ base \in Seqs
    BY <1>2, <1>4 DEF Seqs
  <2>2. /\ To(q, Len(base)) \in Seqs /\ Len(To(q, Len(base))) = Len(base)
        /\ \A j \in 1 .. Len(base) : To(q, Len(base))[j] = q[j]
    BY <2>1, ToFacts
  <2> QED
    BY <2>1, <2>2, SameSeq
<1> QED
  BY <1>3, <1>5, <1>6, <1>7 DEF CaseGood

LEMMA InNames ==
  ASSUME NEW t, DOMAIN t \subseteq Seqs, NEW p \in Seqs
  PROVE  \A n : n \in NamesIn(t, p) <=> n \in Names /\ Append(p, n) \in DOMAIN t
<1>1. Len(p) \in Nat
  BY DEF Seqs
<1>2. ASSUME NEW q \in DOMAIN t, IsPrefix(p, q), Len(q) = Len(p) + 1
      PROVE  Last(q) \in Names /\ Append(p, Last(q)) = q
  <2>1. q \in Seqs /\ q # Top
    BY <1>1, <1>2, TopFacts
  <2>2. Front(q) = To(q, Len(p)) /\ Last(q) \in Names /\ Append(Front(q), Last(q)) = q
    <3>1. Len(q) - 1 = Len(p)
      BY <1>1, <1>2
    <3> QED
      BY <2>1, <3>1, FrontLast
  <2>3. p = To(q, Len(p))
    BY <1>2, <2>1, PrefixTo
  <2> QED
    BY <2>2, <2>3
<1>3. ASSUME NEW n \in Names, Append(p, n) \in DOMAIN t
      PROVE  n \in NamesIn(t, p)
  <2> DEFINE q == Append(p, n)
  <2>1. q \in Seqs /\ Len(q) = Len(p) + 1 /\ Last(q) = n /\ \A j \in 1 .. Len(p) : q[j] = p[j]
    BY AppendFacts
  <2> HIDE DEF q
  <2>2. IsPrefix(p, q)
    BY <1>1, <2>1, PrefixByName
  <2>3. q \in DOMAIN t
    BY <1>3 DEF q
  <2> QED
    BY <2>1, <2>2, <2>3 DEF NamesIn, Under
<1>4. ASSUME NEW n \in NamesIn(t, p) PROVE n \in Names /\ Append(p, n) \in DOMAIN t
  <2>1. PICK q \in DOMAIN t : IsPrefix(p, q) /\ Len(q) = Len(p) + 1 /\ n = Last(q)
    BY DEF NamesIn, Under
  <2> QED
    BY <1>2, <2>1
<1> QED
  BY <1>3, <1>4

(* The name that is chosen *)
LEMMA MatchesAre ==
  ASSUME CaseWell, call.at <= Len(call.names), NEW n \in Matches(call.names[call.at])
  PROVE  /\ n \in Names /\ Lower[n] = Lower[call.names[call.at]]
         /\ n \in NamesIn(tree, Searched) /\ Append(Searched, n) \in DOMAIN tree
<1>1. Is("dir", tree, Searched) /\ n \in NamesIn(tree, Searched) /\ Lower[n] = Lower[call.names[call.at]]
  BY DEF Matches
<1>2. Searched \in Seqs /\ DOMAIN tree \subseteq Seqs
  BY <1>1 DEF Is, CaseWell
<1> QED
  BY <1>1, <1>2, InNames

(* A turn that goes on: the name it takes, and with what right *)
CaseTurn(n) ==
  LET p == call.names[call.at] IN
  /\ call.at <= Len(call.names) /\ n \in Names /\ Lower[n] = Lower[p]
  /\ call' = [call EXCEPT !.at = @ + 1, !.root = call'.root]
  /\ \/ /\ n \in Matches(p)
        /\ call'.root = IF call.root = None THEN None ELSE Append(call.root, n)
     \/ /\ ~fault' => Matches(p) = {}
        /\ call'.root = IF call.root = None THEN <<n>> ELSE Append(call.root, n)

LEMMA CaseTurns ==
  ASSUME CaseWell, CaseName
  PROVE  /\ UNCHANGED <<tree, moves>> /\ (~fault' => ~fault)
         /\ \/ \E n : CaseTurn(n) /\ answer' = answer
            \/ call' = Idle /\ fault' /\ answer' = <<None>>
<1> DEFINE p == call.names[call.at]
<1>0. UNCHANGED <<tree, moves>> /\ (~fault' => ~fault)
  <2>1. UNCHANGED <<tree, moves>>
    BY DEF CaseName, disk, world
  <2>3. fault' = fault \/ fault' = TRUE \/ \E a : fault' = (a \/ fault)
    BY DEF CaseName
  <2>4. ~fault' => ~fault
    BY <2>3
  <2> QED
    BY <2>1, <2>4
<1>1. call.at <= Len(call.names) /\ p \in Names
  <2>1. call.at <= Len(call.names)
    BY DEF CaseName
  <2>2. call.names \in Seqs /\ call.at \in 1 .. Len(call.names) + 1
    BY DEF CaseWell
  <2>3. call.at \in 1 .. Len(call.names)
    BY <2>1, <2>2 DEF Seqs
  <2> QED
    BY <2>1, <2>2, <2>3 DEF Seqs
<1>2. CASE \E n \in Matches(p) :
             /\ call' = [call EXCEPT !.at = @ + 1,
                  !.root = IF @ = None THEN None ELSE Append(@, n)]
             /\ UNCHANGED <<answer, fault>>
  <2>1. PICK n \in Matches(p) :
             /\ call' = [call EXCEPT !.at = @ + 1,
                  !.root = IF @ = None THEN None ELSE Append(@, n)]
             /\ answer' = answer
    BY <1>2
  <2>2. n \in Names /\ Lower[n] = Lower[p]
    BY <1>1, MatchesAre
  <2> DEFINE r == IF call.root = None THEN None ELSE Append(call.root, n)
  <2>3. call' = [call EXCEPT !.at = @ + 1, !.root = r]
    BY <2>1
  <2> HIDE DEF r, p
  <2>4. call'.root = r
    BY <2>3 DEF CaseWell, Has
  <2> QED
    BY <1>0, <1>1, <2>1, <2>2, <2>3, <2>4 DEF CaseTurn, r, p
<1>3. CASE /\ fault' = (Matches(p) # {} \/ fault)
           /\ call' = [call EXCEPT !.at = @ + 1,
                !.root = IF @ = None THEN <<p>> ELSE Append(@, p)]
           /\ UNCHANGED answer
  <2> DEFINE r == IF call.root = None THEN <<p>> ELSE Append(call.root, p)
  <2>1. call' = [call EXCEPT !.at = @ + 1, !.root = r]
    BY <1>3
  <2>2. ~fault' => Matches(p) = {}
    BY <1>3
  <2> HIDE DEF r, p
  <2>3. call'.root = r
    BY <2>1 DEF CaseWell, Has
  <2>4. CaseTurn(p)
    BY <1>1, <2>1, <2>2, <2>3 DEF CaseTurn, r, p
  <2> QED
    BY <1>0, <1>3, <2>4
<1>4. CASE fault' = TRUE /\ Return(None)
  BY <1>0, <1>4 DEF Return
<1> QED
  BY <1>2, <1>3, <1>4 DEF CaseName

LEMMA TurnFields ==
  ASSUME CaseWell, NEW n, CaseTurn(n)
  PROVE  /\ Has({"op", "base", "names", "root", "at"})' /\ call'.op = "case"
         /\ call'.base = call.base /\ call'.names = call.names /\ call'.at = call.at + 1
         /\ call.at \in 1 .. Len(call.names) /\ call.at \in Nat /\ Len(call.names) \in Nat
<1>1. call' = [call EXCEPT !.at = call.at + 1, !.root = call'.root] /\ call.at <= Len(call.names)
  BY DEF CaseTurn
<1>2. call.names \in Seqs /\ call.at \in 1 .. Len(call.names) + 1
  BY DEF CaseWell
<1> DEFINE r == call'.root
<1>3. call' = [call EXCEPT !.at = call.at + 1, !.root = r]
  BY <1>1
<1> HIDE DEF r
<1>4. /\ Has({"op", "base", "names", "root", "at"})' /\ call'.op = "case"
      /\ call'.base = call.base /\ call'.names = call.names /\ call'.at = call.at + 1
  BY <1>3 DEF CaseWell, Has
<1>5. Len(call.names) \in Nat
  BY <1>2 DEF Seqs
<1> QED
  BY <1>1, <1>2, <1>4, <1>5

LEMMA SpelledMore ==
  ASSUME NEW names \in Seqs, NEW r \in Seqs, NEW b \in Nat, NEW a \in 1 .. Len(names),
         NEW k \in 0 .. a - 1, NEW n \in Names, Spelled(names, r, b, k, a - 1),
         Lower[n] = Lower[names[a]]
  PROVE  Spelled(names, Append(r, n), b, k, a)
<1> DEFINE q == Append(r, n)
<1>1. /\ Len(q) = Len(r) + 1 /\ q[Len(r) + 1] = n /\ (\A j \in 1 .. Len(r) : q[j] = r[j])
      /\ Len(r) \in Nat /\ Len(names) \in Nat
  BY AppendFacts DEF Seqs
<1>2. Len(r) = b + (a - 1 - k) /\ \A j \in 1 .. a - 1 - k : Lower[r[b + j]] = Lower[names[k + j]]
  BY DEF Spelled
<1> HIDE DEF q
<1>3. ASSUME NEW j \in 1 .. a - k PROVE Lower[q[b + j]] = Lower[names[k + j]]
  <2>1. CASE j = a - k
    <3>1. b + j = Len(r) + 1 /\ k + j = a
      BY <1>1, <1>2, <2>1
    <3> QED
      BY <1>1, <3>1
  <2>2. CASE j # a - k
    <3>1. j \in 1 .. a - 1 - k /\ b + j \in 1 .. Len(r)
      BY <1>1, <1>2, <2>2
    <3> QED
      BY <1>1, <1>2, <3>1
  <2> QED
    BY <2>1, <2>2
<1>4. Len(q) = b + (a - k)
  BY <1>1, <1>2
<1> QED
  BY <1>3, <1>4 DEF Spelled, q

LEMMA BasedMore ==
  ASSUME NEW base \in Seqs, NEW r \in Seqs, NEW n \in Names, Based(base, r)
  PROVE  Based(base, Append(r, n))
<1>1. Len(base) \in Nat /\ Len(r) \in Nat
  BY DEF Seqs
<1>2. Len(Append(r, n)) = Len(r) + 1 /\ \A j \in 1 .. Len(r) : Append(r, n)[j] = r[j]
  BY AppendFacts
<1> QED
  BY <1>1, <1>2 DEF Based

LEMMA WellTurn ==
  ASSUME CaseGood, NEW n, CaseTurn(n), UNCHANGED <<tree, moves>>
  PROVE  CaseWell'
<1>0. CaseWell
  BY DEF CaseGood
<1>1. /\ Has({"op", "base", "names", "root", "at"})' /\ call'.op = "case"
      /\ call'.base = call.base /\ call'.names = call.names /\ call'.at = call.at + 1
      /\ call.at \in 1 .. Len(call.names) /\ Len(call.names) \in Nat
  BY <1>0, TurnFields
<1>2. call'.root \in Seqs \cup {None}
  <2>1. n \in Names /\ call.root \in Seqs \cup {None}
    BY <1>0 DEF CaseTurn, CaseWell
  <2>2. call'.root \in {None, <<n>>} \/ (call.root \in Seqs /\ call'.root = Append(call.root, n))
    BY <2>1 DEF CaseTurn
  <2>3. <<n>> \in Seqs /\ (call.root \in Seqs => Append(call.root, n) \in Seqs)
    BY <2>1, AppendFacts DEF Seqs
  <2> QED
    BY <2>2, <2>3
<1>3. call'.at \in 1 .. Len(call'.names) + 1
  BY <1>1
<1> QED
  BY <1>0, <1>1, <1>2, <1>3 DEF CaseWell

LEMMA BasedTurn ==
  ASSUME CaseGood, NEW n, CaseTurn(n)
  PROVE  CaseBased'
<1>0. CaseWell
  BY DEF CaseGood
<1>1. /\ call'.base = call.base /\ call'.names = call.names /\ call'.at = call.at + 1
      /\ call.at \in 1 .. Len(call.names) /\ Len(call.names) \in Nat /\ call.at \in Nat
  BY <1>0, TurnFields
<1>2. SUFFICES ASSUME call.base # None
               PROVE  /\ call'.root # None /\ Based(call.base, call'.root)
                      /\ Spelled(call.names, call'.root, Len(call.base), 0, call.at)
  <2>1. call'.at - 1 = call.at
    BY <1>1
  <2> QED
    BY <1>1, <2>1 DEF CaseBased
<1>3. /\ call.root # None /\ Based(call.base, call.root)
      /\ Spelled(call.names, call.root, Len(call.base), 0, call.at - 1)
  BY <1>2 DEF CaseGood, CaseBased
<1>4. /\ call.root \in Seqs /\ call.names \in Seqs /\ call.base \in Seqs /\ n \in Names
      /\ Lower[n] = Lower[call.names[call.at]] /\ Len(call.base) \in Nat /\ 0 \in 0 .. call.at - 1
  <2>1. call.root \in Seqs /\ call.names \in Seqs /\ call.base \in Seqs
    BY <1>0, <1>2, <1>3 DEF CaseWell
  <2>2. n \in Names /\ Lower[n] = Lower[call.names[call.at]]
    BY DEF CaseTurn
  <2> QED
    BY <1>1, <2>1, <2>2 DEF Seqs
<1>5. call'.root = Append(call.root, n)
  BY <1>3 DEF CaseTurn
<1>6. Append(call.root, n) # None
  BY <1>4, AppendFacts, NoSeq
<1> QED
  BY <1>1, <1>3, <1>4, <1>5, <1>6, SpelledMore, BasedMore

LEMMA UnbasedTurn ==
  ASSUME CaseGood, NEW n, CaseTurn(n), UNCHANGED <<tree, moves>>, ~fault' => ~fault
  PROVE  CaseUnbased'
<1>0. CaseWell
  BY DEF CaseGood
<1>1. /\ call'.base = call.base /\ call'.names = call.names /\ call'.at = call.at + 1
      /\ call.at \in 1 .. Len(call.names) /\ Len(call.names) \in Nat /\ call.at \in Nat
  BY <1>0, TurnFields
<1> DEFINE p == call.names[call.at]
<1>2. call.names \in Seqs /\ n \in Names /\ Lower[n] = Lower[p]
  BY <1>0 DEF CaseTurn, CaseWell
<1>3. call'.at - 1 = call.at /\ call'.at - 2 = call.at - 1 /\ (Calm' => Calm)
  BY <1>1 DEF Calm
<1>4. SUFFICES ASSUME call.base = None
               PROVE  /\ call'.root # None => \E k \in 0 .. call.at - 1 :
                             /\ Spelled(call.names, call'.root, 0, k, call.at)
                             /\ Calm' => Out(tree, call.names, k)
                      /\ call'.root = None /\ Calm' => \A i \in 1 .. call.at : InTop(tree, call.names[i])
  BY <1>1, <1>3 DEF CaseUnbased
<1>5. CASE call.root # None
  <2>1. PICK k \in 0 .. call.at - 2 :
                             /\ Spelled(call.names, call.root, 0, k, call.at - 1)
                             /\ Calm => Out(tree, call.names, k)
    BY <1>4, <1>5 DEF CaseGood, CaseUnbased
  <2>2. call.root \in Seqs /\ call'.root = Append(call.root, n) /\ call'.root # None
    <3>1. call.root \in Seqs /\ call'.root = Append(call.root, n)
      BY <1>0, <1>5 DEF CaseWell, CaseTurn
    <3> QED
      BY <1>2, <3>1, AppendFacts, NoSeq
  <2>3. k \in 0 .. call.at - 1
    BY <1>1
  <2>4. Spelled(call.names, Append(call.root, n), 0, k, call.at)
    BY <1>1, <1>2, <2>1, <2>2, <2>3, SpelledMore
  <2> QED
    BY <1>3, <2>1, <2>2, <2>3, <2>4
<1>6. CASE call.root = None
  <2>1. Searched = Top
    BY <1>6 DEF Searched
  <2>2. Calm' => \A i \in 1 .. call.at - 1 : InTop(tree, call.names[i])
    BY <1>3, <1>4, <1>6 DEF CaseGood, CaseUnbased
  <2>3. CASE n \in Matches(p) /\ call'.root = None
    <3>1. n \in NamesIn(tree, Top)
      BY <2>1, <2>3 DEF Matches
    <3>2. InTop(tree, p)
      BY <1>2, <3>1 DEF InTop
    <3>3. \A i \in 1 .. call.at : i = call.at \/ i \in 1 .. call.at - 1
      BY <1>1
    <3> QED
      BY <2>2, <2>3, <3>2, <3>3
  <2>4. CASE (~fault' => Matches(p) = {}) /\ call'.root = <<n>>
    <3> DEFINE k == call.at - 1
    <3>1. k \in 0 .. call.at - 1 /\ call.at - k = 1 /\ k + 1 = call.at
      BY <1>1
    <3>2. Spelled(call.names, <<n>>, 0, k, call.at)
      <4>1. Len(<<n>>) = 0 + 1 /\ <<n>>[0 + 1] = n
        OBVIOUS
      <4>2. Lower[n] = Lower[call.names[k + 1]]
        BY <1>2, <3>1
      <4> HIDE DEF k
      <4>3. \A j \in 1 .. call.at - k : j = 1
        BY <3>1
      <4> QED
        BY <3>1, <4>1, <4>2, <4>3 DEF Spelled
    <3>3. Calm' => Out(tree, call.names, k)
      <4> SUFFICES ASSUME Calm' PROVE Out(tree, call.names, k)
        OBVIOUS
      <4>1. Matches(p) = {} /\ moves = 0
        BY <2>4 DEF Calm
      <4>2. Is("dir", tree, Top)
        BY <1>0, <4>1, TreeFacts DEF CaseWell
      <4>3. ~InTop(tree, p)
        BY <2>1, <4>1, <4>2 DEF Matches, InTop
      <4> HIDE DEF p
      <4> QED
        BY <2>2, <3>1, <4>3 DEF Out, p
    <3>4. call'.root # None
      BY <1>2, <2>4, TreeAssumption
    <3> HIDE DEF k
    <3> QED
      BY <2>4, <3>1, <3>2, <3>3, <3>4
  <2> QED
    BY <1>6, <2>3, <2>4 DEF CaseTurn
<1> QED
  BY <1>5, <1>6

(* In a directory where no two names differ in case only, the name that is *)
(* taken is the one that leads on.                                         *)
LEMMA FoundTurn ==
  ASSUME CaseGood, NEW n, CaseTurn(n), UNCHANGED <<tree, moves>>, ~fault' => ~fault
  PROVE  CaseFound'
<1>0. CaseWell
  BY DEF CaseGood
<1>1. /\ call'.base = call.base /\ call'.names = call.names /\ call'.at = call.at + 1
      /\ call.at \in 1 .. Len(call.names) /\ Len(call.names) \in Nat /\ call.at \in Nat
  BY <1>0, TurnFields
<1>2. SUFFICES ASSUME call.base # None, Calm', ~Ambiguous(tree), NEW q \in Seqs,
                      Asked(call.base, call.names, q), Reached(tree, q) \in DOMAIN tree
               PROVE  call'.root = To(q, Len(call'.root))
  BY <1>1 DEF CaseFound
<1>3. Calm /\ IsTree(tree)
  BY <1>0, <1>2 DEF Calm, CaseWell
<1>4. /\ call.root # None /\ Spelled(call.names, call.root, Len(call.base), 0, call.at - 1)
      /\ call.root = To(q, Len(call.root))
  BY <1>2, <1>3 DEF CaseGood, CaseBased, CaseFound
<1> DEFINE m == Len(call.root)
           p == call.names[call.at]
           d == Reached(tree, call.root)
<1>5. call.root \in Seqs /\ call.names \in Seqs /\ call.base \in Seqs
  BY <1>0, <1>2, <1>4 DEF CaseWell
<1>6. m = Len(call.base) + (call.at - 1) /\ Len(call.base) \in Nat
  <2>1. Len(call.root) = Len(call.base) + (call.at - 1 - 0)
    BY <1>4 DEF Spelled
  <2>2. Len(call.base) \in Nat
    BY <1>5 DEF Seqs
  <2> QED
    BY <1>1, <2>1, <2>2
<1>7. Len(q) = Len(call.base) + (Len(call.names) - 0)
  BY <1>2 DEF Asked, Spelled
<1> HIDE DEF m
<1>8. m \in 0 .. Len(q) - 1 /\ Lower[q[m + 1]] = Lower[p]
  <2>1. m \in 0 .. Len(q) - 1
    <3> DEFINE b == Len(call.base)
               l == Len(call.names)
               a == call.at
    <3>1. Len(q) = b + (l - 0) /\ m = b + (a - 1) /\ b \in Nat /\ l \in Nat /\ a \in 1 .. l
      BY <1>1, <1>6, <1>7
    <3> HIDE DEF b, l, a
    <3> QED
      BY <3>1
  <2>2. /\ Len(call.base) + call.at = m + 1 /\ 0 + call.at = call.at
        /\ call.at \in 1 .. Len(call.names) - 0
    BY <1>1, <1>6
  <2>3. \A j \in 1 .. Len(call.names) - 0 : Lower[q[Len(call.base) + j]] = Lower[call.names[0 + j]]
    BY <1>2 DEF Asked, Spelled
  <2> QED
    BY <2>1, <2>2, <2>3
<1>9. /\ Is("dir", tree, d) /\ Append(d, q[m + 1]) \in DOMAIN tree
      /\ q[m + 1] \in Names /\ To(q, m + 1) = Append(To(q, m), q[m + 1])
  <2>1. LET e == Reached(tree, To(q, m)) IN
        Is("dir", tree, e) /\ Append(e, q[m + 1]) \in DOMAIN tree
    BY <1>2, <1>3, <1>8, PathThere
  <2>2. To(q, m) = call.root
    BY <1>4 DEF m
  <2> QED
    BY <1>8, <2>1, <2>2, ToNext
<1>10. Searched = d /\ d \in Seqs /\ DOMAIN tree \subseteq Seqs
  BY <1>0, <1>4, <1>9 DEF Searched, Is, CaseWell
<1> HIDE DEF p, d
<1>11. q[m + 1] \in Matches(p)
  BY <1>8, <1>9, <1>10, InNames DEF Matches
<1>12. n \in Matches(p) /\ call'.root = Append(call.root, n)
  BY <1>2, <1>4, <1>11 DEF CaseTurn, Calm, p
<1>13. n \in Names /\ Lower[n] = Lower[p] /\ Append(d, n) \in DOMAIN tree
  BY <1>0, <1>1, <1>10, <1>12, MatchesAre DEF p
<1>14. n = q[m + 1]
  <2> DEFINE x == Append(d, n)
             y == Append(d, q[m + 1])
  <2>1. /\ x \in DOMAIN tree /\ y \in DOMAIN tree /\ x # Top /\ y # Top
        /\ Front(x) = d /\ Front(y) = d /\ Last(x) = n /\ Last(y) = q[m + 1]
    BY <1>9, <1>10, <1>13, AppendFacts
  <2> HIDE DEF x, y
  <2>2. x = y
    BY <1>2, <1>8, <1>13, <2>1 DEF Ambiguous
  <2> QED
    BY <2>1, <2>2
<1>15. call'.root = To(q, m + 1) /\ Len(call'.root) = m + 1
  <2>1. Len(Append(call.root, n)) = m + 1
    BY <1>5, <1>13, AppendFacts DEF m
  <2>2. To(q, m) = call.root
    BY <1>4 DEF m
  <2> QED
    BY <1>9, <1>12, <1>14, <2>1, <2>2
<1> QED
  BY <1>15

(* The other process is a disturbance; the call goes on. *)
LEMMA CaseOther ==
  ASSUME CaseGood, Other, moves \in Nat
  PROVE  CaseGood'
<1>1. UNCHANGED call /\ moves' # 0
  BY DEF Other
<1>2. DOMAIN tree' \subseteq Seqs
  BY FilesAssumption DEF Other, IsTree, Seqs
<1>3. CaseWell'
  BY <1>1, <1>2 DEF CaseGood, CaseWell, Has
<1>4. CaseBased'
  BY <1>1 DEF CaseGood, CaseBased
<1>5. CaseUnbased' /\ CaseFound'
  <2>1. ~Calm'
    BY <1>1 DEF Calm
  <2> QED
    BY <1>1, <2>1 DEF CaseGood, CaseUnbased, CaseFound
<1> QED
  BY <1>3, <1>4, <1>5 DEF CaseGood

LEMMA CaseTurnGood ==
  ASSUME CaseGood, CaseName
  PROVE  call' = Idle \/ CaseGood'
<1>1. CaseWell
  BY DEF CaseGood
<1>2. CASE call' = Idle
  BY <1>2
<1>3. CASE call' # Idle
  <2>1. PICK n : CaseTurn(n)
    BY <1>1, <1>3, CaseTurns
  <2>2. UNCHANGED <<tree, moves>> /\ (~fault' => ~fault)
    BY <1>1, CaseTurns
  <2> QED
    BY <2>1, <2>2, WellTurn, BasedTurn, UnbasedTurn, FoundTurn DEF CaseGood
<1> QED
  BY <1>2, <1>3

(* The other calls neither become this one nor end without an answer.      *)
LEMMA CaseNotTheirs ==
  ASSUME "op" \in DOMAIN call,
         \/ call.op = "mkdir" /\ Mkdir
         \/ call.op = "rm" /\ (RmLook \/ RmOpen \/ RmClosed \/ RmNext \/ RmCallback)
         \/ call.op = "copy" /\ (CopyStat \/ CopyUnlink \/ CopyOpen \/ CopyCreate \/ CopyRead \/ CopyWrite)
  PROVE  /\ "op" \in DOMAIN call' /\ call'.op # "case"
         /\ call' = Idle => answer' # <<>>
<1>0. /\ "op" \in DOMAIN Idle /\ Idle.op = "none"
      /\ \A v : <<v>> # <<>>
  BY DEF Idle
<1>1. CASE call' = Idle
  <2>1. call.op # "none" => call # Idle
    BY <1>0
  <2>2. \E v : answer' = <<v>>
    <3>1. CASE Mkdir
      BY <1>0, <1>1, <3>1 DEF Mkdir, Fails, Return
    <3>2. CASE RmLook \/ RmOpen \/ RmClosed \/ RmNext \/ RmCallback
      BY <1>0, <1>1, <3>2 DEF RmLook, RmOpen, RmClosed, RmNext, RmCallback, CallbackFails, Fails, Return
    <3>3. CASE CopyStat \/ CopyUnlink \/ CopyOpen \/ CopyCreate
      BY <1>0, <1>1, <3>3 DEF CopyStat, CopyUnlink, CopyOpen, CopyCreate, Copying, Fails, Return
    <3>4. CASE CopyRead \/ CopyWrite
      BY <1>0, <1>1, <3>4 DEF CopyRead, CopyWrite, Copying, Fails, Return
    <3> QED
      BY <3>1, <3>2, <3>3, <3>4
  <2> QED
    BY <1>0, <1>1, <2>2
<1>2. CASE call' # Idle
  <2>1. "op" \in DOMAIN call' /\ call'.op = call.op
    <3>1. CASE Mkdir
      BY <1>2, <3>1 DEF Mkdir, Fails, Return
    <3>2. CASE RmLook \/ RmOpen \/ RmClosed \/ RmNext \/ RmCallback
      BY <1>2, <3>2 DEF RmLook, RmOpen, RmClosed, RmNext, RmCallback, CallbackFails, Fails, Return
    <3>3. CASE CopyStat \/ CopyUnlink \/ CopyOpen \/ CopyCreate
      BY <1>2, <3>3 DEF CopyStat, CopyUnlink, CopyOpen, CopyCreate, Copying, Fails, Return
    <3>4. CASE CopyRead \/ CopyWrite
      BY <1>2, <3>4 DEF CopyRead, CopyWrite, Copying, Fails, Return
    <3> QED
      BY <3>1, <3>2, <3>3, <3>4
  <2> QED
    BY <1>2, <2>1
<1> QED
  BY <1>1, <1>2

LEMMA CaseInvStep ==
  ASSUME CaseInv, [Next]_vars PROVE CaseInv'
<1>0. "op" \in DOMAIN Idle /\ Idle.op = "none" /\ \A v : <<v>> # <<>>
  BY DEF Idle
<1>1. moves' \in Nat
  BY StaysDisturbed DEF CaseInv
<1>2. CASE UNCHANGED vars
  <2>1. UNCHANGED <<tree, call, answer, moves, fault>>
    BY <1>2 DEF vars
  <2>2. CaseGood => CaseGood'
    BY <2>1 DEF CaseGood, CaseWell, CaseBased, CaseUnbased, CaseFound, Calm, Has
  <2> QED
    BY <2>1, <2>2 DEF CaseInv
<1>3. CASE Other
  <2>1. UNCHANGED <<call, answer>> /\ call # Idle
    BY <1>3 DEF Other
  <2> QED
    BY <1>1, <1>3, <2>1, CaseOther DEF CaseInv
<1>4. CASE call = Idle /\ Start
  <2>1. CASE \E base \in Bases, names \in NameLists : StartCase(base, names)
    <3>1. CaseGood'
      BY <2>1, CaseBegins
    <3>2. call'.op = "case" /\ "op" \in DOMAIN call'
      BY <2>1 DEF StartCase, Begin
    <3> QED
      BY <1>0, <1>1, <3>1, <3>2 DEF CaseInv
  <2>2. CASE \E path \in Paths :
               \/ StartMkdir(path) \/ StartRm(path)
               \/ \E dst \in Paths, remove_target \in BOOLEAN : StartCopy(path, dst, remove_target)
    <3>1. "op" \in DOMAIN call' /\ call'.op \in {"mkdir", "rm", "copy"}
      BY <2>2 DEF StartMkdir, StartRm, StartCopy, Begin
    <3> QED
      BY <1>0, <1>1, <3>1 DEF CaseInv
  <2> QED
    BY <1>4, <2>1, <2>2 DEF Start
<1>5. CASE \/ call.op = "mkdir" /\ Mkdir
           \/ call.op = "rm" /\ (RmLook \/ RmOpen \/ RmClosed \/ RmNext \/ RmCallback)
           \/ call.op = "copy" /\ (CopyStat \/ CopyUnlink \/ CopyOpen \/ CopyCreate \/ CopyRead \/ CopyWrite)
  BY <1>1, <1>5, CaseNotTheirs DEF CaseInv
<1>6. CASE call.op = "case" /\ (CaseName \/ CaseEnd)
  <2>1. CaseGood
    BY <1>6 DEF CaseInv
  <2>2. CASE CaseEnd
    <3>1. call' = Idle /\ answer' = <<call.root>>
      BY <2>2 DEF CaseEnd, Return
    <3> QED
      BY <1>0, <1>1, <3>1 DEF CaseInv
  <2>3. CASE CaseName /\ call' = Idle
    <3>1. CaseWell /\ ~(\E n : CaseTurn(n))
      <4>1. CaseWell
        BY <2>1 DEF CaseGood
      <4>2. ASSUME NEW n, CaseTurn(n) PROVE FALSE
        BY <1>0, <2>3, <4>1, <4>2, TurnFields
      <4> QED
        BY <4>1, <4>2
    <3>2. answer' = <<None>>
      BY <2>3, <3>1, CaseTurns
    <3> QED
      BY <1>0, <1>1, <2>3, <3>2 DEF CaseInv
  <2>4. CASE CaseName /\ call' # Idle
    <3>1. CaseGood'
      BY <2>1, <2>4, CaseTurnGood
    <3>2. "op" \in DOMAIN call'
      BY <3>1 DEF CaseGood, CaseWell, Has
    <3> QED
      BY <1>1, <2>4, <3>1, <3>2 DEF CaseInv
  <2> QED
    BY <1>6, <2>2, <2>3, <2>4
<1> QED
  BY <1>2, <1>3, <1>4, <1>5, <1>6, WhoseStep

(* What nc_build_case_correct_path promises of the step that returns *)
CaseAnswer ==
  LET r    == answer'[1]
      base == call.base
      names == call.names
  IN
  /\ base # None /\ r # None =>
       IsPrefix(base, r) /\ SameLetters(SubSeq(r, Len(base) + 1, Len(r)), names)
  /\ base # None /\ ~fault' => r # None
  /\ base # None /\ Undisturbed /\ ~Ambiguous(tree) =>
       ((\E q \in {base \o s : s \in NameLists} :
           /\ SameLetters(q, base \o names)
           /\ IsPrefix(base, q)
           /\ Reached(tree, q) \in DOMAIN tree)
         => Reached(tree, r) \in DOMAIN tree)
  /\ /\ base = None /\ Undisturbed /\ names # <<>>
     /\ \A n \in NamesIn(tree, Top) : Lower[n] # Lower[names[1]]
     => r # None /\ SameLetters(r, names)

(* The rest of a path *)
LEMMA RestFacts ==
  ASSUME NEW p \in Seqs, NEW k \in 0 .. Len(p)
  PROVE  LET u == SubSeq(p, k + 1, Len(p)) IN
         /\ DOMAIN u = 1 .. Len(p) - k /\ Len(u) = Len(p) - k
         /\ \A j \in 1 .. Len(p) - k : u[j] = p[k + j]
<1> DEFINE u == SubSeq(p, k + 1, Len(p))
<1>1. Len(p) \in Nat /\ k \in Nat /\ p \in Seq(Names)
  BY DEF Seqs
<1>2. Len(u) = Len(p) - k /\ DOMAIN u = 1 .. Len(p) - k
  BY <1>1
<1>3. ASSUME NEW j \in 1 .. Len(p) - k PROVE u[j] = p[k + j]
  <2>1. u[j] = p[j + (k + 1) - 1] /\ j + (k + 1) - 1 = k + j
    BY <1>1
  <2> QED
    BY <2>1
<1> QED
  BY <1>2, <1>3

LEMMA JoinFacts ==
  ASSUME NEW p \in Seqs, NEW q \in Seqs
  PROVE  /\ p \o q \in Seqs /\ Len(p \o q) = Len(p) + Len(q) /\ DOMAIN (p \o q) = 1 .. Len(p) + Len(q)
         /\ \A j \in 1 .. Len(p) : (p \o q)[j] = p[j]
         /\ \A j \in 1 .. Len(q) : (p \o q)[Len(p) + j] = q[j]
BY DEF Seqs

LEMMA CaseReturns ==
  ASSUME CaseGood, CaseEnd PROVE CaseAnswer
<1> DEFINE r == call.root
           base == call.base
           names == call.names
<1>1. answer'[1] = r /\ fault' = fault /\ call.at > Len(names)
  BY DEF CaseEnd, Return
<1>2. /\ base \in Seqs \cup {None} /\ names \in Seqs /\ r \in Seqs \cup {None}
      /\ call.at \in 1 .. Len(names) + 1 /\ Len(names) \in Nat
  BY DEF CaseGood, CaseWell, Seqs
<1>3. call.at - 1 = Len(names) /\ call.at - 2 = Len(names) - 1
  BY <1>1, <1>2
<1>4. ASSUME base # None
      PROVE  /\ r # None /\ base \in Seqs /\ r \in Seqs /\ Based(base, r) /\ Len(base) \in Nat
             /\ Len(r) = Len(base) + Len(names)
             /\ \A j \in 1 .. Len(names) : Lower[r[Len(base) + j]] = Lower[names[j]]
  <2>1. r # None /\ Based(base, r) /\ Spelled(names, r, Len(base), 0, Len(names))
    BY <1>3, <1>4 DEF CaseGood, CaseBased
  <2>2. base \in Seqs /\ r \in Seqs /\ Len(base) \in Nat
    BY <1>2, <1>4, <2>1 DEF Seqs
  <2>3. /\ Len(r) = Len(base) + (Len(names) - 0)
        /\ \A j \in 1 .. Len(names) - 0 : Lower[r[Len(base) + j]] = Lower[names[0 + j]]
    BY <2>1 DEF Spelled
  <2>4. Len(names) - 0 = Len(names) /\ \A j \in 1 .. Len(names) : 0 + j = j
    BY <1>2
  <2> QED
    BY <2>1, <2>2, <2>3, <2>4
<1> HIDE DEF r, base, names
<1>5. ASSUME base # None
      PROVE  IsPrefix(base, r) /\ SameLetters(SubSeq(r, Len(base) + 1, Len(r)), names)
  <2>1. IsPrefix(base, r)
    BY <1>4, <1>5, PrefixByName DEF Based
  <2> DEFINE u == SubSeq(r, Len(base) + 1, Len(r))
  <2>2. /\ Len(base) \in 0 .. Len(r) /\ Len(r) - Len(base) = Len(names)
    BY <1>2, <1>4, <1>5
  <2>3. /\ DOMAIN u = 1 .. Len(r) - Len(base) /\ Len(u) = Len(r) - Len(base)
        /\ \A j \in 1 .. Len(r) - Len(base) : u[j] = r[Len(base) + j]
    BY <1>4, <1>5, <2>2, RestFacts
  <2> HIDE DEF u
  <2>4. SameLetters(u, names)
    BY <1>4, <1>5, <2>2, <2>3 DEF SameLetters
  <2> QED
    BY <2>1, <2>4 DEF u
<1>6. ASSUME base # None, Undisturbed, ~Ambiguous(tree), NEW s \in NameLists,
             SameLetters(base \o s, base \o names), Reached(tree, base \o s) \in DOMAIN tree
      PROVE  Reached(tree, r) \in DOMAIN tree
  <2> DEFINE q == base \o s
  <2>1. s \in Seqs
    BY FilesAssumption DEF Seqs
  <2>2. /\ q \in Seqs /\ Len(q) = Len(base) + Len(s) /\ DOMAIN q = 1 .. Len(q)
        /\ \A j \in 1 .. Len(base) : q[j] = base[j]
    BY <1>4, <1>6, <2>1, JoinFacts
  <2>3. /\ Len(base \o names) = Len(base) + Len(names)
        /\ \A j \in 1 .. Len(names) : (base \o names)[Len(base) + j] = names[j]
    BY <1>2, <1>4, <1>6, JoinFacts
  <2>4. Len(q) = Len(base) + Len(names) /\ \A i \in DOMAIN q : Lower[q[i]] = Lower[(base \o names)[i]]
    BY <1>6, <2>3 DEF SameLetters
  <2> HIDE DEF q
  <2>5. Asked(base, names, q)
    <3>1. Based(base, q)
      BY <1>2, <1>4, <1>6, <2>2, <2>4 DEF Based
    <3>2. ASSUME NEW j \in 1 .. Len(names) - 0
          PROVE  Lower[q[Len(base) + j]] = Lower[names[0 + j]]
      <4>1. j \in 1 .. Len(names) /\ 0 + j = j /\ Len(base) + j \in 1 .. Len(q)
        BY <1>2, <1>4, <1>6, <2>4
      <4>2. Lower[q[Len(base) + j]] = Lower[(base \o names)[Len(base) + j]]
        BY <2>2, <2>4, <4>1
      <4> QED
        BY <2>3, <4>1, <4>2
    <3>3. Len(q) = Len(base) + (Len(names) - 0)
      BY <1>2, <2>4
    <3> QED
      BY <3>1, <3>2, <3>3 DEF Asked, Spelled
  <2>6. Calm
    BY <1>1, <1>6 DEF Undisturbed, Calm
  <2>7. r = To(q, Len(r))
    BY <1>6, <2>2, <2>5, <2>6 DEF CaseGood, CaseFound, base, names, r, q
  <2>8. r = q
    BY <1>4, <1>6, <2>2, <2>4, <2>7, ToAll
  <2> QED
    BY <1>6, <2>8 DEF q
<1>7. ASSUME base = None, Undisturbed, names # <<>>,
             \A n \in NamesIn(tree, Top) : Lower[n] # Lower[names[1]]
      PROVE  r # None /\ SameLetters(r, names)
  <2>1. Calm
    BY <1>1, <1>7 DEF Undisturbed, Calm
  <2>2. /\ r # None => \E k \in 0 .. Len(names) - 1 :
                         Spelled(names, r, 0, k, Len(names)) /\ Out(tree, names, k)
        /\ r = None => \A i \in 1 .. Len(names) : InTop(tree, names[i])
    <3>1. /\ r # None => \E k \in 0 .. call.at - 2 :
                           /\ Spelled(names, r, 0, k, call.at - 1)
                           /\ Calm => Out(tree, names, k)
          /\ r = None /\ Calm => \A i \in 1 .. call.at - 1 : InTop(tree, names[i])
      BY <1>7 DEF CaseGood, CaseUnbased, base, names, r
    <3> QED
      BY <1>3, <2>1, <3>1
  <2>3. ~InTop(tree, names[1]) /\ 1 \in 1 .. Len(names)
    <3>1. Len(names) # 0
      BY <1>2, <1>7, TopFacts DEF Top
    <3> QED
      BY <1>2, <1>7, <3>1 DEF InTop
  <2>4. r # None
    BY <2>2, <2>3
  <2>5. Spelled(names, r, 0, 0, Len(names))
    <3>1. PICK k \in 0 .. Len(names) - 1 :
                         Spelled(names, r, 0, k, Len(names)) /\ Out(tree, names, k)
      BY <2>2, <2>4
    <3>2. k = 0
      BY <1>2, <2>3, <3>1 DEF Out
    <3> QED
      BY <3>1, <3>2
  <2>6. r \in Seqs /\ DOMAIN r = 1 .. Len(r)
    <3>1. r \in Seqs
      BY <1>2, <2>4
    <3> QED
      BY <3>1 DEF Seqs
  <2>7. SameLetters(r, names)
    <3>1. /\ Len(r) = 0 + (Len(names) - 0)
          /\ \A j \in 1 .. Len(names) - 0 : Lower[r[0 + j]] = Lower[names[0 + j]]
      BY <2>5 DEF Spelled
    <3>2. Len(r) = Len(names) /\ Len(names) - 0 = Len(names)
      BY <1>2, <3>1
    <3>3. ASSUME NEW j \in 1 .. Len(names) PROVE Lower[r[j]] = Lower[names[j]]
      <4>1. 0 + j = j
        BY <1>2
      <4> QED
        BY <3>1, <3>2, <4>1
    <3> QED
      BY <2>6, <3>2, <3>3 DEF SameLetters
  <2> QED
    BY <2>4, <2>7
<1>8. base # None => r # None
  BY <1>4
<1> QED
  BY <1>1, <1>5, <1>6, <1>7, <1>8 DEF CaseAnswer, r, base, names

(* From an absolute base nc_build_case_correct_path builds a path that is  *)
(* there, if there is one to be found, for every tree, with whatever       *)
(* links, and for every base and list of names; from the current directory *)
(* it answers the names as they are, if nothing has the first of them.     *)
THEOREM CaseAlwaysCorrect == Spec => CaseCorrect
<1>1. CaseInv /\ [Next]_vars => [StepOf("case") /\ Returns => CaseAnswer]_vars
  <2> SUFFICES ASSUME CaseInv, Next, StepOf("case"), Returns
               PROVE  CaseAnswer
    BY DEF Returns, vars
  <2>1. call.op = "case" /\ moves' = moves /\ moves \in Nat /\ answer' # answer /\ CaseGood
    BY DEF StepOf, Returns, CaseInv
  <2>2. ~Other
    BY <2>1 DEF Other
  <2>3. CaseName \/ CaseEnd
    BY <2>1, <2>2, WhoseStep DEF Idle
  <2>4. CASE CaseEnd
    BY <2>1, <2>4, CaseReturns
  <2>5. CASE CaseName
    <3>1. fault' /\ answer' = <<None>>
      BY <2>1, <2>5, CaseTurns DEF CaseGood
    <3> QED
      BY <3>1 DEF CaseAnswer, Undisturbed
  <2> QED
    BY <2>3, <2>4, <2>5
<1>2. Spec => [][StepOf("case") /\ Returns => CaseAnswer]_vars
  BY <1>1, CaseInit, CaseInvStep, PTL DEF Spec
<1> QED
  BY <1>2, PTL DEF CaseCorrect, CaseAnswer

=============================================================================
