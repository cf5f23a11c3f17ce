--------------------------- MODULE IniTextProofs ---------------------------
(***************************************************************************)
(* Theorems about the reading of one line, of any length, by IniText: it   *)
(* is taken for what IniLine says it means.                                *)
(***************************************************************************)
EXTENDS IniLine, FiniteSetTheorems, WellFoundedInduction, TLAPS

Text == Seq(Chars)

-----------------------------------------------------------------------------
(* Counting from the front and from the end *)

LEMMA LeastNumber ==
  ASSUME NEW T \in SUBSET Nat, T # {}
  PROVE  \E x \in T : \A y \in T : x <= y
<1> DEFINE R == OpToRel(<, Nat)
<1>1. PICK x \in T : \A y \in T : ~(<<y, x>> \in R)
  <2> HIDE DEF R
  <2>1. IsWellFoundedOn(R, Nat)
    BY NatLessThanWellFounded DEF R
  <2> QED
    BY <2>1, WFMin
<1>2. ASSUME NEW y \in T PROVE x <= y
  <2>1. ~(y < x)
    BY <1>1 DEF OpToRel
  <2> QED
    BY <2>1
<1> QED
  BY <1>2

(* A set of numbers with each of which it has all smaller ones *)
LEMMA CountFront ==
  ASSUME NEW n \in Nat, NEW T \in SUBSET (1 .. n), \A i \in T : \A j \in 1 .. i : j \in T
  PROVE  \E k \in 0 .. n : T = 1 .. k /\ Cardinality(T) = k
<1>1. \A k \in 0 .. n : Cardinality(1 .. k) = k
  <2> SUFFICES ASSUME NEW k \in 0 .. n PROVE Cardinality(1 .. k) = k
    OBVIOUS
  <2>1. Cardinality(1 .. k) = IF 1 > k THEN 0 ELSE k - 1 + 1
    BY FS_Interval
  <2> QED
    BY <2>1
<1>2. CASE T = 1 .. n
  BY <1>1, <1>2
<1>3. CASE T # 1 .. n
  <2> DEFINE D == (1 .. n) \ T
  <2>1. D \in SUBSET Nat /\ D # {}
    <3>1. ASSUME \A y \in 1 .. n : y \in T PROVE FALSE
      <4>1. T = 1 .. n
        BY <3>1
      <4> QED
        BY <1>3, <4>1
    <3> QED
      BY <3>1
  <2>2. PICK x \in D : \A y \in D : x <= y
    <3> HIDE DEF D
    <3> QED
      BY <2>1, LeastNumber
  <2>3. x \in 1 .. n /\ x \notin T /\ \A y \in (1 .. n) \ T : x <= y
    BY <2>2
  <2>4. \A y \in T : ~(x <= y)
    <3> SUFFICES ASSUME NEW y \in T, x <= y PROVE FALSE
      OBVIOUS
    <3>1. y \in 1 .. n /\ x \in 1 .. y
      BY <2>3
    <3> QED
      BY <2>3, <3>1
  <2> DEFINE k == x - 1
  <2>5. k \in 0 .. n /\ T = 1 .. k
    <3>1. k \in 0 .. n
      BY <2>3
    <3>2. ASSUME NEW y \in T PROVE y \in 1 .. k
      BY <2>3, <2>4
    <3>3. ASSUME NEW y \in 1 .. k PROVE y \in T
      <4>1. y \in 1 .. n /\ ~(x <= y)
        BY <2>3
      <4> QED
        BY <2>3, <4>1
    <3> HIDE DEF k
    <3>4. T = 1 .. k
      BY <3>2, <3>3
    <3> QED
      BY <3>1, <3>4
  <2>6. Cardinality(1 .. k) = k
    BY <1>1, <2>5
  <2> HIDE DEF k
  <2> QED
    BY <2>5, <2>6
<1> QED
  BY <1>2, <1>3

(* One with each of which it has all greater ones *)
LEMMA CountEnd ==
  ASSUME NEW n \in Nat, NEW T \in SUBSET (1 .. n), \A i \in T : \A j \in i .. n : j \in T
  PROVE  \E k \in 0 .. n : T = (k + 1) .. n /\ Cardinality(T) = n - k
<1>1. \A k \in 0 .. n : Cardinality((k + 1) .. n) = n - k
  <2> SUFFICES ASSUME NEW k \in 0 .. n PROVE Cardinality((k + 1) .. n) = n - k
    OBVIOUS
  <2>1. Cardinality((k + 1) .. n) = IF k + 1 > n THEN 0 ELSE n - (k + 1) + 1
    BY FS_Interval
  <2> QED
    BY <2>1
<1>2. CASE T = {}
  <2>1. T = (n + 1) .. n /\ n \in 0 .. n
    BY <1>2
  <2> QED
    BY <1>1, <2>1
<1>3. CASE T # {}
  <2>1. PICK x \in T : \A y \in T : x <= y
    <3>1. T \in SUBSET Nat
      OBVIOUS
    <3> QED
      BY <1>3, <3>1, LeastNumber
  <2> DEFINE k == x - 1
  <2>2. x \in 1 .. n /\ (\A j \in x .. n : j \in T) /\ k \in 0 .. n /\ k + 1 = x
    BY <2>1
  <2>3. T = (k + 1) .. n
    <3>1. ASSUME NEW y \in T PROVE y \in x .. n
      BY <2>1, <2>2
    <3>2. \A y \in x .. n : y \in T
      BY <2>2
    <3>3. T = x .. n
      BY <3>1, <3>2
    <3> QED
      BY <2>2, <3>3
  <2>4. Cardinality((k + 1) .. n) = n - k
    BY <1>1, <2>2
  <2> HIDE DEF k
  <2> QED
    BY <2>2, <2>3, <2>4
<1> QED
  BY <1>2, <1>3

-----------------------------------------------------------------------------
(* Blanks around a text *)

(* The characters of s from i to j are what is left without them. *)
Core(s, i, j) ==
  /\ i \in 1 .. Len(s) /\ j \in 1 .. Len(s)
  /\ s[i] \notin Blank /\ \A k \in 1 .. i - 1 : s[k] \in Blank
  /\ s[j] \notin Blank /\ \A k \in j + 1 .. Len(s) : s[k] \in Blank

LEMMA SameText ==
  ASSUME NEW s \in Text, NEW t \in Text, Len(s) = Len(t), \A i \in 1 .. Len(s) : s[i] = t[i]
  PROVE  s = t
BY DEF Text

LEMMA SubText ==
  ASSUME NEW s \in Text, NEW i \in 1 .. Len(s) + 1, NEW j \in i - 1 .. Len(s)
  PROVE  /\ SubSeq(s, i, j) \in Text /\ Len(SubSeq(s, i, j)) = j - i + 1
         /\ \A k \in 1 .. j - i + 1 : SubSeq(s, i, j)[k] = s[k + i - 1]
BY DEF Text

LEMMA LeadingIs ==
  ASSUME NEW s \in Text
  PROVE  /\ Leading(s) \in 0 .. Len(s) /\ \A i \in 1 .. Leading(s) : s[i] \in Blank
         /\ Leading(s) < Len(s) => s[Leading(s) + 1] \notin Blank
<1> DEFINE T == {i \in DOMAIN s : \A j \in 1 .. i : s[j] \in Blank}
<1>1. Len(s) \in Nat /\ DOMAIN s = 1 .. Len(s)
  BY DEF Text
<1>2. T \in SUBSET (1 .. Len(s)) /\ \A i \in T : \A j \in 1 .. i : j \in T
  BY <1>1
<1>3. PICK k \in 0 .. Len(s) : T = 1 .. k /\ Cardinality(T) = k
  <2> HIDE DEF T
  <2> QED
    BY <1>1, <1>2, CountFront
<1>4. Leading(s) = k
  BY <1>3 DEF Leading
<1>5. \A i \in 1 .. k : s[i] \in Blank
  <2> SUFFICES ASSUME NEW i \in 1 .. k PROVE s[i] \in Blank
    OBVIOUS
  <2>1. i \in T /\ i \in 1 .. i
    BY <1>3
  <2> QED
    BY <2>1
<1>6. k < Len(s) => s[k + 1] \notin Blank
  <2> SUFFICES ASSUME k < Len(s), s[k + 1] \in Blank PROVE FALSE
    OBVIOUS
  <2>1. k + 1 \in DOMAIN s /\ \A j \in 1 .. k + 1 : s[j] \in Blank
    BY <1>1, <1>5
  <2>2. k + 1 \in T
    BY <2>1
  <2> QED
    BY <1>1, <1>3, <2>2
<1> QED
  BY <1>4, <1>5, <1>6

LEMMA TrailingIs ==
  ASSUME NEW s \in Text
  PROVE  /\ Trailing(s) \in 0 .. Len(s)
         /\ \A i \in Len(s) - Trailing(s) + 1 .. Len(s) : s[i] \in Blank
         /\ Trailing(s) < Len(s) => s[Len(s) - Trailing(s)] \notin Blank
<1> DEFINE T == {i \in DOMAIN s : \A j \in i .. Len(s) : s[j] \in Blank}
<1>1. Len(s) \in Nat /\ DOMAIN s = 1 .. Len(s)
  BY DEF Text
<1>2. T \in SUBSET (1 .. Len(s)) /\ \A i \in T : \A j \in i .. Len(s) : j \in T
  BY <1>1
<1>3. PICK k \in 0 .. Len(s) : T = (k + 1) .. Len(s) /\ Cardinality(T) = Len(s) - k
  <2> HIDE DEF T
  <2> QED
    BY <1>1, <1>2, CountEnd
<1>4. Trailing(s) = Len(s) - k /\ Len(s) - Trailing(s) = k
  BY <1>1, <1>3 DEF Trailing
<1>5. \A i \in k + 1 .. Len(s) : s[i] \in Blank
  <2> SUFFICES ASSUME NEW i \in k + 1 .. Len(s) PROVE s[i] \in Blank
    OBVIOUS
  <2>1. i \in T /\ i \in i .. Len(s)
    BY <1>1, <1>3
  <2> QED
    BY <2>1
<1>6. k > 0 => s[k] \notin Blank
  <2> SUFFICES ASSUME k > 0, s[k] \in Blank PROVE FALSE
    OBVIOUS
  <2>1. k \in DOMAIN s /\ \A j \in k .. Len(s) : s[j] \in Blank
    BY <1>1, <1>5
  <2>2. k \in T
    BY <2>1
  <2> QED
    BY <1>1, <1>3, <2>2
<1> QED
  BY <1>1, <1>4, <1>5, <1>6

LEMMA CoreExists ==
  ASSUME NEW s \in Text, ~IsBlank(s)
  PROVE  Core(s, Leading(s) + 1, Len(s) - Trailing(s))
<1>1. Len(s) \in Nat /\ DOMAIN s = 1 .. Len(s)
  BY DEF Text
<1>2. PICK i \in 1 .. Len(s) : s[i] \notin Blank
  BY <1>1 DEF IsBlank
<1>3. Leading(s) < Len(s) /\ Trailing(s) < Len(s)
  BY <1>1, <1>2, LeadingIs, TrailingIs
<1> QED
  BY <1>1, <1>3, LeadingIs, TrailingIs DEF Core

LEMMA CoreOne ==
  ASSUME NEW s \in Text, NEW i, NEW j, NEW m, NEW n, Core(s, i, j), Core(s, m, n)
  PROVE  i = m /\ j = n /\ i <= j
<1>1. Len(s) \in Nat /\ i \in 1 .. Len(s) /\ j \in 1 .. Len(s) /\ m \in 1 .. Len(s) /\ n \in 1 .. Len(s)
  BY DEF Core, Text
<1>2. ~(i < m) /\ ~(m < i) /\ ~(j < n) /\ ~(n < j) /\ ~(j < i)
  BY <1>1 DEF Core
<1> QED
  BY <1>1, <1>2

LEMMA TrimCore ==
  ASSUME NEW s \in Text, NEW i, NEW j, Core(s, i, j)
  PROVE  /\ Trim(s) = SubSeq(s, i, j) /\ Trim(s) \in Text /\ Trim(s) # <<>>
         /\ i \in 1 .. Len(s) /\ j \in i .. Len(s) /\ Len(Trim(s)) = j - i + 1
         /\ \A k \in 1 .. j - i + 1 : Trim(s)[k] = s[k + i - 1]
         /\ Trim(s)[1] \notin Blank /\ Trim(s)[Len(Trim(s))] \notin Blank
<1>1. Len(s) \in Nat /\ DOMAIN s = 1 .. Len(s) /\ i \in 1 .. Len(s) /\ j \in 1 .. Len(s) /\ i <= j
  BY CoreOne DEF Core, Text
<1>2. ~IsBlank(s)
  BY <1>1 DEF IsBlank, Core
<1> DEFINE m == CHOOSE m \in DOMAIN s : s[m] \notin Blank /\ \A k \in 1 .. m - 1 : s[k] \in Blank
           n == CHOOSE n \in DOMAIN s : s[n] \notin Blank /\ \A k \in n + 1 .. Len(s) : s[k] \in Blank
<1>3. Core(s, m, n)
  <2>1. m \in DOMAIN s /\ s[m] \notin Blank /\ \A k \in 1 .. m - 1 : s[k] \in Blank
    BY <1>1 DEF Core
  <2>2. n \in DOMAIN s /\ s[n] \notin Blank /\ \A k \in n + 1 .. Len(s) : s[k] \in Blank
    BY <1>1 DEF Core
  <2> HIDE DEF m, n
  <2> QED
    BY <1>1, <2>1, <2>2 DEF Core
<1>4. Trim(s) = SubSeq(s, i, j)
  <2>1. Trim(s) = SubSeq(s, m, n)
    BY <1>2 DEF Trim
  <2> HIDE DEF m, n
  <2> QED
    BY <1>3, <2>1, CoreOne
<1> HIDE DEF m, n
<1>5. /\ SubSeq(s, i, j) \in Text /\ Len(SubSeq(s, i, j)) = j - i + 1
      /\ \A k \in 1 .. j - i + 1 : SubSeq(s, i, j)[k] = s[k + i - 1]
  <2>1. i \in 1 .. Len(s) + 1 /\ j \in i - 1 .. Len(s)
    BY <1>1
  <2> QED
    BY <2>1, SubText
<1>6. /\ 1 \in 1 .. j - i + 1 /\ j - i + 1 \in 1 .. j - i + 1 /\ 1 + i - 1 = i
      /\ (j - i + 1) + i - 1 = j /\ j - i + 1 # 0
  BY <1>1
<1>7. Trim(s)[1] \notin Blank /\ Trim(s)[j - i + 1] \notin Blank
  BY <1>4, <1>5, <1>6 DEF Core
<1> QED
  BY <1>1, <1>4, <1>5, <1>6, <1>7

LEMMA SubSub ==
  ASSUME NEW s \in Text, NEW a \in 1 .. Len(s) + 1, NEW b \in a - 1 .. Len(s),
         NEW c \in 1 .. b - a + 2, NEW d \in c - 1 .. b - a + 1
  PROVE  SubSeq(SubSeq(s, a, b), c, d) = SubSeq(s, a + c - 1, a + d - 1)
<1> DEFINE u == SubSeq(s, a, b)
           l == SubSeq(u, c, d)
           r == SubSeq(s, a + c - 1, a + d - 1)
<1>1. Len(s) \in Nat
  BY DEF Text
<1>2. u \in Text /\ Len(u) = b - a + 1 /\ \A k \in 1 .. b - a + 1 : u[k] = s[k + a - 1]
  BY SubText
<1>3. l \in Text /\ Len(l) = d - c + 1 /\ \A k \in 1 .. d - c + 1 : l[k] = u[k + c - 1]
  <2> HIDE DEF u
  <2>1. c \in 1 .. Len(u) + 1 /\ d \in c - 1 .. Len(u)
    BY <1>1, <1>2
  <2> QED
    BY <1>2, <2>1, SubText
<1>4. r \in Text /\ Len(r) = d - c + 1 /\ \A k \in 1 .. d - c + 1 : r[k] = s[k + a + c - 2]
  <2> DEFINE x == a + c - 1
             y == a + d - 1
  <2>1. x \in 1 .. Len(s) + 1 /\ y \in x - 1 .. Len(s) /\ y - x + 1 = d - c + 1
    BY <1>1
  <2>2. \A k \in 1 .. d - c + 1 : k + x - 1 = k + a + c - 2
    BY <1>1
  <2> HIDE DEF x, y
  <2>3. /\ SubSeq(s, x, y) \in Text /\ Len(SubSeq(s, x, y)) = y - x + 1
        /\ \A k \in 1 .. y - x + 1 : SubSeq(s, x, y)[k] = s[k + x - 1]
    BY <2>1, SubText
  <2> QED
    BY <2>1, <2>2, <2>3 DEF x, y
<1> HIDE DEF u, l, r
<1>5. ASSUME NEW k \in 1 .. Len(l) PROVE l[k] = r[k]
  <2>1. k + c - 1 \in 1 .. b - a + 1 /\ k + c - 1 + a - 1 = k + a + c - 2 /\ k \in 1 .. d - c + 1
    BY <1>1, <1>3
  <2> QED
    BY <1>2, <1>3, <1>4, <2>1
<1>6. l = r
  BY <1>3, <1>4, <1>5, SameText
<1> QED
  BY <1>6 DEF l, r, u

(* A part that has the core has the same core. *)
LEMMA SubCore ==
  ASSUME NEW s \in Text, NEW i, NEW j, Core(s, i, j), NEW a \in 1 .. i, NEW b \in j .. Len(s)
  PROVE  /\ Core(SubSeq(s, a, b), i - a + 1, j - a + 1)
         /\ Trim(SubSeq(s, a, b)) = Trim(s)
<1> DEFINE u == SubSeq(s, a, b)
<1>1. Len(s) \in Nat /\ i \in 1 .. Len(s) /\ j \in i .. Len(s) /\ a \in 1 .. Len(s) + 1 /\ b \in a - 1 .. Len(s)
  BY CoreOne DEF Core, Text
<1>2. u \in Text /\ Len(u) = b - a + 1 /\ \A k \in 1 .. b - a + 1 : u[k] = s[k + a - 1]
  BY <1>1, SubText
<1> HIDE DEF u
<1> DEFINE x == i - a + 1
           y == j - a + 1
<1>3. /\ x \in 1 .. Len(u) /\ y \in x .. Len(u) /\ y \in 1 .. Len(u)
      /\ x + a - 1 = i /\ y + a - 1 = j
  BY <1>1, <1>2
<1> HIDE DEF x, y
<1>4. Core(u, x, y)
  <2>1. u[x] \notin Blank /\ u[y] \notin Blank
    BY <1>2, <1>3 DEF Core
  <2>2. ASSUME NEW k \in 1 .. x - 1 PROVE u[k] \in Blank
    <3>1. k \in 1 .. b - a + 1 /\ k + a - 1 \in 1 .. i - 1
      BY <1>1, <1>2, <1>3
    <3> QED
      BY <1>2, <3>1 DEF Core
  <2>3. ASSUME NEW k \in y + 1 .. Len(u) PROVE u[k] \in Blank
    <3>1. k \in 1 .. b - a + 1 /\ k + a - 1 \in j + 1 .. Len(s)
      BY <1>1, <1>2, <1>3
    <3> QED
      BY <1>2, <3>1 DEF Core
  <2> QED
    BY <1>3, <2>1, <2>2, <2>3 DEF Core
<1>5. Trim(u) = Trim(s)
  <2>1. Trim(u) = SubSeq(u, x, y) /\ Trim(s) = SubSeq(s, i, j)
    BY <1>2, <1>4, TrimCore
  <2>2. /\ x \in 1 .. b - a + 2 /\ y \in x - 1 .. b - a + 1
        /\ a + x - 1 = i /\ a + y - 1 = j
    BY <1>1, <1>2, <1>3
  <2>3. SubSeq(SubSeq(s, a, b), x, y) = SubSeq(s, a + x - 1, a + y - 1)
    BY <1>1, <2>2, SubSub
  <2> QED
    BY <2>1, <2>2, <2>3 DEF u
<1> QED
  BY <1>4, <1>5 DEF u, x, y

LEMMA TrimBlank ==
  ASSUME NEW s \in Text, IsBlank(s)
  PROVE  Trim(s) = <<>>
BY DEF Trim

LEMMA TrimText ==
  ASSUME NEW s \in Text
  PROVE  /\ Trim(s) \in Text
         /\ Trim(s) # <<>> => Trim(s)[1] \notin Blank /\ Trim(s)[Len(Trim(s))] \notin Blank
<1>1. CASE IsBlank(s)
  <2>1. Trim(s) = <<>>
    BY <1>1, TrimBlank
  <2>2. <<>> \in Text
    BY DEF Text
  <2> QED
    BY <2>1, <2>2
<1>2. CASE ~IsBlank(s)
  BY <1>2, CoreExists, TrimCore
<1> QED
  BY <1>1, <1>2

(* Blanks in front make no difference. *)
LEMMA TrimDropFront ==
  ASSUME NEW s \in Text, NEW a \in 1 .. Len(s) + 1, \A k \in 1 .. a - 1 : s[k] \in Blank
  PROVE  Trim(SubSeq(s, a, Len(s))) = Trim(s)
<1>1. Len(s) \in Nat /\ DOMAIN s = 1 .. Len(s)
  BY DEF Text
<1>2. CASE IsBlank(s)
  <2> DEFINE u == SubSeq(s, a, Len(s))
  <2>1. u \in Text /\ Len(u) = Len(s) - a + 1 /\ \A k \in 1 .. Len(s) - a + 1 : u[k] = s[k + a - 1]
    BY <1>1, SubText
  <2> HIDE DEF u
  <2>2. IsBlank(u)
    <3>1. DOMAIN u = 1 .. Len(u)
      BY <2>1 DEF Text
    <3>2. ASSUME NEW k \in 1 .. Len(u) PROVE u[k] \in Blank
      <4>1. k \in 1 .. Len(s) - a + 1 /\ k + a - 1 \in 1 .. Len(s)
        BY <1>1, <2>1
      <4> QED
        BY <1>1, <1>2, <2>1, <4>1 DEF IsBlank
    <3> QED
      BY <3>1, <3>2 DEF IsBlank
  <2>3. Trim(u) = Trim(s)
    BY <1>2, <2>1, <2>2, TrimBlank
  <2> QED
    BY <2>3 DEF u
<1>3. CASE ~IsBlank(s)
  <2>1. PICK i, j : Core(s, i, j)
    BY <1>3, CoreExists
  <2>2. a \in 1 .. i /\ Len(s) \in j .. Len(s)
    BY <1>1, <2>1 DEF Core
  <2> QED
    BY <2>1, <2>2, SubCore
<1> QED
  BY <1>2, <1>3

(* string_strip: the text without the blanks around it. *)
LEMMA StripIsTrim ==
  ASSUME NEW s \in Text
  PROVE  string_strip(s) = Trim(s)
<1> DEFINE f == Leading(s)
           u == SubSeq(s, f + 1, Len(s))
           e == Trailing(u)
<1>1. Len(s) \in Nat /\ DOMAIN s = 1 .. Len(s)
  BY DEF Text
<1>2. f \in 0 .. Len(s) /\ \A i \in 1 .. f : s[i] \in Blank
  BY LeadingIs
<1>3. f + 1 \in 1 .. Len(s) + 1 /\ Len(s) \in f .. Len(s) /\ f + 1 - 1 = f /\ Len(s) - (f + 1) + 1 = Len(s) - f
  BY <1>1, <1>2
<1>4. u \in Text /\ Len(u) = Len(s) - f
  <2> HIDE DEF f
  <2>1. f + 1 \in 1 .. Len(s) + 1 /\ Len(s) \in (f + 1) - 1 .. Len(s)
    BY <1>1, <1>2
  <2> QED
    BY <1>3, <2>1, SubText
<1>5. Trim(u) = Trim(s)
  <2> HIDE DEF f
  <2>1. \A k \in 1 .. (f + 1) - 1 : s[k] \in Blank
    BY <1>1, <1>2
  <2> QED
    BY <1>3, <2>1, TrimDropFront
<1>6. string_strip(s) = SubSeq(u, 1, Len(u) - e)
  BY DEF string_strip, rstrip, lstrip
<1>7. e \in 0 .. Len(u)
  <2> HIDE DEF u
  <2> QED
    BY <1>4, TrailingIs
<1>8. Len(u) \in Nat
  BY <1>4 DEF Text
<1>9. CASE IsBlank(u)
  <2>1. Trim(u) = <<>>
    BY <1>4, <1>9, TrimBlank
  <2>2. e = Len(u)
    <3> HIDE DEF u
    <3> SUFFICES ASSUME e < Len(u) PROVE FALSE
      BY <1>7, <1>8
    <3>1. u[Len(u) - e] \notin Blank
      BY <1>4, TrailingIs
    <3>2. Len(u) - e \in DOMAIN u
      BY <1>4, <1>7, <1>8 DEF Text
    <3> QED
      BY <1>9, <3>1, <3>2 DEF IsBlank
  <2>3. SubSeq(u, 1, Len(u) - e) = <<>>
    <3> HIDE DEF u, e
    <3> QED
      BY <1>4, <1>8, <2>2 DEF Text
  <2> QED
    BY <1>5, <1>6, <2>1, <2>3
<1>10. CASE ~IsBlank(u)
  <2>1. Core(u, Leading(u) + 1, Len(u) - e)
    BY <1>4, <1>10, CoreExists
  <2>2. Leading(u) = 0
    <3>1. f < Len(s) => s[f + 1] \notin Blank
      BY LeadingIs
    <3>2. f < Len(s) /\ u[1] = s[f + 1]
      <4>1. Len(u) # 0
        BY <1>10, <1>4 DEF IsBlank, Text
      <4>2. f < Len(s)
        BY <1>1, <1>2, <1>4, <4>1
      <4>3. 1 \in 1 .. Len(s) - (f + 1) + 1 /\ 1 + (f + 1) - 1 = f + 1
        BY <1>1, <1>2, <4>2
      <4> HIDE DEF f
      <4>4. \A k \in 1 .. Len(s) - (f + 1) + 1 : u[k] = s[k + (f + 1) - 1]
        <5>1. f + 1 \in 1 .. Len(s) + 1 /\ Len(s) \in (f + 1) - 1 .. Len(s)
          BY <1>1, <1>2
        <5> QED
          BY <5>1, SubText
      <4> QED
        BY <4>2, <4>3, <4>4
    <3>3. u[1] \notin Blank
      BY <3>1, <3>2
    <3> HIDE DEF u
    <3>4. Leading(u) \in 0 .. Len(u) /\ \A i \in 1 .. Leading(u) : u[i] \in Blank
      BY <1>4, LeadingIs
    <3> QED
      BY <1>8, <3>3, <3>4
  <2>3. Trim(u) = SubSeq(u, Leading(u) + 1, Len(u) - e)
    <3> HIDE DEF u, e
    <3> QED
      BY <1>4, <2>1, TrimCore
  <2>4. Leading(u) + 1 = 1
    BY <2>2
  <2> HIDE DEF u, e
  <2> QED
    BY <1>5, <1>6, <2>3, <2>4
<1> QED
  BY <1>9, <1>10

-----------------------------------------------------------------------------
(* string_chew_terminated *)

(* inp[i] in C, and the positions of the blanks that the second loop counts *)
InC(s, i) == IF i < Len(s) THEN s[i + 1] ELSE "NUL"
Counted(s) ==
  {i \in Leading(s) + 1 .. Len(s) - Leading(s) :
     /\ InC(s, i) \in Blank
     /\ \A j \in i .. Len(s) - Leading(s) : InC(s, j) \in Blank \cup {"NUL"}}

LEMMA ChewIs ==
  ASSUME NEW s \in Text
  PROVE  string_chew_terminated(s) =
           SubSeq(s, Leading(s) + 1, IF Cardinality(Counted(s)) > 0
                                     THEN Len(s) - Leading(s) - Cardinality(Counted(s))
                                     ELSE Len(s))
BY DEF string_chew_terminated, Counted, InC

LEMMA Letters ==
  ASSUME NEW s \in Text, NEW i \in 1 .. Len(s)
  PROVE  s[i] \in Chars /\ s[i] # "NUL"
BY LineAssumption DEF LineAssumption, Text

LEMMA ChewNothing ==
  ASSUME NEW s \in Text, Counted(s) = {}
  PROVE  string_chew_terminated(s) = SubSeq(s, Leading(s) + 1, Len(s))
<1>1. Cardinality(Counted(s)) = 0
  BY FS_EmptySet
<1> QED
  BY <1>1, ChewIs

(* Without blanks in front it removes the ones behind. *)
LEMMA ChewNoFront ==
  ASSUME NEW s \in Text, Leading(s) = 0
  PROVE  string_chew_terminated(s) = Trim(s)
<1>1. Len(s) \in Nat /\ DOMAIN s = 1 .. Len(s)
  BY DEF Text
<1>2. CASE Len(s) = 0
  <2>1. Counted(s) = {}
    BY <1>2 DEF Counted
  <2>2. string_chew_terminated(s) = SubSeq(s, 1, 0)
    BY <1>2, <2>1, ChewNothing
  <2>3. SubSeq(s, 1, 0) = <<>>
    BY DEF Text
  <2>4. IsBlank(s)
    BY <1>1, <1>2 DEF IsBlank
  <2> QED
    BY <2>2, <2>3, <2>4, TrimBlank
<1>3. CASE Len(s) # 0
  <2>1. s[1] \notin Blank /\ 1 \in 1 .. Len(s)
    <3>1. Leading(s) < Len(s) => s[Leading(s) + 1] \notin Blank
      BY LeadingIs
    <3>2. Leading(s) < Len(s) /\ Leading(s) + 1 = 1
      BY <1>1, <1>3
    <3> QED
      BY <1>1, <3>1, <3>2
  <2>2. ~IsBlank(s)
    BY <1>1, <2>1 DEF IsBlank
  <2> DEFINE j == Len(s) - Trailing(s)
  <2>3. Core(s, 1, j)
    <3>1. Core(s, Leading(s) + 1, Len(s) - Trailing(s)) /\ Leading(s) + 1 = 1
      BY <2>2, CoreExists
    <3> QED
      BY <3>1
  <2> HIDE DEF j
  <2>4. j \in 1 .. Len(s) /\ s[j] \notin Blank /\ \A k \in j + 1 .. Len(s) : s[k] \in Blank
    BY <2>3 DEF Core
  <2>5. Counted(s) = j .. Len(s) - 1
    <3>1. ASSUME NEW i \in Counted(s) PROVE i \in j .. Len(s) - 1
      <4>1. i \in 1 .. Len(s) /\ InC(s, i) \in Blank /\ \A k \in i .. Len(s) : InC(s, k) \in Blank \cup {"NUL"}
        BY <1>1 DEF Counted
      <4>2. i < Len(s)
        BY <1>1, <4>1 DEF InC, Blank
      <4>3. ASSUME i < j PROVE FALSE
        <5>1. j - 1 \in i .. Len(s) /\ j - 1 < Len(s) /\ (j - 1) + 1 = j
          BY <1>1, <2>4, <4>1, <4>3
        <5>2. InC(s, j - 1) = s[j]
          BY <5>1 DEF InC
        <5>3. s[j] \in Blank \cup {"NUL"}
          BY <4>1, <5>1, <5>2
        <5> QED
          BY <2>4, <5>3, Letters
      <4> QED
        BY <1>1, <2>4, <4>1, <4>2, <4>3
    <3>2. ASSUME NEW i \in j .. Len(s) - 1 PROVE i \in Counted(s)
      <4>1. i \in 1 .. Len(s) /\ i < Len(s) /\ i + 1 \in j + 1 .. Len(s)
        BY <1>1, <2>4
      <4>2. InC(s, i) \in Blank
        BY <2>4, <4>1 DEF InC
      <4>3. ASSUME NEW k \in i .. Len(s) PROVE InC(s, k) \in Blank \cup {"NUL"}
        <5>1. CASE k < Len(s)
          <6>1. k + 1 \in j + 1 .. Len(s)
            BY <1>1, <2>4, <5>1
          <6> QED
            BY <2>4, <5>1, <6>1 DEF InC
        <5>2. CASE ~(k < Len(s))
          BY <5>2 DEF InC
        <5> QED
          BY <5>1, <5>2
      <4>4. i \in Leading(s) + 1 .. Len(s) - Leading(s) /\ Len(s) - Leading(s) = Len(s)
        BY <1>1, <4>1
      <4> QED
        BY <4>2, <4>3, <4>4 DEF Counted
    <3> QED
      BY <3>1, <3>2
  <2> DEFINE n == Len(s)
  <2>n. n \in Nat /\ j \in Int /\ 1 <= j /\ j <= n /\ n - 1 \in Int
    BY <1>1, <2>4
  <2> HIDE DEF n
  <2>6. Cardinality(Counted(s)) = n - j
    <3> DEFINE m == n - 1
    <3>1. m \in Int
      BY <2>n
    <3> HIDE DEF m
    <3>2. Cardinality(j .. m) = IF j > m THEN 0 ELSE m - j + 1
      BY <2>n, <3>1, FS_Interval
    <3>3. (IF j > m THEN 0 ELSE m - j + 1) = n - j
      BY <2>n DEF m
    <3> QED
      BY <2>5, <3>2, <3>3 DEF m, n
  <2>7. string_chew_terminated(s) = SubSeq(s, 1, j)
    <3> DEFINE e == Cardinality(Counted(s))
    <3>1. string_chew_terminated(s) = SubSeq(s, 0 + 1, IF e > 0 THEN n - 0 - e ELSE n)
      BY ChewIs DEF n
    <3>2. e = n - j
      BY <2>6
    <3> HIDE DEF e
    <3>3. (IF e > 0 THEN n - 0 - e ELSE n) = j /\ 0 + 1 = 1
      BY <2>n, <3>2
    <3> QED
      BY <3>1, <3>3
  <2> QED
    BY <2>3, <2>7, TrimCore
<1> QED
  BY <1>2, <1>3

(* A text with no blanks behind: what it makes of it is a front part of    *)
(* what is left without the ones in front, and all of it when there is at  *)
(* most one in front or none inside.                                       *)
LEMMA ChewNoEnd ==
  ASSUME NEW s \in Text, s # <<>> => s[Len(s)] \notin Blank
  PROVE  /\ Leading(s) <= 1 \/ (\A i \in DOMAIN Trim(s) : Trim(s)[i] \notin Blank)
              => string_chew_terminated(s) = Trim(s)
         /\ IsPrefix(string_chew_terminated(s), Trim(s))
<1>1. Len(s) \in Nat /\ DOMAIN s = 1 .. Len(s) /\ (Len(s) = 0 => s = <<>>) /\ (s = <<>> => Len(s) = 0)
  BY DEF Text
<1>2. ASSUME NEW t \in Text PROVE IsPrefix(t, t)
  <2>1. Len(t) \in Nat
    BY <1>2 DEF Text
  <2> QED
    BY <2>1 DEF IsPrefix
<1>3. Trim(s) \in Text
  BY TrimText
<1>4. CASE Leading(s) = 0
  BY <1>2, <1>3, <1>4, ChewNoFront
<1>5. CASE Leading(s) # 0
  <2> DEFINE f == Leading(s)
             n == Len(s)
  <2>1. f \in 1 .. n /\ \A i \in 1 .. f : s[i] \in Blank
    BY <1>1, <1>5, LeadingIs
  <2>2. n \in 1 .. n /\ s[n] \notin Blank /\ n \in Nat /\ s[n] # "NUL"
    <3>1. n \in 1 .. n /\ s # <<>>
      BY <1>1, <2>1
    <3> QED
      BY <1>1, <3>1, Letters
  <2>3. ~IsBlank(s)
    BY <1>1, <2>2 DEF IsBlank
  <2>4. Core(s, f + 1, n)
    <3>1. Trailing(s) = 0
      <4>1. Trailing(s) \in 0 .. n /\ \A i \in n - Trailing(s) + 1 .. n : s[i] \in Blank
        BY TrailingIs
      <4>2. Trailing(s) > 0 => n \in n - Trailing(s) + 1 .. n
        BY <2>2, <4>1
      <4> QED
        BY <2>2, <4>1, <4>2
    <3>2. Core(s, Leading(s) + 1, Len(s) - Trailing(s)) /\ Len(s) - Trailing(s) = Len(s)
      BY <1>1, <2>3, <3>1, CoreExists
    <3> QED
      BY <3>2
  <2>5. /\ Trim(s) = SubSeq(s, f + 1, n) /\ f + 1 \in 1 .. n /\ Len(Trim(s)) = n - (f + 1) + 1
        /\ \A k \in 1 .. n - (f + 1) + 1 : Trim(s)[k] = s[k + (f + 1) - 1]
    <3> HIDE DEF f, n
    <3>1. /\ Trim(s) = SubSeq(s, f + 1, n) /\ f + 1 \in 1 .. Len(s) /\ Len(Trim(s)) = n - (f + 1) + 1
          /\ \A k \in 1 .. n - (f + 1) + 1 : Trim(s)[k] = s[k + (f + 1) - 1]
      BY <2>4, TrimCore
    <3> QED
      BY <3>1 DEF n
  <2>6. Counted(s) \in SUBSET (f + 1 .. n - f)
    BY DEF Counted
  <2>7. ASSUME NEW i \in Counted(s)
        PROVE  /\ i \in f + 1 .. n - f /\ i + 1 \in f + 1 .. n /\ s[i + 1] \in Blank
               /\ \A j \in i .. n - f : InC(s, j) \in Blank \cup {"NUL"}
    <3>1. /\ i \in f + 1 .. n - f /\ InC(s, i) \in Blank
          /\ \A j \in i .. n - f : InC(s, j) \in Blank \cup {"NUL"}
      BY DEF Counted
    <3> HIDE DEF f
    <3>2. i < n /\ i + 1 \in f + 1 .. n
      BY <2>1, <2>2, <3>1
    <3> QED
      BY <3>1, <3>2 DEF InC
  <2> HIDE DEF f, n
  <2>8. ASSUME f <= 1 \/ (\A i \in DOMAIN Trim(s) : Trim(s)[i] \notin Blank)
        PROVE  Counted(s) = {}
    <3> SUFFICES ASSUME NEW i \in Counted(s) PROVE FALSE
      OBVIOUS
    <3>1. CASE f <= 1
      <4>1. f = 1 /\ n - f \in i .. n - f /\ n - f < n /\ (n - f) + 1 = n
        BY <2>1, <2>2, <2>7, <3>1
      <4>2. InC(s, n - f) = s[n]
        BY <4>1 DEF InC, n
      <4> QED
        BY <2>2, <2>7, <4>1, <4>2
    <3>2. CASE \A k \in DOMAIN Trim(s) : Trim(s)[k] \notin Blank
      <4> DEFINE k == i + 1 - f
      <4>1. /\ k \in 1 .. n - (f + 1) + 1 /\ k + (f + 1) - 1 = i + 1
            /\ n - (f + 1) + 1 = Len(Trim(s))
        BY <2>1, <2>2, <2>5, <2>7
      <4> HIDE DEF k
      <4>2. k \in DOMAIN Trim(s) /\ Trim(s)[k] = s[i + 1]
        <5>1. DOMAIN Trim(s) = 1 .. Len(Trim(s))
          BY <1>3 DEF Text
        <5> QED
          BY <2>5, <4>1, <5>1
      <4> QED
        BY <2>7, <3>2, <4>2
    <3> QED
      BY <2>8, <3>1, <3>2
  <2>9. Counted(s) = {} => string_chew_terminated(s) = Trim(s)
    BY <2>5, ChewNothing DEF f, n
  <2>10. IsPrefix(string_chew_terminated(s), Trim(s))
    <3> DEFINE e == Cardinality(Counted(s))
    <3>1. CASE Counted(s) = {}
      BY <1>2, <1>3, <2>9, <3>1
    <3>2. CASE Counted(s) # {}
      <4>1. e \in Nat /\ e <= n - f /\ e # 0
        <5>1. IsFiniteSet(f + 1 .. n - f) /\ Cardinality(f + 1 .. n - f) =
                IF f + 1 > n - f THEN 0 ELSE (n - f) - (f + 1) + 1
          BY <2>1, <2>2, FS_Interval
        <5>2. IsFiniteSet(Counted(s)) /\ e <= Cardinality(f + 1 .. n - f)
          BY <2>6, <5>1, FS_Subset
        <5>3. e \in Nat
          BY <5>2, FS_CardinalityType
        <5>4. e # 0
          BY <3>2, <5>2, FS_EmptySet
        <5> HIDE DEF e
        <5> QED
          BY <2>1, <2>2, <5>1, <5>2, <5>3, <5>4
      <4> HIDE DEF e
      <4> DEFINE m == n - f - e
      <4>2. string_chew_terminated(s) = SubSeq(s, f + 1, m)
        <5>1. string_chew_terminated(s) = SubSeq(s, f + 1, IF e > 0 THEN n - f - e ELSE n)
          BY ChewIs DEF e, f, n
        <5>2. e > 0
          BY <4>1
        <5> QED
          BY <5>1, <5>2
      <4>3. CASE m < f
        <5>1. SubSeq(s, f + 1, m) = <<>>
          BY <2>1, <2>2, <4>1, <4>3 DEF Text
        <5>2. IsPrefix(<<>>, Trim(s))
          <6>1. Len(Trim(s)) \in Nat /\ SubSeq(Trim(s), 1, 0) = <<>> /\ Len(<<>>) = 0 /\ SubSeq(<<>>, 1, 0) = <<>>
            BY <1>3 DEF Text
          <6> QED
            BY <6>1 DEF IsPrefix
        <5> QED
          BY <4>2, <5>1, <5>2
      <4>4. CASE m >= f
        <5>1. f + 1 \in 1 .. Len(s) + 1 /\ m \in (f + 1) - 1 .. Len(s) /\ n \in (f + 1) - 1 .. Len(s)
          BY <2>1, <2>2, <2>5, <4>1, <4>4 DEF n
        <5> DEFINE a == f + 1
                   l == m - a + 1
                   u == SubSeq(s, a, m)
        <5>2. /\ 1 \in 1 .. n - a + 2 /\ l \in 1 - 1 .. n - a + 1
              /\ a + 1 - 1 = a /\ a + l - 1 = m /\ l <= n - a + 1
              /\ 1 \in 1 .. m - a + 2 /\ l \in 1 - 1 .. m - a + 1
          BY <2>1, <2>2, <5>1, <4>1
        <5> HIDE DEF a, l, m
        <5>3. /\ SubSeq(SubSeq(s, a, n), 1, l) = SubSeq(s, a + 1 - 1, a + l - 1)
              /\ SubSeq(SubSeq(s, a, m), 1, l) = SubSeq(s, a + 1 - 1, a + l - 1)
          <6>1. a \in 1 .. Len(s) + 1 /\ m \in a - 1 .. Len(s) /\ n \in a - 1 .. Len(s)
            BY <5>1 DEF a
          <6> QED
            BY <5>2, <6>1, SubSub
        <5>4. Len(SubSeq(s, a, m)) = l
          <6>1. a \in 1 .. Len(s) + 1 /\ m \in a - 1 .. Len(s)
            BY <5>1 DEF a
          <6> QED
            BY <6>1, SubText DEF l
        <5>5. l <= Len(Trim(s)) /\ SubSeq(Trim(s), 1, l) = SubSeq(u, 1, l)
          BY <2>5, <5>2, <5>3 DEF a
        <5> QED
          BY <4>2, <5>4, <5>5 DEF IsPrefix, a
      <4>5. m \in Int
        BY <2>1, <2>2, <4>1
      <4> HIDE DEF m
      <4> QED
        BY <2>1, <4>3, <4>4, <4>5
    <3> QED
      BY <3>1, <3>2
  <2> QED
    BY <2>8, <2>9, <2>10 DEF f
<1> QED
  BY <1>4, <1>5

-----------------------------------------------------------------------------
(* The line *)

LEMMA FirstExists ==
  ASSUME NEW s \in Text, NEW i \in DOMAIN s, s[i] = "="
  PROVE  FirstAssign(s) # {}
<1> DEFINE T == {k \in DOMAIN s : s[k] = "="}
<1>1. Len(s) \in Nat /\ DOMAIN s = 1 .. Len(s)
  BY DEF Text
<1>2. T \in SUBSET Nat /\ T # {}
  BY <1>1
<1>3. PICK a \in T : \A y \in T : a <= y
  <2> HIDE DEF T
  <2> QED
    BY <1>2, LeastNumber
<1>4. ASSUME NEW k \in 1 .. a - 1 PROVE s[k] # "="
  <2>1. k \in DOMAIN s /\ ~(a <= k)
    BY <1>1, <1>3
  <2> QED
    BY <1>3, <2>1
<1>5. a \in FirstAssign(s)
  BY <1>3, <1>4 DEF FirstAssign
<1> QED
  BY <1>5

(* What is before the first "=" and what is after it *)
LEMMA KeyCut ==
  ASSUME NEW s \in Text, NEW a \in FirstAssign(s)
  PROVE  /\ a \in 1 .. Len(s) /\ s[a] = "=" /\ FirstAssign(s) = {a}
         /\ Key(s) = SubSeq(s, 1, a - 1) /\ Key(s) \in Text
         /\ Value(s) = SubSeq(s, a + 1, Len(s)) /\ Value(s) \in Text
<1>1. Len(s) \in Nat /\ DOMAIN s = 1 .. Len(s)
  BY DEF Text
<1>2. a \in 1 .. Len(s) /\ s[a] = "=" /\ \A k \in 1 .. a - 1 : s[k] # "="
  BY <1>1 DEF FirstAssign
<1>3. FirstAssign(s) = {a}
  <2>1. ASSUME NEW b \in FirstAssign(s) PROVE b = a
    <3>1. b \in 1 .. Len(s) /\ s[b] = "=" /\ \A k \in 1 .. b - 1 : s[k] # "="
      BY <1>1 DEF FirstAssign
    <3>2. ~(a < b) /\ ~(b < a)
      BY <1>1, <1>2, <3>1
    <3> QED
      BY <1>1, <1>2, <3>1, <3>2
  <2> QED
    BY <2>1
<1> DEFINE IsKeyLen(n) == s[n + 1] = "=" /\ \A i \in 1 .. n : s[i] # "="
           m == CHOOSE n \in 0 .. Len(s) - 1 : IsKeyLen(n)
<1>4. m = a - 1
  <2>1. a - 1 \in 0 .. Len(s) - 1 /\ (a - 1) + 1 = a
    BY <1>1, <1>2
  <2>2. IsKeyLen(a - 1)
    BY <1>2, <2>1
  <2>3. m \in 0 .. Len(s) - 1 /\ IsKeyLen(m)
    <3> HIDE DEF IsKeyLen
    <3> QED
      BY <2>1, <2>2
  <2>4. m + 1 \in 1 .. Len(s) /\ s[m + 1] = "=" /\ \A i \in 1 .. m : s[i] # "="
    BY <1>1, <2>3
  <2> HIDE DEF m
  <2>5. ~(m + 1 < a) /\ ~(a < m + 1)
    BY <1>1, <1>2, <2>3, <2>4
  <2> QED
    BY <1>1, <1>2, <2>3, <2>5
<1>5. Key(s) = SubSeq(s, 1, a - 1)
  <2>1. Key(s) = SubSeq(s, 1, m)
    BY DEF Key
  <2> HIDE DEF m
  <2> QED
    BY <1>4, <2>1
<1>6. Key(s) \in Text /\ Len(Key(s)) = a - 1
  <2> DEFINE n == a - 1
  <2>1. 1 \in 1 .. Len(s) + 1 /\ n \in 1 - 1 .. Len(s) /\ n - 1 + 1 = a - 1
    BY <1>1, <1>2
  <2> HIDE DEF n
  <2>2. SubSeq(s, 1, n) \in Text /\ Len(SubSeq(s, 1, n)) = n - 1 + 1
    BY <2>1, SubText
  <2> QED
    BY <1>5, <2>1, <2>2 DEF n
<1>7. Value(s) = SubSeq(s, a + 1, Len(s))
  <2>1. Len(Key(s)) + 2 = a + 1
    BY <1>1, <1>2, <1>6
  <2> QED
    BY <2>1 DEF Value
<1>8. Value(s) \in Text
  <2> DEFINE x == a + 1
  <2>1. x \in 1 .. Len(s) + 1 /\ Len(s) \in x - 1 .. Len(s)
    BY <1>1, <1>2
  <2> HIDE DEF x
  <2>2. SubSeq(s, x, Len(s)) \in Text
    BY <2>1, SubText
  <2> QED
    BY <1>7, <2>2 DEF x
<1> QED
  BY <1>2, <1>3, <1>5, <1>6, <1>7, <1>8

(* The key is the same with the blanks around the line and without. *)
LEMMA SameKey ==
  ASSUME NEW s \in Text, Trim(s) # <<>>, NEW a \in FirstAssign(Trim(s))
  PROVE  Trim(Key(s)) = Trim(SubSeq(Trim(s), 1, a - 1))
<1> DEFINE t == Trim(s)
<1>1. Len(s) \in Nat /\ DOMAIN s = 1 .. Len(s)
  BY DEF Text
<1>2. PICK i, j : Core(s, i, j)
  BY TrimBlank, CoreExists
<1>3. /\ t = SubSeq(s, i, j) /\ t \in Text /\ i \in 1 .. Len(s) /\ j \in i .. Len(s)
      /\ Len(t) = j - i + 1 /\ \A k \in 1 .. j - i + 1 : t[k] = s[k + i - 1]
  BY <1>2, TrimCore
<1>4. \A k \in 1 .. i - 1 : s[k] \in Blank
  BY <1>2 DEF Core
<1> HIDE DEF t
<1>5. a \in 1 .. j - i + 1 /\ t[a] = "=" /\ \A k \in 1 .. a - 1 : t[k] # "="
  BY <1>3 DEF FirstAssign, t, Text
<1> DEFINE b == a + i - 1
           w == SubSeq(s, 1, b - 1)
<1>6. b \in i .. j /\ b \in 1 .. Len(s) /\ b \in Int
  BY <1>1, <1>3, <1>5
<1>7. b \in FirstAssign(s)
  <2>1. s[b] = "="
    BY <1>3, <1>5
  <2>2. ASSUME NEW k \in 1 .. b - 1 PROVE s[k] # "="
    <3>1. CASE k < i
      <4>1. k \in 1 .. i - 1
        BY <1>1, <1>3, <1>6, <3>1
      <4>2. s[k] \in Blank
        BY <1>4, <4>1
      <4> QED
        BY <4>2 DEF Blank
    <3>2. CASE ~(k < i)
      <4> DEFINE l == k - i + 1
      <4>1. l \in 1 .. a - 1 /\ l \in 1 .. j - i + 1 /\ l + i - 1 = k
        BY <1>1, <1>3, <1>5, <3>2
      <4> HIDE DEF l
      <4> QED
        BY <1>3, <1>5, <4>1
    <3> QED
      BY <3>1, <3>2
  <2> HIDE DEF b
  <2> QED
    BY <1>1, <1>6, <2>1, <2>2 DEF FirstAssign
<1>8. Key(s) = w /\ w \in Text
  <2> HIDE DEF b
  <2> QED
    BY <1>7, KeyCut
<1> DEFINE z == b - 1
<1>9. /\ 1 \in 1 .. Len(s) + 1 /\ z \in 1 - 1 .. Len(s) /\ z - 1 + 1 = z
      /\ i \in 1 .. z + 1 /\ z - 1 + 2 = z + 1 /\ z \in i - 1 .. z - 1 + 1
      /\ 1 + i - 1 = i /\ 1 + z - 1 = z
      /\ i + (a - 1) - 1 = z /\ i + 1 - 1 = i
  BY <1>1, <1>3, <1>5, <1>6
<1>10. w = SubSeq(s, 1, z)
  OBVIOUS
<1> HIDE DEF b, w, z
<1>11. Len(w) = z /\ \A k \in 1 .. z : w[k] = s[k + 1 - 1]
  <2>1. /\ Len(SubSeq(s, 1, z)) = z - 1 + 1
        /\ \A k \in 1 .. z - 1 + 1 : SubSeq(s, 1, z)[k] = s[k + 1 - 1]
    BY <1>9, SubText
  <2> QED
    BY <1>9, <1>10, <2>1
<1>12. Trim(SubSeq(w, i, z)) = Trim(w)
  <2>1. ASSUME NEW k \in 1 .. i - 1 PROVE w[k] \in Blank
    <3>1. k \in 1 .. z /\ k + 1 - 1 = k
      BY <1>1, <1>3, <1>9
    <3> QED
      BY <1>4, <1>11, <3>1
  <2>2. i \in 1 .. Len(w) + 1
    BY <1>9, <1>11
  <2>3. Trim(SubSeq(w, i, Len(w))) = Trim(w)
    BY <1>8, <2>1, <2>2, TrimDropFront
  <2> QED
    BY <1>11, <2>3
<1>13. SubSeq(w, i, z) = SubSeq(s, i, z)
  <2>1. SubSeq(SubSeq(s, 1, z), i, z) = SubSeq(s, 1 + i - 1, 1 + z - 1)
    <3>1. i \in 1 .. z - 1 + 2
      BY <1>9
    <3> QED
      BY <1>9, <3>1, SubSub
  <2> QED
    BY <1>9, <1>10, <2>1
<1>14. SubSeq(t, 1, a - 1) = SubSeq(s, i, z)
  <2> DEFINE y == a - 1
  <2>1. /\ i \in 1 .. Len(s) + 1 /\ j \in i - 1 .. Len(s)
        /\ 1 \in 1 .. j - i + 2 /\ y \in 1 - 1 .. j - i + 1
    BY <1>1, <1>3, <1>5
  <2>2. i + 1 - 1 = i /\ i + y - 1 = z
    BY <1>9
  <2> HIDE DEF y
  <2>3. SubSeq(SubSeq(s, i, j), 1, y) = SubSeq(s, i + 1 - 1, i + y - 1)
    BY <2>1, SubSub
  <2> QED
    BY <1>3, <2>2, <2>3 DEF y
<1> QED
  BY <1>8, <1>12, <1>13, <1>14 DEF t

(* A line is taken for what it means. *)
LEMMA ReadMeans ==
  ASSUME NEW s \in Text
  PROVE  /\ Read(s).kind = Kind(s) /\ Read(s).name = Name(s)
         /\ Read(s).kind = "assign" =>
              LET v == Value(Trim(s)) IN
              /\ Leading(v) <= 1 \/ (\A i \in DOMAIN Trim(v) : Trim(v)[i] \notin Blank)
                   => Read(s).value = Trim(v)
              /\ IsPrefix(Read(s).value, Trim(v))
<1> DEFINE t == Trim(s)
<1>1. t \in Text /\ (t # <<>> => t[1] \notin Blank /\ t[Len(t)] \notin Blank)
  BY TrimText
<1>2. Read(s) = Taken(t)
  BY StripIsTrim DEF Read
<1>3. Len(t) \in Nat /\ DOMAIN t = 1 .. Len(t) /\ (t # <<>> => Len(t) # 0)
  <2> HIDE DEF t
  <2> QED
    BY <1>1 DEF Text
<1>4. CASE t = <<>>
  <2>1. Kind(s) = "blank" /\ Name(s) = <<>>
    BY <1>4 DEF Kind, Name
  <2>2. Read(s) = Line("blank", <<>>, <<>>)
    BY <1>2, <1>4 DEF Taken
  <2> QED
    BY <2>1, <2>2 DEF Line
<1>5. CASE t # <<>> /\ t[1] = "[" /\ t[Len(t)] = "]"
  <2>1. Kind(s) = "section"
    BY <1>5 DEF Kind
  <2>2. Name(s) = SubSeq(t, 2, Len(t) - 1)
    BY <2>1 DEF Name
  <2>3. Read(s) = Line("section", SubSeq(t, 2, Len(t) - 1), <<>>)
    BY <1>2, <1>5 DEF Taken
  <2> QED
    BY <2>1, <2>2, <2>3 DEF Line
<1>6. CASE t # <<>> /\ t[1] = "[" /\ t[Len(t)] # "]"
  <2>1. Kind(s) = "open"
    BY <1>6 DEF Kind
  <2>2. Name(s) = <<>>
    BY <2>1 DEF Name
  <2>3. Read(s) = Line("open", <<>>, <<>>)
    BY <1>2, <1>6 DEF Taken
  <2> QED
    BY <2>1, <2>2, <2>3 DEF Line
<1>7. CASE t # <<>> /\ t[1] \in {"#", ";"}
  <2>1. Kind(s) = "comment"
    BY <1>7 DEF Kind
  <2>2. Name(s) = <<>>
    BY <2>1 DEF Name
  <2>3. Read(s) = Line("comment", <<>>, <<>>)
    BY <1>2, <1>7 DEF Taken
  <2> QED
    BY <2>1, <2>2, <2>3 DEF Line
<1>8. CASE t # <<>> /\ t[1] # "[" /\ t[1] \notin {"#", ";"} /\ FirstAssign(t) = {}
  <2>1. Kind(s) = "noassign"
    <3>1. ~ \E i \in DOMAIN t : t[i] = "="
      <4> HIDE DEF t
      <4> QED
        BY <1>1, <1>8, FirstExists
    <3> QED
      BY <1>8, <3>1 DEF Kind
  <2>2. Name(s) = <<>>
    BY <2>1 DEF Name
  <2>3. Read(s) = Line("noassign", <<>>, <<>>)
    BY <1>2, <1>8 DEF Taken
  <2> QED
    BY <2>1, <2>2, <2>3 DEF Line
<1>9. CASE t # <<>> /\ t[1] # "[" /\ t[1] \notin {"#", ";"} /\ FirstAssign(t) # {}
  <2>1. PICK a \in FirstAssign(t) : TRUE
    BY <1>9
  <2>2. /\ a \in 1 .. Len(t) /\ t[a] = "=" /\ FirstAssign(t) = {a}
        /\ Key(t) = SubSeq(t, 1, a - 1) /\ Key(t) \in Text
        /\ Value(t) = SubSeq(t, a + 1, Len(t)) /\ Value(t) \in Text
    <3> HIDE DEF t
    <3> QED
      BY <1>1, KeyCut
  <2> DEFINE u == SubSeq(t, 1, a - 1)
             v == Value(t)
  <2>3. Read(s) = Line("assign", string_chew_terminated(u), string_chew_terminated(v))
    <3>1. (CHOOSE i \in FirstAssign(t) : TRUE) = a
      BY <2>2
    <3> HIDE DEF t
    <3>2. Taken(t) = LET at == CHOOSE i \in FirstAssign(t) : TRUE IN
                     Line("assign", string_chew_terminated(SubSeq(t, 1, at - 1)),
                                    string_chew_terminated(SubSeq(t, at + 1, Len(t))))
      BY <1>9 DEF Taken
    <3> QED
      BY <1>2, <2>2, <3>1, <3>2
  <2>4. Kind(s) = "assign"
    <3>1. \E i \in DOMAIN t : t[i] = "="
      BY <1>3, <2>2
    <3> QED
      BY <1>9, <3>1 DEF Kind
  <2>5. Name(s) = Trim(Key(s))
    BY <2>4 DEF Name
  <2>6. string_chew_terminated(u) = Trim(u)
    <3> HIDE DEF t
    <3> DEFINE z == a - 1
    <3>1. 1 \in 1 .. Len(t) + 1 /\ z \in 1 - 1 .. Len(t) /\ z - 1 + 1 = z
      BY <1>3, <2>2
    <3>2. u \in Text
      BY <2>2
    <3>3. Len(u) = z - 1 + 1 /\ \A k \in 1 .. z - 1 + 1 : u[k] = t[k + 1 - 1]
      <4> HIDE DEF z
      <4>1. /\ Len(SubSeq(t, 1, z)) = z - 1 + 1
            /\ \A k \in 1 .. z - 1 + 1 : SubSeq(t, 1, z)[k] = t[k + 1 - 1]
        BY <1>1, <3>1, SubText
      <4> QED
        BY <4>1 DEF z
    <3> HIDE DEF u, z
    <3>4. Leading(u) = 0
      <4>1. Leading(u) \in 0 .. Len(u) /\ \A i \in 1 .. Leading(u) : u[i] \in Blank
        BY <3>2, LeadingIs
      <4>2. ASSUME Leading(u) # 0 PROVE FALSE
        <5>1. 1 \in 1 .. Leading(u) /\ 1 \in 1 .. z - 1 + 1 /\ 1 + 1 - 1 = 1
          BY <3>1, <3>3, <4>1, <4>2
        <5>2. u[1] = t[1] /\ u[1] \in Blank
          BY <3>3, <4>1, <5>1
        <5> QED
          BY <1>1, <1>9, <5>2
      <4> QED
        BY <4>2
    <3> QED
      BY <3>2, <3>4, ChewNoFront
  <2>7. Trim(Key(s)) = Trim(u)
    BY <1>9, <2>1, SameKey
  <2>8. v # <<>> => v[Len(v)] \notin Blank
    <3> HIDE DEF t
    <3> DEFINE x == a + 1
    <3>1. x \in 1 .. Len(t) + 1 /\ Len(t) \in x - 1 .. Len(t) /\ x \in Int
      BY <1>3, <2>2
    <3> HIDE DEF x
    <3>2. /\ Len(SubSeq(t, x, Len(t))) = Len(t) - x + 1
          /\ \A k \in 1 .. Len(t) - x + 1 : SubSeq(t, x, Len(t))[k] = t[k + x - 1]
      BY <1>1, <3>1, SubText
    <3>3. v = SubSeq(t, x, Len(t))
      BY <2>2 DEF x
    <3> HIDE DEF v
    <3>4. ASSUME v # <<>> PROVE v[Len(v)] = t[Len(t)]
      <4>1. Len(v) # 0
        BY <2>2, <3>4 DEF v, Text
      <4>2. Len(v) \in 1 .. Len(t) - x + 1 /\ Len(v) + x - 1 = Len(t)
        BY <1>3, <3>1, <3>2, <3>3, <4>1
      <4> QED
        BY <3>2, <3>3, <4>2
    <3> QED
      BY <1>1, <1>9, <3>4
  <2>9. /\ Leading(v) <= 1 \/ (\A i \in DOMAIN Trim(v) : Trim(v)[i] \notin Blank)
             => string_chew_terminated(v) = Trim(v)
        /\ IsPrefix(string_chew_terminated(v), Trim(v))
    <3>1. v \in Text
      BY <2>2
    <3> HIDE DEF v
    <3> QED
      BY <2>8, <3>1, ChewNoEnd
  <2>10. Read(s).kind = "assign" /\ Read(s).name = Trim(u) /\ Read(s).value = string_chew_terminated(v)
    BY <2>3, <2>6 DEF Line
  <2> HIDE DEF u, v, t
  <2> QED
    BY <2>4, <2>5, <2>7, <2>9, <2>10 DEF v, t
<1> QED
  BY <1>4, <1>5, <1>6, <1>7, <1>8, <1>9

-----------------------------------------------------------------------------
(* The specification *)

(* The text stays as it was; once read, the line is what Read makes of it. *)
LineInv == text \in Text /\ (line # <<>> => line = <<Read(text)>>)

LEMMA LineAlwaysInv == Spec => []LineInv
<1>1. Init => LineInv
  <2> SUFFICES ASSUME Init PROVE LineInv
    OBVIOUS
  <2>1. PICK n \in 0 .. MaxLen : text \in [1 .. n -> Chars]
    BY DEF Init
  <2>2. n \in Nat
    BY LineAssumption DEF LineAssumption
  <2>3. text \in Text
    BY <2>1, <2>2 DEF Text
  <2> QED
    BY <2>3 DEF Init, LineInv
<1>2. LineInv /\ [Next]_vars => LineInv'
  BY DEF LineInv, Next, ReadLine, vars
<1> QED
  BY <1>1, <1>2, PTL DEF Spec

(* A line of any characters and of any length is taken for the kind it is  *)
(* and under the name it has.                                              *)
THEOREM KindAndNameAlwaysRead == Spec => []KindAndNameRead
<1>1. LineInv => KindAndNameRead
  BY ReadMeans DEF LineInv, KindAndNameRead
<1> QED
  BY <1>1, LineAlwaysInv, PTL

(* The value of an assignment of any length arrives without its padding    *)
(* behind at most one blank, or when it has none inside, and is never      *)
(* anything but a front part of itself.                                    *)
THEOREM ValueAlwaysRead == Spec => []ValueRead
<1>1. LineInv => ValueRead
  BY ReadMeans DEF LineInv, ValueRead
<1> QED
  BY <1>1, LineAlwaysInv, PTL

=============================================================================
