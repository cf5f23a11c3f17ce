--------------------------- MODULE NcStringProofs ---------------------------
(***************************************************************************)
(* Theorems about NcString, for all handles and texts: the buffer fits its *)
(* length whatever is written, appended and stripped in whatever order.    *)
(***************************************************************************)
EXTENDS NcString, WellFoundedInduction, TLAPS

(* The first NUL of a buffer is at e. *)
EndAt(b, e) ==
  e \in 1 .. Len(b) /\ b[e] = Nul /\ \A j \in 1 .. e - 1 : b[j] # Nul

(* A string whose text ends before e.  If strip has cut blanks off, the    *)
(* text has two words' worth of characters that are no blanks, the last    *)
(* one among them, and only blanks and NULs follow.                        *)
SoundAt(s, e) ==
  /\ Len(s.buf) = s.len + 1 /\ s.buf[s.len + 1] = Nul
  /\ EndAt(s.buf, e)
  /\ e <= s.len =>
       /\ e > 2 /\ s.buf[e - 1] # Blank
       /\ \E k \in 1 .. e - 2 : s.buf[k] # Blank
       /\ \A k \in e .. s.len : s.buf[k] \in {Blank, Nul}

Sound(s) == \E e \in Nat : SoundAt(s, e)

IndInv ==
  /\ str \in [Handles -> Strings \cup {None}]
  /\ \A h \in Live : Sound(str[h])

-----------------------------------------------------------------------------
(* Numbers and sequences *)

LEMMA Least ==
  ASSUME NEW T \in SUBSET Nat, T # {}
  PROVE  \E x \in T : \A y \in T : x <= y
<1> DEFINE R == OpToRel(<, Nat)
<1>1. IsWellFoundedOn(R, Nat)
  BY NatLessThanWellFounded
<1>2. PICK x \in T : \A y \in T : ~(<<y, x>> \in R)
  <2> HIDE DEF R
  <2> QED BY <1>1, WFMin
<1>3. ASSUME NEW y \in T PROVE x <= y
  <2>1. x \in Nat /\ y \in Nat
    OBVIOUS
  <2>2. ~(y < x)
    BY <2>1, <1>2 DEF OpToRel
  <2> QED BY <2>1, <2>2
<1> QED BY <1>3

LEMMA Greatest ==
  ASSUME NEW n \in Nat, NEW T \in SUBSET (0 .. n), T # {}
  PROVE  \E x \in T : \A y \in T : y <= x
<1> DEFINE D == {i \in 0 .. n : n - i \in T}
<1>1. D \in SUBSET Nat
  OBVIOUS
<1>2. D # {}
  <2>1. PICK x \in T : TRUE
    OBVIOUS
  <2>2. n - x \in 0 .. n /\ n - (n - x) = x
    OBVIOUS
  <2> QED BY <2>1, <2>2
<1>3. PICK d \in D : \A y \in D : d <= y
  BY <1>1, <1>2, Least
<1>4. n - d \in T
  OBVIOUS
<1>5. ASSUME NEW y \in T PROVE y <= n - d
  <2>1. y \in 0 .. n /\ n - y \in 0 .. n /\ n - (n - y) = y /\ d \in 0 .. n
    OBVIOUS
  <2>2. d <= n - y
    BY <2>1, <1>3
  <2> QED BY <2>1, <2>2
<1> QED BY <1>4, <1>5

LEMMA EndExists ==
  ASSUME NEW b \in Seq(Bytes), NEW n \in 1 .. Len(b), b[n] = Nul
  PROVE  \E e \in 1 .. n : EndAt(b, e)
<1> DEFINE T == {i \in 1 .. n : b[i] = Nul}
<1>1. PICK e \in T : \A y \in T : e <= y
  <2>1. T \in SUBSET Nat /\ T # {}
    OBVIOUS
  <2> HIDE DEF T
  <2> QED BY <2>1, Least
<1>2. \A j \in 1 .. e - 1 : b[j] # Nul
  BY <1>1
<1> QED BY <1>1, <1>2 DEF EndAt

(* What the text at a position is, by the first NUL from there on *)
LEMMA TextAtIs ==
  ASSUME NEW b \in Seq(Bytes), NEW e, EndAt(b, e), NEW i \in 1 .. e
  PROVE  TextAt(b, i) = SubSeq(b, i, e - 1)
<1> DEFINE P(k) == b[k] = Nul /\ \A j \in i .. k - 1 : b[j] # Nul
<1>1. e \in i .. Len(b) /\ P(e)
  BY DEF EndAt
<1>2. \A k \in i .. Len(b) : P(k) => k = e
  BY <1>1 DEF EndAt
<1>3. (CHOOSE k \in i .. Len(b) : P(k)) = e
  BY <1>1, <1>2
<1> QED BY <1>3 DEF TextAt

LEMMA Retyped ==
  ASSUME NEW S, NEW T, NEW s \in Seq(S), \A i \in 1 .. Len(s) : s[i] \in T
  PROVE  s \in Seq(T)
OBVIOUS

LEMMA SameElements ==
  ASSUME NEW S, NEW s \in Seq(S), NEW t \in Seq(S), Len(s) = Len(t),
         \A i \in 1 .. Len(t) : s[i] = t[i]
  PROVE  s = t
OBVIOUS

LEMMA SubSeqFacts ==
  ASSUME NEW S, NEW s \in Seq(S), NEW m \in 1 .. Len(s) + 1, NEW n \in 0 .. Len(s), m <= n + 1
  PROVE  /\ SubSeq(s, m, n) \in Seq(S)
         /\ Len(SubSeq(s, m, n)) = n - m + 1
         /\ \A i \in 1 .. n - m + 1 : SubSeq(s, m, n)[i] = s[m + i - 1]
OBVIOUS

-----------------------------------------------------------------------------
(* Strings *)

(* The text of a sound string is what stands before e. *)
LEMMA TextFacts ==
  ASSUME NEW s \in Strings, NEW e \in Nat, SoundAt(s, e)
  PROVE  /\ TextAt(s.buf, 1) = SubSeq(s.buf, 1, e - 1)
         /\ TextAt(s.buf, 1) \in Seq(Bytes \ {Nul})
         /\ Len(TextAt(s.buf, 1)) = e - 1
         /\ \A i \in 1 .. e - 1 : TextAt(s.buf, 1)[i] = s.buf[i]
         /\ e \in 1 .. s.len + 1
<1> DEFINE t == SubSeq(s.buf, 1, e - 1)
<1>1. s.buf \in Seq(Bytes) /\ s.len \in Nat
  BY DEF Strings
<1>2. EndAt(s.buf, e) /\ e \in 1 .. s.len + 1 /\ Len(s.buf) = s.len + 1
  BY <1>1 DEF SoundAt, EndAt
<1>3. TextAt(s.buf, 1) = t
  <2>1. 1 \in 1 .. e
    BY <1>2
  <2> QED BY <1>1, <1>2, <2>1, TextAtIs
<1>4. /\ t \in Seq(Bytes) /\ Len(t) = e - 1
      /\ \A i \in 1 .. e - 1 : t[i] = s.buf[i]
  BY <1>1, <1>2, SubSeqFacts
<1>5. \A i \in 1 .. e - 1 : t[i] \in Bytes \ {Nul}
  BY <1>1, <1>2, <1>4 DEF EndAt
<1>6. t \in Seq(Bytes \ {Nul})
  <2> HIDE DEF t
  <2> QED BY <1>4, <1>5, Retyped
<1> HIDE DEF t
<1> QED BY <1>2, <1>3, <1>4, <1>5, <1>6

(* What asprintf writes is sound and nothing has been cut off it. *)
LEMMA WrittenSound ==
  ASSUME NEW t \in Seq(Bytes \ {Nul})
  PROVE  /\ Written(t) \in Strings
         /\ SoundAt(Written(t), Len(t) + 1)
         /\ Written(t).len = Len(t)
         /\ TextAt(Written(t).buf, 1) = t
<1> DEFINE b == Append(t, Nul)
<1>1. Nul \in Bytes /\ t \in Seq(Bytes)
  <2>1. Nul \in Bytes
    BY DEF Bytes
  <2> QED BY <2>1
<1>2. /\ b \in Seq(Bytes) /\ Len(b) = Len(t) + 1 /\ b[Len(t) + 1] = Nul
      /\ \A i \in 1 .. Len(t) : b[i] = t[i] /\ t[i] # Nul
  BY <1>1
<1>3. Written(t).buf = b /\ Written(t).len = Len(t) /\ Written(t) \in Strings
  BY <1>2 DEF Written, Terminated, Strings
<1>4. SoundAt(Written(t), Len(t) + 1)
  <2> HIDE DEF b
  <2> QED BY <1>2, <1>3 DEF SoundAt, EndAt
<1>5. TextAt(b, 1) = SubSeq(b, 1, Len(t))
  <2>1. Len(t) \in Nat /\ Len(t) + 1 \in Nat /\ Len(t) + 1 - 1 = Len(t)
    OBVIOUS
  <2> HIDE DEF b
  <2> QED BY <1>3, <1>4, <2>1, TextFacts
<1>6. SubSeq(b, 1, Len(t)) = t
  <2> HIDE DEF b
  <2>1. /\ SubSeq(b, 1, Len(t)) \in Seq(Bytes) /\ Len(SubSeq(b, 1, Len(t))) = Len(t)
        /\ \A i \in 1 .. Len(t) : SubSeq(b, 1, Len(t))[i] = t[i]
    BY <1>2, SubSeqFacts
  <2> QED BY <1>1, <2>1, SameElements
<1> QED BY <1>3, <1>4, <1>5, <1>6

LEMMA StartFacts ==
  ASSUME NEW s \in Strings, Len(s.buf) = s.len + 1
  PROVE  /\ Start(s) \in 1 .. s.len + 1
         /\ \A k \in 1 .. Start(s) - 1 : s.buf[k] = Blank
         /\ Start(s) = s.len + 1 \/ s.buf[Start(s)] # Blank
<1> DEFINE T == {i \in 1 .. s.len + 1 : i = s.len + 1 \/ s.buf[i] # Blank}
           P(i) == /\ \A k \in 1 .. i - 1 : s.buf[k] = Blank
                   /\ i = s.len + 1 \/ s.buf[i] # Blank
<1>1. s.len \in Nat /\ T \in SUBSET Nat /\ s.len + 1 \in T
  BY DEF Strings
<1>2. PICK i \in T : \A y \in T : i <= y
  <2> HIDE DEF T
  <2> QED BY <1>1, Least
<1>3. ASSUME NEW k \in 1 .. i - 1 PROVE s.buf[k] = Blank
  <2>1. k \in 1 .. s.len + 1 /\ ~(i <= k)
    BY <1>1
  <2> QED BY <1>2, <2>1
<1>4. i \in 1 .. s.len + 1 /\ P(i)
  BY <1>3
<1>5. \E k \in 1 .. s.len + 1 : P(k)
  BY <1>4
<1>6. Start(s) = CHOOSE k \in 1 .. s.len + 1 : P(k)
  BY DEF Start
<1> HIDE DEF P
<1>7. Start(s) \in 1 .. s.len + 1 /\ P(Start(s))
  BY <1>5, <1>6
<1> QED BY <1>7 DEF P

(* Where strip ends the text of a sound string that ended before e: behind *)
(* its last character that is no blank, unless that is the only one.       *)
StripsTo(s, e, f) ==
  LET a == Start(s)
      r == Stripped(s)
  IN
  /\ SoundAt(r, f) /\ r \in Strings /\ r.len = s.len
  /\ f \in 1 .. e
  /\ \A k \in 1 .. f - 1 : r.buf[k] = s.buf[k]
  /\ \/ /\ r = s /\ f = e /\ e = s.len + 1
        /\ \A k \in 1 .. s.len : k # a => s.buf[k] = Blank
     \/ /\ a < f - 1 /\ s.buf[f - 1] # Blank
        /\ \A k \in f .. e - 1 : s.buf[k] = Blank

LEMMA StripSound ==
  ASSUME NEW s \in Strings, NEW e \in Nat, SoundAt(s, e)
  PROVE  \E f \in Nat : StripsTo(s, e, f)
<1> DEFINE a == Start(s)
           W == WordsBehind(s)
<1>1. /\ s.buf \in Seq(Bytes) /\ s.len \in Nat /\ Nul \in Bytes
      /\ Len(s.buf) = s.len + 1 /\ s.buf[s.len + 1] = Nul
      /\ Nul # Blank
  BY NcStringAssumption DEF Strings, SoundAt, Bytes
<1>2. /\ a \in 1 .. s.len + 1
      /\ \A k \in 1 .. a - 1 : s.buf[k] = Blank
      /\ a = s.len + 1 \/ s.buf[a] # Blank
  BY <1>1, StartFacts
<1>3. e \in 1 .. s.len + 1 /\ EndAt(s.buf, e)
  BY <1>1 DEF SoundAt, EndAt
<1>4. e <= s.len => a < e - 1 /\ e \in W
  <2> SUFFICES ASSUME e <= s.len PROVE a < e - 1 /\ e \in W
    OBVIOUS
  <2>1. PICK k \in 1 .. e - 2 : s.buf[k] # Blank
    BY DEF SoundAt
  <2>2. a <= k
    BY <1>1, <1>2, <1>3, <2>1
  <2> QED BY <1>1, <1>2, <1>3, <2>2 DEF EndAt, WordsBehind
<1>5. CASE W = {}
  <2>1. Stripped(s) = s /\ e = s.len + 1
    BY <1>1, <1>3, <1>4, <1>5 DEF Stripped
  <2>2. ASSUME NEW k \in 1 .. s.len, k # a PROVE s.buf[k] = Blank
    BY <1>1, <1>2, <1>5, <2>2, SMTT(40) DEF WordsBehind
  <2> QED BY <1>3, <2>1, <2>2 DEF StripsTo
<1>6. CASE W # {}
  <2> DEFINE M(j) == \A k \in W : k <= j
             last1 == CHOOSE j \in W : M(j)
  <2>1. PICK j \in W : M(j)
    <3>1. W \in SUBSET (0 .. s.len)
      BY <1>1, <1>2 DEF WordsBehind
    <3> HIDE DEF W
    <3> QED BY <1>1, <1>6, <3>1, Greatest
  <2>2. j \in a + 1 .. s.len /\ s.buf[j] # Blank /\ a < s.len
    BY <1>1, <1>2 DEF WordsBehind
  <2>3. \A k \in j + 1 .. s.len : s.buf[k] = Blank
    BY <1>1, <1>2, <2>1, <2>2, SMTT(40) DEF WordsBehind
  <2>4. last1 = j
    <3>1. \A k \in W : M(k) => k = j
      BY <1>1, <1>2, <2>1, SMTT(40) DEF WordsBehind
    <3> HIDE DEF M, W
    <3> QED BY <2>1, <3>1
  <2> DEFINE b == [s.buf EXCEPT ![1 + j] = Nul]
             r == [s EXCEPT !.buf = b]
             f == IF e <= j THEN e ELSE j + 1
  <2>5. Stripped(s) = r
    BY <1>6, <2>4 DEF Stripped
  <2>6. /\ b \in Seq(Bytes) /\ Len(b) = s.len + 1 /\ b[j + 1] = Nul
        /\ \A k \in 1 .. s.len + 1 : k # j + 1 => b[k] = s.buf[k]
    BY <1>1, <1>2, <2>2, SMTT(40)
  <2>7. r \in Strings /\ r.buf = b /\ r.len = s.len
    BY <1>1, <2>6 DEF Strings
  <2>8. f \in 1 .. e /\ f <= j + 1 /\ f <= s.len + 1 /\ a < f - 1
    BY <1>1, <1>2, <1>3, <1>4, <2>2
  <2>9. \A k \in 1 .. f - 1 : b[k] = s.buf[k]
    BY <1>1, <1>2, <2>2, <2>6, <2>8
  <2>10. \A k \in f .. e - 1 : s.buf[k] = Blank
    BY <1>1, <1>2, <1>3, <2>2, <2>3
  <2>11. s.buf[f - 1] # Blank
    BY <1>1, <1>2, <1>3, <2>2, SMTT(40) DEF SoundAt
  <2>12. EndAt(b, f)
    BY <1>1, <1>2, <1>3, <2>2, <2>6, <2>8, <2>9, SMTT(40) DEF EndAt
  <2>13. b[s.len + 1] = Nul
    BY <1>1, <1>2, <2>2, <2>6, SMTT(40)
  <2>14. \A k \in f .. s.len : b[k] \in {Blank, Nul}
    <3> SUFFICES ASSUME NEW k \in f .. s.len PROVE b[k] \in {Blank, Nul}
      OBVIOUS
    <3>1. CASE k = j + 1
      BY <2>6, <3>1
    <3>2. CASE k > j + 1
      BY <1>1, <1>2, <2>2, <2>3, <2>6, <2>8, <3>2
    <3>3. CASE k < j + 1
      <4>1. e <= j /\ f = e /\ k \in e .. s.len
        BY <1>1, <1>2, <1>3, <2>2, <3>3
      <4>2. s.buf[k] \in {Blank, Nul}
        BY <1>1, <1>3, <2>2, <4>1 DEF SoundAt
      <4> QED BY <1>1, <1>2, <1>3, <2>2, <2>6, <3>3, <4>1, <4>2
    <3> QED BY <1>1, <1>2, <2>2, <2>8, <3>1, <3>2, <3>3
  <2>15. \E k \in 1 .. f - 2 : b[k] # Blank
    <3>1. a \in 1 .. f - 2 /\ s.buf[a] # Blank
      BY <1>1, <1>2, <2>2, <2>8
    <3> QED BY <1>2, <1>3, <2>8, <2>9, <3>1
  <2> HIDE DEF b, f, r, W, M
  <2>16. SoundAt(r, f)
    BY <1>1, <1>2, <1>3, <2>6, <2>7, <2>8, <2>9, <2>11, <2>12, <2>13, <2>14, <2>15 DEF SoundAt
  <2>17. StripsTo(s, e, f)
    BY <2>5, <2>7, <2>8, <2>9, <2>10, <2>11, <2>16 DEF StripsTo
  <2> QED BY <1>3, <2>8, <2>17
<1> QED BY <1>5, <1>6

-----------------------------------------------------------------------------
(* The invariant *)

LEMMA LiveFacts ==
  ASSUME IndInv, NEW h \in Live
  PROVE  /\ h \in Handles /\ str[h] \in Strings
         /\ Sound(str[h])
         /\ Text(h) \in Seq(Bytes \ {Nul})
<1>1. h \in Handles /\ str[h] \in Strings /\ Sound(str[h])
  BY DEF IndInv, Live
<1>2. PICK e \in Nat : SoundAt(str[h], e)
  BY <1>1 DEF Sound
<1> QED BY <1>1, <1>2, TextFacts DEF Text

LEMMA InitHolds == Init => IndInv
<1> SUFFICES ASSUME Init PROVE IndInv
  OBVIOUS
<1>1. \A h \in Handles : str[h] = None
  BY DEF Init
<1> QED BY <1>1 DEF Init, IndInv, Live

(* A call that leaves one handle a sound string or none, and the others    *)
(* alone                                                                   *)
LEMMA OneHandle ==
  ASSUME IndInv, NEW h \in Handles, NEW s \in Strings \cup {None},
         s # None => Sound(s), str' = [str EXCEPT ![h] = s]
  PROVE  IndInv'
<1>1. str' \in [Handles -> Strings \cup {None}]
  BY DEF IndInv
<1>2. ASSUME NEW g \in Live' PROVE Sound(str'[g])
  <2>1. g \in Handles /\ str'[g] # None
    BY <1>2 DEF Live
  <2>2. CASE g = h
    BY <2>1, <2>2 DEF IndInv
  <2>3. CASE g # h
    BY <2>1, <2>3 DEF IndInv, Live
  <2> QED BY <2>2, <2>3
<1> QED BY <1>1, <1>2 DEF IndInv

LEMMA Unchanged ==
  ASSUME IndInv, UNCHANGED str
  PROVE  IndInv'
BY DEF IndInv, Live, Sound

LEMMA WrittenIsSound ==
  ASSUME NEW t \in Seq(Bytes \ {Nul})
  PROVE  Written(t) \in Strings /\ Sound(Written(t))
<1>1. Len(t) + 1 \in Nat
  OBVIOUS
<1> QED BY <1>1, WrittenSound DEF Sound

LEMMA AppendedText ==
  ASSUME IndInv, NEW h \in Live, NEW t \in Texts \cup {Text(g) : g \in Live}
  PROVE  /\ t \in Seq(Bytes \ {Nul}) /\ Text(h) \in Seq(Bytes \ {Nul})
         /\ Text(h) \o t \in Seq(Bytes \ {Nul})
<1>1. t \in Seq(Bytes \ {Nul}) /\ Text(h) \in Seq(Bytes \ {Nul})
  BY LiveFacts, NcStringAssumption
<1>2. \A S : \A u, v \in Seq(S) : u \o v \in Seq(S)
  OBVIOUS
<1> QED BY <1>1, <1>2

LEMMA StepHolds == IndInv /\ [Next]_vars => IndInv'
<1> SUFFICES ASSUME IndInv, [Next]_vars PROVE IndInv'
  OBVIOUS
<1>1. ASSUME NEW h \in Handles, NEW t \in Texts, Dup(h, t) PROVE IndInv'
  <2>1. CASE str' = [str EXCEPT ![h] = Written(t)]
    <3>1. t \in Seq(Bytes \ {Nul})
      BY NcStringAssumption
    <3> QED BY <2>1, <3>1, WrittenIsSound, OneHandle
  <2>2. CASE UNCHANGED str
    BY <2>2, Unchanged
  <2> QED BY <1>1, <2>1, <2>2 DEF Dup, Short
<1>2. ASSUME NEW h \in Handles, NEW t \in Texts \cup {Text(g) : g \in Live}, Cat(h, t)
      PROVE IndInv'
  <2>1. CASE h \in Live /\ str' = [str EXCEPT ![h] = Catted(h, t)]
    <3>1. Text(h) \o t \in Seq(Bytes \ {Nul})
      BY <2>1, AppendedText
    <3>2. Catted(h, t) \in Strings /\ Sound(Catted(h, t))
      BY <3>1, WrittenIsSound DEF Catted
    <3> QED BY <2>1, <3>2, OneHandle
  <2>2. CASE UNCHANGED str
    BY <2>2, Unchanged
  <2> QED BY <1>2, <2>1, <2>2 DEF Cat, Short
<1>3. ASSUME NEW h \in Handles, Strip(h) PROVE IndInv'
  <2>1. str[h] \in Strings /\ Sound(str[h])
    BY <1>3, LiveFacts DEF Strip
  <2>2. PICK e \in Nat : SoundAt(str[h], e)
    BY <2>1 DEF Sound
  <2>3. PICK f \in Nat : StripsTo(str[h], e, f)
    BY <2>1, <2>2, StripSound
  <2>4. Stripped(str[h]) \in Strings /\ Sound(Stripped(str[h]))
    BY <2>3 DEF StripsTo, Sound
  <2>5. str' = [str EXCEPT ![h] = Stripped(str[h])]
    BY <1>3 DEF Strip
  <2> QED BY <2>4, <2>5, OneHandle
<1>4. ASSUME NEW h \in Handles, Free(h) PROVE IndInv'
  BY <1>4, OneHandle DEF Free
<1>5. CASE UNCHANGED vars
  BY <1>5, Unchanged DEF vars
<1> QED BY <1>1, <1>2, <1>3, <1>4, <1>5 DEF Next

(* In every state the buffer of a string has room for its length and the   *)
(* NUL behind it, and strip has cut nothing off a text it then left        *)
(* without a character or with a blank at its end (nc_string_strip,        *)
(* nc_string_cat).                                                         *)
THEOREM BufferAlwaysFits == Spec => []BufferFits
<1>1. IndInv => BufferFits
  <2> SUFFICES ASSUME IndInv, NEW h \in Live
               PROVE  /\ Len(str[h].buf) = str[h].len + 1
                      /\ str[h].buf[str[h].len + 1] = Nul
                      /\ Shortened(h) => str[h].len > 1 /\ Text(h)[Len(Text(h))] # Blank
    BY DEF BufferFits
  <2>1. PICK e \in Nat : SoundAt(str[h], e)
    BY LiveFacts DEF Sound
  <2>2. /\ Len(Text(h)) = e - 1 /\ \A i \in 1 .. e - 1 : Text(h)[i] = str[h].buf[i]
        /\ str[h].len \in Nat
    BY <2>1, LiveFacts, TextFacts DEF Text, Strings
  <2>3. ASSUME Shortened(h)
        PROVE  str[h].len > 1 /\ Text(h)[Len(Text(h))] # Blank
    <3>1. e <= str[h].len /\ e > 2 /\ str[h].buf[e - 1] # Blank
      BY <2>1, <2>2, <2>3 DEF Shortened, SoundAt
    <3> QED BY <2>2, <3>1
  <2> QED BY <2>1, <2>3 DEF SoundAt
<1> QED BY <1>1, InitHolds, StepHolds, PTL DEF Spec

-----------------------------------------------------------------------------
(* Comparisons *)

(* strncmp of two texts that end before e and f, within the first ...      *)
LEMMA CompareWithin ==
  ASSUME NEW x \in Seq(Bytes), NEW y \in Seq(Bytes),
         NEW e \in Nat, NEW f \in Nat, EndAt(x, e), EndAt(y, f),
         NEW n \in Nat, n < e
  PROVE  SameUpTo(x, y, n) <=> n < f /\ \A i \in 1 .. n : x[i] = y[i]
<1>1. ASSUME SameUpTo(x, y, n) PROVE \A i \in 1 .. n : x[i] = y[i]
  <2> DEFINE T == {i \in 1 .. n : x[i] # y[i]}
  <2>1. T = {}
    <3> SUFFICES ASSUME T # {} PROVE FALSE
      OBVIOUS
    <3>1. PICK i \in T : \A k \in T : i <= k
      <4>1. T \in SUBSET Nat
        OBVIOUS
      <4> HIDE DEF T
      <4> QED BY <4>1, Least
    <3>2. ASSUME NEW j \in 1 .. i - 1 PROVE x[j] = y[j] /\ x[j] # Nul
      BY <3>1 DEF EndAt
    <3>3. i \in 1 .. n /\ x[i] # y[i]
      OBVIOUS
    <3> HIDE DEF T
    <3> QED BY <1>1, <3>2, <3>3 DEF SameUpTo
  <2> QED BY <2>1
<1>2. ASSUME \A i \in 1 .. n : x[i] = y[i] PROVE n < f
  BY <1>2 DEF EndAt
<1> QED BY <1>1, <1>2 DEF SameUpTo

(* ... or beyond it.                                                       *)
LEMMA CompareBeyond ==
  ASSUME NEW x \in Seq(Bytes), NEW y \in Seq(Bytes),
         NEW e \in Nat, NEW f \in Nat, EndAt(x, e), EndAt(y, f),
         NEW n \in Nat, e <= n
  PROVE  SameUpTo(x, y, n) <=> e = f /\ \A i \in 1 .. e - 1 : x[i] = y[i]
<1>1. e > 0 /\ e - 1 \in Nat /\ e - 1 < e /\ x[e] = Nul /\ \A j \in 1 .. e - 1 : x[j] # Nul
  BY DEF EndAt
<1>2. ASSUME SameUpTo(x, y, n)
      PROVE  e = f /\ \A i \in 1 .. e - 1 : x[i] = y[i]
  <2>1. SameUpTo(x, y, e - 1)
    BY <1>1, <1>2 DEF SameUpTo
  <2>2. e - 1 < f /\ \A i \in 1 .. e - 1 : x[i] = y[i]
    BY <1>1, <2>1, CompareWithin
  <2>3. y[e] = Nul
    BY <1>1, <1>2, <2>2 DEF SameUpTo
  <2> QED BY <1>1, <2>2, <2>3 DEF EndAt
<1>3. ASSUME e = f, \A i \in 1 .. e - 1 : x[i] = y[i]
      PROVE  SameUpTo(x, y, n)
  <2> SUFFICES ASSUME NEW i \in 1 .. n, \A j \in 1 .. i - 1 : x[j] = y[j] /\ x[j] # Nul
               PROVE  x[i] = y[i]
    BY DEF SameUpTo
  <2>1. i <= e
    BY <1>1
  <2>2. y[e] = Nul
    BY <1>3 DEF EndAt
  <2> QED BY <1>1, <1>3, <2>1, <2>2
<1> QED BY <1>2, <1>3

(* A text of the client as a buffer *)
LEMMA TerminatedFacts ==
  ASSUME NEW t \in Seq(Bytes \ {Nul})
  PROVE  /\ Terminated(t) \in Seq(Bytes) /\ Len(t) + 1 \in Nat
         /\ EndAt(Terminated(t), Len(t) + 1)
         /\ \A i \in 1 .. Len(t) : Terminated(t)[i] = t[i]
<1>1. Nul \in Bytes
  BY DEF Bytes
<1> QED BY <1>1 DEF Terminated, EndAt

(* The length tells whether strip has shortened a text. *)
LEMMA ShortenedFacts ==
  ASSUME IndInv, NEW h \in Live
  PROVE  \E e \in 1 .. str[h].len + 1 :
           /\ SoundAt(str[h], e) /\ EndAt(str[h].buf, e)
           /\ str[h].buf \in Seq(Bytes) /\ str[h].len \in Nat
           /\ Len(str[h].buf) = str[h].len + 1
           /\ Shortened(h) <=> e <= str[h].len
           /\ Text(h) \in Seq(Bytes) /\ Len(Text(h)) = e - 1
           /\ \A i \in 1 .. e - 1 : Text(h)[i] = str[h].buf[i]
<1>1. PICK e \in Nat : SoundAt(str[h], e)
  BY LiveFacts DEF Sound
<1>2. /\ e \in 1 .. str[h].len + 1 /\ Len(Text(h)) = e - 1
      /\ \A i \in 1 .. e - 1 : Text(h)[i] = str[h].buf[i]
      /\ Text(h) \in Seq(Bytes \ {Nul})
  BY <1>1, LiveFacts, TextFacts DEF Text
<1>3. str[h].buf \in Seq(Bytes) /\ str[h].len \in Nat
  BY LiveFacts DEF Strings
<1>4. Text(h) \in Seq(Bytes)
  BY <1>2
<1>5. Shortened(h) <=> e <= str[h].len
  BY <1>2, <1>3 DEF Shortened
<1> QED BY <1>1, <1>2, <1>3, <1>4, <1>5 DEF SoundAt

(* The text t that buffer b holds before e *)
FrontOf(t, b, e) ==
  t \in Seq(Bytes) /\ Len(t) = e - 1 /\ \A i \in 1 .. e - 1 : t[i] = b[i]

(* Two buffers compared up to the length n of the first, and up to the     *)
(* length of the second's text                                             *)
LEMMA WholeCompared ==
  ASSUME NEW x \in Seq(Bytes), NEW e \in Nat, EndAt(x, e),
         NEW y \in Seq(Bytes), NEW f \in Nat, EndAt(y, f),
         NEW t, FrontOf(t, x, e), NEW u, FrontOf(u, y, f),
         NEW n \in Nat, e <= n + 1
  PROVE  SameUpTo(x, y, n) <=> IF e <= n THEN t = u ELSE IsPrefixOf(t, u)
<1>1. e > 0 /\ f > 0
  BY DEF EndAt
<1>2. CASE e <= n
  <2>1. SameUpTo(x, y, n) <=> e = f /\ \A i \in 1 .. e - 1 : x[i] = y[i]
    BY <1>2, CompareBeyond
  <2>2. ASSUME e = f, \A i \in 1 .. e - 1 : x[i] = y[i] PROVE t = u
    <3>1. Len(t) = Len(u) /\ \A i \in 1 .. Len(u) : t[i] = u[i]
      BY <2>2 DEF FrontOf
    <3> QED BY <3>1, SameElements DEF FrontOf
  <2>3. ASSUME t = u PROVE e = f /\ \A i \in 1 .. e - 1 : x[i] = y[i]
    BY <2>3 DEF FrontOf, EndAt
  <2> QED BY <1>2, <2>1, <2>2, <2>3
<1>3. CASE e = n + 1
  <2>1. n < e /\ DOMAIN t = 1 .. n
    BY <1>3 DEF FrontOf
  <2>2. SameUpTo(x, y, n) <=> n < f /\ \A i \in 1 .. n : x[i] = y[i]
    BY <2>1, CompareWithin
  <2>3. ASSUME IsPrefixOf(t, u) PROVE n < f /\ \A i \in 1 .. n : x[i] = y[i]
    <3>1. n <= f - 1 /\ \A i \in 1 .. n : t[i] = u[i]
      BY <1>3, <2>1, <2>3 DEF IsPrefixOf, FrontOf
    <3> QED BY <1>1, <1>3, <3>1, SMTT(40) DEF FrontOf
  <2>4. ASSUME n < f, \A i \in 1 .. n : x[i] = y[i] PROVE IsPrefixOf(t, u)
    <3>1. Len(t) <= Len(u) /\ \A i \in 1 .. n : t[i] = u[i]
      BY <1>1, <1>3, <2>4 DEF FrontOf
    <3> QED BY <2>1, <3>1 DEF IsPrefixOf
  <2> QED BY <1>3, <2>2, <2>3, <2>4
<1> QED BY <1>1, <1>2, <1>3

LEMMA FrontCompared ==
  ASSUME NEW x \in Seq(Bytes), NEW e \in Nat, EndAt(x, e),
         NEW t \in Seq(Bytes), Len(t) = e - 1, \A i \in 1 .. e - 1 : t[i] = x[i],
         NEW u \in Seq(Bytes \ {Nul})
  PROVE  SameUpTo(x, Terminated(u), Len(u)) <=> IsPrefixOf(u, t)
<1> DEFINE k == Len(u)
           y == Terminated(u)
<1>1. k \in Nat /\ DOMAIN u = 1 .. k /\ e > 0
  BY DEF EndAt
<1>2. y \in Seq(Bytes) /\ k + 1 \in Nat /\ EndAt(y, k + 1) /\ \A i \in 1 .. k : y[i] = u[i]
  BY TerminatedFacts
<1>3. PICK f \in Nat : f = k + 1 /\ EndAt(y, f)
  BY <1>2
<1>4. ASSUME IsPrefixOf(u, t) PROVE k < e /\ \A i \in 1 .. k : x[i] = y[i]
  <2>1. k <= e - 1 /\ \A i \in 1 .. k : u[i] = t[i]
    BY <1>1, <1>4 DEF IsPrefixOf
  <2> HIDE DEF k, y
  <2> QED BY <1>1, <1>2, <2>1
<1>5. ASSUME k < e, \A i \in 1 .. k : x[i] = y[i] PROVE IsPrefixOf(u, t)
  <2>1. k <= Len(t) /\ \A i \in 1 .. k : u[i] = t[i]
    <3> HIDE DEF k, y
    <3> QED BY <1>1, <1>2, <1>5
  <2> QED BY <1>1, <2>1 DEF IsPrefixOf
<1> HIDE DEF k, y
<1>6. CASE k < e
  <2>1. SameUpTo(x, y, k) <=> k < f /\ \A i \in 1 .. k : x[i] = y[i]
    BY <1>1, <1>2, <1>6, <1>3, CompareWithin
  <2>2. SameUpTo(x, y, k) <=> IsPrefixOf(u, t)
    BY <1>1, <1>4, <1>6, <1>5, <1>3, <2>1
  <2> QED BY <2>2 DEF k, y
<1>7. CASE e <= k
  <2>1. SameUpTo(x, y, k) => e = f
    BY <1>1, <1>2, <1>7, <1>3, CompareBeyond
  <2>2. SameUpTo(x, y, k) <=> IsPrefixOf(u, t)
    BY <1>1, <1>4, <1>7, <1>3, <2>1
  <2> QED BY <2>2 DEF k, y
<1> QED BY <1>1, <1>6, <1>7

(* A buffer b of n bytes with the text t that ends before e, and a text u; *)
(* of a strip there are blanks and NULs behind t.                          *)
EndOf(n, b, e, t, u) ==
  /\ n \in Nat /\ b \in Seq(Bytes) /\ Len(b) = n + 1 /\ b[n + 1] = Nul
  /\ e \in Nat /\ EndAt(b, e) /\ e <= n + 1
  /\ e <= n => e > 1 /\ b[e - 1] # Blank /\ \A i \in e .. n : b[i] \in {Blank, Nul}
  /\ t \in Seq(Bytes) /\ Len(t) = e - 1 /\ \A i \in 1 .. e - 1 : t[i] = b[i]
  /\ u \in Seq(Bytes \ {Nul}) /\ Len(u) > 0 /\ Len(u) <= n

(* The last k of its n = d + k bytes in x, and a text u of k characters in *)
(* y                                                                       *)
LastOf(n, b, u, k, d, f, x, y) ==
  /\ k \in Nat /\ k = Len(u) /\ d \in Nat /\ n = d + k /\ f \in Nat /\ f = k + 1
  /\ x \in Seq(Bytes) /\ Len(x) = f /\ \A i \in 1 .. f : x[i] = b[d + i]
  /\ y \in Seq(Bytes) /\ EndAt(y, f) /\ \A i \in 1 .. k : y[i] = u[i]

LEMMA EndCompared ==
  ASSUME NEW n, NEW b, NEW e, NEW t, NEW u, EndOf(n, b, e, t, u),
         NEW k, NEW d, NEW f, NEW x, NEW y, LastOf(n, b, u, k, d, f, x, y)
  PROVE  IF e <= n THEN SameUpTo(x, y, k) => ~IsSuffixOf(u, t)
         ELSE SameUpTo(x, y, k) <=> IsSuffixOf(u, t)
<1> USE DEF EndOf, LastOf
<1>1. b[e] = Nul /\ e > 0 /\ \A i \in 1 .. e - 1 : b[i] # Nul
  BY DEF EndAt
<1>2. DOMAIN u = 1 .. k /\ \A i \in 1 .. k : i \in 1 .. f
  OBVIOUS
<1>3. x[f] = Nul
  <2>1. d + f = n + 1 /\ f \in 1 .. f
    OBVIOUS
  <2> QED BY <2>1
<1>4. CASE e = n + 1
  <2>1. EndAt(x, f)
    <3>1. ASSUME NEW j \in 1 .. f - 1 PROVE x[j] # Nul
      <4>1. d + j \in 1 .. e - 1 /\ j \in 1 .. f
        BY <1>4
      <4> QED BY <1>1, <4>1
    <3> QED BY <1>3, <3>1 DEF EndAt
  <2>2. SameUpTo(x, y, k) <=> \A i \in 1 .. k : x[i] = y[i]
    <3>1. /\ k < f /\ k \in Nat /\ f \in Nat
          /\ x \in Seq(Bytes) /\ y \in Seq(Bytes) /\ EndAt(y, f)
      OBVIOUS
    <3> HIDE DEF EndOf, LastOf
    <3> QED BY <2>1, <3>1, CompareWithin
  <2>3. ASSUME NEW i \in 1 .. k PROVE x[i] = t[Len(t) - Len(u) + i]
    <3>1. Len(t) - Len(u) + i = d + i /\ d + i \in 1 .. e - 1 /\ i \in 1 .. f
      BY <1>4
    <3> QED BY <3>1
  <2>4. Len(u) <= Len(t)
    BY <1>4
  <2>5. IsSuffixOf(u, t) <=> \A i \in 1 .. k : u[i] = t[Len(t) - Len(u) + i]
    BY <1>2, <2>4 DEF IsSuffixOf
  <2>6. IsSuffixOf(u, t) => SameUpTo(x, y, k)
    BY <2>2, <2>3, <2>5
  <2>7. SameUpTo(x, y, k) => IsSuffixOf(u, t)
    BY <2>2, <2>3, <2>5
  <2> QED BY <1>4, <2>6, <2>7
<1>5. CASE e <= n
  <2> SUFFICES ASSUME SameUpTo(x, y, k), IsSuffixOf(u, t) PROVE FALSE
    BY <1>5
  <2>1. PICK c \in 1 .. f : EndAt(x, c)
    <3>1. f \in 1 .. Len(x)
      OBVIOUS
    <3> QED BY <1>3, <3>1, EndExists
  <2>2. c = f
    <3>1. c \in Nat /\ (c <= k \/ c = f)
      OBVIOUS
    <3>2. CASE c <= k
      BY <2>1, <3>1, <3>2, CompareBeyond
    <3> QED BY <3>1, <3>2
  <2>3. \A i \in 1 .. k : x[i] = y[i]
    <3>1. k < f
      OBVIOUS
    <3> QED BY <2>1, <2>2, <3>1, CompareWithin
  <2>4. k \in 1 .. k /\ k \in 1 .. f - 1 /\ k \in 1 .. f /\ d + k = n /\ n \in e .. n
    BY <1>5
  <2>5. u[k] = x[k] /\ x[k] # Nul /\ x[k] = b[n]
    BY <2>1, <2>2, <2>3, <2>4 DEF EndAt
  <2>6. b[n] = Blank
    BY <1>5, <2>4, <2>5
  <2>7. u[k] = t[e - 1] /\ e - 1 \in 1 .. e - 1
    <3>1. u[k] = t[Len(t) - Len(u) + k]
      BY <1>2, <2>4 DEF IsSuffixOf
    <3>2. Len(t) - Len(u) + k = e - 1 /\ e - 1 \in 1 .. e - 1
      BY <1>5, SMTT(40)
    <3> QED BY <3>1, <3>2
  <2> QED BY <1>5, <2>5, <2>6, <2>7
<1>6. e = n + 1 \/ e <= n
  OBVIOUS
<1> HIDE DEF EndOf, LastOf
<1> QED BY <1>4, <1>5, <1>6

(* A string found equal to a text that stands in a buffer y *)
LEMMA EqualAnswers ==
  ASSUME IndInv, NEW h \in Live,
         NEW y \in Seq(Bytes), NEW f \in Nat, EndAt(y, f),
         NEW u \in Seq(Bytes), Len(u) = f - 1, \A i \in 1 .. f - 1 : u[i] = y[i]
  PROVE  SameUpTo(str[h].buf, y, str[h].len) <=>
           IF Shortened(h) THEN Text(h) = u ELSE IsPrefixOf(Text(h), u)
<1>1. PICK e \in 1 .. str[h].len + 1 :
           /\ SoundAt(str[h], e) /\ EndAt(str[h].buf, e)
           /\ str[h].buf \in Seq(Bytes) /\ str[h].len \in Nat
           /\ Len(str[h].buf) = str[h].len + 1
           /\ Shortened(h) <=> e <= str[h].len
           /\ Text(h) \in Seq(Bytes) /\ Len(Text(h)) = e - 1
           /\ \A i \in 1 .. e - 1 : Text(h)[i] = str[h].buf[i]
  BY ShortenedFacts
<1> DEFINE b == str[h].buf
           n == str[h].len
           t == Text(h)
<1>2. /\ e \in Nat /\ e <= n + 1 /\ n \in Nat /\ b \in Seq(Bytes) /\ EndAt(b, e)
      /\ t \in Seq(Bytes) /\ Len(t) = e - 1 /\ \A i \in 1 .. e - 1 : t[i] = b[i]
  BY <1>1
<1>3. SameUpTo(b, y, n) <=> IF e <= n THEN t = u ELSE IsPrefixOf(t, u)
  <2>1. FrontOf(t, b, e) /\ FrontOf(u, y, f)
    BY <1>2 DEF FrontOf
  <2> HIDE DEF b, n, t
  <2> QED BY <1>2, <2>1, WholeCompared
<1> QED BY <1>1, <1>3

LEMMA PrefixAnswers ==
  ASSUME IndInv, NEW h \in Live, NEW t \in Texts, t # <<>>
  PROVE  HasPrefix(h, t) <=> IsPrefixOf(t, Text(h))
<1>1. PICK e \in 1 .. str[h].len + 1 :
           /\ SoundAt(str[h], e) /\ EndAt(str[h].buf, e)
           /\ str[h].buf \in Seq(Bytes) /\ str[h].len \in Nat
           /\ Len(str[h].buf) = str[h].len + 1
           /\ Shortened(h) <=> e <= str[h].len
           /\ Text(h) \in Seq(Bytes) /\ Len(Text(h)) = e - 1
           /\ \A i \in 1 .. e - 1 : Text(h)[i] = str[h].buf[i]
  BY ShortenedFacts
<1>2. t \in Seq(Bytes \ {Nul}) /\ Len(t) \in Nat /\ Len(t) > 0 /\ e \in Nat
  BY <1>1, NcStringAssumption
<1>3. SameUpTo(str[h].buf, Terminated(t), Len(t)) <=> IsPrefixOf(t, Text(h))
  BY <1>1, <1>2, FrontCompared
<1>4. IsPrefixOf(t, Text(h)) => Len(t) <= str[h].len
  BY <1>1, <1>2 DEF IsPrefixOf
<1> QED BY <1>2, <1>3, <1>4 DEF HasPrefix

LEMMA LastBytes ==
  ASSUME NEW n \in Nat, NEW b \in Seq(Bytes), Len(b) = n + 1,
         NEW k \in Nat, NEW d \in Nat, n = d + k,
         NEW x, x = SubSeq(b, n - k + 1, Len(b))
  PROVE  x \in Seq(Bytes) /\ Len(x) = k + 1 /\ \A i \in 1 .. k + 1 : x[i] = b[d + i]
<1>1. PICK c \in Nat : c = d + 1
  OBVIOUS
<1>2. PICK m \in Nat : m = Len(b)
  OBVIOUS
<1>3. n - k + 1 = c /\ c \in 1 .. Len(b) + 1 /\ m \in 0 .. Len(b) /\ c <= m + 1
  BY <1>1, <1>2
<1>4. /\ SubSeq(b, c, m) \in Seq(Bytes) /\ Len(SubSeq(b, c, m)) = m - c + 1
      /\ \A i \in 1 .. m - c + 1 : SubSeq(b, c, m)[i] = b[c + i - 1]
  <2>1. c \in 1 .. Len(b) + 1 /\ m \in 0 .. Len(b) /\ c <= m + 1
    BY <1>3
  <2> QED BY ONLY <2>1, b \in Seq(Bytes), SubSeqFacts
<1>5. m - c + 1 = k + 1 /\ \A i \in 1 .. k + 1 : c + i - 1 = d + i
  BY <1>1, <1>2
<1> QED BY <1>2, <1>3, <1>4, <1>5

LEMMA SuffixCompared ==
  ASSUME NEW n, NEW b, NEW e, NEW t, NEW u, EndOf(n, b, e, t, u)
  PROVE  LET x == SubSeq(b, n - Len(u) + 1, Len(b))
         IN  IF e <= n THEN SameUpTo(x, Terminated(u), Len(u)) => ~IsSuffixOf(u, t)
             ELSE SameUpTo(x, Terminated(u), Len(u)) <=> IsSuffixOf(u, t)
<1>1. n \in Nat /\ b \in Seq(Bytes) /\ Len(b) = n + 1 /\ u \in Seq(Bytes \ {Nul}) /\ Len(u) <= n
  BY DEF EndOf
<1>2. PICK k \in Nat : k = Len(u)
  BY <1>1
<1>3. PICK d \in Nat : n = d + k
  <2>1. n - k \in Nat /\ n = (n - k) + k
    BY <1>1, <1>2
  <2> QED BY <2>1
<1>4. PICK f \in Nat : f = k + 1
  OBVIOUS
<1>5. PICK x : x = SubSeq(b, n - k + 1, Len(b))
  OBVIOUS
<1>6. x \in Seq(Bytes) /\ Len(x) = f /\ \A i \in 1 .. f : x[i] = b[d + i]
  BY <1>1, <1>3, <1>4, <1>5, LastBytes
<1>7. PICK y : y = Terminated(u)
  OBVIOUS
<1>8. y \in Seq(Bytes) /\ EndAt(y, f) /\ \A i \in 1 .. k : y[i] = u[i]
  BY <1>1, <1>2, <1>4, <1>7, TerminatedFacts
<1>9. LastOf(n, b, u, k, d, f, x, y)
  BY <1>2, <1>3, <1>4, <1>6, <1>8 DEF LastOf
<1>10. IF e <= n THEN SameUpTo(x, y, k) => ~IsSuffixOf(u, t)
       ELSE SameUpTo(x, y, k) <=> IsSuffixOf(u, t)
  BY <1>9, EndCompared
<1> QED BY <1>2, <1>5, <1>7, <1>10

LEMMA SuffixAnswers ==
  ASSUME IndInv, NEW h \in Live, NEW t \in Texts, t # <<>>
  PROVE  IF Shortened(h) THEN HasSuffix(h, t) => ~IsSuffixOf(t, Text(h))
         ELSE HasSuffix(h, t) <=> IsSuffixOf(t, Text(h))
<1>1. PICK e \in 1 .. str[h].len + 1 :
           /\ SoundAt(str[h], e) /\ EndAt(str[h].buf, e)
           /\ str[h].buf \in Seq(Bytes) /\ str[h].len \in Nat
           /\ Len(str[h].buf) = str[h].len + 1
           /\ Shortened(h) <=> e <= str[h].len
           /\ Text(h) \in Seq(Bytes) /\ Len(Text(h)) = e - 1
           /\ \A i \in 1 .. e - 1 : Text(h)[i] = str[h].buf[i]
  BY ShortenedFacts
<1> DEFINE b == str[h].buf
           n == str[h].len
           u == Text(h)
<1>2. /\ n \in Nat /\ b \in Seq(Bytes) /\ Len(b) = n + 1 /\ b[n + 1] = Nul
      /\ e \in Nat /\ e <= n + 1 /\ EndAt(b, e)
      /\ e <= n => e > 1 /\ b[e - 1] # Blank /\ \A i \in e .. n : b[i] \in {Blank, Nul}
      /\ u \in Seq(Bytes) /\ Len(u) = e - 1 /\ \A i \in 1 .. e - 1 : u[i] = b[i]
  BY <1>1 DEF SoundAt
<1>3. t \in Seq(Bytes \ {Nul}) /\ Len(t) \in Nat /\ Len(t) > 0
  BY NcStringAssumption
<1>4. PICK x : x = SubSeq(b, n - Len(t) + 1, Len(b))
  OBVIOUS
<1>5. HasSuffix(h, t) <=> Len(t) <= n /\ SameUpTo(x, Terminated(t), Len(t))
  BY <1>3, <1>4 DEF HasSuffix
<1>6. Shortened(h) <=> e <= n
  BY <1>1
<1> HIDE DEF b, n, u
<1>7. IsSuffixOf(t, u) => Len(t) <= n
  BY <1>2, <1>3 DEF IsSuffixOf
<1>8. ASSUME Len(t) <= n
      PROVE  IF e <= n THEN SameUpTo(x, Terminated(t), Len(t)) => ~IsSuffixOf(t, u)
             ELSE SameUpTo(x, Terminated(t), Len(t)) <=> IsSuffixOf(t, u)
  <2>1. EndOf(n, b, e, u, t)
    BY <1>2, <1>3, <1>8 DEF EndOf
  <2> QED BY <1>4, <2>1, SuffixCompared
<1>9. IF e <= n THEN HasSuffix(h, t) => ~IsSuffixOf(t, u)
      ELSE HasSuffix(h, t) <=> IsSuffixOf(t, u)
  BY <1>5, <1>7, <1>8
<1> QED BY <1>6, <1>9 DEF u

(* In every state the comparisons answer about the texts (nc_string_equal, *)
(* nc_string_const_equal, and the two about a prefix and a suffix): the    *)
(* first two whether the string begins the other text, or equals it when   *)
(* strip has shortened it, and a suffix for a string that is not shortened.*)
THEOREM AnswersAlwaysRight == Spec => []AnswersRight
<1>1. IndInv => AnswersRight
  <2> SUFFICES ASSUME IndInv, NEW h \in Live
               PROVE  /\ \A g \in Live :
                           Equal(h, g) <=> IF Shortened(h) THEN Text(h) = Text(g)
                                           ELSE IsPrefixOf(Text(h), Text(g))
                      /\ \A t \in Texts :
                           /\ ConstEqual(h, t) <=> IF Shortened(h) THEN Text(h) = t
                                                   ELSE IsPrefixOf(Text(h), t)
                           /\ t # <<>> => (HasPrefix(h, t) <=> IsPrefixOf(t, Text(h)))
                           /\ t # <<>> /\ ~Shortened(h) =>
                                (HasSuffix(h, t) <=> IsSuffixOf(t, Text(h)))
    BY DEF AnswersRight
  <2>1. ASSUME NEW g \in Live
        PROVE  Equal(h, g) <=> IF Shortened(h) THEN Text(h) = Text(g)
                               ELSE IsPrefixOf(Text(h), Text(g))
    <3>1. PICK f \in 1 .. str[g].len + 1 :
           /\ SoundAt(str[g], f) /\ EndAt(str[g].buf, f)
           /\ str[g].buf \in Seq(Bytes) /\ str[g].len \in Nat
           /\ Len(str[g].buf) = str[g].len + 1
           /\ Shortened(g) <=> f <= str[g].len
           /\ Text(g) \in Seq(Bytes) /\ Len(Text(g)) = f - 1
           /\ \A i \in 1 .. f - 1 : Text(g)[i] = str[g].buf[i]
      BY ShortenedFacts
    <3>2. f \in Nat
      BY <3>1
    <3> QED BY <3>1, <3>2, EqualAnswers DEF Equal
  <2>2. ASSUME NEW t \in Texts
        PROVE  ConstEqual(h, t) <=> IF Shortened(h) THEN Text(h) = t
                                    ELSE IsPrefixOf(Text(h), t)
    <3>1. t \in Seq(Bytes \ {Nul}) /\ t \in Seq(Bytes) /\ Len(t) \in Nat
      BY NcStringAssumption
    <3>2. /\ Terminated(t) \in Seq(Bytes) /\ EndAt(Terminated(t), Len(t) + 1)
          /\ \A i \in 1 .. Len(t) : Terminated(t)[i] = t[i]
      BY <3>1, TerminatedFacts
    <3>3. PICK f \in Nat : f = Len(t) + 1 /\ EndAt(Terminated(t), f)
      BY <3>1, <3>2
    <3>4. Len(t) = f - 1 /\ \A i \in 1 .. f - 1 : t[i] = Terminated(t)[i]
      BY <3>1, <3>2, <3>3
    <3> QED BY <3>1, <3>2, <3>3, <3>4, EqualAnswers DEF ConstEqual
  <2>3. ASSUME NEW t \in Texts, t # <<>>
        PROVE  /\ HasPrefix(h, t) <=> IsPrefixOf(t, Text(h))
               /\ ~Shortened(h) => (HasSuffix(h, t) <=> IsSuffixOf(t, Text(h)))
    BY <2>3, PrefixAnswers, SuffixAnswers
  <2> QED BY <2>1, <2>2, <2>3
<1> QED BY <1>1, InitHolds, StepHolds, PTL DEF Spec

-----------------------------------------------------------------------------
(* Refinement *)

LEMMA ViewOfLive ==
  ASSUME IndInv, NEW h \in Handles
  PROVE  /\ h \in Live => TextOf[h] = Text(h)
         /\ h \notin Live => TextOf[h] = None
         /\ TextOf[h] # None <=> h \in Live
<1>1. h \in Live => Text(h) # None
  <2> SUFFICES ASSUME h \in Live PROVE Text(h) # None
    OBVIOUS
  <2>1. Text(h) \in Seq(Bytes \ {Nul})
    BY LiveFacts
  <2>2. Text(h) \in Seq(Bytes)
    BY <2>1
  <2> QED BY <2>2, NcStringAssumption
<1> QED BY <1>1 DEF TextOf

(* A call that writes one string changes what is seen of its handle.       *)
LEMMA ViewChanges ==
  ASSUME IndInv, NEW h \in Handles, NEW s \in Strings, str' = [str EXCEPT ![h] = s]
  PROVE  TextOf' = [TextOf EXCEPT ![h] = TextAt(s.buf, 1)]
<1>1. s # None /\ str'[h] = s /\ \A g \in Handles : g # h => str'[g] = str[g]
  BY NcStringAssumption DEF IndInv
<1>2. /\ h \in Live'
      /\ \A g \in Handles : g # h => (g \in Live' <=> g \in Live)
  BY <1>1 DEF Live
<1>3. /\ Text(h)' = TextAt(s.buf, 1)
      /\ \A g \in Handles : g # h => Text(g)' = Text(g)
  BY <1>1 DEF Text
<1> QED BY <1>1, <1>2, <1>3 DEF TextOf

LEMMA ViewStays ==
  ASSUME UNCHANGED str
  PROVE  UNCHANGED TextOf
BY DEF TextOf, Text, Live

LEMMA FreeRefines ==
  ASSUME IndInv, NEW h \in Handles, Free(h)
  PROVE  h \in Live /\ Abstract!Free(h) /\ UNCHANGED leaked
<1>1. /\ str'[h] = None /\ \A g \in Handles : g # h => str'[g] = str[g]
      /\ h \in Live /\ leaked' = leaked /\ short' = short
      /\ last' = <<"free", h, TRUE>>
  BY DEF Free, IndInv
<1>2. /\ h \notin Live'
      /\ \A g \in Handles : g # h => (g \in Live' <=> g \in Live)
      /\ \A g \in Handles : g # h => Text(g)' = Text(g)
  BY <1>1 DEF Live, Text
<1>3. TextOf' = [TextOf EXCEPT ![h] = None]
  BY <1>1, <1>2 DEF TextOf
<1> QED BY <1>1, <1>3 DEF Abstract!Free

LEMMA DupRefines ==
  ASSUME IndInv, NEW h \in Handles, NEW t \in Texts, Dup(h, t)
  PROVE  TextOf[h] = None /\ Abstract!Dup(h, t) /\ UNCHANGED leaked
<1>1. TextOf[h] = None
  BY ViewOfLive DEF Dup
<1>2. CASE str' = [str EXCEPT ![h] = Written(t)] /\ last' = <<"dup", h, TRUE>>
           /\ UNCHANGED <<leaked, short>>
  <2>1. Written(t) \in Strings /\ TextAt(Written(t).buf, 1) = t
    BY NcStringAssumption, WrittenSound
  <2>2. TextOf' = [TextOf EXCEPT ![h] = TextAt(Written(t).buf, 1)]
    BY <1>2, <2>1, ViewChanges
  <2> QED BY <1>1, <1>2, <2>1, <2>2 DEF Abstract!Dup
<1>3. CASE Short("dup", h)
  <2>1. UNCHANGED TextOf
    BY <1>3, ViewStays DEF Short
  <2> QED BY <1>1, <1>3, <2>1 DEF Abstract!Dup, Abstract!Short, Short
<1> QED BY <1>2, <1>3 DEF Dup

(* An append is the one of TextSpec, unless the string was shortened.      *)
LEMMA CatRefines ==
  ASSUME IndInv, NEW h \in Handles, NEW t \in Texts \cup {Text(g) : g \in Live}, Cat(h, t)
  PROVE  /\ h \in Live
         /\ (Abstract!Cat(h, t) /\ UNCHANGED leaked) \/ (RefusesCut /\ TextOf' = TextOf)
<1>1. h \in Live /\ TextOf[h] = Text(h)
  BY ViewOfLive DEF Cat
<1>2. /\ t \in Seq(Bytes \ {Nul}) /\ Text(h) \in Seq(Bytes \ {Nul})
      /\ Text(h) \o t \in Seq(Bytes \ {Nul}) /\ str[h].len \in Nat
  BY <1>1, AppendedText, LiveFacts DEF Strings
<1>3. CASE ~Refuses(h, t) /\ str' = [str EXCEPT ![h] = Catted(h, t)]
           /\ last' = <<"cat", h, TRUE>> /\ UNCHANGED <<leaked, short>>
  <2>1. PICK u \in Seq(Bytes \ {Nul}) : u = Text(h) \o t
    BY <1>2
  <2>2. Written(u) \in Strings /\ TextAt(Written(u).buf, 1) = u /\ Written(u) = Catted(h, t)
    BY <2>1, WrittenSound DEF Catted
  <2>3. TextOf' = [TextOf EXCEPT ![h] = TextAt(Written(u).buf, 1)]
    BY <1>3, <2>2, ViewChanges
  <2>4. TextOf' = [TextOf EXCEPT ![h] = @ \o t]
    BY <1>1, <2>1, <2>2, <2>3
  <2> QED BY <1>1, <1>3, <2>4 DEF Abstract!Cat
<1>4. CASE Refuses(h, t) /\ last' = <<"cat", h, FALSE>> /\ UNCHANGED str
  <2>1. Len(Text(h) \o t) = Len(Text(h)) + Len(t) /\ Len(t) \in Nat /\ Len(Text(h)) \in Nat
    BY <1>2
  <2>2. Shortened(h)
    BY <1>2, <1>4, <2>1 DEF Refuses, Shortened
  <2> QED BY <1>1, <1>4, <2>2, ViewStays DEF RefusesCut
<1>5. CASE Short("cat", h)
  <2>1. UNCHANGED TextOf
    BY <1>5, ViewStays DEF Short
  <2> QED BY <1>1, <1>5, <2>1 DEF Abstract!Cat, Abstract!Short, Short
<1> QED BY <1>1, <1>3, <1>4, <1>5 DEF Cat

(* The text from position i to its end, read in the buffer it stands in *)
LEMMA FromBuffer ==
  ASSUME NEW b \in Seq(Bytes), NEW f \in Nat, EndAt(b, f), NEW i \in 1 .. f
  PROVE  /\ TextAt(b, i) = Abstract!From(TextAt(b, 1), i)
         /\ Len(TextAt(b, 1)) = f - 1
         /\ \A k \in 1 .. f - 1 : TextAt(b, 1)[k] = b[k]
         /\ TextAt(b, 1) \in Seq(Bytes)
<1>1. f > 0 /\ f <= Len(b)
  BY DEF EndAt
<1>2. 1 \in 1 .. f /\ 1 \in 1 .. Len(b) + 1 /\ f - 1 \in 0 .. Len(b) /\ 1 <= f - 1 + 1
      /\ i \in 1 .. Len(b) + 1 /\ i <= f - 1 + 1 /\ f - 1 - 1 + 1 = f - 1
  BY <1>1
<1>3. TextAt(b, 1) = SubSeq(b, 1, f - 1) /\ TextAt(b, i) = SubSeq(b, i, f - 1)
  BY <1>2, TextAtIs
<1>4. PICK t : t = SubSeq(b, 1, f - 1)
  OBVIOUS
<1>5. t \in Seq(Bytes) /\ Len(t) = f - 1 /\ \A k \in 1 .. f - 1 : t[k] = b[k]
  <2>1. /\ t \in Seq(Bytes) /\ Len(t) = f - 1 - 1 + 1
        /\ \A k \in 1 .. f - 1 - 1 + 1 : t[k] = b[1 + k - 1]
    BY <1>2, <1>4, SubSeqFacts
  <2> QED BY <1>1, <2>1
<1>6. /\ SubSeq(b, i, f - 1) \in Seq(Bytes) /\ Len(SubSeq(b, i, f - 1)) = f - 1 - i + 1
      /\ \A k \in 1 .. f - 1 - i + 1 : SubSeq(b, i, f - 1)[k] = b[i + k - 1]
  BY <1>2, SubSeqFacts
<1>7. /\ SubSeq(t, i, f - 1) \in Seq(Bytes) /\ Len(SubSeq(t, i, f - 1)) = f - 1 - i + 1
      /\ \A k \in 1 .. f - 1 - i + 1 : SubSeq(t, i, f - 1)[k] = t[i + k - 1]
  <2>1. i \in 1 .. Len(t) + 1 /\ f - 1 \in 0 .. Len(t)
    BY <1>1, <1>5
  <2> QED BY <1>2, <1>5, <2>1, SubSeqFacts
<1>8. \A k \in 1 .. f - 1 - i + 1 : i + k - 1 \in 1 .. f - 1
  BY <1>1
<1>9. SubSeq(b, i, f - 1) = SubSeq(t, i, f - 1)
  <2>1. \A k \in 1 .. f - 1 - i + 1 : SubSeq(b, i, f - 1)[k] = SubSeq(t, i, f - 1)[k]
    BY <1>5, <1>6, <1>7, <1>8
  <2> QED BY <1>6, <1>7, <2>1, SameElements
<1> QED BY <1>3, <1>4, <1>5, <1>9 DEF Abstract!From

(* The first part of a text, which another buffer holds as well *)
LEMMA FrontOfText ==
  ASSUME NEW t \in Seq(Bytes), NEW r \in Seq(Bytes), Len(r) <= Len(t),
         \A k \in 1 .. Len(r) : r[k] = t[k]
  PROVE  r = SubSeq(t, 1, Len(r))
<1>1. PICK n \in Nat : n = Len(r)
  OBVIOUS
<1>2. 1 \in 1 .. Len(t) + 1 /\ n \in 0 .. Len(t) /\ 1 <= n + 1 /\ n - 1 + 1 = n
  BY <1>1
<1>3. /\ SubSeq(t, 1, n) \in Seq(Bytes) /\ Len(SubSeq(t, 1, n)) = n - 1 + 1
      /\ \A i \in 1 .. n - 1 + 1 : SubSeq(t, 1, n)[i] = t[1 + i - 1]
  BY <1>2, SubSeqFacts
<1>4. Len(SubSeq(t, 1, n)) = n /\ \A i \in 1 .. n : SubSeq(t, 1, n)[i] = r[i]
  BY <1>1, <1>3
<1> QED BY <1>1, <1>3, <1>4, SameElements

LEMMA WordsOf ==
  ASSUME NEW n \in Nat, NEW t \in Seq(Bytes), Len(t) = n,
         NEW b, \A k \in 1 .. n : t[k] = b[k]
  PROVE  DOMAIN t = 1 .. n /\ Abstract!Words(t) = {k \in 1 .. n : b[k] # Blank}
BY DEF Abstract!Words

LEMMA StripRefines ==
  ASSUME IndInv, NEW h \in Handles, Strip(h)
  PROVE  /\ h \in Live
         /\ (Abstract!Strip(h) /\ UNCHANGED leaked) \/ (KeepsTail /\ TextOf' = TextOf)
<1> DEFINE s == str[h]
           r == Stripped(s)
           a == Start(r)
           t == TextAt(s.buf, 1)
           u == TextAt(r.buf, 1)
<1>1. /\ h \in Live /\ str' = [str EXCEPT ![h] = r]
      /\ last' = <<"strip", h, TextAt(r.buf, a)>> /\ UNCHANGED <<leaked, short>>
  BY DEF Strip
<1>2. s \in Strings /\ TextOf[h] = t /\ Text(h) = t
  BY <1>1, LiveFacts, ViewOfLive DEF Text
<1>3. PICK e \in Nat : SoundAt(s, e)
  BY <1>1, LiveFacts DEF Sound
<1>4. PICK f \in Nat : StripsTo(s, e, f)
  BY <1>2, <1>3, StripSound
<1>5. SoundAt(r, f) /\ r \in Strings /\ r.len = s.len /\ f \in 1 .. e
      /\ \A k \in 1 .. f - 1 : r.buf[k] = s.buf[k]
  BY <1>4 DEF StripsTo
<1>6. /\ s.buf \in Seq(Bytes) /\ EndAt(s.buf, e) /\ s.len \in Nat /\ Len(s.buf) = s.len + 1
      /\ r.buf \in Seq(Bytes) /\ EndAt(r.buf, f) /\ Len(r.buf) = s.len + 1
      /\ e \in 1 .. s.len + 1
  BY <1>2, <1>3, <1>5, TextFacts DEF Strings, SoundAt
<1>7. TextOf' = [TextOf EXCEPT ![h] = u]
  BY <1>1, <1>5, ViewChanges
<1>8. /\ a \in 1 .. s.len + 1 /\ \A k \in 1 .. a - 1 : r.buf[k] = Blank
      /\ a = s.len + 1 \/ r.buf[a] # Blank
  BY <1>5, <1>6, StartFacts
<1>9. /\ t \in Seq(Bytes) /\ Len(t) = e - 1 /\ \A k \in 1 .. e - 1 : t[k] = s.buf[k]
      /\ DOMAIN t = 1 .. e - 1
  <2>1. 1 \in 1 .. e
    BY <1>6
  <2> QED BY <1>6, <2>1, FromBuffer
<1>10. /\ u \in Seq(Bytes) /\ Len(u) = f - 1 /\ \A k \in 1 .. f - 1 : u[k] = r.buf[k]
       /\ DOMAIN u = 1 .. f - 1
  <2>1. 1 \in 1 .. f
    BY <1>5
  <2> QED BY <1>6, <2>1, FromBuffer
<1>11. a <= f => TextAt(r.buf, a) = Abstract!From(u, a)
  BY <1>6, <1>8, FromBuffer
<1> HIDE DEF s, r, a, t, u
<1>12. PICK m \in Nat, n \in Nat : m = e - 1 /\ n = f - 1 /\ n <= m /\ m <= s.len
  <2>1. e - 1 \in Nat /\ f - 1 \in Nat /\ f - 1 <= e - 1 /\ e - 1 <= s.len
    BY <1>5, <1>6
  <2> QED BY <2>1
<1>13. /\ Abstract!Words(t) = {k \in 1 .. m : s.buf[k] # Blank} /\ DOMAIN t = 1 .. m
       /\ Abstract!Words(u) = {k \in 1 .. n : r.buf[k] # Blank} /\ DOMAIN u = 1 .. n
       /\ Len(t) = m /\ Len(u) = n
  BY <1>9, <1>10, <1>12, WordsOf
<1>14. \A k \in 1 .. n : r.buf[k] = s.buf[k]
  BY <1>5, <1>12
<1>15. CASE r = s /\ f = e /\ e = s.len + 1
            /\ \A k \in 1 .. s.len : k # Start(s) => s.buf[k] = Blank
  <2>1. u = t /\ a = Start(s)
    BY <1>15 DEF r, s, t, u, a
  <2>2. TextOf' = TextOf
    BY <1>2, <1>7, <2>1 DEF TextOf
  <2>3. TextAt(r.buf, a) = Abstract!From(t, a)
    BY <1>8, <1>11, <1>15, <2>1
  <2>6. m = s.len
    BY <1>6, <1>15, <1>12
  <2>4. CASE a = s.len + 1
    <3>1. Abstract!Words(t) = {}
      <4>1. \A k \in 1 .. m : k # a /\ s.buf[k] = Blank
        BY <1>15, <2>1, <2>4, <2>6
      <4> QED BY <1>13, <4>1
    <3>2. Abstract!From(t, a) = <<>>
      <4>1. Abstract!From(t, a) = SubSeq(t, a, m) /\ a = m + 1
        BY <1>13, <2>4, <2>6 DEF Abstract!From
      <4>2. Len(SubSeq(t, a, m)) = 0 /\ SubSeq(t, a, m) \in Seq(Bytes)
        BY <1>9, <1>13, <4>1
      <4> QED BY <4>1, <4>2
    <3> QED BY <1>1, <1>2, <2>2, <2>3, <3>1, <3>2 DEF Abstract!Strip
  <2>5. CASE a # s.len + 1
    <3>1. Abstract!Words(t) = {a}
      <4>1. a \in 1 .. m /\ s.buf[a] # Blank
        BY <1>8, <1>15, <2>5, <2>6
      <4>2. \A k \in 1 .. m : k # a => s.buf[k] = Blank
        BY <1>15, <2>1, <2>6
      <4> QED BY <1>13, <4>1, <4>2
    <3>2. Abstract!From(t, a) \in Abstract!LeftTrimmed(t)
      <4>1. a \in DOMAIN t
        BY <1>6, <1>8, <1>9, <1>15, <2>5
      <4> QED BY <1>8, <3>1, <4>1 DEF Abstract!LeftTrimmed
    <3>3. CASE a = m
      <4>1. t \in Abstract!RightTrimmed(t)
        <5>1. a \in Abstract!Words(t) /\ \A j \in Abstract!Words(t) : j <= a
          BY <1>8, <3>1
        <5>2. t = SubSeq(t, 1, a)
          BY <1>9, <1>13, <3>3, FrontOfText
        <5> QED BY <5>1, <5>2 DEF Abstract!RightTrimmed
      <4>2. TextOf' = [TextOf EXCEPT ![h] = t]
        BY <1>7, <2>1
      <4> QED BY <1>1, <1>2, <2>3, <3>2, <4>1, <4>2 DEF Abstract!Strip
    <3>4. CASE a # m
      <4>1. a \in DOMAIN t /\ t[a] # Blank /\ \A k \in DOMAIN t : k # a => t[k] = Blank
        BY <3>1 DEF Abstract!Words
      <4>2. WordThenBlanks(Text(h))
        BY <1>2, <1>13, <3>4, <4>1 DEF WordThenBlanks
      <4> QED BY <1>1, <2>2, <4>2 DEF KeepsTail
    <3> QED BY <3>3, <3>4
  <2> QED BY <2>4, <2>5
<1>16. CASE /\ Start(s) < f - 1 /\ s.buf[f - 1] # Blank
            /\ \A k \in f .. e - 1 : s.buf[k] = Blank
  <2>1. /\ Start(s) \in 1 .. s.len + 1 /\ \A k \in 1 .. Start(s) - 1 : s.buf[k] = Blank
        /\ Start(s) = s.len + 1 \/ s.buf[Start(s)] # Blank
    BY <1>2, <1>6, StartFacts
  <2>2. a = Start(s) /\ a \in 1 .. f - 2 /\ s.buf[a] # Blank
    <3>1. Start(s) \in 1 .. f - 2 /\ s.buf[Start(s)] # Blank
      BY <1>5, <1>6, <1>16, <2>1
    <3>2. r.buf[Start(s)] # Blank /\ \A k \in 1 .. Start(s) - 1 : r.buf[k] = Blank
      BY <1>5, <1>6, <2>1, <3>1
    <3>3. ~(a < Start(s)) /\ ~(Start(s) < a)
      BY <1>5, <1>6, <1>8, <3>1, <3>2
    <3> QED BY <1>6, <1>8, <3>1, <3>3
  <2>3. /\ a \in Abstract!Words(t) /\ f - 1 \in Abstract!Words(t) /\ a # f - 1
        /\ \A k \in Abstract!Words(t) : k <= f - 1
    <3>1. a \in 1 .. m /\ s.buf[a] # Blank /\ a # n
      BY <1>12, <2>2
    <3>2. n \in 1 .. m /\ s.buf[n] # Blank
      BY <1>16, <1>12, <2>2
    <3>3. \A k \in 1 .. m : k <= n \/ s.buf[k] = Blank
      BY <1>16, <1>12
    <3> QED BY <1>12, <1>13, <3>1, <3>2, <3>3
  <2>4. u = SubSeq(t, 1, f - 1)
    <3>1. Len(u) <= Len(t) /\ \A k \in 1 .. Len(u) : u[k] = t[k]
      <4>1. \A k \in 1 .. n : u[k] = r.buf[k] /\ k \in 1 .. m
        BY <1>10, <1>12
      <4>2. \A k \in 1 .. m : t[k] = s.buf[k]
        BY <1>9, <1>12
      <4> QED BY <1>12, <1>13, <1>14, <4>1, <4>2
    <3> QED BY <1>9, <1>10, <3>1, FrontOfText
  <2>5. u \in Abstract!RightTrimmed(t)
    BY <2>3, <2>4 DEF Abstract!RightTrimmed
  <2>7. TextAt(r.buf, a) \in Abstract!LeftTrimmed(u)
    <3>1. a \in Abstract!Words(u) /\ \A k \in Abstract!Words(u) : a <= k
      <4>1. a \in 1 .. n /\ r.buf[a] # Blank
        BY <1>12, <1>14, <2>2
      <4>2. \A k \in 1 .. n : a <= k \/ r.buf[k] = Blank
        BY <1>8, <1>12, <2>2
      <4> QED BY <1>13, <4>1, <4>2
    <3>2. a \in DOMAIN u /\ a <= f
      BY <1>10, <2>2
    <3> QED BY <1>11, <3>1, <3>2 DEF Abstract!LeftTrimmed
  <2> QED BY <1>1, <1>2, <1>7, <2>5, <2>7 DEF Abstract!Strip
<1> QED BY <1>4, <1>15, <1>16 DEF StripsTo, r

(* The code of nc_string implements TextSpec: every call acts on the text  *)
(* of its handle alone, appending is all or nothing, and strip takes away  *)
(* the blanks at both ends; but for the strip that keeps a tail and the    *)
(* append that is refused to a shortened string, which change no text.     *)
THEOREM TextImplements == Spec => ImplementsText
<1> DEFINE Good == \/ Abstract!Next /\ UNCHANGED leaked
                   \/ (KeepsTail \/ RefusesCut) /\ TextOf' = TextOf
<1>1. Init => Abstract!Init
  BY DEF Init, Abstract!Init, TextOf, Live
<1>2. IndInv /\ [Next]_vars => [Good]_<<Abstract!vars, leaked>>
  <2> SUFFICES ASSUME IndInv, [Next]_vars PROVE Good \/ UNCHANGED <<Abstract!vars, leaked>>
    OBVIOUS
  <2>1. ASSUME NEW h \in Handles, NEW t \in Texts, Dup(h, t) PROVE Good
    BY <2>1, DupRefines DEF Abstract!Next
  <2>2. ASSUME NEW h \in Handles, NEW t \in Texts \cup {Text(g) : g \in Live}, Cat(h, t)
        PROVE  Good
    <3>1. /\ h \in Live
          /\ (Abstract!Cat(h, t) /\ UNCHANGED leaked) \/ (RefusesCut /\ TextOf' = TextOf)
      BY <2>2, CatRefines
    <3>2. TextOf[h] # None
      BY <3>1, ViewOfLive
    <3>3. t \in Texts \cup {TextOf[g] : g \in {i \in Handles : TextOf[i] # None}}
      <4>1. CASE t \in Texts
        BY <4>1
      <4>2. CASE t \in {Text(g) : g \in Live}
        <5>1. PICK g \in Live : t = Text(g)
          BY <4>2
        <5>2. g \in Handles /\ TextOf[g] = t /\ TextOf[g] # None
          BY <5>1, ViewOfLive DEF Live
        <5> QED BY <5>2
      <4> QED BY <4>1, <4>2
    <3>4. Abstract!Cat(h, t) => Abstract!Next
      BY <3>2, <3>3 DEF Abstract!Next
    <3> QED BY <3>1, <3>4
  <2>3. ASSUME NEW h \in Handles, Strip(h) PROVE Good
    <3>1. Abstract!Strip(h) => Abstract!Next
      BY <2>3, StripRefines, ViewOfLive DEF Abstract!Next
    <3> QED BY <2>3, <3>1, StripRefines
  <2>4. ASSUME NEW h \in Handles, Free(h) PROVE Good
    BY <2>4, FreeRefines, ViewOfLive DEF Abstract!Next
  <2>5. CASE UNCHANGED vars
    BY <2>5, ViewStays DEF vars, Abstract!vars
  <2> HIDE DEF Good
  <2> QED BY <2>1, <2>2, <2>3, <2>4, <2>5 DEF Next
<1> QED BY <1>1, <1>2, InitHolds, StepHolds, PTL DEF Spec, ImplementsText

=============================================================================
