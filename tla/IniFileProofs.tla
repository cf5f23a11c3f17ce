--------------------------- MODULE IniFileProofs ---------------------------
(***************************************************************************)
(* Theorems about IniFile, for all files and all calls that may fail: no   *)
(* block is freed twice or lost where the code checks for failures, and    *)
(* the answer and the map are right about the lines that were read.        *)
(***************************************************************************)
EXTENDS IniFile, TLAPS

IsRoot(r) == \E S \in SUBSET Names : r \in [S -> Sections]

Typed ==
  /\ TypeOK
  /\ file \in Seq(Lines) /\ fails \subseteq FailSites
  /\ root = Null \/ IsRoot(root)
  /\ pc = "open" => line_count = 1 /\ current_section = 0 /\ root = Null

-----------------------------------------------------------------------------
(* Maps *)

LEMMA WithFacts ==
  ASSUME NEW f, NEW x, NEW y
  PROVE  /\ DOMAIN With(f, x, y) = DOMAIN f \cup {x}
         /\ With(f, x, y)[x] = y
         /\ \A z \in DOMAIN f : z # x => With(f, x, y)[z] = f[z]
BY DEF With

LEMMA WithTyped ==
  ASSUME NEW X, NEW V, NEW S \in SUBSET X, NEW f \in [S -> V], NEW x \in X, NEW y \in V
  PROVE  With(f, x, y) \in [S \cup {x} -> V] /\ S \cup {x} \in SUBSET X
BY DEF With

LEMMA RootFacts ==
  ASSUME NEW r, IsRoot(r)
  PROVE  /\ r # Null /\ DOMAIN r \subseteq Names
         /\ r \in [DOMAIN r -> Sections]
         /\ \A s \in DOMAIN r :
              /\ r[s] \in Sections /\ r[s].at \in Nat /\ r[s].map \in BOOLEAN
              /\ r[s].entries \in Entries
<1>1. PICK S \in SUBSET Names : r \in [S -> Sections]
  BY DEF IsRoot
<1>2. r # Null /\ DOMAIN r = S
  BY <1>1, ConstantsAssumption
<1>3. \A s \in DOMAIN r : r[s] \in Sections
  BY <1>1
<1> QED BY <1>1, <1>2, <1>3 DEF Sections

LEMMA EntriesFacts ==
  ASSUME NEW e \in Entries
  PROVE  /\ DOMAIN e \subseteq Names
         /\ \A k \in DOMAIN e : /\ e[k].at \in Nat /\ e[k].value \in Values \cup {Null}
                                /\ e[k] = [at |-> e[k].at, value |-> e[k].value]
<1>1. PICK K \in SUBSET Names : e \in [K -> [at : Nat, value : Values \cup {Null}]]
  BY DEF Entries
<1> QED BY <1>1

(* A put of a section into the root ... *)
LEMMA PutSection ==
  ASSUME NEW r, IsRoot(r), NEW x \in Names, NEW y \in Sections
  PROVE  IsRoot(With(r, x, y))
<1>1. PICK S \in SUBSET Names : r \in [S -> Sections]
  BY DEF IsRoot
<1>2. With(r, x, y) \in [S \cup {x} -> Sections] /\ S \cup {x} \in SUBSET Names
  BY <1>1, WithTyped
<1> QED BY <1>2 DEF IsRoot

(* ... and of a key into a section *)
PutIn(r, x, k, e) == [r EXCEPT ![x].entries = With(@, k, e)]

LEMMA PutEntry ==
  ASSUME NEW r, IsRoot(r), NEW x \in DOMAIN r, NEW k \in Names,
         NEW e \in [at : Nat, value : Values \cup {Null}],
         NEW q, q = PutIn(r, x, k, e)
  PROVE  /\ IsRoot(q) /\ DOMAIN q = DOMAIN r
         /\ \A s \in DOMAIN r : s # x => q[s] = r[s]
         /\ q[x].at = r[x].at /\ q[x].map = r[x].map
         /\ q[x].entries = With(r[x].entries, k, e)
<1> DEFINE new == With(r[x].entries, k, e)
<1>1. /\ r \in [DOMAIN r -> Sections] /\ DOMAIN r \in SUBSET Names /\ r[x] \in Sections
      /\ r[x].entries \in Entries
  BY RootFacts
<1>2. new \in Entries
  <2>1. PICK V : V = [at : Nat, value : Values \cup {Null}]
    OBVIOUS
  <2>2. PICK K \in SUBSET Names : r[x].entries \in [K -> V]
    BY <1>1, <2>1 DEF Entries
  <2>3. PICK f \in [K -> V] : f = r[x].entries
    BY <2>2
  <2>4. With(f, k, e) \in [K \cup {k} -> V] /\ K \cup {k} \in SUBSET Names
    <3>1. e \in V
      BY <2>1
    <3> QED BY ONLY <3>1, f \in [K -> V], K \in SUBSET Names, k \in Names, WithTyped
  <2> QED BY <2>1, <2>3, <2>4 DEF Entries
<1> HIDE DEF new
<1>3. q = [r EXCEPT ![x] = [r[x] EXCEPT !.entries = new]]
  BY <1>1 DEF new, PutIn
<1>4. /\ [r[x] EXCEPT !.entries = new] \in Sections
      /\ [r[x] EXCEPT !.entries = new].at = r[x].at
      /\ [r[x] EXCEPT !.entries = new].map = r[x].map
      /\ [r[x] EXCEPT !.entries = new].entries = new
  BY <1>1, <1>2 DEF Sections
<1>5. q \in [DOMAIN r -> Sections] /\ q[x] = [r[x] EXCEPT !.entries = new]
      /\ \A s \in DOMAIN r : s # x => q[s] = r[s]
  BY <1>1, <1>3, <1>4
<1> QED BY <1>1, <1>4, <1>5 DEF IsRoot, new

LEMMA NewSection ==
  ASSUME NEW n \in Nat, NEW b \in BOOLEAN,
         NEW s, s = [at |-> n, map |-> b, entries |-> [k \in {} |-> Null]]
  PROVE  /\ s \in Sections /\ s.at = n /\ s.map = b
         /\ DOMAIN s.entries = {}
<1>1. s.entries \in [{} -> [at : Nat, value : Values \cup {Null}]]
  OBVIOUS
<1>2. {} \in SUBSET Names
  OBVIOUS
<1>3. s.entries \in Entries
  BY <1>1, <1>2 DEF Entries
<1> QED BY <1>3 DEF Sections

(* Line numbers of a root that was read up to line n *)
AtsUpTo(r, n) ==
  \A s \in DOMAIN r :
    /\ r[s].at \in 1 .. n
    /\ \A k \in DOMAIN r[s].entries : r[s].entries[k].at \in 1 .. n

LEMMA PutSectionAts ==
  ASSUME NEW r, IsRoot(r), NEW n \in Nat \ {0}, AtsUpTo(r, n), NEW x \in Names,
         NEW y \in Sections, y.at = n, DOMAIN y.entries = {}, NEW q, q = With(r, x, y)
  PROVE  IsRoot(q) /\ AtsUpTo(q, n)
<1>1. IsRoot(q)
  BY PutSection
<1>2. DOMAIN q = DOMAIN r \cup {x} /\ q[x] = y /\ \A z \in DOMAIN r : z # x => q[z] = r[z]
  BY DEF With
<1>3. AtsUpTo(q, n)
  BY <1>2 DEF AtsUpTo
<1> QED BY <1>1, <1>3

LEMMA PutEntryAts ==
  ASSUME NEW r, IsRoot(r), NEW n \in Nat \ {0}, AtsUpTo(r, n), NEW x \in DOMAIN r, NEW k \in Names,
         NEW e \in [at : Nat, value : Values \cup {Null}], e.at = n,
         NEW q, q = PutIn(r, x, k, e)
  PROVE  IsRoot(q) /\ AtsUpTo(q, n)
<1>1. /\ IsRoot(q) /\ DOMAIN q = DOMAIN r
      /\ \A s \in DOMAIN r : s # x => q[s] = r[s]
      /\ q[x].at = r[x].at
      /\ q[x].entries = With(r[x].entries, k, e)
  BY PutEntry
<1> DEFINE old == r[x].entries
           new == q[x].entries
<1>2. DOMAIN new = DOMAIN old \cup {k} /\ new[k] = e /\ \A z \in DOMAIN old : z # k => new[z] = old[z]
  BY <1>1 DEF With
<1>3. \A z \in DOMAIN new : new[z].at \in 1 .. n
  BY <1>2 DEF AtsUpTo
<1>4. \A s \in DOMAIN r : s # x =>
        q[s].at \in 1 .. n /\ \A z \in DOMAIN q[s].entries : q[s].entries[z].at \in 1 .. n
  BY <1>1 DEF AtsUpTo
<1>5. q[x].at \in 1 .. n
  BY <1>1 DEF AtsUpTo
<1> QED BY <1>1, <1>3, <1>4, <1>5 DEF AtsUpTo

-----------------------------------------------------------------------------
(* Types *)

LEMMA LineFacts ==
  ASSUME Typed, NEW i \in 1 .. Len(file)
  PROVE  /\ file[i] \in Lines /\ file[i].kind \in Kinds
         /\ file[i].name \in Names /\ file[i].value \in Values
         /\ file[i].value # Null
<1>1. file[i] \in Lines
  BY DEF Typed
<1>2. file[i] \in [kind : Kinds, name : Names, value : Values]
  BY <1>1, ConstantsAssumption
<1> QED BY <1>1, <1>2, ConstantsAssumption

LEMMA InitTyped == Init => Typed
<1> SUFFICES ASSUME Init PROVE Typed
  OBVIOUS
<1>1. PICK n \in 0 .. MaxLines : file \in [1 .. n -> Lines]
  BY DEF Init
<1>2. n \in Nat /\ file \in Seq(Lines)
  BY <1>1, ConstantsAssumption
<1>3. fails \subseteq FailSites
  BY ConstantsAssumption DEF Init
<1> QED BY <1>2, <1>3 DEF Init, Typed, TypeOK

(* A turn of the loop that goes on *)
LEMMA TurnTyped ==
  ASSUME Typed, pc = "loop", line_count <= Len(file),
         pc' = pc, line_count' = line_count + 1, UNCHANGED <<file, fails, answer>>,
         current_section' = current_section \/
           (current_section' = line_count /\ file[line_count].kind = "section"),
         root' = Null \/ (IsRoot(root') /\ AtsUpTo(root', line_count))
  PROVE  Typed'
<1>1. line_count \in Nat /\ line_count > 0 /\ Len(file) \in Nat
  BY DEF Typed, TypeOK
<1>2. /\ current_section' \in 0 .. line_count' - 1
      /\ current_section' # 0 => file'[current_section'].kind = "section"
  BY <1>1 DEF Typed, TypeOK
<1>3. root' # Null =>
        \A s \in DOMAIN root' :
          /\ root'[s].at \in 1 .. line_count' - 1 /\ root'[s].map \in BOOLEAN
          /\ \A k \in DOMAIN root'[s].entries :
               root'[s].entries[k].at \in 1 .. line_count' - 1
  BY <1>1, RootFacts DEF AtsUpTo
<1>4. TypeOK'
  BY <1>1, <1>2, <1>3 DEF Typed, TypeOK
<1> QED BY <1>1, <1>4 DEF Typed

(* The loop left by an error, or undefined behaviour *)
LEMMA FailTyped ==
  ASSUME Typed, pc = "loop", line_count <= Len(file), NEW err, NEW held, NEW mem,
         Fail(err, held, mem)
  PROVE  Typed'
<1>1. line_count \in Nat /\ line_count > 0 /\ Len(file) \in Nat
  BY DEF Typed, TypeOK
<1>2. CASE Crash
  BY <1>2 DEF Crash, Typed, TypeOK
<1>3. CASE ~Crash
  BY <1>1, <1>3 DEF Fail, Typed, TypeOK
<1> QED BY <1>2, <1>3

LEMMA OldAts ==
  ASSUME Typed
  PROVE  root = Null \/ (IsRoot(root) /\ AtsUpTo(root, line_count))
<1>0. line_count \in 1 .. Len(file) + 1 /\ Len(file) \in Nat
  BY DEF Typed, TypeOK
<1>1. \A i \in 1 .. line_count - 1 : i \in 1 .. line_count
  BY ONLY <1>0
<1> SUFFICES ASSUME root # Null PROVE IsRoot(root) /\ AtsUpTo(root, line_count)
  OBVIOUS
<1>2. \A s \in DOMAIN root :
        /\ root[s].at \in 1 .. line_count - 1
        /\ \A k \in DOMAIN root[s].entries : root[s].entries[k].at \in 1 .. line_count - 1
  BY DEF Typed, TypeOK
<1>3. AtsUpTo(root, line_count)
  BY <1>1, <1>2 DEF AtsUpTo
<1> QED BY <1>3 DEF Typed

(* The entry that line_count assigns *)
LEMMA NewEntry ==
  ASSUME Typed, pc = "loop", line_count <= Len(file), NEW v \in Copies
  PROVE  [at |-> line_count, value |-> v] \in [at : Nat, value : Values \cup {Null}]
<1>1. line_count \in 1 .. Len(file) /\ line_count \in Nat
  BY DEF Typed, TypeOK
<1>2. v \in Values \cup {Null}
  BY <1>1, LineFacts DEF Copies
<1> QED BY <1>1, <1>2

LEMMA StepTyped == Typed /\ [Next]_vars => Typed'
<1> SUFFICES ASSUME Typed, [Next]_vars PROVE Typed'
  OBVIOUS
<1> DEFINE Here == pc = "loop" /\ line_count <= Len(file)
<1>1. CASE UNCHANGED vars
  BY <1>1 DEF vars, Typed, TypeOK
<1>2. CASE Crash
  BY <1>2 DEF Crash, Typed, TypeOK
<1>3. CASE Open
  <2>1. line_count = 1 /\ current_section = 0 /\ Len(file) \in Nat
    BY <1>3 DEF Open, Typed
  <2>2. CASE root' = [s \in {} |-> Null]
    <3>1. root' \in [{} -> Sections] /\ {} \in SUBSET Names
      BY <2>2
    <3>2. IsRoot(root') /\ DOMAIN root' = {}
      BY <3>1 DEF IsRoot
    <3> QED BY <1>3, <2>1, <3>2 DEF Open, Typed, TypeOK
  <2>3. CASE UNCHANGED root
    BY <1>3, <2>1, <2>3 DEF Open, Typed, TypeOK
  <2> QED BY <1>3, <2>2, <2>3 DEF Open
<1>4. CASE Skip
  <2>1. Here
    BY <1>4 DEF Skip, AtLine
  <2>2. root' = root
    BY <1>4 DEF Skip
  <2>3. root' = Null \/ (IsRoot(root') /\ AtsUpTo(root', line_count))
    BY <2>2, OldAts
  <2>4. /\ pc' = pc /\ line_count' = line_count + 1 /\ UNCHANGED <<file, fails, answer>>
        /\ current_section' = current_section
    BY <1>4 DEF Skip
  <2> QED BY <2>1, <2>3, <2>4, TurnTyped
<1>5. CASE SectionAgain
  <2>1. Here /\ file[line_count].kind = "section"
    BY <1>5 DEF SectionAgain, AtLine
  <2>2. root' = root
    BY <1>5 DEF SectionAgain
  <2>3. root' = Null \/ (IsRoot(root') /\ AtsUpTo(root', line_count))
    BY <2>2, OldAts
  <2> QED BY <1>5, <2>1, <2>3, TurnTyped DEF SectionAgain
<1>6. CASE Section
  <2>1. Here /\ file[line_count].kind = "section" /\ line_count \in 1 .. Len(file)
    BY <1>6 DEF Section, AtLine, Typed, TypeOK
  <2>2. root = Null \/ (IsRoot(root) /\ AtsUpTo(root, line_count))
    BY OldAts
  <2>3. root' = Null \/ (IsRoot(root') /\ AtsUpTo(root', line_count))
    <3>1. CASE UNCHANGED root
      BY <2>2, <3>1
    <3>2. CASE ~UNCHANGED root
      <4>1. PICK made \in {TRUE} \cup {"section" \notin fails} :
              /\ root # Null
              /\ root' = With(root, Name,
                   [at |-> line_count, map |-> made, entries |-> [k \in {} |-> Null]])
        BY <1>6, <3>2 DEF Section
      <4>2. PICK new : new = [at |-> line_count, map |-> made, entries |-> [k \in {} |-> Null]]
        OBVIOUS
      <4>3. new \in Sections /\ new.at = line_count /\ DOMAIN new.entries = {}
        <5>1. made \in BOOLEAN
          BY <4>1
        <5>2. line_count \in Nat
          BY <2>1
        <5> QED BY <4>2, <5>1, <5>2, NewSection
      <4>4. Name \in Names
        BY <2>1, LineFacts DEF Name
      <4>5. PICK n \in Names : n = Name
        BY <4>4
      <4>9. PICK q : q = root'
        OBVIOUS
      <4>6. q = With(root, n, new) /\ root # Null
        BY <4>1, <4>2, <4>5, <4>9
      <4>7. line_count \in Nat \ {0}
        BY <2>1
      <4>8. IsRoot(q) /\ AtsUpTo(q, line_count)
        BY <2>2, <4>3, <4>6, <4>7, PutSectionAts
      <4> QED BY <4>8, <4>9
    <3> QED BY <3>1, <3>2
  <2> QED BY <1>6, <2>1, <2>3, TurnTyped DEF Section
<1>7. CASE Assign
  <2>1. Here /\ line_count \in 1 .. Len(file) /\ root # Null /\ CurrentName \in DOMAIN root
    BY <1>7 DEF Assign, AtLine, HasMap, Typed, TypeOK
  <2>2. IsRoot(root) /\ AtsUpTo(root, line_count) /\ line_count \in Nat
    BY <2>1, OldAts DEF Typed, TypeOK
  <2>3. PICK v \in Copies :
          root' = [root EXCEPT ![CurrentName].entries =
                     With(root[CurrentName].entries, Name, [at |-> line_count, value |-> v])]
    BY <1>7 DEF Assign
  <2>4. PICK e : e = [at |-> line_count, value |-> v]
    OBVIOUS
  <2>5. e \in [at : Nat, value : Values \cup {Null}] /\ e.at = line_count
    BY <2>1, <2>4, NewEntry
  <2>6. Name \in Names
    BY <2>1, LineFacts DEF Name
  <2>7. root' = [root EXCEPT ![CurrentName].entries = With(@, Name, e)]
    BY <2>3, <2>4
  <2>8. PICK x \in DOMAIN root, k \in Names : x = CurrentName /\ k = Name
    BY <2>1, <2>6
  <2>9. PICK q : q = root'
    OBVIOUS
  <2>10. q = PutIn(root, x, k, e)
    BY <2>7, <2>8, <2>9 DEF PutIn
  <2>11. line_count \in Nat \ {0}
    BY <2>1
  <2>12. IsRoot(q) /\ AtsUpTo(q, line_count)
    BY <2>2, <2>5, <2>10, <2>11, PutEntryAts
  <2>13. /\ pc' = pc /\ line_count' = line_count + 1 /\ UNCHANGED <<file, fails, answer>>
         /\ current_section' = current_section
    BY <1>7 DEF Assign
  <2> QED BY <2>1, <2>9, <2>12, <2>13, TurnTyped
<1>8. CASE Finish
  BY <1>8 DEF Finish, Typed, TypeOK
<1>9. CASE FreeMap
  <2>1. CASE Crash
    BY <1>2, <2>1
  <2>2. CASE ~Crash
    BY <1>9, <2>2 DEF FreeMap, Typed, TypeOK
  <2> QED BY <2>1, <2>2
<1>10. CASE NotClosed
  BY <1>10, FailTyped DEF NotClosed, AtLine
<1>11. CASE InvalidLine
  BY <1>11, FailTyped DEF InvalidLine, AtLine
<1>12. CASE NoSection
  BY <1>12, FailTyped DEF NoSection, AtLine
<1>13. CASE EmptyKey
  BY <1>13, FailTyped DEF EmptyKey, AtLine
<1>14. CASE NoSectionMap
  BY <1>14, FailTyped DEF NoSectionMap, AtLine
<1>15. CASE AssignOutOfMemory
  BY <1>15, FailTyped DEF AssignOutOfMemory, AtLine
<1> QED
  BY <1>1, <1>2, <1>3, <1>4, <1>5, <1>6, <1>7, <1>8, <1>9, <1>10, <1>11, <1>12, <1>13,
     <1>14, <1>15 DEF Next, TextOutOfMemory, SectionRehash, AssignRehash

(* Line numbers, sections and entries are what TypeOK says, throughout     *)
(* nc_ini_file_parse_full.                                                 *)
THEOREM TypeCorrect == Spec => []TypeOK
<1>1. Typed => TypeOK
  BY DEF Typed
<1> QED BY <1>1, InitTyped, StepTyped, PTL DEF Spec

-----------------------------------------------------------------------------
(* Memory *)

(* No two sections and no two entries were allocated for one line. *)
Apart(r) ==
  /\ \A s, t \in DOMAIN r : s # t => r[s].at # r[t].at
  /\ \A s, t \in DOMAIN r : \A k \in DOMAIN r[s].entries, l \in DOMAIN r[t].entries :
       s # t \/ k # l => r[s].entries[k].at # r[t].entries[l].at

Fresh(r, n) ==
  \A s \in DOMAIN r :
    /\ r[s].at # n
    /\ \A k \in DOMAIN r[s].entries : r[s].entries[k].at # n

LEMMA BlockTags ==
  ASSUME NEW s, NEW b \in SectionBlocks(s)
  PROVE  \/ b = <<"name", s.at>> \/ (b = <<"map", s.at>> /\ s.map)
         \/ \E k \in DOMAIN s.entries : b \in EntryBlocks(s.entries[k])
<1> PICK U : U = UNION {EntryBlocks(s.entries[k]) : k \in DOMAIN s.entries}
  OBVIOUS
<1>1. CASE b \in U
  BY <1>1
<1>2. CASE b \notin U
  BY <1>2 DEF SectionBlocks
<1> QED BY <1>1, <1>2

LEMMA EntryTags ==
  ASSUME NEW e, NEW b \in EntryBlocks(e)
  PROVE  b = <<"key", e.at>> \/ b = <<"value", e.at>>
BY DEF EntryBlocks

(* Blocks of one entry, of one section, of the root and of the copy of a   *)
(* name differ.                                                            *)
LEMMA EntriesApart ==
  ASSUME NEW e, NEW f, e.at # f.at
  PROVE  EntryBlocks(e) \cap EntryBlocks(f) = {}
BY EntryTags

LEMMA NamesApart ==
  ASSUME NEW e, NEW n
  PROVE  /\ <<"name", n>> \notin EntryBlocks(e) /\ <<"map", n>> \notin EntryBlocks(e)
         /\ <<"root", n>> \notin EntryBlocks(e) /\ <<"current", n>> \notin EntryBlocks(e)
BY EntryTags

LEMMA SectionsApart ==
  ASSUME NEW r, Apart(r), NEW s \in DOMAIN r, NEW t \in DOMAIN r, s # t
  PROVE  SectionBlocks(r[s]) \cap SectionBlocks(r[t]) = {}
<1> SUFFICES ASSUME NEW b \in SectionBlocks(r[s]), b \in SectionBlocks(r[t]) PROVE FALSE
  OBVIOUS
<1>1. r[s].at # r[t].at
  BY DEF Apart
<1>2. CASE \E k \in DOMAIN r[s].entries : b \in EntryBlocks(r[s].entries[k])
  <2>1. PICK k \in DOMAIN r[s].entries : b \in EntryBlocks(r[s].entries[k])
    BY <1>2
  <2>2. \E l \in DOMAIN r[t].entries : b \in EntryBlocks(r[t].entries[l])
    <3>1. b # <<"name", r[t].at>> /\ b # <<"map", r[t].at>>
      BY <2>1, NamesApart
    <3> QED BY <3>1, BlockTags
  <2>3. PICK l \in DOMAIN r[t].entries : b \in EntryBlocks(r[t].entries[l])
    BY <2>2
  <2>4. r[s].entries[k].at # r[t].entries[l].at
    BY DEF Apart
  <2> QED BY <2>1, <2>3, <2>4, EntriesApart
<1>3. CASE ~\E k \in DOMAIN r[s].entries : b \in EntryBlocks(r[s].entries[k])
  <2>1. b = <<"name", r[s].at>> \/ b = <<"map", r[s].at>>
    BY <1>3, BlockTags
  <2>2. b = <<"name", r[t].at>> \/ b = <<"map", r[t].at>>
    BY <2>1, BlockTags, NamesApart
  <2> QED BY <1>1, <2>1, <2>2
<1> QED BY <1>2, <1>3

LEMMA OtherTags ==
  ASSUME NEW s, NEW n
  PROVE  <<"root", n>> \notin SectionBlocks(s) /\ <<"current", n>> \notin SectionBlocks(s)
BY BlockTags, NamesApart

(* The blocks of some sections of a root, and of some entries of a section *)
BlocksOf(r, S) == UNION {SectionBlocks(r[s]) : s \in S}
PairsOf(f, K)  == UNION {EntryBlocks(f[k]) : k \in K}

LEMMA BlocksSplit ==
  ASSUME NEW r, NEW S, NEW x \in S
  PROVE  BlocksOf(r, S) = BlocksOf(r, S \ {x}) \cup SectionBlocks(r[x])
<1>1. ASSUME NEW b \in BlocksOf(r, S), b \notin SectionBlocks(r[x])
      PROVE  b \in BlocksOf(r, S \ {x})
  <2>1. PICK s \in S : b \in SectionBlocks(r[s])
    BY DEF BlocksOf
  <2> QED BY <1>1, <2>1 DEF BlocksOf
<1>2. BlocksOf(r, S \ {x}) \cup SectionBlocks(r[x]) \subseteq BlocksOf(r, S)
  BY DEF BlocksOf
<1> QED BY <1>1, <1>2

LEMMA PairsSplit ==
  ASSUME NEW f, NEW K, NEW k \in K
  PROVE  PairsOf(f, K) = PairsOf(f, K \ {k}) \cup EntryBlocks(f[k])
<1>1. ASSUME NEW b \in PairsOf(f, K), b \notin EntryBlocks(f[k])
      PROVE  b \in PairsOf(f, K \ {k})
  <2>1. PICK l \in K : b \in EntryBlocks(f[l])
    BY DEF PairsOf
  <2> QED BY <1>1, <2>1 DEF PairsOf
<1>2. PairsOf(f, K \ {k}) \cup EntryBlocks(f[k]) \subseteq PairsOf(f, K)
  BY DEF PairsOf
<1> QED BY <1>1, <1>2

LEMMA BlocksAgree ==
  ASSUME NEW r, NEW q, NEW S, \A s \in S : q[s] = r[s]
  PROVE  BlocksOf(q, S) = BlocksOf(r, S)
<1>1. \A b : b \in BlocksOf(q, S) <=> b \in BlocksOf(r, S)
  BY DEF BlocksOf
<1> QED BY <1>1

LEMMA PairsAgree ==
  ASSUME NEW f, NEW g, NEW K, \A k \in K : g[k] = f[k]
  PROVE  PairsOf(g, K) = PairsOf(f, K)
<1>1. \A b : b \in PairsOf(g, K) <=> b \in PairsOf(f, K)
  BY DEF PairsOf
<1> QED BY <1>1

LEMMA HeldFacts ==
  ASSUME NEW r, r # Null
  PROVE  /\ Held(r) = {<<"root", 0>>} \cup BlocksOf(r, DOMAIN r)
         /\ \A n : <<"current", n>> \notin Held(r)
<1>1. Held(r) = {<<"root", 0>>} \cup BlocksOf(r, DOMAIN r)
  BY DEF Held, BlocksOf
<1>2. \A n : <<"current", n>> \notin BlocksOf(r, DOMAIN r)
  BY OtherTags DEF BlocksOf
<1> QED BY <1>1, <1>2

(* What the put of a new section does to the blocks held ... *)
LEMMA HeldSection ==
  ASSUME NEW r, IsRoot(r), Apart(r), NEW x \in Names, NEW y \in Sections,
         NEW q, q = With(r, x, y), Fresh(r, y.at), DOMAIN y.entries = {}
  PROVE  /\ Apart(q)
         /\ Held(q) = (IF x \in DOMAIN r THEN Held(r) \ SectionBlocks(r[x]) ELSE Held(r))
                        \cup SectionBlocks(y)
<1>1. /\ DOMAIN q = DOMAIN r \cup {x} /\ q[x] = y
      /\ \A z \in DOMAIN r : z # x => q[z] = r[z]
  BY DEF With
<1>2. r # Null /\ IsRoot(q) /\ q # Null
  BY PutSection, RootFacts
<1>3. Apart(q)
  BY <1>1 DEF Apart, Fresh
<1> PICK S : S = DOMAIN r \ {x}
  OBVIOUS
<1> PICK others : others = BlocksOf(r, S)
  OBVIOUS
<1>4. Held(q) = {<<"root", 0>>} \cup others \cup SectionBlocks(y)
  <2>1. Held(q) = {<<"root", 0>>} \cup BlocksOf(q, DOMAIN q)
    BY <1>2, HeldFacts
  <2>2. BlocksOf(q, DOMAIN q) = BlocksOf(q, DOMAIN q \ {x}) \cup SectionBlocks(q[x])
    BY <1>1, BlocksSplit
  <2>3. DOMAIN q \ {x} = S /\ \A s \in S : q[s] = r[s]
    BY <1>1
  <2>4. BlocksOf(q, S) = others
    BY <2>3, BlocksAgree
  <2> QED BY <1>1, <2>1, <2>2, <2>3, <2>4
<1>5. Held(r) = {<<"root", 0>>} \cup BlocksOf(r, DOMAIN r)
  BY <1>2, HeldFacts
<1>6. CASE x \in DOMAIN r
  <2>1. Held(r) = {<<"root", 0>>} \cup others \cup SectionBlocks(r[x])
    BY <1>5, <1>6, BlocksSplit
  <2>2. ({<<"root", 0>>} \cup others) \cap SectionBlocks(r[x]) = {}
    <3>1. \A s \in S : SectionBlocks(r[s]) \cap SectionBlocks(r[x]) = {}
      BY <1>6, SectionsApart
    <3>2. others \cap SectionBlocks(r[x]) = {}
      BY <3>1 DEF BlocksOf
    <3> QED BY <3>2, OtherTags
  <2> QED BY <1>3, <1>4, <1>6, <2>1, <2>2
<1>7. CASE x \notin DOMAIN r
  <2>1. S = DOMAIN r
    BY <1>7
  <2> QED BY <1>3, <1>4, <1>5, <1>7, <2>1
<1> QED BY <1>6, <1>7

(* ... and that of an entry *)
LEMMA HeldEntry ==
  ASSUME NEW r, IsRoot(r), Apart(r), NEW x \in DOMAIN r, NEW k \in Names,
         NEW e \in [at : Nat, value : Values \cup {Null}],
         NEW q, q = PutIn(r, x, k, e), Fresh(r, e.at)
  PROVE  /\ Apart(q)
         /\ Held(q) = (IF k \in DOMAIN r[x].entries
                        THEN Held(r) \ EntryBlocks(r[x].entries[k]) ELSE Held(r))
                        \cup EntryBlocks(e)
<1>1. /\ IsRoot(q) /\ DOMAIN q = DOMAIN r
      /\ \A s \in DOMAIN r : s # x => q[s] = r[s]
      /\ q[x].at = r[x].at /\ q[x].map = r[x].map
      /\ q[x].entries = With(r[x].entries, k, e)
  BY PutEntry
<1> PICK old : old = r[x].entries
  OBVIOUS
<1> PICK new : new = q[x].entries
  OBVIOUS
<1>2. /\ DOMAIN new = DOMAIN old \cup {k} /\ new[k] = e
      /\ \A l \in DOMAIN old : l # k => new[l] = old[l]
  BY <1>1 DEF With
<1>3. r # Null /\ q # Null
  BY <1>1, RootFacts
<1>4. Apart(q)
  <2>1. \A s \in DOMAIN q : q[s].at = r[s].at
    BY <1>1
  <2>2. ASSUME NEW s \in DOMAIN q, NEW l \in DOMAIN q[s].entries
        PROVE  \/ s = x /\ l = k /\ q[s].entries[l].at = e.at
               \/ /\ s # x \/ l # k
                  /\ l \in DOMAIN r[s].entries /\ q[s].entries[l].at = r[s].entries[l].at
    BY <1>1, <1>2
  <2>3. \A s \in DOMAIN r : \A l \in DOMAIN r[s].entries : r[s].entries[l].at # e.at
    BY DEF Fresh
  <2>4. \A s, t \in DOMAIN q : s # t => q[s].at # q[t].at
    BY <1>1, <2>1 DEF Apart
  <2>5. ASSUME NEW s \in DOMAIN q, NEW t \in DOMAIN q, NEW l \in DOMAIN q[s].entries,
               NEW m \in DOMAIN q[t].entries, s # t \/ l # m
        PROVE  q[s].entries[l].at # q[t].entries[m].at
    BY <1>1, <2>2, <2>3, <2>5 DEF Apart
  <2> QED BY <2>4, <2>5 DEF Apart
<1> PICK own : own = {<<"root", 0>>, <<"name", r[x].at>>}
                       \cup IF r[x].map THEN {<<"map", r[x].at>>} ELSE {}
  OBVIOUS
<1> PICK K : K = DOMAIN old \ {k}
  OBVIOUS
<1> PICK S : S = DOMAIN r \ {x}
  OBVIOUS
<1> PICK entries : entries = PairsOf(old, K)
  OBVIOUS
<1> PICK others : others = BlocksOf(r, S)
  OBVIOUS
<1>5. Held(q) = own \cup entries \cup others \cup EntryBlocks(e)
  <2>1. Held(q) = {<<"root", 0>>} \cup BlocksOf(q, DOMAIN q)
    BY <1>3, HeldFacts
  <2>2. BlocksOf(q, DOMAIN q) = BlocksOf(q, S) \cup SectionBlocks(q[x])
    BY <1>1, BlocksSplit
  <2>3. BlocksOf(q, S) = others
    BY <1>1, BlocksAgree
  <2>4. {<<"root", 0>>} \cup SectionBlocks(q[x]) = own \cup PairsOf(new, DOMAIN new)
    BY <1>1 DEF SectionBlocks, PairsOf
  <2>5. PairsOf(new, DOMAIN new) = PairsOf(new, DOMAIN new \ {k}) \cup EntryBlocks(e)
    <3>1. PICK D : D = DOMAIN new
      OBVIOUS
    <3>2. k \in D
      BY <1>2, <3>1
    <3>3. PairsOf(new, D) = PairsOf(new, D \ {k}) \cup EntryBlocks(new[k])
      BY ONLY <3>2, PairsSplit
    <3> QED BY <1>2, <3>1, <3>3
  <2>6. DOMAIN new \ {k} = K /\ \A l \in K : new[l] = old[l]
    BY <1>2
  <2>7. PairsOf(new, K) = entries
    BY <2>6, PairsAgree
  <2> QED BY <2>1, <2>2, <2>3, <2>4, <2>5, <2>6, <2>7
<1>6. Held(r) = own \cup PairsOf(old, DOMAIN old) \cup others
  <2>1. Held(r) = {<<"root", 0>>} \cup BlocksOf(r, DOMAIN r)
    BY <1>3, HeldFacts
  <2>2. BlocksOf(r, DOMAIN r) = others \cup SectionBlocks(r[x])
    BY BlocksSplit
  <2>3. {<<"root", 0>>} \cup SectionBlocks(r[x]) = own \cup PairsOf(old, DOMAIN old)
    BY DEF SectionBlocks, PairsOf
  <2> QED BY <2>1, <2>2, <2>3
<1>7. CASE k \in DOMAIN old
  <2>1. PairsOf(old, DOMAIN old) = entries \cup EntryBlocks(old[k])
    BY <1>7, PairsSplit, SMTT(40)
  <2>2. own \cap EntryBlocks(old[k]) = {}
    <3>1. own \subseteq {<<"root", 0>>, <<"name", r[x].at>>, <<"map", r[x].at>>}
      OBVIOUS
    <3>2. PICK f, n : f = old[k] /\ n = r[x].at
      OBVIOUS
    <3>3. /\ <<"root", 0>> \notin EntryBlocks(f)
          /\ <<"name", n>> \notin EntryBlocks(f) /\ <<"map", n>> \notin EntryBlocks(f)
      BY NamesApart
    <3> QED BY <3>1, <3>2, <3>3
  <2>3. entries \cap EntryBlocks(old[k]) = {}
    <3>1. \A l \in K : old[l].at # old[k].at
      BY <1>7 DEF Apart
    <3>2. \A l \in K : EntryBlocks(old[l]) \cap EntryBlocks(old[k]) = {}
      BY <3>1, EntriesApart
    <3> QED BY <3>2 DEF PairsOf
  <2>4. others \cap EntryBlocks(old[k]) = {}
    <3>1. EntryBlocks(old[k]) \subseteq SectionBlocks(r[x])
      BY <1>7 DEF SectionBlocks
    <3>2. \A s \in S : SectionBlocks(r[s]) \cap SectionBlocks(r[x]) = {}
      BY SectionsApart
    <3> QED BY <3>1, <3>2 DEF BlocksOf
  <2> QED BY <1>4, <1>5, <1>6, <1>7, <2>1, <2>2, <2>3, <2>4
<1>8. CASE k \notin DOMAIN old
  <2>1. K = DOMAIN old
    BY <1>8
  <2> QED BY <1>4, <1>5, <1>6, <1>8, <2>1
<1> QED BY <1>7, <1>8

(* What is allocated: all that the root and the copied name stand for, and *)
(* no more unless a map could not be made or put.                          *)
Lossless == fails \cap {"root", "put_root"} = {}

Memory ==
  /\ Held(root) \cup Copy(current_section) \subseteq live
  /\ root # Null => Apart(root)
  /\ Lossless => /\ live \subseteq Held(root) \cup Copy(current_section)
                 /\ pc = "loop" => root # Null
  /\ pc \in {"returned", "freed"} => current_section = 0
  /\ pc = "freed" \/ (pc = "returned" /\ answer.err # "OK") => root = Null
  /\ NeverCrashes

LEMMA InitMemory == Init => Memory
BY DEF Init, Memory, Held, Copy, NeverCrashes

LEMMA TurnMemory ==
  ASSUME Memory, pc = "loop", pc' = pc, fails' = fails,
         Held(root') \cup Copy(current_section') \subseteq live',
         root' # Null => Apart(root'),
         Lossless => live' \subseteq Held(root') \cup Copy(current_section') /\ root' # Null
  PROVE  Memory'
BY DEF Memory, Lossless, NeverCrashes

LEMMA FailMemory ==
  ASSUME Typed, Memory, pc = "loop", NEW err, NEW held, NEW mem, held \subseteq mem,
         live \subseteq mem, mem \subseteq live \cup held, Fail(err, held, mem)
  PROVE  Memory'
<1>1. held \cup Held(root) \cup Copy(current_section) \subseteq mem
  BY DEF Memory
<1>2. /\ pc' = "returned" /\ root' = Null /\ current_section' = 0 /\ fails' = fails
      /\ live' = mem \ (held \cup Held(root) \cup Copy(current_section))
  BY <1>1 DEF Fail
<1>3. Held(root') = {} /\ Copy(current_section') = {}
  BY <1>2 DEF Held, Copy
<1>4. Lossless => live' = {}
  BY <1>2 DEF Memory
<1> QED BY <1>2, <1>3, <1>4 DEF Memory, Lossless, NeverCrashes

(* Every line number in use is smaller than that of the next line. *)
LEMMA NextIsFresh ==
  ASSUME Typed, root # Null
  PROVE  Fresh(root, line_count)
<1>1. line_count \in 1 .. Len(file) + 1 /\ Len(file) \in Nat
  BY DEF Typed, TypeOK
<1>2. \A i \in 1 .. line_count - 1 : i # line_count
  BY ONLY <1>1
<1>3. \A s \in DOMAIN root :
        /\ root[s].at \in 1 .. line_count - 1
        /\ \A k \in DOMAIN root[s].entries : root[s].entries[k].at \in 1 .. line_count - 1
  BY DEF Typed, TypeOK
<1> QED BY <1>2, <1>3 DEF Fresh

LEMMA CopyTags == \A n : Copy(n) \subseteq {<<"current", n>>}
BY DEF Copy

LEMMA CopyApart ==
  ASSUME NEW r, NEW n
  PROVE  Held(r) \cap Copy(n) = {}
<1>1. CASE r = Null
  BY <1>1 DEF Held
<1>2. CASE r # Null
  BY <1>2, HeldFacts, CopyTags
<1> QED BY <1>1, <1>2

LEMMA SectionMemory == Typed /\ Memory /\ Section => Memory'
<1> SUFFICES ASSUME Typed, Memory, Section PROVE Memory'
  OBVIOUS
<1>1. /\ pc = "loop" /\ pc' = pc /\ fails' = fails /\ current_section' = line_count
      /\ line_count \in 1 .. Len(file) /\ line_count \in Nat
  BY DEF Section, AtLine, Typed, TypeOK
<1>2. Name \in Names
  BY <1>1, LineFacts DEF Name
<1>3. PICK c : c = {<<"current", line_count>>}
  OBVIOUS
<1>4. Copy(current_section') = c
  BY <1>1, <1>3 DEF Copy
<1>5. PICK copy : copy = (live \ Copy(current_section)) \cup c
  OBVIOUS
<1>6. Held(root) \cup c \subseteq copy
  BY <1>5, CopyApart DEF Memory
<1>7. Lossless => copy \subseteq Held(root) \cup c
  BY <1>5 DEF Memory
<1>8. PICK made \in BOOLEAN :
        LET new == [at |-> line_count, map |-> made, entries |-> [k \in {} |-> Null]] IN
        \/ /\ root # Null
           /\ root' = With(root, Name, new)
           /\ live' = (IF Name \in DOMAIN root THEN copy \ SectionBlocks(root[Name]) ELSE copy)
                         \cup SectionBlocks(new)
        \/ /\ root # Null => "put_root" \in fails
           /\ live' = copy \cup SectionBlocks(new)
           /\ UNCHANGED root
  BY <1>3, <1>5 DEF Section, PutMayFail
<1>9. PICK new : new = [at |-> line_count, map |-> made, entries |-> [k \in {} |-> Null]]
  OBVIOUS
<1>10. new \in Sections /\ new.at = line_count /\ DOMAIN new.entries = {}
  BY <1>1, <1>9, NewSection
<1>11. CASE /\ root # Null
            /\ root' = With(root, Name, new)
            /\ live' = (IF Name \in DOMAIN root THEN copy \ SectionBlocks(root[Name]) ELSE copy)
                          \cup SectionBlocks(new)
  <2>1. PICK q : q = root'
    OBVIOUS
  <2>2. PICK x \in Names : x = Name
    BY <1>2
  <2>3. IsRoot(root) /\ Apart(root) /\ Fresh(root, new.at)
    BY <1>10, <1>11, NextIsFresh DEF Typed, Memory
  <2>4. q = With(root, x, new)
    BY <1>11, <2>1, <2>2
  <2>5. /\ Apart(q)
        /\ Held(q) = (IF x \in DOMAIN root THEN Held(root) \ SectionBlocks(root[x]) ELSE Held(root))
                       \cup SectionBlocks(new)
    BY <1>10, <2>3, <2>4, HeldSection
  <2>6. live' = (IF x \in DOMAIN root THEN copy \ SectionBlocks(root[x]) ELSE copy)
                  \cup SectionBlocks(new)
    BY <1>11, <2>2
  <2>7. c \cap SectionBlocks(root[x]) = {}
    BY <1>3, OtherTags
  <2>8. Held(q) \cup c \subseteq live'
    BY <1>6, <2>5, <2>6, <2>7
  <2>9. Lossless => live' \subseteq Held(q) \cup c
    BY <1>7, <2>5, <2>6
  <2>10. q # Null
    BY <1>10, <2>3, <2>4, PutSection, RootFacts
  <2> QED BY <1>1, <1>4, <2>1, <2>5, <2>8, <2>9, <2>10, TurnMemory
<1>12. CASE /\ root # Null => "put_root" \in fails
            /\ live' = copy \cup SectionBlocks(new)
            /\ UNCHANGED root
  <2>1. ~Lossless
    BY <1>1, <1>12 DEF Memory, Lossless
  <2>2. Held(root') \cup Copy(current_section') \subseteq live'
    BY <1>4, <1>6, <1>12
  <2> QED BY <1>1, <1>12, <2>1, <2>2, TurnMemory DEF Memory
<1> QED BY <1>8, <1>9, <1>11, <1>12

LEMMA AssignMemory == Typed /\ Memory /\ Assign => Memory'
<1> SUFFICES ASSUME Typed, Memory, Assign PROVE Memory'
  OBVIOUS
<1>1. /\ pc = "loop" /\ pc' = pc /\ fails' = fails /\ current_section' = current_section
      /\ line_count \in 1 .. Len(file) /\ line_count \in Nat /\ line_count <= Len(file)
      /\ root # Null /\ CurrentName \in DOMAIN root
  BY DEF Assign, AtLine, HasMap, Typed, TypeOK
<1>2. Name \in Names
  BY <1>1, LineFacts DEF Name
<1>3. PICK v \in Copies :
        LET old == root[CurrentName].entries IN
        /\ root' = [root EXCEPT ![CurrentName].entries =
                     With(old, Name, [at |-> line_count, value |-> v])]
        /\ live' = (IF Name \in DOMAIN old THEN live \ EntryBlocks(old[Name]) ELSE live)
                     \cup Pair(v)
  BY DEF Assign
<1>4. PICK e : e = [at |-> line_count, value |-> v]
  OBVIOUS
<1>5. e \in [at : Nat, value : Values \cup {Null}] /\ e.at = line_count
  BY <1>1, <1>4, NewEntry
<1>6. PICK x \in DOMAIN root, k \in Names : x = CurrentName /\ k = Name
  BY <1>1, <1>2
<1>7. PICK q : q = root'
  OBVIOUS
<1>8. q = PutIn(root, x, k, e)
  BY <1>3, <1>4, <1>6, <1>7 DEF PutIn
<1>9. PICK old : old = root[x].entries
  OBVIOUS
<1>10. live' = (IF k \in DOMAIN old THEN live \ EntryBlocks(old[k]) ELSE live) \cup EntryBlocks(e)
  BY <1>3, <1>4, <1>6, <1>9 DEF Pair
<1>11. IsRoot(root) /\ Apart(root) /\ Fresh(root, e.at)
  BY <1>1, <1>5, NextIsFresh DEF Typed, Memory
<1>12. /\ Apart(q)
       /\ Held(q) = (IF k \in DOMAIN old THEN Held(root) \ EntryBlocks(old[k]) ELSE Held(root))
                      \cup EntryBlocks(e)
  BY <1>5, <1>8, <1>9, <1>11, HeldEntry
<1>13. PICK c : c = Copy(current_section)
  OBVIOUS
<1>14. c \cap EntryBlocks(old[k]) = {}
  BY <1>13, CopyTags, NamesApart
<1>15. Held(root) \cup c \subseteq live /\ (Lossless => live \subseteq Held(root) \cup c)
  BY <1>13 DEF Memory
<1>16. Held(q) \cup c \subseteq live'
  BY <1>10, <1>12, <1>14, <1>15
<1>17. Lossless => live' \subseteq Held(q) \cup c
  BY <1>10, <1>12, <1>15
<1>18. q # Null
  BY <1>5, <1>8, <1>11, PutEntry, RootFacts
<1> QED BY <1>1, <1>7, <1>12, <1>13, <1>16, <1>17, <1>18, TurnMemory

LEMMA StepMemory == Typed /\ Memory /\ [Next]_vars => Memory'
<1> SUFFICES ASSUME Typed, Memory, [Next]_vars PROVE Memory'
  OBVIOUS
<1>1. CASE UNCHANGED vars
  BY <1>1 DEF vars, Memory, Lossless, NeverCrashes
<1>2. ASSUME Crash, fails \cap {"text", "rehash"} # {} PROVE Memory'
  BY <1>2 DEF Crash, Memory, Lossless, NeverCrashes
<1>3. CASE Open
  <2>1. root = Null /\ current_section = 0 /\ fails' = fails /\ current_section' = 0
    BY <1>3 DEF Open, Typed
  <2>2. CASE pc' = "loop" /\ root' = [s \in {} |-> Null] /\ live' = {<<"root", 0>>}
    <3>1. PICK q : q = root'
      OBVIOUS
    <3>2. q = [s \in {} |-> Null] /\ DOMAIN q = {} /\ BlocksOf(q, {}) = {}
      BY <2>2, <3>1 DEF BlocksOf
    <3>3. q \in [{} -> Sections] /\ {} \in SUBSET Names
      BY <3>2
    <3>4. IsRoot(q)
      BY <3>3 DEF IsRoot
    <3>5. q # Null /\ Held(q) = {<<"root", 0>>} /\ Apart(q)
      BY <3>2, <3>4, RootFacts, HeldFacts DEF Apart
    <3>6. Copy(current_section') = {}
      BY <2>1 DEF Copy
    <3>7. Held(root') = {<<"root", 0>>} /\ Apart(root') /\ root' # Null
      BY <3>1, <3>5
    <3> QED BY <2>1, <2>2, <3>6, <3>7 DEF Memory, Lossless, NeverCrashes
  <2>3. Held(Null) = {} /\ Copy(0) = {}
    BY DEF Held, Copy
  <2>4. CASE pc' = "returned" /\ UNCHANGED <<root, live>>
    BY <2>1, <2>3, <2>4 DEF Memory, Lossless, NeverCrashes
  <2>5. CASE "root" \in fails /\ pc' = "loop" /\ UNCHANGED <<root, live>>
    BY <2>1, <2>3, <2>5 DEF Memory, Lossless, NeverCrashes
  <2> QED BY <1>3, <2>2, <2>4, <2>5 DEF Open
<1>4. CASE Skip
  BY <1>4 DEF Skip, Memory, Lossless, NeverCrashes
<1>5. CASE SectionAgain
  <2>1. /\ pc = "loop" /\ pc' = pc /\ fails' = fails /\ root' = root /\ root # Null
        /\ current_section' = line_count /\ line_count \in 1 .. Len(file)
        /\ live' = (live \ Copy(current_section)) \cup {<<"current", line_count>>}
    BY <1>5 DEF SectionAgain, AtLine, HasMap, Typed, TypeOK
  <2>2. Copy(current_section') = {<<"current", line_count>>}
    BY <2>1 DEF Copy
  <2>3. Held(root) \cap Copy(current_section) = {}
    BY CopyApart
  <2>4. Held(root') = Held(root)
    BY <2>1
  <2>5. Held(root') \cup Copy(current_section') \subseteq live'
    BY <2>1, <2>2, <2>3, <2>4 DEF Memory
  <2>6. Lossless => live' \subseteq Held(root') \cup Copy(current_section') /\ root' # Null
    BY <2>1, <2>2, <2>4 DEF Memory
  <2>7. Apart(root')
    BY <2>1 DEF Memory
  <2> QED BY <2>1, <2>5, <2>6, <2>7, TurnMemory
<1>6. CASE Section
  BY <1>6, SectionMemory
<1>7. CASE Assign
  BY <1>7, AssignMemory
<1>8. CASE Finish
  <2>1. /\ pc' = "returned" /\ fails' = fails /\ root' = root /\ current_section' = 0
        /\ live' = live \ Copy(current_section) /\ answer'.err = "OK"
    BY <1>8 DEF Finish
  <2>2. Copy(current_section') = {} /\ Held(root') = Held(root)
    BY <2>1 DEF Copy
  <2>3. Held(root) \cap Copy(current_section) = {}
    BY CopyApart
  <2> QED BY <2>1, <2>2, <2>3 DEF Memory, Lossless, NeverCrashes
<1>9. CASE FreeMap
  <2>1. current_section = 0 /\ Copy(current_section) = {} /\ Held(root) \subseteq live
    BY <1>9 DEF FreeMap, Memory, Copy
  <2>2. /\ pc' = "freed" /\ live' = live \ Held(root) /\ root' = Null
        /\ fails' = fails /\ current_section' = current_section
    BY <1>9, <2>1 DEF FreeMap
  <2>3. Held(root') = {} /\ Copy(current_section') = {}
    BY <2>1, <2>2 DEF Held, Copy
  <2>4. Lossless => live' = {}
    BY <2>1, <2>2 DEF Memory
  <2> QED BY <2>1, <2>2, <2>3, <2>4 DEF Memory, Lossless, NeverCrashes
<1>10. CASE NotClosed
  BY <1>10, FailMemory DEF NotClosed, AtLine
<1>11. CASE InvalidLine
  BY <1>11, FailMemory DEF InvalidLine, AtLine
<1>12. CASE NoSection
  BY <1>12, FailMemory DEF NoSection, AtLine
<1>13. CASE EmptyKey
  BY <1>13, FailMemory DEF EmptyKey, AtLine
<1>14. ASSUME pc = "loop", NEW v \in Copies, Fail("INTERNAL", Pair(v), live \cup Pair(v))
       PROVE  Memory'
  <2>1. PICK held : held = Pair(v)
    OBVIOUS
  <2> QED BY <1>14, <2>1, FailMemory
<1>15. CASE NoSectionMap
  BY <1>14, <1>15 DEF NoSectionMap, AtLine
<1>16. CASE AssignOutOfMemory
  BY <1>14, <1>16 DEF AssignOutOfMemory, AtLine
<1>17. CASE TextOutOfMemory
  BY <1>2, <1>17 DEF TextOutOfMemory
<1>18. CASE SectionRehash
  BY <1>2, <1>18 DEF SectionRehash, PutMayCorrupt
<1>19. CASE AssignRehash
  BY <1>2, <1>19 DEF AssignRehash, PutMayCorrupt
<1> QED
  BY <1>1, <1>3, <1>4, <1>5, <1>6, <1>7, <1>8, <1>9, <1>10, <1>11, <1>12, <1>13,
     <1>15, <1>16, <1>17, <1>18, <1>19 DEF Next

(* Neither the reader nor the nc_hashmap_free of its caller frees a block  *)
(* twice, as long as copies succeed and no resize fails halfway.           *)
THEOREM NothingFreedTwice == Spec => []NeverCrashes
<1>1. Memory => NeverCrashes
  BY DEF Memory
<1> QED BY <1>1, InitTyped, StepTyped, InitMemory, StepMemory, PTL DEF Spec

(* An error leaves no block behind, and nc_hashmap_free of the map frees   *)
(* everything that was allocated while reading.                            *)
THEOREM NothingLost == Spec => []NothingLeft
<1>1. Memory => NothingLeft
  BY DEF Memory, NothingLeft, Lossless, Held, Copy
<1> QED BY <1>1, InitTyped, StepTyped, InitMemory, StepMemory, PTL DEF Spec

-----------------------------------------------------------------------------
(* Meaning *)

(* The header of a line follows from the line before it. *)
LEMMA GoverningNext ==
  ASSUME NEW i \in Nat \ {0}
  PROVE  /\ Governing(1) = {}
         /\ file[i].kind = "section" => Governing(i + 1) = {i}
         /\ file[i].kind # "section" => Governing(i + 1) = Governing(i)
<1>1. Governing(1) = {}
  BY DEF Governing
<1>2. ASSUME file[i].kind = "section" PROVE Governing(i + 1) = {i}
  <2>1. i \in Governing(i + 1)
    BY <1>2 DEF Governing
  <2>2. ASSUME NEW j \in Governing(i + 1), j # i PROVE FALSE
    <3>1. j \in 1 .. i + 1 - 1 /\ \A m \in j + 1 .. i + 1 - 1 : file[m].kind # "section"
      BY DEF Governing
    <3>2. i \in j + 1 .. i + 1 - 1
      BY ONLY <2>2, <3>1, i \in Nat \ {0}
    <3> QED BY <1>2, <3>1, <3>2
  <2> QED BY <2>1, <2>2
<1>3. ASSUME file[i].kind # "section" PROVE Governing(i + 1) = Governing(i)
  <2>1. ASSUME NEW j \in Governing(i + 1) PROVE j \in Governing(i)
    <3>1. /\ j \in 1 .. i + 1 - 1 /\ file[j].kind = "section"
          /\ \A m \in j + 1 .. i + 1 - 1 : file[m].kind # "section"
      BY DEF Governing
    <3>2. j # i
      BY <1>3, <3>1
    <3>3. j \in 1 .. i - 1 /\ \A m \in j + 1 .. i - 1 : m \in j + 1 .. i + 1 - 1
      BY ONLY <3>1, <3>2, i \in Nat \ {0}
    <3> QED BY <3>1, <3>3 DEF Governing
  <2>2. ASSUME NEW j \in Governing(i) PROVE j \in Governing(i + 1)
    <3>1. /\ j \in 1 .. i - 1 /\ file[j].kind = "section"
          /\ \A m \in j + 1 .. i - 1 : file[m].kind # "section"
      BY DEF Governing
    <3>2. /\ j \in 1 .. i + 1 - 1
          /\ \A m \in j + 1 .. i + 1 - 1 : m = i \/ m \in j + 1 .. i - 1
      BY ONLY <3>1, i \in Nat \ {0}
    <3> QED BY <1>3, <3>1, <3>2 DEF Governing
  <2> QED BY <2>1, <2>2
<1> QED BY <1>1, <1>2, <1>3

LEMMA SectionsNext ==
  ASSUME NEW n \in Nat
  PROVE  /\ SectionsUpTo(0) = {}
         /\ file[n + 1].kind = "section" =>
              SectionsUpTo(n + 1) = SectionsUpTo(n) \cup {file[n + 1].name}
         /\ file[n + 1].kind # "section" => SectionsUpTo(n + 1) = SectionsUpTo(n)
<1>1. \A j : j \in 1 .. n + 1 <=> j \in 1 .. n \/ j = n + 1
  OBVIOUS
<1>2. 1 .. 0 = {}
  OBVIOUS
<1> QED BY <1>1, <1>2 DEF SectionsUpTo

LEMMA AssignsNext ==
  ASSUME NEW n \in Nat, NEW s
  PROVE  /\ AssignsTo(0, s) = {}
         /\ file[n + 1].kind # "assign" => AssignsTo(n + 1, s) = AssignsTo(n, s)
         /\ ~(\E j \in Governing(n + 1) : file[j].name = s) =>
              AssignsTo(n + 1, s) = AssignsTo(n, s)
         /\ file[n + 1].kind = "assign" /\ (\E j \in Governing(n + 1) : file[j].name = s) =>
              AssignsTo(n + 1, s) = AssignsTo(n, s) \cup {n + 1}
<1>1. \A j : j \in 1 .. n + 1 <=> j \in 1 .. n \/ j = n + 1
  OBVIOUS
<1>2. 1 .. 0 = {}
  OBVIOUS
<1> QED BY <1>1, <1>2 DEF AssignsTo

LEMMA AssignsFacts ==
  ASSUME NEW n \in Nat, NEW s, NEW i \in AssignsTo(n, s)
  PROVE  i \in 1 .. n /\ s \in SectionsUpTo(n)
<1>1. i \in 1 .. n /\ \E j \in Governing(i) : file[j].name = s
  BY DEF AssignsTo
<1>2. PICK j \in Governing(i) : file[j].name = s
  BY <1>1
<1>3. j \in 1 .. i - 1 /\ file[j].kind = "section"
  BY DEF Governing
<1>4. j \in 1 .. n
  BY ONLY <1>1, <1>3, n \in Nat
<1> QED BY <1>1, <1>2, <1>3, <1>4 DEF SectionsUpTo

LEMMA LastFacts ==
  ASSUME NEW n \in Nat, NEW s, NEW k, NEW i \in AssignsTo(n, s), file[i].name = k,
         \A j \in AssignsTo(n, s) : file[j].name = k => j <= i
  PROVE  LastAssign(n, s, k) = i
<1> DEFINE Last(l) == /\ l \in AssignsTo(n, s) /\ file[l].name = k
                      /\ \A j \in AssignsTo(n, s) : file[j].name = k => j <= l
           last == LastAssign(n, s, k)
<1>1. Last(i)
  OBVIOUS
<1>2. last = CHOOSE l \in AssignsTo(n, s) :
                file[l].name = k /\ \A j \in AssignsTo(n, s) : file[j].name = k => j <= l
  BY DEF LastAssign
<1>3. Last(last)
  BY <1>1, <1>2
<1>4. last <= i /\ i <= last /\ last \in Nat /\ i \in Nat
  BY <1>1, <1>3, AssignsFacts
<1> QED BY ONLY <1>4

Mapped(r, s) == r # Null /\ s \in DOMAIN r /\ r[s].map

(* The entries are those of the lines in A, the last for each key. *)
Entered(f, A) ==
  /\ \A i \in A : file[i].name \in DOMAIN f /\ i <= f[file[i].name].at
  /\ \A k \in DOMAIN f :
       /\ f[k].at \in A /\ file[f[k].at].name = k
       /\ f[k].value = file[f[k].at].value \/ ("value" \in fails /\ f[k].value = Null)

Right(r, s, A) ==
  IF Mapped(r, s) THEN Entered(r[s].entries, A) ELSE A = {} /\ fails # {}

(* What a root holds of the first n lines, none of which is in error *)
ReadTo(r, n) ==
  /\ \A i \in 1 .. n : ErrorOf(i) = "OK"
  /\ r # Null => DOMAIN r \subseteq SectionsUpTo(n)
  /\ \A s \in SectionsUpTo(n) : Right(r, s, AssignsTo(n, s))
  /\ fails = {} => r # Null

HeaderAt(c, i) == IF c = 0 THEN Governing(i) = {} ELSE Governing(i) = {c}

RefusedAt(i, err) ==
  i \in DOMAIN file /\ ErrorOf(i) = err /\ \A j \in 1 .. i - 1 : ErrorOf(j) = "OK"

Parsed ==
  \A r, n, c, a : r = root /\ n = line_count /\ c = current_section /\ a = answer =>
    /\ pc = "loop" => ReadTo(r, n - 1) /\ HeaderAt(c, n)
    /\ pc = "returned" /\ a.err = "OK" =>
         ReadTo(r, n - 1) /\ (fails = {} => n = Len(file) + 1)
    /\ pc = "returned" /\ a.err # "OK" =>
         /\ r = Null /\ a = [err |-> a.err, line |-> a.line]
         /\ fails = {} => a.err \notin {"FILE", "INTERNAL"}
         /\ a.err \notin {"FILE", "INTERNAL"} => RefusedAt(a.line, a.err)

LEMMA SameFile ==
  ASSUME file' = file, fails' = fails, NEW i, NEW n, NEW r, NEW s, NEW c, NEW e
  PROVE  /\ HeaderAt(c, i)' <=> HeaderAt(c, i)
         /\ RefusedAt(i, e)' <=> RefusedAt(i, e)
         /\ ReadTo(r, n)' <=> ReadTo(r, n)
<1>1. \A x : Governing(x)' = Governing(x)
  BY DEF Governing
<1>2. \A x : ErrorOf(x)' = ErrorOf(x)
  BY <1>1 DEF ErrorOf
<1>3. SectionsUpTo(n)' = SectionsUpTo(n)
  BY DEF SectionsUpTo
<1>4. \A x : AssignsTo(n, x)' = AssignsTo(n, x)
  BY <1>1 DEF AssignsTo
<1>5. HeaderAt(c, i)' <=> HeaderAt(c, i)
  BY <1>1 DEF HeaderAt
<1>6. RefusedAt(i, e)' <=> RefusedAt(i, e)
  BY <1>2 DEF RefusedAt
<1>7. ReadTo(r, n)' <=> ReadTo(r, n)
  BY <1>2, <1>3, <1>4 DEF ReadTo, Right, Entered
<1> QED BY <1>5, <1>6, <1>7

(* One more line ... *)
LEMMA ReadSkip ==
  ASSUME NEW n \in Nat, NEW r, ReadTo(r, n), file[n + 1].kind \in {"blank", "comment"}
  PROVE  ReadTo(r, n + 1)
<1>1. SectionsUpTo(n + 1) = SectionsUpTo(n)
  BY SectionsNext
<1>2. \A s : AssignsTo(n + 1, s) = AssignsTo(n, s)
  BY AssignsNext
<1>3. ErrorOf(n + 1) = "OK" /\ \A j \in 1 .. n + 1 : j = n + 1 \/ j \in 1 .. n
  BY DEF ErrorOf
<1> QED BY <1>1, <1>2, <1>3 DEF ReadTo

(* ... the header of a section that has a map, *)
LEMMA ReadAgain ==
  ASSUME NEW n \in Nat, NEW r, ReadTo(r, n), file[n + 1].kind = "section",
         Mapped(r, file[n + 1].name)
  PROVE  ReadTo(r, n + 1)
<1>1. SectionsUpTo(n + 1) = SectionsUpTo(n)
  BY SectionsNext DEF ReadTo, Mapped
<1>2. \A s : AssignsTo(n + 1, s) = AssignsTo(n, s)
  BY AssignsNext
<1>3. ErrorOf(n + 1) = "OK" /\ \A j \in 1 .. n + 1 : j = n + 1 \/ j \in 1 .. n
  BY DEF ErrorOf
<1> QED BY <1>1, <1>2, <1>3 DEF ReadTo

(* ... of one that has none and is put, *)
LEMMA ReadSection ==
  ASSUME NEW n \in Nat, NEW r, r # Null, IsRoot(r), ReadTo(r, n),
         file[n + 1].kind = "section", NEW x \in Names, x = file[n + 1].name, ~Mapped(r, x),
         NEW y \in Sections, DOMAIN y.entries = {}, ~y.map => fails # {},
         NEW q, q = With(r, x, y)
  PROVE  ReadTo(q, n + 1)
<1>1. SectionsUpTo(n + 1) = SectionsUpTo(n) \cup {x}
  BY SectionsNext
<1>2. \A s : AssignsTo(n + 1, s) = AssignsTo(n, s)
  BY AssignsNext
<1>3. ErrorOf(n + 1) = "OK" /\ \A j \in 1 .. n + 1 : j = n + 1 \/ j \in 1 .. n
  BY DEF ErrorOf
<1>4. /\ DOMAIN q = DOMAIN r \cup {x} /\ q[x] = y /\ \A z \in DOMAIN r : z # x => q[z] = r[z]
  BY DEF With
<1>5. q # Null
  BY PutSection, RootFacts
<1>6. AssignsTo(n, x) = {}
  <2>1. CASE x \in SectionsUpTo(n)
    BY <2>1 DEF ReadTo, Right
  <2>2. CASE x \notin SectionsUpTo(n)
    BY <2>2, AssignsFacts
  <2> QED BY <2>1, <2>2
<1>7. \A s \in SectionsUpTo(n) : s # x => (Mapped(q, s) <=> Mapped(r, s))
  BY <1>4, <1>5 DEF Mapped
<1>8. ASSUME NEW s \in SectionsUpTo(n), s # x PROVE Right(q, s, AssignsTo(n, s))
  <2>1. Right(r, s, AssignsTo(n, s))
    BY DEF ReadTo
  <2>2. Mapped(r, s) => q[s] = r[s]
    BY <1>4, <1>8 DEF Mapped
  <2> QED BY <1>7, <1>8, <2>1, <2>2 DEF Right
<1>9. Right(q, x, AssignsTo(n, x))
  <2>1. IF Mapped(q, x) THEN q[x] = y ELSE fails # {}
    BY <1>4, <1>5 DEF Mapped
  <2>2. Entered(y.entries, {})
    BY DEF Entered
  <2> QED BY <1>6, <2>1, <2>2 DEF Right
<1>10. DOMAIN q \subseteq SectionsUpTo(n + 1)
  BY <1>1, <1>4 DEF ReadTo
<1>11. \A i \in 1 .. n + 1 : ErrorOf(i) = "OK"
  BY <1>3 DEF ReadTo
<1>12. \A s \in SectionsUpTo(n + 1) : Right(q, s, AssignsTo(n + 1, s))
  BY <1>1, <1>2, <1>8, <1>9
<1> QED BY <1>5, <1>10, <1>11, <1>12 DEF ReadTo

(* ... of one that has none and that the root does not take, *)
LEMMA ReadUnput ==
  ASSUME NEW n \in Nat, NEW r, ReadTo(r, n), file[n + 1].kind = "section",
         ~Mapped(r, file[n + 1].name), fails # {}
  PROVE  ReadTo(r, n + 1)
<1>1. SectionsUpTo(n + 1) = SectionsUpTo(n) \cup {file[n + 1].name}
  BY SectionsNext
<1>2. \A s : AssignsTo(n + 1, s) = AssignsTo(n, s)
  BY AssignsNext
<1>3. ErrorOf(n + 1) = "OK" /\ \A j \in 1 .. n + 1 : j = n + 1 \/ j \in 1 .. n
  BY DEF ErrorOf
<1>4. AssignsTo(n, file[n + 1].name) = {}
  <2>1. CASE file[n + 1].name \in SectionsUpTo(n)
    BY <2>1 DEF ReadTo, Right
  <2>2. CASE file[n + 1].name \notin SectionsUpTo(n)
    BY <2>2, AssignsFacts
  <2> QED BY <2>1, <2>2
<1>5. Right(r, file[n + 1].name, {})
  BY DEF Right
<1> QED BY <1>1, <1>2, <1>3, <1>4, <1>5 DEF ReadTo

(* An entry added to a map by the line after those that made it *)
LEMMA EnteredNext ==
  ASSUME NEW n \in Nat, NEW A, A \subseteq 1 .. n, NEW old, Entered(old, A),
         NEW e, e.at = n + 1,
         e.value = file[n + 1].value \/ ("value" \in fails /\ e.value = Null),
         NEW new, DOMAIN new = DOMAIN old \cup {file[n + 1].name},
         new[file[n + 1].name] = e,
         \A l \in DOMAIN old : l # file[n + 1].name => new[l] = old[l]
  PROVE  Entered(new, A \cup {n + 1})
<1>1. ASSUME NEW i \in A \cup {n + 1}
      PROVE  file[i].name \in DOMAIN new /\ i <= new[file[i].name].at
  <2>1. CASE i = n + 1
    BY <2>1
  <2>2. CASE i \in A
    <3>1. i \in 1 .. n /\ i <= n + 1
      BY <2>2
    <3>2. file[i].name \in DOMAIN old /\ i <= old[file[i].name].at
      BY <2>2 DEF Entered
    <3> QED BY <3>1, <3>2
  <2> QED BY <2>1, <2>2
<1>2. ASSUME NEW l \in DOMAIN new
      PROVE  /\ new[l].at \in A \cup {n + 1} /\ file[new[l].at].name = l
             /\ new[l].value = file[new[l].at].value \/ ("value" \in fails /\ new[l].value = Null)
  <2>1. CASE l = file[n + 1].name
    BY <2>1
  <2>2. CASE l # file[n + 1].name
    BY <2>2 DEF Entered
  <2> QED BY <2>1, <2>2
<1> QED BY <1>1, <1>2 DEF Entered

(* ... and an assignment *)
LEMMA ReadAssign ==
  ASSUME NEW n \in Nat, NEW r, IsRoot(r), ReadTo(r, n), file[n + 1].kind = "assign",
         NEW c, Governing(n + 1) = {c}, NEW x \in DOMAIN r, file[c].name = x, Mapped(r, x),
         NEW k \in Names, k = file[n + 1].name, k # Empty,
         NEW e \in [at : Nat, value : Values \cup {Null}], e.at = n + 1,
         e.value = file[n + 1].value \/ ("value" \in fails /\ e.value = Null),
         NEW q, q = PutIn(r, x, k, e)
  PROVE  ReadTo(q, n + 1)
<1>1. SectionsUpTo(n + 1) = SectionsUpTo(n)
  BY SectionsNext
<1>2. /\ AssignsTo(n + 1, x) = AssignsTo(n, x) \cup {n + 1}
      /\ \A s : s # x => AssignsTo(n + 1, s) = AssignsTo(n, s)
  BY AssignsNext
<1>3. ErrorOf(n + 1) = "OK" /\ \A j \in 1 .. n + 1 : j = n + 1 \/ j \in 1 .. n
  BY DEF ErrorOf
<1>4. /\ IsRoot(q) /\ DOMAIN q = DOMAIN r
      /\ \A s \in DOMAIN r : s # x => q[s] = r[s]
      /\ q[x].map = r[x].map
      /\ q[x].entries = With(r[x].entries, k, e)
  BY PutEntry
<1> PICK old : old = r[x].entries
  OBVIOUS
<1> PICK new : new = q[x].entries
  OBVIOUS
<1>5. /\ DOMAIN new = DOMAIN old \cup {k} /\ new[k] = e
      /\ \A l \in DOMAIN old : l # k => new[l] = old[l]
  BY <1>4 DEF With
<1>6. q # Null /\ r # Null
  BY <1>4, RootFacts
<1>7. \A s : Mapped(q, s) <=> Mapped(r, s)
  BY <1>4, <1>6 DEF Mapped
<1>8. \A i \in 1 .. n + 1 : ErrorOf(i) = "OK"
  BY <1>3 DEF ReadTo
<1>9. ASSUME NEW s \in SectionsUpTo(n), s # x PROVE Right(q, s, AssignsTo(n, s))
  <2>1. Right(r, s, AssignsTo(n, s))
    BY DEF ReadTo
  <2>2. Mapped(r, s) => q[s] = r[s]
    BY <1>4, <1>9 DEF Mapped
  <2> QED BY <1>7, <2>1, <2>2 DEF Right
<1>10. x \in SectionsUpTo(n)
  BY <1>6 DEF ReadTo
<1>11. Entered(old, AssignsTo(n, x))
  BY <1>10 DEF ReadTo, Right
<1>12. AssignsTo(n, x) \subseteq 1 .. n
  BY AssignsFacts
<1>13. Entered(new, AssignsTo(n, x) \cup {n + 1})
  BY ONLY <1>5, <1>11, <1>12, EnteredNext, n \in Nat, k = file[n + 1].name, e.at = n + 1,
     e.value = file[n + 1].value \/ ("value" \in fails /\ e.value = Null)
<1>15. DOMAIN q \subseteq SectionsUpTo(n + 1)
  BY <1>1, <1>4, <1>6 DEF ReadTo
<1>16. Right(q, x, AssignsTo(n + 1, x))
  BY <1>2, <1>7, <1>13 DEF Right
<1>17. \A s \in SectionsUpTo(n + 1) : Right(q, s, AssignsTo(n + 1, s))
  BY <1>1, <1>2, <1>9, <1>16
<1> QED BY <1>6, <1>8, <1>15, <1>17 DEF ReadTo

LEMMA InitParsed == Init => Parsed
BY DEF Init, Parsed

(* A turn of the loop that goes on *)
LEMMA TurnParsed ==
  ASSUME Typed, Parsed, pc = "loop", pc' = pc, line_count' = line_count + 1,
         file' = file, fails' = fails,
         NEW q, q = root', NEW d, d = current_section',
         ReadTo(q, line_count), HeaderAt(d, line_count + 1)
  PROVE  Parsed'
<1> SUFFICES ASSUME NEW r, NEW n, NEW c, NEW a,
                    r = root', n = line_count', c = current_section', a = answer'
             PROVE  ReadTo(r, n - 1)' /\ HeaderAt(c, n)'
  BY DEF Parsed
<1>1. line_count \in Nat /\ n = line_count + 1 /\ n - 1 = line_count
  BY DEF Typed, TypeOK
<1>2. PICK m : m = n - 1
  OBVIOUS
<1>3. ReadTo(r, m) /\ HeaderAt(c, n)
  BY <1>1, <1>2
<1>4. ReadTo(r, m)' /\ HeaderAt(c, n)'
  BY <1>3, SameFile
<1> QED BY <1>2, <1>4

(* What holds at the current line *)
LEMMA NowParsed ==
  ASSUME Typed, Parsed, pc = "loop", line_count <= Len(file)
  PROVE  /\ line_count \in Nat \ {0} /\ line_count \in 1 .. Len(file)
         /\ \E n \in Nat : /\ n = line_count - 1 /\ line_count = n + 1
                          /\ ReadTo(root, n) /\ HeaderAt(current_section, n + 1)
<1>1. line_count \in Nat \ {0} /\ line_count \in 1 .. Len(file)
  BY DEF Typed, TypeOK
<1>2. PICK n \in Nat : n = line_count - 1 /\ line_count = n + 1
  BY <1>1
<1>3. PICK r, l, c, a : r = root /\ l = line_count /\ c = current_section /\ a = answer
  OBVIOUS
<1>4. ReadTo(r, l - 1) /\ HeaderAt(c, l)
  BY <1>3 DEF Parsed
<1> QED BY <1>1, <1>2, <1>3, <1>4

(* The loop left by an error *)
LEMMA FailParsed ==
  ASSUME Typed, Parsed, pc = "loop", line_count <= Len(file), NEW err, err # "OK",
         NEW held, NEW mem, Fail(err, held, mem), err # "FILE",
         IF err = "INTERNAL" THEN fails # {} ELSE ErrorOf(line_count) = err
  PROVE  Parsed'
<1>1. CASE pc' = "crashed"
  BY <1>1 DEF Parsed
<1>2. CASE pc' # "crashed"
  <2>1. /\ pc' = "returned" /\ answer' = [err |-> err, line |-> line_count]
        /\ root' = Null /\ file' = file /\ fails' = fails
    BY <1>2 DEF Fail, Crash
  <2>2. PICK i : i = line_count
    OBVIOUS
  <2>3. err # "INTERNAL" => RefusedAt(i, err)
    <3>1. line_count \in 1 .. Len(file) /\ DOMAIN file = 1 .. Len(file)
      BY NowParsed DEF Typed
    <3>2. \A j \in 1 .. line_count - 1 : ErrorOf(j) = "OK"
      BY NowParsed DEF ReadTo
    <3> QED BY <2>2, <3>1, <3>2 DEF RefusedAt
  <2>4. err # "INTERNAL" => RefusedAt(i, err)'
    BY <2>1, <2>3, SameFile
  <2>5. ASSUME NEW a, a = answer'
        PROVE  /\ a.err = err /\ a.line = i /\ a = [err |-> a.err, line |-> a.line]
    BY <2>1, <2>2, <2>5
  <2> QED BY <2>1, <2>4, <2>5 DEF Parsed
<1> QED BY <1>1, <1>2

(* A section that a line assigns to *)
LEMMA CurrentFacts ==
  ASSUME Typed, Parsed, AtLine("assign"), current_section # 0
  PROVE  /\ Governing(line_count) = {current_section}
         /\ ~HasMap(CurrentName) => fails # {}
<1>1. PICK n \in Nat : /\ n = line_count - 1 /\ line_count = n + 1
                      /\ ReadTo(root, n) /\ HeaderAt(current_section, n + 1)
  BY NowParsed DEF AtLine
<1>2. Governing(line_count) = {current_section}
  BY <1>1 DEF HeaderAt
<1>3. current_section \in 1 .. n /\ file[current_section].kind = "section"
  BY <1>1 DEF Typed, TypeOK
<1>4. CurrentName \in SectionsUpTo(n)
  BY <1>3 DEF CurrentName, SectionsUpTo
<1>5. ~HasMap(CurrentName) => fails # {}
  BY <1>1, <1>4 DEF HasMap, Mapped, ReadTo, Right
<1> QED BY <1>2, <1>5

LEMMA HeaderNext ==
  ASSUME Typed, Parsed, pc = "loop", line_count <= Len(file)
  PROVE  /\ file[line_count].kind = "section" => HeaderAt(line_count, line_count + 1)
         /\ file[line_count].kind # "section" => HeaderAt(current_section, line_count + 1)
<1>1. PICK n \in Nat : /\ n = line_count - 1 /\ line_count = n + 1
                      /\ ReadTo(root, n) /\ HeaderAt(current_section, n + 1)
  BY NowParsed
<1>2. PICK i \in Nat \ {0} : i = line_count
  BY NowParsed
<1>3. /\ file[i].kind = "section" => Governing(i + 1) = {i}
      /\ file[i].kind # "section" => Governing(i + 1) = Governing(i)
  BY GoverningNext
<1>4. HeaderAt(current_section, i)
  BY <1>1, <1>2
<1> QED BY <1>2, <1>3, <1>4 DEF HeaderAt

LEMMA SectionParsed == Typed /\ Parsed /\ Section => Parsed'
<1> SUFFICES ASSUME Typed, Parsed, Section PROVE Parsed'
  OBVIOUS
<1>1. /\ pc = "loop" /\ line_count <= Len(file) /\ file[line_count].kind = "section"
      /\ pc' = pc /\ line_count' = line_count + 1 /\ file' = file /\ fails' = fails
      /\ current_section' = line_count /\ ~HasMap(Name)
  BY DEF Section, AtLine
<1>2. PICK n \in Nat : line_count = n + 1 /\ ReadTo(root, n)
  BY <1>1, NowParsed
<1>3. PICK x \in Names : x = Name /\ x = file[n + 1].name
  BY <1>1, <1>2, NowParsed, LineFacts DEF Name
<1>4. file[n + 1].kind = "section" /\ ~Mapped(root, x)
  BY <1>1, <1>2, <1>3 DEF HasMap, Mapped
<1>5. HeaderAt(current_section', line_count + 1)
  BY <1>1, HeaderNext
<1>6. PICK q, d : q = root' /\ d = current_section'
  OBVIOUS
<1>7. PICK made \in {TRUE} \cup {"section" \notin fails} :
        LET new == [at |-> line_count, map |-> made, entries |-> [k \in {} |-> Null]] IN
        \/ root # Null /\ root' = With(root, Name, new)
        \/ (root # Null => "put_root" \in fails) /\ root' = root
  BY DEF Section, PutMayFail
<1>8. ReadTo(q, n + 1)
  <2>1. PICK new : new = [at |-> n + 1, map |-> made, entries |-> [k \in {} |-> Null]]
    OBVIOUS
  <2>2. CASE root # Null /\ root' = With(root, Name, new)
    <3>1. made \in BOOLEAN
      OBVIOUS
    <3>2. new \in Sections /\ new.map = made /\ DOMAIN new.entries = {}
      <4>1. n + 1 \in Nat
        OBVIOUS
      <4> QED BY <2>1, <3>1, <4>1, NewSection
    <3>3. ~new.map => fails # {}
      BY <1>7, <3>2
    <3>4. q = With(root, x, new) /\ root # Null /\ IsRoot(root)
      BY <1>3, <1>6, <2>2 DEF Typed
    <3> QED BY <1>2, <1>3, <1>4, <3>2, <3>3, <3>4, ReadSection
  <2>3. CASE (root # Null => "put_root" \in fails) /\ root' = root
    <3>1. fails # {}
      BY <1>2, <2>3 DEF ReadTo
    <3>2. ReadTo(root, n + 1)
      BY <1>2, <1>3, <1>4, <3>1, ReadUnput
    <3> QED BY <1>6, <2>3, <3>2
  <2> QED BY <1>2, <1>7, <2>1, <2>2, <2>3
<1> QED BY <1>1, <1>2, <1>5, <1>6, <1>8, TurnParsed

LEMMA AssignParsed == Typed /\ Parsed /\ Assign => Parsed'
<1> SUFFICES ASSUME Typed, Parsed, Assign PROVE Parsed'
  OBVIOUS
<1>1. /\ pc = "loop" /\ line_count <= Len(file) /\ file[line_count].kind = "assign"
      /\ pc' = pc /\ line_count' = line_count + 1 /\ file' = file /\ fails' = fails
      /\ current_section' = current_section /\ current_section # 0
      /\ AtLine("assign") /\ Name # Empty /\ HasMap(CurrentName)
  BY DEF Assign, AtLine
<1>2. PICK n \in Nat : line_count = n + 1 /\ ReadTo(root, n)
  BY <1>1, NowParsed
<1>3. PICK k \in Names : k = Name /\ k = file[n + 1].name
  BY <1>1, <1>2, NowParsed, LineFacts DEF Name
<1>4. PICK c : c = current_section
  OBVIOUS
<1>5. Governing(n + 1) = {c}
  BY <1>1, <1>2, <1>4, CurrentFacts
<1>6. PICK x \in DOMAIN root : x = CurrentName /\ file[c].name = x /\ Mapped(root, x)
  BY <1>1, <1>4 DEF HasMap, Mapped, CurrentName
<1>7. PICK v \in Copies :
        root' = [root EXCEPT ![CurrentName].entries =
                  With(root[CurrentName].entries, Name, [at |-> line_count, value |-> v])]
  BY DEF Assign
<1>8. PICK e : e = [at |-> line_count, value |-> v]
  OBVIOUS
<1>9. e \in [at : Nat, value : Values \cup {Null}] /\ e.at = n + 1
  BY <1>1, <1>2, <1>8, NewEntry
<1>10. e.value = file[n + 1].value \/ ("value" \in fails /\ e.value = Null)
  BY <1>2, <1>7, <1>8 DEF Copies
<1>11. PICK q : q = root'
  OBVIOUS
<1>12. q = PutIn(root, x, k, e)
  BY <1>3, <1>6, <1>7, <1>8, <1>11 DEF PutIn
<1>13. IsRoot(root) /\ file[n + 1].kind = "assign" /\ k # Empty
  BY <1>1, <1>2, <1>3, <1>6 DEF Typed, Mapped
<1>14. ReadTo(q, n + 1)
  BY <1>2, <1>3, <1>5, <1>6, <1>9, <1>10, <1>12, <1>13, ReadAssign
<1>15. HeaderAt(c, line_count + 1)
  BY <1>1, <1>4, HeaderNext
<1> QED BY <1>1, <1>2, <1>4, <1>11, <1>14, <1>15, TurnParsed

LEMMA StepParsed == Typed /\ Parsed /\ [Next]_vars => Parsed'
<1> SUFFICES ASSUME Typed, Parsed, [Next]_vars PROVE Parsed'
  OBVIOUS
<1> DEFINE Here == pc = "loop" /\ line_count <= Len(file)
<1>1. CASE UNCHANGED vars
  <2>1. \A r, n, c, a, i, e :
          /\ HeaderAt(c, i)' <=> HeaderAt(c, i)
          /\ RefusedAt(i, e)' <=> RefusedAt(i, e)
          /\ ReadTo(r, n)' <=> ReadTo(r, n)
    BY <1>1, SameFile DEF vars
  <2> SUFFICES ASSUME NEW r, NEW n, NEW c, NEW a,
                      r = root', n = line_count', c = current_section', a = answer'
               PROVE  /\ pc' = "loop" => ReadTo(r, n - 1)' /\ HeaderAt(c, n)'
                      /\ pc' = "returned" /\ a.err = "OK" =>
                           ReadTo(r, n - 1)' /\ (fails' = {} => n = Len(file') + 1)
                      /\ pc' = "returned" /\ a.err # "OK" =>
                           /\ r = Null /\ a = [err |-> a.err, line |-> a.line]
                           /\ fails' = {} => a.err \notin {"FILE", "INTERNAL"}
                           /\ a.err \notin {"FILE", "INTERNAL"} => RefusedAt(a.line, a.err)'
    BY DEF Parsed
  <2>2. r = root /\ n = line_count /\ c = current_section /\ a = answer
        /\ pc' = pc /\ fails' = fails /\ file' = file
    BY <1>1 DEF vars
  <2>3. PICK m, i, e : m = n - 1 /\ i = a.line /\ e = a.err
    OBVIOUS
  <2>4. /\ pc = "loop" => ReadTo(r, m) /\ HeaderAt(c, n)
        /\ pc = "returned" /\ e = "OK" => ReadTo(r, m) /\ (fails = {} => n = Len(file) + 1)
        /\ pc = "returned" /\ e # "OK" =>
             /\ r = Null /\ a = [err |-> a.err, line |-> a.line]
             /\ fails = {} => e \notin {"FILE", "INTERNAL"}
             /\ e \notin {"FILE", "INTERNAL"} => RefusedAt(i, e)
    BY <2>2, <2>3 DEF Parsed
  <2>5. /\ ReadTo(r, m)' <=> ReadTo(r, m)
        /\ HeaderAt(c, n)' <=> HeaderAt(c, n)
        /\ RefusedAt(i, e)' <=> RefusedAt(i, e)
    BY <2>1
  <2> QED BY <2>2, <2>3, <2>4, <2>5
<1>2. ASSUME Crash PROVE Parsed'
  BY <1>2 DEF Crash, Parsed
<1>3. CASE Open
  <2>1. line_count = 1 /\ current_section = 0 /\ root = Null
    BY <1>3 DEF Open, Typed
  <2>2. CASE pc' = "returned"
    BY <1>3, <2>1, <2>2 DEF Open, Parsed
  <2>3. CASE pc' = "loop"
    <3>1. /\ (root' = [s \in {} |-> Null]) \/ (root' = Null /\ "root" \in fails)
          /\ file' = file /\ fails' = fails /\ line_count' = 1 /\ current_section' = 0
      BY <1>3, <2>1, <2>3 DEF Open
    <3>2. PICK q : q = root'
      OBVIOUS
    <3>3. q # Null => DOMAIN q = {}
      BY <3>1, <3>2
    <3>4. fails = {} => q # Null
      <4>1. ASSUME fails = {} PROVE q # Null
        <5>1. q \in [{} -> Sections] /\ {} \in SUBSET Names
          BY <3>1, <3>2, <4>1
        <5> QED BY <5>1, ConstantsAssumption
      <4> QED BY <4>1
    <3>5. SectionsUpTo(0) = {} /\ 1 .. 0 = {}
      BY SectionsNext
    <3>6. ReadTo(q, 0) /\ HeaderAt(0, 1)
      <4>1. Governing(1) = {}
        BY GoverningNext
      <4> QED BY <3>3, <3>4, <3>5, <4>1 DEF ReadTo, HeaderAt
    <3>7. ReadTo(q, 0)' /\ HeaderAt(0, 1)'
      BY <3>1, <3>6, SameFile
    <3>8. 1 - 1 = 0
      OBVIOUS
    <3> QED BY <2>3, <3>1, <3>2, <3>7, <3>8 DEF Parsed
  <2> QED BY <1>3, <2>2, <2>3 DEF Open
<1>4. CASE Skip
  <2>1. /\ Here /\ pc' = pc /\ line_count' = line_count + 1 /\ file' = file /\ fails' = fails
        /\ root' = root /\ current_section' = current_section
        /\ file[line_count].kind \in {"blank", "comment"}
    BY <1>4 DEF Skip, AtLine
  <2>2. PICK n \in Nat : line_count = n + 1 /\ ReadTo(root, n)
    BY <2>1, NowParsed
  <2>3. ReadTo(root, line_count)
    BY <2>1, <2>2, ReadSkip
  <2>4. HeaderAt(current_section, line_count + 1)
    BY <2>1, HeaderNext
  <2>5. PICK q, d : q = root' /\ d = current_section'
    OBVIOUS
  <2> QED BY <2>1, <2>3, <2>4, <2>5, TurnParsed
<1>5. CASE SectionAgain
  <2>1. /\ Here /\ pc' = pc /\ line_count' = line_count + 1 /\ file' = file /\ fails' = fails
        /\ root' = root /\ current_section' = line_count
        /\ file[line_count].kind = "section" /\ Mapped(root, file[line_count].name)
    BY <1>5 DEF SectionAgain, AtLine, HasMap, Mapped, Name
  <2>2. PICK n \in Nat : line_count = n + 1 /\ ReadTo(root, n)
    BY <2>1, NowParsed
  <2>3. ReadTo(root, line_count)
    BY <2>1, <2>2, ReadAgain
  <2>4. HeaderAt(line_count, line_count + 1)
    BY <2>1, HeaderNext
  <2>5. PICK q, d : q = root' /\ d = current_section'
    OBVIOUS
  <2> QED BY <2>1, <2>3, <2>4, <2>5, TurnParsed
<1>6. CASE Section
  BY <1>6, SectionParsed
<1>7. CASE Assign
  BY <1>7, AssignParsed
<1>8. CASE Finish
  <2>1. /\ pc = "loop" /\ pc' = "returned" /\ answer' = [err |-> "OK", line |-> 0]
        /\ root' = root /\ line_count' = line_count /\ file' = file /\ fails' = fails
        /\ fails = {} => line_count > Len(file)
    BY <1>8 DEF Finish
  <2>2. PICK r, n, c, a : r = root /\ n = line_count /\ c = current_section /\ a = answer
    OBVIOUS
  <2>3. ReadTo(r, n - 1)
    BY <2>1, <2>2 DEF Parsed
  <2>4. PICK m : m = n - 1
    OBVIOUS
  <2>5. ReadTo(r, m)'
    BY <2>1, <2>3, <2>4, SameFile
  <2>6. fails = {} => n = Len(file) + 1
    <3>1. n \in 1 .. Len(file) + 1 /\ Len(file) \in Nat
      BY <2>2 DEF Typed, TypeOK
    <3> QED BY <2>1, <2>2, <3>1
  <2>7. answer'.err = "OK"
    BY <2>1
  <2> QED BY <2>1, <2>2, <2>4, <2>5, <2>6, <2>7 DEF Parsed
<1>9. CASE FreeMap
  BY <1>9 DEF FreeMap, Crash, Parsed
<1>10. CASE NotClosed
  <2>1. Here /\ ErrorOf(line_count) = "NOT_CLOSED"
    BY <1>10 DEF NotClosed, AtLine, ErrorOf
  <2> QED BY <1>10, <2>1, FailParsed DEF NotClosed
<1>11. CASE InvalidLine
  <2>1. Here /\ ErrorOf(line_count) = "INVALID_LINE"
    BY <1>11 DEF InvalidLine, AtLine, ErrorOf
  <2> QED BY <1>11, <2>1, FailParsed DEF InvalidLine
<1>12. CASE NoSection
  <2>1. Here /\ file[line_count].kind = "assign" /\ current_section = 0
    BY <1>12 DEF NoSection, AtLine
  <2>2. Governing(line_count) = {}
    BY <2>1, NowParsed DEF HeaderAt
  <2>3. ErrorOf(line_count) = "NO_SECTION"
    BY <2>1, <2>2 DEF ErrorOf
  <2> QED BY <1>12, <2>1, <2>3, FailParsed DEF NoSection
<1>13. CASE EmptyKey
  <2>1. Here /\ file[line_count].kind = "assign" /\ file[line_count].name = Empty
    BY <1>13 DEF EmptyKey, AtLine, Name
  <2>2. Governing(line_count) # {}
    BY <1>13, CurrentFacts DEF EmptyKey
  <2>3. ErrorOf(line_count) = "EMPTY_KEY"
    BY <2>1, <2>2 DEF ErrorOf
  <2> QED BY <1>13, <2>1, <2>3, FailParsed DEF EmptyKey
<1>14. CASE NoSectionMap
  <2>1. Here /\ fails # {}
    BY <1>14, CurrentFacts DEF NoSectionMap, AtLine
  <2> QED BY <1>14, <2>1, FailParsed DEF NoSectionMap
<1>15. CASE AssignOutOfMemory
  <2>1. Here /\ fails # {}
    BY <1>15 DEF AssignOutOfMemory, AtLine, PutMayFail
  <2> QED BY <1>15, <2>1, FailParsed DEF AssignOutOfMemory
<1>16. CASE TextOutOfMemory \/ SectionRehash \/ AssignRehash
  BY <1>2, <1>16 DEF TextOutOfMemory, SectionRehash, AssignRehash
<1> QED
  BY <1>1, <1>3, <1>4, <1>5, <1>6, <1>7, <1>8, <1>9, <1>10, <1>11, <1>12, <1>13,
     <1>14, <1>15, <1>16 DEF Next

(* What ReadTo says, in terms of the meaning of a file *)
LEMMA EntriesRead ==
  ASSUME NEW n \in Nat, NEW s \in SectionsUpTo(n), NEW f, Entered(f, AssignsTo(n, s)),
         \A k \in DOMAIN f : f[k].at \in Nat
  PROVE  /\ DOMAIN Meaning(n)[s] = DOMAIN f
         /\ \A k \in DOMAIN f :
              \/ f[k].value = Meaning(n)[s][k]
              \/ "value" \in fails /\ f[k].value = Null
<1> PICK A : A = AssignsTo(n, s)
  OBVIOUS
<1> PICK m : m = Meaning(n)[s]
  OBVIOUS
<1>1. m = [k \in {file[i].name : i \in A} |-> file[LastAssign(n, s, k)].value]
  BY DEF Meaning
<1>2. DOMAIN m = DOMAIN f
  <2>1. {file[i].name : i \in A} \subseteq DOMAIN f
    BY DEF Entered
  <2>2. ASSUME NEW k \in DOMAIN f PROVE k \in {file[i].name : i \in A}
    <3>1. f[k].at \in A /\ file[f[k].at].name = k
      BY DEF Entered
    <3> QED BY <3>1
  <2> QED BY <1>1, <2>1, <2>2
<1>3. ASSUME NEW k \in DOMAIN f PROVE m[k] = file[f[k].at].value
  <2>1. f[k].at \in A /\ file[f[k].at].name = k
    BY DEF Entered
  <2>2. \A j \in A : file[j].name = k => j <= f[k].at
    BY DEF Entered
  <2>3. LastAssign(n, s, k) = f[k].at
    BY <2>1, <2>2, LastFacts
  <2> QED BY <1>1, <1>2, <2>3
<1> QED BY <1>2, <1>3 DEF Entered

LEMMA NothingAssigned ==
  ASSUME NEW n, NEW s \in SectionsUpTo(n), AssignsTo(n, s) = {}
  PROVE  DOMAIN Meaning(n)[s] = {}
BY DEF Meaning

LEMMA RefusedFirst ==
  ASSUME file \in Seq(Lines), NEW i, NEW err, err # "OK", RefusedAt(i, err)
  PROVE  FirstBad = {i}
<1>1. DOMAIN file = 1 .. Len(file) /\ Len(file) \in Nat
  OBVIOUS
<1>2. i \in FirstBad
  BY DEF FirstBad, RefusedAt
<1>3. ASSUME NEW j \in FirstBad, j # i PROVE FALSE
  <2>1. i \in 1 .. Len(file) /\ j \in 1 .. Len(file)
    BY <1>1 DEF FirstBad, RefusedAt
  <2>2. i \in 1 .. j - 1 \/ j \in 1 .. i - 1
    BY ONLY <1>1, <1>3, <2>1
  <2> QED BY <2>2 DEF FirstBad, RefusedAt
<1> QED BY <1>2, <1>3

LEMMA ParsedHonest == Typed /\ Parsed => HonestAnswer
<1> SUFFICES ASSUME Typed, Parsed, pc = "returned" PROVE HonestAnswer
  BY DEF HonestAnswer
<1>1. CASE answer.err = "OK"
  <2>1. PICK n : n = line_count - 1 /\ n \in Nat
    BY DEF Typed, TypeOK
  <2>2. ReadTo(root, n)
    BY <1>1, <2>1 DEF Parsed
  <2>3. ASSUME NEW s \in SectionsUpTo(n)
        PROVE  IF HasMap(s)
               THEN /\ DOMAIN root[s].entries = DOMAIN Meaning(n)[s]
                    /\ \A k \in DOMAIN Meaning(n)[s] :
                         View(root)[s][k] \in {Null, Meaning(n)[s][k]}
               ELSE DOMAIN Meaning(n)[s] = {}
    <3>1. Right(root, s, AssignsTo(n, s)) /\ (HasMap(s) <=> Mapped(root, s))
      BY <2>2 DEF ReadTo, HasMap, Mapped
    <3>2. CASE HasMap(s)
      <4>1. s \in DOMAIN root /\ root # Null /\ IsRoot(root)
        BY <3>2 DEF HasMap, Typed
      <4>2. PICK f : f = root[s].entries
        OBVIOUS
      <4>3. f \in Entries
        BY <4>1, <4>2, RootFacts
      <4>4. \A k \in DOMAIN f : f[k].at \in Nat
        BY <4>3, EntriesFacts
      <4>5. Entered(f, AssignsTo(n, s))
        BY <3>1, <3>2, <4>2 DEF Right
      <4>6. /\ DOMAIN Meaning(n)[s] = DOMAIN f
            /\ \A k \in DOMAIN f : f[k].value = Meaning(n)[s][k] \/ f[k].value = Null
        BY <2>1, <4>4, <4>5, EntriesRead
      <4>7. \A k \in DOMAIN f : View(root)[s][k] = f[k].value
        BY <4>1, <4>2 DEF View
      <4> QED BY <3>2, <4>2, <4>6, <4>7
    <3>3. CASE ~HasMap(s)
      BY <3>1, <3>3, NothingAssigned DEF Right
    <3> QED BY <3>2, <3>3
  <2>4. /\ \A i \in 1 .. n : ErrorOf(i) = "OK"
        /\ root # Null => DOMAIN root \subseteq SectionsUpTo(n)
    BY <2>2 DEF ReadTo
  <2> QED BY <1>1, <2>1, <2>3, <2>4 DEF HonestAnswer
<1>2. CASE answer.err # "OK"
  <2>1. /\ root = Null
        /\ answer.err \notin {"FILE", "INTERNAL"} => RefusedAt(answer.line, answer.err)
    BY <1>2 DEF Parsed
  <2>2. answer.err \notin {"FILE", "INTERNAL"} =>
          FirstBad = {answer.line} /\ answer.err = ErrorOf(answer.line)
    BY <1>2, <2>1, RefusedFirst DEF Typed, RefusedAt
  <2> QED BY <1>2, <2>1, <2>2 DEF HonestAnswer
<1> QED BY <1>1, <1>2

LEMMA ParsedExact == Typed /\ Parsed => ParsedExactly
<1> SUFFICES ASSUME Typed, Parsed, pc = "returned", fails = {} PROVE ParsedExactly
  BY DEF ParsedExactly
<1>1. CASE answer.err = "OK"
  <2>1. PICK n : n = Len(file) /\ n \in Nat /\ DOMAIN file = 1 .. n
    BY DEF Typed
  <2>2. ReadTo(root, n)
    <3>1. line_count = n + 1 /\ ReadTo(root, line_count - 1)
      BY <1>1, <2>1 DEF Parsed
    <3>2. line_count - 1 = n
      BY <2>1, <3>1
    <3> QED BY <3>1, <3>2
  <2>3. FirstBad = {}
    BY <2>1, <2>2 DEF ReadTo, FirstBad
  <2>4. root # Null /\ IsRoot(root) /\ \A s \in SectionsUpTo(n) : Mapped(root, s)
    BY <2>2 DEF ReadTo, Right, Typed
  <2>5. DOMAIN root = SectionsUpTo(n)
    BY <2>2, <2>4 DEF ReadTo, Mapped
  <2>6. ASSUME NEW s \in SectionsUpTo(n)
        PROVE  [k \in DOMAIN root[s].entries |-> root[s].entries[k].value] = Meaning(n)[s]
    <3>1. PICK f : f = root[s].entries
      OBVIOUS
    <3>2. f \in Entries
      BY <2>4, <2>5, <3>1, RootFacts
    <3>3. \A k \in DOMAIN f : f[k].at \in Nat
      BY <3>2, EntriesFacts
    <3>4. Entered(f, AssignsTo(n, s))
      BY <2>2, <2>4, <3>1 DEF ReadTo, Right
    <3>5. /\ DOMAIN Meaning(n)[s] = DOMAIN f
          /\ \A k \in DOMAIN f : f[k].value = Meaning(n)[s][k]
      BY <2>1, <3>3, <3>4, EntriesRead
    <3>6. Meaning(n)[s] = [k \in {file[i].name : i \in AssignsTo(n, s)} |->
                             file[LastAssign(n, s, k)].value]
      BY DEF Meaning
    <3>7. PICK m : m = Meaning(n)[s]
      OBVIOUS
    <3>8. m = [k \in DOMAIN m |-> m[k]]
      BY <3>6, <3>7
    <3> QED BY <3>1, <3>5, <3>7, <3>8
  <2>7. View(root) = Meaning(n)
    BY <2>5, <2>6 DEF View, Meaning
  <2> QED BY <1>1, <2>1, <2>3, <2>7 DEF ParsedExactly
<1>2. CASE answer.err # "OK"
  <2>1. /\ root = Null /\ answer = [err |-> answer.err, line |-> answer.line]
        /\ RefusedAt(answer.line, answer.err)
    BY <1>2 DEF Parsed
  <2>2. FirstBad = {answer.line} /\ answer.err = ErrorOf(answer.line)
    BY <1>2, <2>1, RefusedFirst DEF Typed, RefusedAt
  <2> QED BY <2>1, <2>2 DEF ParsedExactly
<1> QED BY <1>1, <1>2

(* Whatever fails, the answer and the map are right about the lines that   *)
(* were read.                                                              *)
THEOREM AnswersHonestly == Spec => []HonestAnswer
BY InitTyped, StepTyped, InitParsed, StepParsed, ParsedHonest,
   PTL DEF Spec

(* Where nothing fails, every file is answered with its meaning or with    *)
(* its first error.                                                        *)
THEOREM ParsesExactly == Spec => []ParsedExactly
BY InitTyped, StepTyped, InitParsed, StepParsed, ParsedExact,
   PTL DEF Spec

=============================================================================
