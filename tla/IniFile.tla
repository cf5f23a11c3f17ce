------------------------------ MODULE IniFile ------------------------------
(***************************************************************************)
(* nc_ini_file_parse_full of src/inifile.c: one step per line of the file. *)
(*                                                                         *)
(* Module IniText says what a line is taken for; here a file is a sequence *)
(* of such lines.  The maps are those of module Hashmap, seen from         *)
(* outside.  Every block the reader allocates is named by what it is for   *)
(* and by the line it was allocated for, so that "live" tells which are    *)
(* neither freed nor handed over.  The line buffer is left out: it is      *)
(* freed at the end of each turn of the loop or right behind it.           *)
(***************************************************************************)
EXTENDS Integers, Sequences, FiniteSets

CONSTANTS
  Lines,      \* what a line may be: [kind, name, value]
  MaxLines,   \* bound: the lines of a file
  Null,       \* the NULL pointer
  Empty,      \* the empty string
  ResizeAt,   \* the size at which a put into a map has to resize it
  FailSets    \* for each environment, the calls that may fail in it

(* fopen; a getline that is not at the end of the file; nc_hashmap_new for *)
(* the root and for a section; strdup of a value and strdup of any other   *)
(* text; a put into the root or into a section that fails and leaves the   *)
(* map as it is; a put that fails in the middle of a resize.               *)
FailSites ==
  {"fopen", "getline", "root", "section", "value", "text",
   "put_root", "put_section", "rehash"}

Kinds == {"blank", "comment", "section", "open", "noassign", "assign"}

(* The root map: section -> where it was first met, whether it has a map,  *)
(* and key -> where it was assigned last, and the value.                   *)
Names    == {l.name : l \in Lines}
Values   == {l.value : l \in Lines}
Entries  == UNION {[K -> [at : Nat, value : Values \cup {Null}]] : K \in SUBSET Names}
Sections == [at : Nat, map : BOOLEAN, entries : Entries]

ASSUME ConstantsAssumption ==
  /\ Lines \subseteq [kind : Kinds, name : Names, value : Values]
  /\ Null \notin Values /\ \A S \in SUBSET Names : Null \notin [S -> Sections]
  /\ MaxLines \in Nat /\ ResizeAt \in Nat
  /\ FailSets \subseteq SUBSET FailSites

VARIABLES
  file,             \* the lines of the file
  fails,            \* the calls that may fail
  pc,               \* "open", "loop", "returned", "freed" by the caller,
                    \* "crashed": undefined behaviour
  line_count,
  current_section,  \* the line that current_section was copied from; 0: NULL
  root,             \* root_map: section -> [at, map, entries]; see Held
  live,             \* history: the blocks allocated and not freed
  answer            \* [err, line]: what was returned, error_line_number

vars == <<file, fails, pc, line_count, current_section, root, live, answer>>

-----------------------------------------------------------------------------
(* Maps and blocks *)

With(f, x, y) == [z \in DOMAIN f \cup {x} |-> IF z = x THEN y ELSE f[z]]

(* Entries of the root: the line the key was copied from, whether the      *)
(* value is a map or NULL, and the entries of that map: the line that key  *)
(* and value were copied from, and the value.                              *)
EntryBlocks(e)   == {<<"key", e.at>>} \cup IF e.value = Null THEN {} ELSE {<<"value", e.at>>}
SectionBlocks(s) ==
  {<<"name", s.at>>} \cup (IF s.map THEN {<<"map", s.at>>} ELSE {})
    \cup UNION {EntryBlocks(s.entries[k]) : k \in DOMAIN s.entries}

(* What nc_hashmap_free(root_map) frees. *)
Held(r) ==
  IF r = Null THEN {}
  ELSE {<<"root", 0>>} \cup UNION {SectionBlocks(r[s]) : s \in DOMAIN r}

Copy(n) == IF n = 0 THEN {} ELSE {<<"current", n>>}

(* A put allocates a row for a new key, or resizes. *)
PutMayFail(site, m, k) ==
  /\ site \in fails
  /\ k \notin DOMAIN m \/ Cardinality(DOMAIN m) >= ResizeAt

PutMayCorrupt(m) == "rehash" \in fails /\ Cardinality(DOMAIN m) >= ResizeAt

(* nc_hashmap_get(root_map, name) is not NULL *)
HasMap(name) == root # Null /\ name \in DOMAIN root /\ root[name].map

-----------------------------------------------------------------------------
Init ==
  /\ file \in UNION {[1 .. n -> Lines] : n \in 0 .. MaxLines}
  /\ fails \in FailSets
  /\ pc = "open"
  /\ line_count = 1
  /\ current_section = 0
  /\ root = Null
  /\ live = {}
  /\ answer = [err |-> "none", line |-> 0]

(* fopen and the root map.  A NULL out_map is answered with the same -1 as *)
(* a file that cannot be opened.                                           *)
Open ==
  /\ pc = "open"
  /\ UNCHANGED <<file, fails, line_count, current_section>>
  /\ \/ /\ "fopen" \in fails
        /\ pc' = "returned"
        /\ answer' = [err |-> "FILE", line |-> 0]
        /\ UNCHANGED <<root, live>>
     \/ /\ pc' = "loop"
        /\ root' = [s \in {} |-> Null]
        /\ live' = {<<"root", 0>>}
        /\ UNCHANGED answer
     \/ /\ "root" \in fails
        /\ pc' = "loop"
        /\ UNCHANGED <<root, live, answer>>

AtLine(kind) ==
  /\ pc = "loop"
  /\ line_count <= Len(file)
  /\ file[line_count].kind = kind

Name == file[line_count].name

(* Undefined behaviour: the model stops. *)
Crash ==
  /\ pc' = "crashed"
  /\ UNCHANGED <<file, fails, line_count, current_section, root, live, answer>>

(* The first strdup of a line (of an indented line, in lstrip; of a        *)
(* section's name or a key) answers NULL, which is then read or hashed.    *)
TextOutOfMemory ==
  /\ pc = "loop" /\ line_count <= Len(file)
  /\ "text" \in fails
  /\ Crash

Skip ==
  /\ AtLine("blank") \/ AtLine("comment")
  /\ line_count' = line_count + 1
  /\ UNCHANGED <<file, fails, pc, current_section, root, live, answer>>

(* Fault: the line is counted before it is reported. *)
FailNextLine(err, held, mem) ==
  /\ pc' = "returned"
  /\ answer' = [err |-> err, line |-> line_count + 1]
  /\ live' = mem \ (held \cup Held(root) \cup Copy(current_section))
  /\ root' = Null
  /\ current_section' = 0
  /\ UNCHANGED <<file, fails, line_count>>

(* The label fail and the cleanup behind the loop: key and value are freed *)
(* when they are not NULL (held), mem being the blocks allocated by then.  *)
Fail(err, held, mem) ==
  LET freed == held \cup Held(root) \cup Copy(current_section) IN
  IF freed \subseteq mem
  THEN /\ pc' = "returned"
       /\ answer' = [err |-> err, line |-> line_count]
       /\ live' = mem \ freed
       /\ root' = Null
       /\ current_section' = 0
       /\ UNCHANGED <<file, fails, line_count>>
  ELSE Crash

NotClosed   == AtLine("open") /\ Fail("NOT_CLOSED", {}, live)
InvalidLine == AtLine("noassign") /\ Fail("INVALID_LINE", {}, live)

(* Fault: the copy of the last name is not freed. *)
SectionAgainKeeps ==
  /\ AtLine("section")
  /\ HasMap(Name)
  /\ live' = live \cup {<<"current", line_count>>}
  /\ current_section' = line_count
  /\ line_count' = line_count + 1
  /\ UNCHANGED <<file, fails, pc, root, answer>>

(* A section header: the copy of the last name is freed.  The section may  *)
(* have a map ...                                                          *)
SectionAgain ==
  /\ AtLine("section")
  /\ HasMap(Name)
  /\ live' = (live \ Copy(current_section)) \cup {<<"current", line_count>>}
  /\ current_section' = line_count
  /\ line_count' = line_count + 1
  /\ UNCHANGED <<file, fails, pc, root, answer>>

(* ... or gets one, whose allocation is not checked; it is put into the    *)
(* root together with a second copy of the name, and whether the put       *)
(* succeeds is not checked either.  A NULL value it displaces leaves only  *)
(* its key to be freed.                                                    *)
Section ==
  /\ AtLine("section")
  /\ ~HasMap(Name)
  /\ \E made \in {TRUE} \cup {"section" \notin fails} :
       LET new  == [at |-> line_count, map |-> made, entries |-> [k \in {} |-> Null]]
           copy == (live \ Copy(current_section)) \cup {<<"current", line_count>>}
       IN
       \/ /\ root # Null
          /\ root' = With(root, Name, new)
          /\ live' = (IF Name \in DOMAIN root THEN copy \ SectionBlocks(root[Name]) ELSE copy)
                        \cup SectionBlocks(new)
       \/ /\ root # Null => PutMayFail("put_root", root, Name)
          /\ live' = copy \cup SectionBlocks(new)
          /\ UNCHANGED root
  /\ current_section' = line_count
  /\ line_count' = line_count + 1
  /\ UNCHANGED <<file, fails, pc, answer>>

(* A put into the root that fails in the middle of a resize has freed keys *)
(* the root still holds; it goes unnoticed and the next use reads them.    *)
SectionRehash ==
  /\ AtLine("section")
  /\ ~HasMap(Name)
  /\ root # Null /\ PutMayCorrupt(root)
  /\ Crash

NoSection ==
  /\ AtLine("assign")
  /\ current_section = 0
  /\ Fail("NO_SECTION", {}, live)

(* The blocks of the key and value of this line, and of those of earlier   *)
(* lines.  strdup of the value is not checked: a NULL is stored.           *)
Pair(v) == EntryBlocks([at |-> line_count, value |-> v])
Copies  == {file[line_count].value} \cup IF "value" \in fails THEN {Null} ELSE {}

(* Fault: key and value are not set to NULL once they are freed. *)
EmptyKeyTwice ==
  /\ AtLine("assign")
  /\ current_section # 0 /\ Name = Empty
  /\ Fail("EMPTY_KEY", Pair(file[line_count].value), live)

(* Key and value are freed on the spot. *)
EmptyKey ==
  /\ AtLine("assign")
  /\ current_section # 0 /\ Name = Empty
  /\ Fail("EMPTY_KEY", {}, live)

CurrentName == file[current_section].name

(* The current section has no map. *)
NoSectionMap ==
  /\ AtLine("assign")
  /\ current_section # 0 /\ Name # Empty
  /\ ~HasMap(CurrentName)
  /\ \E v \in Copies : Fail("INTERNAL", Pair(v), live \cup Pair(v))

(* Fault: a key that is set already stays as it is. *)
AssignOnce ==
  /\ AtLine("assign")
  /\ current_section # 0 /\ Name # Empty
  /\ HasMap(CurrentName)
  /\ LET old == root[CurrentName].entries
         e   == [at |-> line_count, value |-> file[line_count].value]
     IN  /\ root' = IF Name \in DOMAIN old THEN root
                    ELSE [root EXCEPT ![CurrentName].entries = With(old, Name, e)]
         /\ live' = IF Name \in DOMAIN old THEN live ELSE live \cup Pair(e.value)
  /\ line_count' = line_count + 1
  /\ UNCHANGED <<file, fails, pc, current_section, answer>>

(* key = value: the map of the section takes over both, and frees those    *)
(* they replace.                                                           *)
Assign ==
  /\ AtLine("assign")
  /\ current_section # 0 /\ Name # Empty
  /\ HasMap(CurrentName)
  /\ \E v \in Copies :
       LET old == root[CurrentName].entries
           e   == [at |-> line_count, value |-> v]
       IN  /\ root' = [root EXCEPT ![CurrentName].entries = With(old, Name, e)]
           /\ live' = (IF Name \in DOMAIN old THEN live \ EntryBlocks(old[Name]) ELSE live)
                         \cup Pair(v)
  /\ line_count' = line_count + 1
  /\ UNCHANGED <<file, fails, pc, current_section, answer>>

(* Fault: whether the put into the section succeeds is not checked. *)
AssignUnchecked ==
  /\ AtLine("assign")
  /\ current_section # 0 /\ Name # Empty
  /\ HasMap(CurrentName)
  /\ PutMayFail("put_section", root[CurrentName].entries, Name)
  /\ line_count' = line_count + 1
  /\ UNCHANGED <<file, fails, pc, current_section, root, live, answer>>

(* The put fails. *)
AssignOutOfMemory ==
  /\ AtLine("assign")
  /\ current_section # 0 /\ Name # Empty
  /\ HasMap(CurrentName)
  /\ PutMayFail("put_section", root[CurrentName].entries, Name)
  /\ \E v \in Copies : Fail("INTERNAL", Pair(v), live \cup Pair(v))

(* It fails in the middle of a resize, after freeing some of the keys and  *)
(* values that nc_hashmap_free(root_map) is about to free again.           *)
AssignRehash ==
  /\ AtLine("assign")
  /\ current_section # 0 /\ Name # Empty
  /\ HasMap(CurrentName)
  /\ PutMayCorrupt(root[CurrentName].entries)
  /\ Crash

(* getline answers -1 at the end of the file, and when it fails. *)
Finish ==
  /\ pc = "loop"
  /\ line_count > Len(file) \/ "getline" \in fails
  /\ pc' = "returned"
  /\ answer' = [err |-> "OK", line |-> 0]
  /\ live' = live \ Copy(current_section)
  /\ current_section' = 0
  /\ UNCHANGED <<file, fails, line_count, root>>

(* The caller is done with the map. *)
FreeMap ==
  /\ pc = "returned" /\ answer.err = "OK"
  /\ IF Held(root) \subseteq live
     THEN /\ pc' = "freed"
          /\ live' = live \ Held(root)
          /\ root' = Null
          /\ UNCHANGED <<file, fails, line_count, current_section, answer>>
     ELSE Crash

Next ==
  \/ Open \/ TextOutOfMemory \/ Skip \/ NotClosed \/ InvalidLine
  \/ SectionAgain \/ Section \/ SectionRehash
  \/ NoSection \/ EmptyKey \/ NoSectionMap
  \/ Assign \/ AssignOutOfMemory \/ AssignRehash
  \/ Finish \/ FreeMap

Spec == Init /\ [][Next]_vars

-----------------------------------------------------------------------------
(* What a file means *)

(* The header that line i stands under. *)
Governing(i) ==
  {j \in 1 .. i - 1 :
     /\ file[j].kind = "section"
     /\ \A m \in j + 1 .. i - 1 : file[m].kind # "section"}

(* The error of line i. *)
ErrorOf(i) ==
  CASE file[i].kind = "open"     -> "NOT_CLOSED"
    [] file[i].kind = "noassign" -> "INVALID_LINE"
    [] file[i].kind = "assign" /\ Governing(i) = {} -> "NO_SECTION"
    [] file[i].kind = "assign" /\ Governing(i) # {} /\ file[i].name = Empty -> "EMPTY_KEY"
    [] OTHER -> "OK"

FirstBad == {i \in DOMAIN file : /\ ErrorOf(i) # "OK"
                                 /\ \A j \in 1 .. i - 1 : ErrorOf(j) = "OK"}

(* The sections among the first n lines, and the last line among them that *)
(* assigns to a key of a section.                                          *)
SectionsUpTo(n) == {file[i].name : i \in {j \in 1 .. n : file[j].kind = "section"}}
AssignsTo(n, s) ==
  {i \in 1 .. n : file[i].kind = "assign" /\ \E j \in Governing(i) : file[j].name = s}
LastAssign(n, s, k) ==
  CHOOSE i \in AssignsTo(n, s) :
    file[i].name = k /\ \A j \in AssignsTo(n, s) : file[j].name = k => j <= i

(* The map of maps that the first n lines stand for: sections of one name  *)
(* are merged, and the last assignment to a key counts.                    *)
Meaning(n) ==
  [s \in SectionsUpTo(n) |->
     [k \in {file[i].name : i \in AssignsTo(n, s)} |-> file[LastAssign(n, s, k)].value]]

View(r) == [s \in DOMAIN r |-> [k \in DOMAIN r[s].entries |-> r[s].entries[k].value]]

-----------------------------------------------------------------------------
(* Properties *)

TypeOK ==
  /\ pc \in {"open", "loop", "returned", "freed", "crashed"}
  /\ line_count \in 1 .. Len(file) + 1
  /\ current_section \in 0 .. line_count - 1
  /\ current_section # 0 => file[current_section].kind = "section"
  /\ root # Null =>
       \A s \in DOMAIN root :
         /\ root[s].at \in 1 .. line_count - 1 /\ root[s].map \in BOOLEAN
         /\ \A k \in DOMAIN root[s].entries :
              root[s].entries[k].at \in 1 .. line_count - 1
  /\ answer.line \in 0 .. Len(file)

(* Where nothing fails, the answer is 0 and the map holds every section    *)
(* and every key with the value assigned to it last, duplicates of a       *)
(* section merged; or it is the error of the first line in error, with its *)
(* line number, and no map (inifile.h).                                    *)
ParsedExactly ==
  pc = "returned" /\ fails = {} =>
    \/ FirstBad = {} /\ answer.err = "OK" /\ View(root) = Meaning(Len(file))
    \/ \E i \in FirstBad : answer = [err |-> ErrorOf(i), line |-> i] /\ root = Null

(* Whatever fails, the answer is no lie about the lines that were read:    *)
(* with 0, none of them is in error and the map holds every assignment of  *)
(* them, at worst with NULL for the value, and nothing else; a syntax      *)
(* error is that of the first line in error.                               *)
HonestAnswer ==
  pc = "returned" =>
    IF answer.err = "OK"
    THEN LET n == line_count - 1 IN
         /\ \A i \in 1 .. n : ErrorOf(i) = "OK"
         /\ \A s \in SectionsUpTo(n) :
              LET m == Meaning(n)[s] IN
              IF HasMap(s)
              THEN /\ DOMAIN root[s].entries = DOMAIN m
                   /\ \A k \in DOMAIN m : View(root)[s][k] \in {Null, m[k]}
              ELSE DOMAIN m = {}
         /\ root # Null => DOMAIN root \subseteq SectionsUpTo(n)
    ELSE /\ root = Null
         /\ answer.err \notin {"FILE", "INTERNAL"}
              => FirstBad = {answer.line} /\ answer.err = ErrorOf(answer.line)

(* As long as the copies of names and keys succeed and no put fails in the *)
(* middle of a resize, no block is freed twice and none is used after it   *)
(* was freed, neither by the reader nor by its caller's nc_hashmap_free.   *)
NeverCrashes == fails \cap {"text", "rehash"} = {} => pc # "crashed"

(* "The only cleanup required is to call nc_hashmap_free" (inifile.h), if  *)
(* the root map exists and takes every section: an error leaves nothing    *)
(* behind, and with the map everything is freed.                           *)
NothingLeft ==
  /\ fails \cap {"root", "put_root"} = {}
  /\ pc = "freed" \/ (pc = "returned" /\ answer.err # "OK")
  => live = {}

=============================================================================
