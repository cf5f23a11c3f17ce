# A verification development for libnica

libnica is a small C library: a chained hash map, a singly linked list, a
growing array of pointers, a string with a length, an INI reader built on the
hash map, and a few file helpers. This directory holds TLA+ specifications of
the parts that keep state, configurations that model-check them with TLC on
small instances, and theorems about them that TLAPS checks for every value of
the constants. Paths are relative to the root of the repository; `hashmap.c`
stands for `src/src/hashmap.c`, `hashmap.h` for
`src/src/include/nica/hashmap.h`, and so on.

The library has no threads and keeps nothing between runs. What is hard in it
is of other kinds: data structures that a long series of legal calls takes
into a state nobody thought of; allocations and system calls that fail
halfway; who owns a pointer, and when it is freed; an iterator over a map that
changes, and a file tree that another process changes; and limits (the 70%
load of the hash map, the 16-bit length of the array, the boundary of a strip,
the last buffer of a copy).

## Inventory

| Component | State | Operations | Modelled by |
|---|---|---|---|
| hash map (`hashmap.c`, `hashmap.h`) | an array of buckets, each a chain of rows; `n_buckets`, `next_size`, `size`; the functions that hash, compare and free | new, put, get, contains, remove, steal, size, free; put may resize | `Hashmap` |
| hash map iterator (same files) | map, bucket number, pointer to the next row | init, next | `HashmapIter` |
| linked list (`list.c`, `list.h`) | nodes with `data` and `next`; in the first node the size and the last node; the client's head pointer | append, prepend, remove, free, free_all, `NC_LIST_FOREACH` | `List` |
| dynamic array (`array.c`, `array.h`) with `greedy_realloc` (`util.c`) | a block of pointers, a 16-bit `len` | new, add, get, qsort, free | `Array` |
| INI reader (`inifile.c`, `inifile.h`) | per call: line number, name of the current section, a map of maps | parse_full, parse, error | `IniFile`; `IniText`, with `IniLine` |
| nc_string (`nc-string.c`, `nc-string.h`) | a buffer and the length it was last given | dup, printf, cat, equal, prefix, suffix, strip, free | `NcString` |
| file helpers (`files.c`, `files.h`) | none; they act on the file tree | exists, parent, mkdir_p, rm_rf, copy_file, build_case_correct_path | `Files` over `FileTree` |
| descriptor dump (`util.c`) | none | prints `/proc/self/fd` | not modelled: output only |
| macros, umbrella header, build, tests | none | | not modelled |

How they interact. The INI reader owns a root hash map whose values are hash
maps; it calls new, get, put and free of the hash map, which call back
`nc_hashmap_free` and `free` for values and `free` for keys. The array grows
by `greedy_realloc`. The iterator holds a pointer to a row of the map's table,
which a put may free in a resize. Clients give the hash map functions that
free keys and values, and the list and the array a function that frees what
they hold; from the moment a put succeeds the map owns the pointers.
Everything else is independent.

What each component has to get right, and what makes it hard:

* **Hash map.** A key that was put and not removed is found, under the value
  put last, and no other; `size` counts the entries; a resize changes nothing;
  a put that fails changes nothing; each pointer the map took over is freed
  once; each call returns. Hard: rows are never unlinked, so a chain mixes
  entries and tombstones, and a put over a chain with tombstones relinks it.
* **List.** The list is the sequence its calls describe, also with the same
  datum stored twice; no node is used after it was freed and no datum is freed
  twice. Hard: size and last node are kept in whichever node is the first.
* **Array.** It is a sequence of at most 65535 pointers; no call reads a cell
  that was not written; a growth that fails leaves it usable.
* **INI reader.** The map holds what the file says, sections of one name merged
  and the last assignment to a key winning; or the first line in error is
  reported. Whatever fails, nothing leaks and nothing is freed twice.
* **Iterator.** An iteration shows each entry once, and nothing that was
  removed; a put or a removal in the middle does no harm to the others. Hard:
  a put may move the rows or link a chain into itself.
* **nc_string.** The buffer is the text, ended by NUL, and has room for the
  length it records. Hard: a strip shortens the text and not the length.
* **File helpers.** They make, remove and copy what they were asked to and
  nothing else, whatever another process does meanwhile, and they return.
  Hard: links, the names read before the calls that use them, buffers that are
  read short.

`PROJECT.json` lists the hazards one by one, at their lines, each with the
properties that would catch it.

## Modules

`MapSpec`, `ListSpec`, `ArraySpec` and `TextSpec` say what a client may rely
on, without rows, nodes, blocks or buffers: a partial function, a sequence, a
bounded sequence, a text. `Hashmap`, `List`, `Array` and `NcString` follow the
code, and their `Implements...` property is that, under a refinement mapping,
each of their steps is a step of the abstract module or changes nothing there.
`MC...` modules give constants their values for TLC. `...Proofs` modules hold
the theorems. Every action is named for the function it models; an operator
that follows a comment starting with *Fault* is a variant with a plausible
bug, never used by a specification: each property is checked to fail when its
variant takes the place of the definition it varies.

### Hashmap (`hashmap.c`)

`table[b]` is the chain of bucket `b`: its rows in `next` order and `back`, the
position the last row's `next` leads to (0 for NULL). That is all the shapes
the code can make: `nc_hashmap_insert_bucket` writes `next` of the last row
only, and points it to a new row or to a tombstone it passed, which closes a
cycle. A call is one step, but for a put that resizes: `StartResize`, then
one step for each old row (`RehashSkip`, `RehashRow`, `RehashOutOfMemory`,
`RehashAgain`), `FinishResize` and `PutResized`. A walk that can never end
leaves `pc` at "spin". `owned` records which pointers the map has taken over
and not given up: every free in the code is an update of it, and a pointer the
table still holds that is not in it is a dangling one. `(int)(n * 0.7)` is
written `(7 * n) \div 10`, which agrees with it for all sizes reached.
The put is given pointers the client owns (`MayPut`): a put of the very
pointer that is stored is excluded, as `hashmap.h` warns.

The refinement takes the map to be there (`alive`) until `nc_hashmap_free` has
released it in good order. On a chain that goes back into itself that function
uses and frees rows it has freed; `status` is "corrupt" then, which counts as
no free. `ImplementsMap` does not allow that step, and holds for a client whose
chains all end; `ImplementsMapButFree` leaves it out, and is about the
others.

### HashmapIter (`hashmap.c`)

It extends `Hashmap` with one iterator: `nc_hashmap_iter_init`,
`nc_hashmap_iter_next`, and between them every action of `Hashmap`, the steps
of a resize one by one. `iter` is the bucket and the row the iterator points
to; the row stays where it is until its table is freed, after which it is
`Freed`, and a `next` that follows it makes `status` "corrupt". `seen` is
history: which keys were there all the time, which were shown, and which again.

### List (`list.c`)

Nodes live in a heap and have an address, so that using one after it was freed
can be seen. `head` is the client's pointer; the first node has the size and
the address of the last one. Append and prepend are one step; the loops of
`nc_list_remove` (`StartRemove`, `Advance`, `Unlink` or `NotFound`) and of the
frees (`StartFree`, `FreeNode`, `FreeDone`) are one step per node. `order` is a
history variable: the nodes the list should consist of. The data in `Once`
are stored once at a time and freed by the list; the others may be stored
several times, and then only the client frees them, as a list that is asked to
free one of two equal pointers leaves the other dangling. `NC_LIST_FOREACH` is a
loop of the client that only reads, and is left out.

### Array (`array.c`, `util.c`)

`data` is the block as a sequence of cells, `<<>>` for NULL; cells nobody
wrote hold `Wild`. `Slots` is `greedy_realloc`'s `MAX(64, 2 * need)` in cells.
`lost` records that an add has lost the block: the growth failed, NULL was
stored over the pointer and `len` kept. `ImplementsArray` lets go from that
step to the next `nc_array_free`, which makes the array sound again.

### IniText, IniLine, IniFile (`inifile.c`)

`IniText` is the reading of one line, from its characters to what the loop
takes it for: stripping, chewing, splitting at the first `=`. `IniLine` gives
it any text to read and says, without the steps of the code, what the text
means: what is between its first and its last character that is not blank, and
the text around the first `=`. `IniFile` is the loop: one step per line, one
action per path through its body, then the cleanup at its end, and the caller
that frees the map. Its lines are the records that `IniText!Read` yields; in
`MCIniFile` they are read from texts. Which calls may fail is chosen with the
file and stays the same (`fails`). Blocks are named by their use and the line
they were allocated for, and `live` records which are allocated: the property
that nothing is left is about it. The maps are seen from outside (`Hashmap`
models them): a put adds or replaces an entry and frees what it replaces, or
fails and changes nothing (`put_root`, `put_section`), or fails in the middle
of a resize, which frees keys the map still holds (`rehash`). `ResizeAt` is
the 42 entries at which a put resizes; a put that fails there may fail again,
which allows a few more failures than the code has.

### NcString, TextSpec (`nc-string.c`, `nc-string.h`)

A string is the sequence of the bytes in its buffer, NULs included, and the
length it was given. `dup` and `dup_printf` are one action, as what a format
produces is a text like any other. `Refuses` is the comparison by which `cat`
takes a result that is shorter than the recorded length for an error of
`asprintf`, and loses the buffer. `TextSpec` is the text alone, as `nc-string.h`
promises it: `cat` appends, and fails only without memory; `strip` answers the
text without blanks at either end, those at its end being gone for good. The
code keeps less in two calls, which `ImplementsText` names and leaves out, but
for saying that no text changes: a strip of a text with one character that is
not blank and blanks behind it (`KeepsTail`), and an append refused to a
string that a strip has shortened (`RefusesCut`). A corrected library would
satisfy it just as well. The comparisons, prefix and suffix are operators;
`AnswersRight` says nothing of the suffix of a shortened string.

### FileTree, Files (`files.c`)

`FileTree` is the file system: places, entries, links, and which system calls
succeed. `Files` is the functions, one system call per step, for
`nc_build_case_correct_path` one turn of its loop, with a step of another
process (`Other`) between any two. That step takes the tree to any other of
`Remade`: it makes, removes and renames files, directories and links, any
number of them at once. `astray` remembers that it put a link where none was.
nftw is called without `FTW_CHDIR` and goes by whole paths, so a directory on
one of them that was a directory for `lstat` may be a link for the `opendir`,
`unlink` or `rmdir` that follows, and what is removed then is elsewhere.
`RmExact` holds up to there: what it says of where entries are removed it says
as long as `astray` is false, and without that condition TLC finds it violated
in a few steps (`a` becomes a link to `A` between its `lstat` and its
`opendir`, and a file in `A` is removed). The functions keep nothing, so a
behaviour is one call in any tree of `Trees`. nftw is modelled as the walk
that `FTW_DEPTH | FTW_PHYS` asks for, each directory's names being read when
it is opened. Any system call may fail without a reason in the tree (`fault`);
a write may write less. A write of 0 bytes, a read that is short in the middle
of a file and a failing strdup are left out; no name begins with a dot.

## Runs

Each run with its constants is a `.cfg`; the bounds are there.
`CHECK_DEADLOCK FALSE` appears where a model stops on purpose: undefined
behaviour (memory used after it was freed, a NULL dereferenced) ends a
behaviour, and so does the return of a single call.

| Run | What it asks | Result |
|---|---|---|
| `hashmap_drain` | a client that stops putting once it has removed; keys and values freed by the map; failures outside the rehash | all hold, the refinement of `MapSpec` and termination of each call included |
| `hashmap_reuse` | puts and removals mixed, keys that collide, everything failing | every answer and effect is the abstract map's, for the calls that return, but for the free of a map with a cyclic chain |
| `hashmap_iter` | an iteration with puts and removals between its calls | without a resize and without a cyclic chain, what was there all along is shown once; the row the iterator points to is one of its bucket unless a resize freed it, and a client that only replaces and removes below the limit causes none |
| `hashmap_cycle` | a lookup of an absent key answers | violated |
| `hashmap_rehash_oom` | a failed resize keeps the old data | violated |
| `list_calls` | the list is the sequence of its data, stored once or several times; nothing is used or freed twice; each call returns | holds |
| `array_calls` | with every allocation failing at will, the array is the bounded sequence and no call runs outside the block, unless a growth has lost it | holds |
| `initext_lines` | every text up to six characters is taken for the right kind of line, under the right name; a value is read whole unless two blanks lead it and one is inside it | holds |
| `ini_file` | where nothing fails, the map is the one the file stands for or the first error is reported; nothing leaks and nothing is freed twice when what the code checks fails; the answer fits what was read, whatever fails | holds |
| `nc_string` | two strings written, appended to each other and to themselves, stripped and compared, memory failing | the buffer fits, comparisons are right, the suffix where no strip has shortened the string, each call acts on the text as `TextSpec` says, but for the two calls left out |
| `files` | each call in each tree, another process changing the tree, and failing system calls in between | what is made, removed, copied and built is what is stated, with the conditions above and below; every call returns |
| `copy_whole` | a copy to another file, answered with true, holds what its source holds | violated |

The violated properties are sentences of the headers and comments; each has
an entry under "findings" with the line of the code and the line of the
sentence. In short: reusing a tombstone can close a chain into a cycle, after
which a lookup of an absent key never ends; a resize that runs out of memory
frees keys and values that the map still holds; and a copied file is padded
to full buffers.

Other differences were met on the way. They have no run of their own; the
hazards in `PROJECT.json` describe each at its line. These the properties leave
out by a stated condition, so that the library as it is and a corrected one
both satisfy them:

* Freeing a map with a cyclic chain frees rows twice
  (`ImplementsMapButFree`).
* `nc_hashmap_contains` is false for a key stored with a NULL value (no property
  is about it: the lookup properties are about `nc_hashmap_get`).
* With the pointer comparison a tombstone answers for the key NULL, and
  removing that key from a map without it makes the size wrong (no run stores
  it, and the theorems it matters to assume it away).
* After a put that resizes, an iterator skips entries, shows some again, or
  reads a row that was freed (`ShowsKept`, `ReplacingKeepsRows`).
* An array whose growth fails keeps its length without its block, so that the
  next get dereferences NULL (`lost`).
* The INI reader does not check the put of a section into the root map, whose
  failure loses the section (`NothingLeft`), and a value led by two blanks and
  with a blank inside is cut short (`ValueRead`).
* `nc_string_strip` keeps the trailing blanks of a text with one character
  that is not blank (`ImplementsText`); after a strip that shortened the text,
  a suffix is looked for among the blanks (`AnswersRight`), and `nc_string_cat`
  refuses and leaks a text that comes out shorter than it once was
  (`ImplementsText`).
* `nc_rm_rf` over a path that leads through what it names (`A/l/A`, where `l` is
  a link to the directory of `A`) unlinks its own way, fails and leaves the
  directory; and once another process has put a link where a directory was, it
  may remove what that leads to (`RmExact`).
* `nc_build_case_correct_path` drops a relative first component that it finds,
  and takes the first of two names that differ in case only, even if only the
  other leads on (`CaseCorrect`).

These the properties state as the code does them, where the documentation is
silent or vague or another property is the point; a change of the code there
means a change of the property:

* `nc_mkdir_p` answers true when a file is at the path (`MkdirExact`).
* A file copied onto itself is lost, and a copy is padded, which `copy_whole`
  shows against the header (`CopyContent`). A failed write is answered with
  true: that is in the model, and `CopyContent` is about writes that succeed.
* The INI reader accepts a file without a section, where `inifile.h` asks for
  one (`ParsedExactly`); takes a read error for the end of the file; and does
  not check the allocation of the root map, so that it may answer 0 with a NULL
  map (both in the model: `HonestAnswer` is about the lines that were read).

### Bounds

* *Hash map.* `InitialSize` is 3 for 61 and `IncreaseFactor` 2 for 4: the
  table resizes at its second entry and again at its fourth, so four keys go
  through two resizes with chains being merged and split. Five key pointers
  for four texts let a put replace a key by another pointer for it. Hashes are
  chosen so that keys share a bucket before and part after a resize, and the
  other way round. A cycle needs three puts and a removal in one bucket, a
  lost row two keys and a tombstone: both fit.
* *Iterator.* Four keys and one value, so that a resize falls in the middle of
  an iteration over chains that have tombstones or a cycle.
* *List.* Four nodes: every operation meets a node that is first,
  last, in the middle, the only one, and a walk meets two in a row that are
  removed. Of the three data one may be stored several times.
* *Array.* `LenMod` is 5 for 65536 and `MinSlots` 3 for the 8 cells of 64
  bytes: the block grows from the minimum to twice the need, and `len` reaches
  its limit. Two of the pointers compare equal.
* *INI.* Six characters are enough for padding on every side of a bracket, a
  key, `=` and a value; the alphabet has one character of each kind the code
  tells apart (a tab counts as a space, `;` as `#`). Five lines are enough for
  a section that comes back after another one and overwrites a key. `ResizeAt`
  is 1 so that failing resizes happen. Three environments: nothing fails, the
  calls whose failure the code handles may fail, and everything may.
* *nc_string.* All texts of up to two characters, blank or not, appended up to
  four: a strip meets blanks before, behind and on both sides, no blank, and
  nothing else, and a cat meets what any strip leaves. Two strings, since a cat
  and a comparison take two.
* *Files.* 66 trees over six places: files, directories and a link at the
  first level, files, directories and links in a directory, and a directory
  inside a directory; two names differ in case only. One of the links leads to
  the top, and one of the paths through it and back (`A/b/A`); one file may
  have two names. Contents of none, one, two and three bytes for a buffer of
  two. The other process changes the tree once, at any moment, into any of
  `RemadeAll`: an empty one, or one with a directory `A`, and at `a` nothing,
  a file, a link to `A`, or a directory with a file or a directory and a link
  in it. From the trees a call begins in that is every kind of change: entries
  gone, added, moved, of another kind, a link for a directory and a directory
  for a link.

### Fairness

Three specifications have fairness, all weak and all on the library's own
steps only: in `Hashmap` a resize, in `List` a removal or a free, and in
`Files` a function that was called goes on once begun, because they are plain
loops in one thread, and a system call on a file or directory returns. Clients
are never obliged to call anything, nor the other process to do anything.

## Theorems

TLAPS checks them for all keys, values, hash functions, sizes, texts, files
and sets of failing calls that satisfy the named assumption of the module.
Those assumptions say that constants have their types and, for the hash map,
that keys that compare equal have equal hashes and that the string comparison
is never given the key NULL; for the files, that paths are sequences of names
and that what a call begins in, and what another process makes of it, is a
tree. What a theorem needs beyond that it states itself; of what is said below
of a client that does not put after removing, or of row allocations that do
not fail, two runs show that it is false otherwise.

* **`HashmapProofs`**: `TypeCorrect`; `AlwaysPlaced` and `StructureHolds`
  (every occupied row is in its bucket, and no other row of it has its key, in
  the table in use and in the one a resize fills); `LookupAlwaysFinds` (a
  stored entry is found under its key, when NULL is not a key);
  `ChainsAlwaysEnd` (no chain is cyclic for a client that does not put after
  removing). The inductive invariant is type correctness with `Placed`; it has
  to speak of both tables, since a resize makes the second into the first. For
  the chains a second one, that there are no tombstones behind a client that
  has not removed. Then `SizeAlwaysCounts` and `LoadAlwaysBounded` (for keys
  other than NULL; the limit also needs a growth that makes the table larger);
  `AbsentAlwaysNull` (for a client that does not put after removing);
  `ResizeAlwaysKeeps` and `OwnershipAlwaysExact`, for a map that frees nothing
  by itself or a client that does not put after removing, with no failing row
  allocation as each theorem says. That each action is a call of `MapSpec` or
  leaves it alone is two theorems: `MapImplements`, exactly so, for a client
  that does not put after removing; and `MapImplementsButFree`, for a map that
  frees nothing by itself, whatever the order of puts and removals, but for
  the free of a map with a cyclic chain, which is no call of `MapSpec`. The
  argument reduces every step to what it does to the set of occupied rows: an
  insertion adds one row, or exchanges one for another with the same text, and
  a removal takes one away; the counting is by the theorems on finite sets.
  Five more invariants on top of these: the occupied rows are as many as
  `size`, in a resize those of the new table as many as the recount
  (`SizeInv`); `next_size` belongs to the number of buckets and a put that has
  resized finds room (`LoadInv`); the new table holds exactly the rows the
  resize has passed (`MovedInv`), without which its end would not give back
  the old contents; the map owns exactly what its rows hold, no pointer twice,
  and the arguments of a pending put are not among it (`OwnInv`); without a
  map there is nothing in it (`GoneInv`).
* **`HashmapIterProofs`**: `ItemAlwaysInTable`, `KeptAlwaysShown`,
  `ReplacingAlwaysKeepsRows`, for every table and every sequence of calls
  between two steps of an iteration, if places in the table differ from the
  pointers NULL and to a freed row. As long as there is no resize rows stay
  where they are, and so does the iterator's place among them (`PlaceInv`); an
  entry that stays was shown if and only if the iterator has passed its row,
  and never twice (`WalkInv`); and while no key is added the map has the room
  it had (`RoomInv`). That a step passes no occupied row needs the least number
  of a set, which the library's well-founded relations give.
* **`ListProofs`**: `TypeCorrect`; `ShapeHolds`; `FreedNeverUsed`;
  `DataFreedAtMostOnce`; `ListImplements` (every step is one of `ListSpec`).
  The invariant is the shape of the list (its nodes are distinct, they are all
  that is allocated, `next` leads from each to the following, and the first has
  the size and the last node), where a walk stands (`current` is a node of the
  list and `prev` the one before it), and that no datum of the list was freed;
  without the distinctness a removal could free a node that is reached again.
* **`ArrayProofs`**: `TypeCorrect`; `StaysInBounds`; `ArrayImplements`, both
  until a growth fails, which leaves `len` without a block. The invariant ties
  `len` to the block: all cells below it are stored pointers, unless `lost`.
* **`IniFileProofs`**: `TypeCorrect`; `ParsesExactly`; `AnswersHonestly`;
  `NothingFreedTwice`; `NothingLost`, for files of any length, any names and
  any set of calls that may fail. Three invariants. `Typed` adds to the types
  that every line number in use is smaller than the next. `Memory` says that
  the blocks allocated are those that `root` and `current_section` stand for,
  no two of which share a line: without that, freeing what an assignment
  replaces could free what another entry holds. `Parsed` says that `root` holds
  the lines read so far, each key with the number of the line that assigned it
  last (`ReadTo`), and that `current_section` is the header of the next line;
  it gives the meaning of the file when the loop ends.
* **`IniTextProofs`**: `KindAndNameAlwaysRead` and `ValueAlwaysRead`, for lines
  of any length over any characters (NUL, which ends a string, is none). The
  code counts blanks from either end and moves the text one character at a
  time; a count of blanks is turned into the place of the first or last
  character that is not one, which exists because every set of numbers has a
  least one. From there on a text is described by the two places its core lies
  between: a strip yields the core; a chew begins where it begins, and ends
  where it ends unless more than one blank leads the text and a blank is inside
  it, when it may end earlier.
* **`NcStringProofs`**: `BufferAlwaysFits`; `AnswersAlwaysRight`;
  `TextImplements`. The invariant describes a buffer by its first NUL: that is
  where the recorded length ends unless a strip has cut the text, and then
  there are at least two characters that are not blank before it and only
  blanks and NULs behind it. From it follows that a call of
  `ImplementsText` fails or leaves blanks only where it is said to be left out.
* **`FilesProofs`**: `CaseAlwaysCorrect`, for every file tree, with links
  anywhere and another process at work. The invariant is that the path built so
  far is the base followed by some of the names asked for, each in one of its
  spellings; and, undisturbed, that it is the beginning of the only path asked
  for that leads to an entry, if there is one. Without a base it is that the
  names left out are in the current directory, so that none is where nothing
  has the first name. The lemma behind it is that a
  path, with links or without, that leads to an entry leads through directories
  each of which has the next name.

  `MkdirAlwaysExact`, `RmAlwaysExact` and `CopyAlwaysPadded`, for every file
  tree and every path, wherever links in the tree lead. What another process
  does to the tree is any number of its steps, each to any tree. The base is
  that a tree stays a tree, and that as long as no link is put where none was
  a path comes to lead to no directory and no link that it did not lead to
  before (`NoNewLink`); the functions themselves put none. For `nc_mkdir_p`
  the invariant is the tree as it was with the directories of the parents that
  are done, each at the place its path leads to. For `nc_rm_rf` there are two:
  that the open directories lie on the way from the path of the call to the
  one the walk has come to, with no link among them as long as the other
  process puts none (`RmShape`), which keeps a removal below the path whatever
  else happens meanwhile; and, undisturbed, which entries are left (`RmWalk`:
  what is not below the path, the open directories, and what is below a name
  still to do), from which a directory that is left is empty when its turn
  comes. The walk goes by paths and the entries are at places, so `RmWalk`
  follows it over the places (`Shadow`, `WalkOf`), which works as long as the
  path of the call still leads where it did. One kind of path does not: where
  `l` in `A` is a link to the directory of `A`, removing `A/l/A` takes away
  the link that the rest of its own path leads through, and the call fails
  with the directory left behind. `RmExact` therefore promises that all is
  removed only if the path does not lead through what it names (`Through`);
  that nothing else is removed it promises for such paths too, and whatever
  another process does but for putting a link where none was. For
  `nc_copy_file`, with sources and buffers of any length, the invariant
  (`CopyInv`) is that a multiple of the buffer's size has come from the source
  into the target, and what the buffer holds: the block before it, in which a
  short read leaves its tail (`Filled`), or zeros. A file may have several
  names: whether the target is the source is a question of inodes (`Same`),
  not of paths.

Every property the passing runs check is stated by a theorem, except liveness
(`EveryCallReturns`, `CallReturns`: each call ends), which is out of the
prover's reach and stays with TLC.

## Plan

Done, in this order: the hash map, because everything else leans on it; the list
and the array with their abstract specifications; the INI reader; the iterator;
nc_string; the file helpers; the theorems about the reader's loop and about
nc_string; those about the contents, ownership and refinement of the hash map;
those about the iterator; those about the file helpers; those about the lines
of an INI file and the path of correct case; those about the file helpers again,
now for paths that pass links and files of several names; and a narrower
wording of the properties that had stated a defect of the code as its promise.

What the theorems about the hash map still assume of a client (NULL is no key,
nothing is put after a removal, no allocation fails in a resize) is what the
runs and the differences above show them to need. What remains worth doing is
to find out how much less would do.

## Not modelled

* `nc_dump_file_descriptor_leaks` (`util.c`): it prints and keeps no state.
* The macros, the umbrella header, the build and the tests.
* `nc_ini_error` and the printing of errors; `nc_get_file_parent`, one call of
  `realpath` on a path.
* NULL arguments where a function refuses them at its start, except for calls
  on a NULL map.
* Permissions, modes and the contents of directories beyond their names.
* Overflow of `n_buckets`, which takes fourteen resizes, and of the counters
  of list and map.
