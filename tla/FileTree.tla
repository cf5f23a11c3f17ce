------------------------------ MODULE FileTree ------------------------------
(***************************************************************************)
(* A file system as the system calls that src/files.c makes see it.  None  *)
(* of it is code of the library.                                           *)
(*                                                                         *)
(* A tree is a function from places to entries.  A place is the sequence   *)
(* of names that leads there from the top without passing a link; a path   *)
(* may pass links.  A link leads to a place, which may not be there, and   *)
(* never to a link.  The current directory is the top one.                 *)
(***************************************************************************)
EXTENDS Integers, Sequences, SequencesExt

CONSTANTS
  Names,  \* the names of entries
  None    \* no place

Dir     == [kind |-> "dir"]
File(i) == [kind |-> "file", ino |-> i]
Link(p) == [kind |-> "link", to |-> p]

Top == <<>>

ASSUME TreeAssumption == None \notin Seq(Names)

IsEntry(e) ==
  \/ e = Dir
  \/ e.kind = "file" /\ e = File(e.ino)
  \/ e.kind = "link" /\ e = Link(e.to) /\ e.to \in Seq(Names)

Is(kind, tree, p) == p \in DOMAIN tree /\ tree[p].kind = kind

(* A tree has a top, and an entry is in a directory of the tree.           *)
IsTree(t) ==
  /\ t = [p \in DOMAIN t |-> t[p]] /\ DOMAIN t \subseteq Seq(Names)
  /\ \A p \in DOMAIN t : IsEntry(t[p])
  /\ Is("dir", t, Top)
  /\ \A p \in DOMAIN t : \A i \in 0 .. Len(p) - 1 : Is("dir", t, SubSeq(p, 1, i))

Under(tree, p)    == {q \in DOMAIN tree : IsPrefix(p, q)}
NamesIn(tree, p)  == {Last(q) : q \in {r \in Under(tree, p) : Len(r) = Len(p) + 1}}

(* Where a name in the directory p leads, links followed *)
Enter(tree, p, n) ==
  IF ~Is("dir", tree, p) THEN None
  ELSE IF Is("link", tree, Append(p, n)) THEN tree[Append(p, n)].to
  ELSE Append(p, n)

(* Where a path leads: what stat, open and opendir look at, and ...        *)
Reached(tree, path) ==
  LET at[i \in 0 .. Len(path)] ==
        IF i = 0 THEN Top ELSE Enter(tree, at[i - 1], path[i])
  IN  at[Len(path)]

(* ... what lstat, mkdir, unlink and rmdir do: a link at its end is not    *)
(* followed.                                                               *)
Place(tree, path) ==
  IF path = Top THEN Top
  ELSE LET p == Reached(tree, Front(path)) IN
       IF Is("dir", tree, p) THEN Append(p, Last(path)) ELSE None

Exists(tree, path) == Place(tree, path) \in DOMAIN tree

With(tree, p, e) == [q \in DOMAIN tree \cup {p} |-> IF q = p THEN e ELSE tree[q]]
Less(tree, ps)   == [q \in DOMAIN tree \ ps |-> tree[q]]

(* Whether the call can succeed.                                           *)
CanMake(tree, path)   == Place(tree, path) # None /\ ~Exists(tree, path)
CanUnlink(tree, path) == Exists(tree, path) /\ ~Is("dir", tree, Place(tree, path))
CanRmdir(tree, path)  ==
  LET p == Place(tree, path) IN
  p # Top /\ Is("dir", tree, p) /\ Under(tree, p) = {p}

Removed(tree, path) == Less(tree, {Place(tree, path)})

=============================================================================
