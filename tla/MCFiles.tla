------------------------------ MODULE MCFiles ------------------------------
(* A small instance of Files for TLC. *)
EXTENDS Files, TLC

CONSTANTS a, A, b, x, y

(* Two names that differ in case only, and a third *)
LowerNames == (a :> a) @@ (A :> a) @@ (b :> b)
NamesAll   == {a, A, b}
ListsAll   == SeqOf(NamesAll, 2) \ {<<>>}

TopA     == <<A>>
BasesAll == {None, Top, <<a>>}
PathsAll == {<<a>>, <<A>>, <<a, b>>, <<a, A>>, <<A, b>>, <<a, b, b>>, <<A, b, A>>}

(* The files of a tree, by their places: one, two, three bytes and none,   *)
(* for a buffer of two.                                                    *)
InodesAll   == 1 .. 6
BytesAll    == {x, y, Zero}
ContentsAll == <<<<x>>, <<x, y>>, <<x, y, y>>, <<>>, <<>>, <<>>>>
Numbered    == (<<a>> :> 1) @@ (<<A>> :> 2) @@ (<<a, b>> :> 3) @@ (<<a, A>> :> 4)
                 @@ (<<A, b>> :> 1)

(* The tree in which each of the places of e has an entry of that kind *)
Built(e) ==
  [p \in {Top} \cup {q \in DOMAIN e : e[q] # "none"} |->
     IF p = Top THEN Dir
     ELSE CASE e[p] = "dir"  -> Dir
            [] e[p] = "file" -> File(Numbered[p])
            [] e[p] = "link" -> Link(TopA)
            [] e[p] = "up"   -> Link(Top)]

(* All trees with a file, a link to A, or a directory at a and, if that is *)
(* a directory, at two names in it; with a file or a directory at A, and,  *)
(* in a directory at A, a directory, a link to the top, or a file, which   *)
(* is that at a by another name if there is one.                           *)
TreesAll ==
  {t \in {Built((<<a>> :> ea) @@ (<<A>> :> eA) @@ (<<a, b>> :> eab)
             @@ (<<a, A>> :> eaA) @@ (<<a, b, b>> :> eabb) @@ (<<A, b>> :> eAb)) :
       ea \in {"none", "file", "link", "dir"}, eA \in {"none", "file", "dir"},
       eab \in {"none", "file", "dir"}, eaA \in {"none", "link"},
       eabb \in {"none", "dir"}, eAb \in {"none", "file", "dir", "up"}} :
   \A p \in DOMAIN t \ {Top} : Is("dir", t, Front(p))}

(* What the other process makes of a tree: an empty one, or one with a     *)
(* directory A and at a nothing, a file, a link to A, or a directory that  *)
(* has a file, a directory, or a link to A in it.                          *)
RemadeAll ==
  {t \in TreesAll :
     \/ DOMAIN t = {Top}
     \/ /\ Is("file", t, <<A, b>>)
        /\ Is("dir", t, <<a>>) => Is("link", t, <<a, A>>) /\ <<a, b>> \in DOMAIN t}

=============================================================================
