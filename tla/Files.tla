------------------------------- MODULE Files -------------------------------
(***************************************************************************)
(* nc_mkdir_p, nc_rm_rf, nc_copy_file and nc_build_case_correct_path of    *)
(* src/files.c, one system call per step (one turn of its loop for the     *)
(* last), while another process changes the tree.  The functions keep      *)
(* nothing between two calls and begin in whatever tree is there, so a     *)
(* behaviour is one call, in any tree of "Trees".                          *)
(*                                                                         *)
(* A system call may also fail for a reason that is not in the tree (no    *)
(* permission, no space, no memory); "fault" remembers that one did.       *)
(***************************************************************************)
EXTENDS FileTree

CONSTANTS
  Trees,       \* the trees a call may begin in, ...
  Remade,      \* ... and those another process may make of them
  Paths,       \* paths the client passes
  Bases,       \* absolute paths it starts nc_build_case_correct_path with, and
               \* None if it starts with a name
  NameLists,   \* the names it has nc_build_case_correct_path look for
  Lower,       \* strcasecmp: equal names, equal Lower; none begins with "."
  Inodes,
  Bytes,
  Contents,    \* what the files hold at first: a sequence of bytes each
  Zero,        \* the byte 0
  BufferSize,  \* COPY_BUFFER_SIZE
  MaxMoves     \* bound: what the other process does during a call

InodesIn(t) == {t[p].ino : p \in {q \in DOMAIN t : t[q].kind = "file"}}

ASSUME FilesAssumption ==
  /\ \A t \in Trees \cup Remade : IsTree(t) /\ InodesIn(t) \subseteq Inodes
  /\ Paths \cup NameLists \cup (Bases \ {None}) \subseteq Seq(Names)
  /\ None \notin Inodes
  /\ Contents \in [Inodes -> Seq(Bytes)] /\ Zero \in Bytes
  /\ BufferSize \in Nat \ {0} /\ MaxMoves \in Nat

VARIABLES
  tree,
  content,  \* what each inode holds
  call,     \* the call that is running: its arguments and local variables
  answer,   \* <<>> or <<what the call answered>>
  moves,    \* what the other process has done
  astray,   \* history: it put a link where none was
  before,   \* history: the tree the call began in
  fault     \* history: a system call failed for a reason not in the tree

vars == <<tree, content, call, answer, moves, astray, before, fault>>

disk  == <<tree, content>>
world == <<moves, astray, before>>

Idle == [op |-> "none"]

Begin(c) ==
  /\ call = Idle /\ answer = <<>>
  /\ call' = c
  /\ UNCHANGED <<disk, answer, world, fault>>

Return(v) == call' = Idle /\ answer' = <<v>>

(* A system call fails, and the function with it. *)
Fails(v) == fault' = TRUE /\ Return(v) /\ UNCHANGED <<disk, world>>

-----------------------------------------------------------------------------
(* nc_mkdir_p: the parents first, the topmost first of all *)

StartMkdir(path) == path # Top /\ Begin([op |-> "mkdir", path |-> path, at |-> 1])

Parent == SubSeq(call.path, 1, call.at)

(* Fault: a directory that is there already makes the call fail. *)
ToleratedNever == FALSE

(* errno == EEXIST: whatever is there *)
Tolerated == Exists(tree, Parent)

Mkdir ==
  /\ call.op = "mkdir"
  /\ \/ /\ CanMake(tree, Parent) \/ Tolerated
        /\ tree' = IF CanMake(tree, Parent) THEN With(tree, Place(tree, Parent), Dir)
                   ELSE tree
        /\ IF call.at < Len(call.path)
           THEN call' = [call EXCEPT !.at = @ + 1] /\ UNCHANGED answer
           ELSE Return(TRUE)
        /\ UNCHANGED <<content, world, fault>>
     \/ /\ ~CanMake(tree, Parent) /\ ~Tolerated
        /\ Return(FALSE)
        /\ UNCHANGED <<disk, world, fault>>
     \/ Fails(FALSE)

-----------------------------------------------------------------------------
(* nc_rm_rf: nftw with FTW_DEPTH | FTW_PHYS and the callback _rm_rf        *)

(* "open": the directories being read, outermost first, each with the      *)
(* names still to do.  "at": the path looked at, and what lstat called it. *)
StartRm(path) ==
  path # Top /\ Begin([op |-> "rm", open |-> <<>>, at |-> path, type |-> "unknown"])

(* Fault: FTW_PHYS is missing. *)
KindFollowed(path) ==
  IF Reached(tree, path) \in DOMAIN tree THEN tree[Reached(tree, path)].kind ELSE "gone"

Kind(path) == IF Exists(tree, path) THEN tree[Place(tree, path)].kind ELSE "gone"

(* lstat: nftw gives up when the root of the walk is missing.  An entry    *)
(* that is no longer there goes to the callback, as FTW_NS.                *)
RmLook ==
  /\ call.op = "rm" /\ call.type = "unknown"
  /\ IF Kind(call.at) = "gone" /\ call.open = <<>>
     THEN Return(FALSE)
     ELSE call' = [call EXCEPT !.type = Kind(call.at)] /\ UNCHANGED answer
  /\ UNCHANGED <<disk, world, fault>>

(* opendir and the names in the directory *)
RmOpen ==
  /\ call.op = "rm" /\ call.type = "dir"
  /\ LET p == Reached(tree, call.at) IN
     IF Is("dir", tree, p)
     THEN /\ call' = [call EXCEPT
               !.open = Append(@, [path |-> call.at, names |-> NamesIn(tree, p)]),
               !.type = "next"]
          /\ UNCHANGED <<answer, fault>>
     ELSE Return(FALSE) /\ UNCHANGED fault
  /\ UNCHANGED <<disk, world>>

(* opendir is not permitted: the entry goes to the callback, as FTW_DNR.   *)
RmClosed ==
  /\ call.op = "rm" /\ call.type = "dir"
  /\ call' = [call EXCEPT !.type = "done"]
  /\ fault' = TRUE
  /\ UNCHANGED <<disk, answer, world>>

(* The next name, in whatever order; after the last one the directory.     *)
RmNext ==
  /\ call.op = "rm" /\ call.type = "next"
  /\ LET d == Last(call.open) IN
     \/ \E n \in d.names :
          call' = [call EXCEPT !.open[Len(call.open)].names = @ \ {n},
                               !.at = Append(d.path, n), !.type = "unknown"]
     \/ /\ d.names = {}
        /\ call' = [call EXCEPT !.open = Front(@), !.at = d.path, !.type = "done"]
  /\ UNCHANGED <<disk, answer, world, fault>>

(* Fault: the entry is looked at again. *)
CallbackFailsOnce == call' = [call EXCEPT !.type = "unknown"] /\ UNCHANGED answer

(* A callback that does not answer 0 ends the walk. *)
CallbackFails == Return(FALSE)

(* _rm_rf: unlink for what lstat called a file or a link, otherwise rmdir; *)
(* the walk stops at the first that fails.                                 *)
RmCallback ==
  LET can == IF call.type \in {"file", "link"} THEN CanUnlink(tree, call.at)
             ELSE CanRmdir(tree, call.at)
  IN
  /\ call.op = "rm" /\ call.type \in {"file", "link", "gone", "done"}
  /\ \/ /\ can
        /\ tree' = Removed(tree, call.at)
        /\ IF call.open = <<>> THEN Return(TRUE)
           ELSE call' = [call EXCEPT !.type = "next"] /\ UNCHANGED answer
        /\ UNCHANGED <<content, world, fault>>
     \/ /\ ~can
        /\ CallbackFails
        /\ UNCHANGED <<disk, world, fault>>
     \/ Fails(FALSE)

-----------------------------------------------------------------------------
(* nc_copy_file *)

Zeros == [i \in 1 .. BufferSize |-> Zero]

StartCopy(src, dst, remove_target) ==
  /\ Top \notin {src, dst}
  /\ Begin([op |-> "copy", src |-> src, dst |-> dst, remove |-> remove_target,
            do |-> IF remove_target THEN "stat" ELSE "open", src_fd |-> None,
            dest_fd |-> None, pos |-> 0, r |-> 0, buffer |-> Zeros])

Copying(step) == call.op = "copy" /\ call.do = step

(* nc_file_exists(dst) *)
CopyStat ==
  /\ Copying("stat")
  /\ call' = [call EXCEPT !.do = IF Exists(tree, call.dst) THEN "unlink" ELSE "open"]
  /\ UNCHANGED <<disk, answer, world, fault>>

CopyUnlink ==
  /\ Copying("unlink")
  /\ \/ /\ CanUnlink(tree, call.dst)
        /\ tree' = Removed(tree, call.dst)
        /\ call' = [call EXCEPT !.do = "open"]
        /\ UNCHANGED <<content, answer, world, fault>>
     \/ /\ ~CanUnlink(tree, call.dst)
        /\ Return(FALSE) /\ UNCHANGED <<disk, world, fault>>
     \/ Fails(FALSE)

(* open(src, O_RDONLY): a directory can be opened, and not be read.        *)
CopyOpen ==
  LET p == Reached(tree, call.src) IN
  /\ Copying("open")
  /\ \/ /\ p \in DOMAIN tree
        /\ call' = [call EXCEPT !.do = "create",
             !.src_fd = IF Is("file", tree, p) THEN tree[p].ino ELSE None]
        /\ UNCHANGED <<disk, answer, world, fault>>
     \/ /\ p \notin DOMAIN tree
        /\ Return(FALSE) /\ UNCHANGED <<disk, world, fault>>
     \/ Fails(FALSE)

InUse == InodesIn(tree) \cup (IF call.op = "copy" THEN {call.src_fd, call.dest_fd} ELSE {})
NewInode == CHOOSE i \in Inodes : i \notin InUse
InodeLeft == \E i \in Inodes : i \notin InUse

(* Fault: O_TRUNC is missing. *)
TruncatedNot(i) == content

Truncated(i) == [content EXCEPT ![i] = <<>>]

(* A file can be made at p: its directory is there, and the disk not full. *)
HasRoom(p) ==
  p # None /\ p # Top /\ p \notin DOMAIN tree /\ Is("dir", tree, Front(p)) /\ InodeLeft

(* open(dst, O_WRONLY | O_TRUNC | O_APPEND | O_CREAT) *)
CopyCreate ==
  LET p == Reached(tree, call.dst)
      i == IF Is("file", tree, p) THEN tree[p].ino ELSE NewInode
  IN
  /\ Copying("create")
  /\ \/ /\ Is("file", tree, p) \/ HasRoom(p)
        /\ tree' = With(tree, p, File(i))
        /\ content' = Truncated(i)
        /\ call' = [call EXCEPT !.do = "read", !.dest_fd = i]
        /\ UNCHANGED <<answer, world, fault>>
     \/ /\ ~Is("file", tree, p) /\ ~HasRoom(p)
        /\ Return(FALSE) /\ UNCHANGED <<disk, world, fault>>
     \/ Fails(FALSE)

(* read(src_fd, &buffer, sizeof(buffer)): what the file still has, as much *)
(* as the buffer holds; the rest of the buffer stays as it was.            *)
CopyRead ==
  /\ Copying("read")
  /\ \/ /\ call.src_fd # None
        /\ LET rest == SubSeq(content[call.src_fd], call.pos + 1,
                              Len(content[call.src_fd]))
               r    == IF Len(rest) < BufferSize THEN Len(rest) ELSE BufferSize
           IN  call' = [call EXCEPT !.do = "write", !.r = r, !.pos = @ + r,
                          !.buffer = [i \in 1 .. BufferSize |->
                                        IF i <= r THEN rest[i] ELSE @[i]]]
        /\ UNCHANGED <<disk, answer, world, fault>>
     \/ /\ call.src_fd = None
        /\ Return(FALSE) /\ UNCHANGED <<disk, world, fault>>
     \/ Fails(FALSE)

(* write(...) == r *)
GoesOn(w) == w = call.r

(* write(dest_fd, buffer, sizeof(buffer)): it may write less, or answer -1 *)
(* and write nothing.  Either way the function answers true.               *)
CopyWrite ==
  /\ Copying("write")
  /\ \E w \in {-1} \cup 1 .. BufferSize :
       /\ content' = [content EXCEPT ![call.dest_fd] = @ \o SubSeq(call.buffer, 1, w)]
       /\ fault' = (fault \/ w # BufferSize)
       /\ IF GoesOn(w) THEN call' = [call EXCEPT !.do = "read"] /\ UNCHANGED answer
          ELSE Return(TRUE)
  /\ UNCHANGED <<tree, world>>

-----------------------------------------------------------------------------
(* nc_build_case_correct_path *)

(* "base": the first argument if it is an absolute path, None if it is the *)
(* first of the names, looked for in the current directory.                *)
StartCase(base, names) ==
  Begin([op |-> "case", base |-> base, names |-> names, root |-> base, at |-> 1])

(* The directory that is read for a name *)
Searched == IF call.root = None THEN Top ELSE Reached(tree, call.root)

(* Fault: the case is told apart. *)
MatchesExact(p) ==
  IF Is("dir", tree, Searched) THEN NamesIn(tree, Searched) \cap {p} ELSE {}

Matches(p) ==
  IF Is("dir", tree, Searched)
  THEN {n \in NamesIn(tree, Searched) : Lower[n] = Lower[p]} ELSE {}

(* One turn of the loop: the name as the directory spells it, the first    *)
(* that readdir shows, or as it is if there is none or the directory       *)
(* cannot be read.  With no root yet, a name that is found leaves none.    *)
CaseName ==
  LET p == call.names[call.at] IN
  /\ call.op = "case" /\ call.at <= Len(call.names)
  /\ \/ \E n \in Matches(p) :
          /\ call' = [call EXCEPT !.at = @ + 1,
               !.root = IF @ = None THEN None ELSE Append(@, n)]
          /\ UNCHANGED <<answer, fault>>
     \/ /\ fault' = (Matches(p) # {} \/ fault)
        /\ call' = [call EXCEPT !.at = @ + 1,
             !.root = IF @ = None THEN <<p>> ELSE Append(@, p)]
        /\ UNCHANGED answer
     \/ /\ call.root # None
        /\ fault' = TRUE /\ Return(None)
  /\ UNCHANGED <<disk, world>>

CaseEnd ==
  /\ call.op = "case" /\ call.at > Len(call.names)
  /\ Return(call.root)
  /\ UNCHANGED <<disk, world, fault>>

-----------------------------------------------------------------------------
NewLink(t, u) == \E p \in DOMAIN u : Is("link", u, p) /\ ~(p \in DOMAIN t /\ t[p] = u[p])

(* The other process, during a call: it makes, removes and renames files,  *)
(* directories and links, any number of them between two system calls.     *)
Other ==
  /\ call # Idle /\ moves < MaxMoves
  /\ moves' = moves + 1
  /\ tree' \in Remade
  /\ astray' = (astray \/ NewLink(tree, tree'))
  /\ UNCHANGED <<content, call, answer, before, fault>>

Init ==
  /\ tree \in Trees /\ before = tree
  /\ content = Contents
  /\ call = Idle /\ answer = <<>>
  /\ moves = 0 /\ astray = FALSE /\ fault = FALSE

Start ==
  \/ \E path \in Paths :
       \/ StartMkdir(path) \/ StartRm(path)
       \/ \E dst \in Paths, remove_target \in BOOLEAN : StartCopy(path, dst, remove_target)
  \/ \E base \in Bases, names \in NameLists : StartCase(base, names)

(* The steps of the call that is running *)
Run ==
  \/ Mkdir
  \/ RmLook \/ RmOpen \/ RmClosed \/ RmNext \/ RmCallback
  \/ CopyStat \/ CopyUnlink \/ CopyOpen \/ CopyCreate \/ CopyRead \/ CopyWrite
  \/ CaseName \/ CaseEnd

Next == Start \/ Run \/ Other

(* A function that was called runs on. *)
Spec == Init /\ [][Next]_vars /\ WF_vars(Run)

-----------------------------------------------------------------------------
(* Properties *)

(* The step is one of the call "op"; it returns; nothing but the call made *)
(* the tree what it is, and no system call failed without reason.          *)
StepOf(op) == call.op = op /\ moves' = moves
Returns    == answer' # answer
Undisturbed == moves = 0 /\ ~fault'

(* The file tree as it was, with the directories of the path: nothing else *)
(* is made and nothing replaced.  The answer is false exactly when one of  *)
(* the parents is there and is no directory.  What stands at the end of    *)
(* the path may be anything, mkdir answering EEXIST.                       *)
MkdirExact ==
  [][StepOf("mkdir") /\ Returns /\ Undisturbed =>
       LET path    == call.path
           to(i)   == SubSeq(path, 1, i)
           blocked == \E i \in 1 .. Len(path) - 1 :
                        /\ Exists(before, to(i))
                        /\ ~Is("dir", before, Reached(before, to(i)))
       IN  /\ answer' = <<~blocked>>
           /\ \A p \in DOMAIN before : p \in DOMAIN tree' /\ tree'[p] = before[p]
           /\ \A p \in DOMAIN tree' \ DOMAIN before :
                /\ tree'[p] = Dir
                /\ \E i \in 1 .. Len(path) : p = Place(tree', to(i))
           /\ ~blocked => /\ Exists(tree', path)
                          /\ \A i \in 1 .. Len(path) - 1 :
                               Is("dir", tree', Reached(tree', to(i)))]_vars

(* The path nc_rm_rf was called with, whatever it has come to. *)
RmPath == IF call.open = <<>> THEN call.at ELSE call.open[1].path

(* The path leads through the very entry it names, and on through a link   *)
(* in it, as A/l/A does when l leads to the top.                           *)
Through(t, path) ==
  /\ Exists(t, path)
  /\ \E i \in 1 .. Len(path) - 1 :
       IsPrefix(Place(t, path), Place(t, SubSeq(path, 1, i)))

(* nc_rm_rf removes only what is at the path or below it, and nothing that *)
(* a link leads to, whatever the other process makes, removes and renames, *)
(* as long as it puts no link where none was: nftw goes by paths, and one  *)
(* that lstat has found to pass no link may pass one when opendir, unlink  *)
(* and rmdir follow it.  When it answers true the path is gone, links or   *)
(* not.  Undisturbed it removes all of that and answers true if there was  *)
(* anything, unless the walk cuts off its own path.                        *)
RmExact ==
  [][StepOf("rm") =>
       LET place == Place(tree, RmPath) IN
       /\ tree' # tree /\ ~astray =>
            place \in DOMAIN tree /\ DOMAIN tree \ DOMAIN tree' \subseteq Under(tree, place)
       /\ Returns /\ answer' = <<TRUE>> => place \notin DOMAIN tree'
       /\ Returns /\ Undisturbed /\ ~Through(before, RmPath) =>
            /\ answer' = <<place \in DOMAIN before>>
            /\ tree' = IF place \in DOMAIN before THEN Less(before, Under(before, place))
                       ELSE before]_vars

(* What a copy of s comes out as: full buffers, the last of them filled up *)
(* with what the buffer held before.                                       *)
Padded(s) ==
  [i \in 1 .. (Len(s) \div BufferSize + 1) * BufferSize |->
     IF i <= Len(s) THEN s[i]
     ELSE IF i <= BufferSize THEN Zero ELSE s[i - BufferSize]]

(* A copy never changes its source, unless it is the target as well.       *)
(* Undisturbed, the target begins with the source and is padded to full    *)
(* buffers.  A file copied onto itself is lost: without remove_target, and *)
(* by whichever of its names, it comes out as zeros and the call answers   *)
(* true; with remove_target a file of one name is gone and the call        *)
(* answers false.                                                          *)
CopyContent ==
  [][StepOf("copy") =>
       LET start == IF call.remove THEN Removed(before, call.dst) ELSE before
           from  == Reached(start, call.src)
           to    == Reached(start, call.dst)
           now   == Reached(tree', call.dst)
           same  == /\ Is("file", start, from) /\ Is("file", start, to)
                    /\ start[from].ino = start[to].ino
       IN
       /\ moves = 0 /\ content' # content /\ Is("file", start, from) /\ ~same =>
            content'[start[from].ino] = content[start[from].ino]
       /\ Returns /\ Undisturbed =>
            /\ ~Is("file", start, from) => answer' = <<FALSE>>
            /\ answer' = <<TRUE>> =>
                 /\ Is("file", tree', now)
                 /\ content'[tree'[now].ino] =
                      IF same THEN Zeros ELSE Padded(Contents[start[from].ino])
            /\ same => answer' = <<TRUE>>]_vars

(* "Simple utility to copy path @src to path @dst ... @return True if this *)
(* succeeded" (files.h): the target holds what the source holds, where the *)
(* two are not the same file.                                              *)
CopyWhole ==
  [][StepOf("copy") /\ Returns /\ Undisturbed /\ answer' = <<TRUE>>
       /\ call.dest_fd # call.src_fd =>
       content'[call.dest_fd] = Contents[call.src_fd]]_vars

SameLetters(r, s) ==
  Len(r) = Len(s) /\ \A i \in DOMAIN r : Lower[r[i]] = Lower[s[i]]

Ambiguous(t) ==
  \E p, q \in DOMAIN t :
    p # q /\ p # Top /\ q # Top /\ Front(p) = Front(q) /\ Lower[Last(p)] = Lower[Last(q)]

(* The path that is built goes on from the base with the names asked for,  *)
(* but for their case, whatever happens meanwhile.  Undisturbed, and with  *)
(* no two names in a directory that differ in case only, it is one that    *)
(* is there if there is one.  Without an absolute base the names are       *)
(* looked for from the current directory on, and if it has nothing of the  *)
(* first name the path is the names as they were given.  If it has, the    *)
(* code leaves that name out of the path: that case is left out here.      *)
CaseCorrect ==
  [][StepOf("case") /\ Returns =>
       LET r     == answer'[1]
           base  == call.base
           names == call.names
       IN
       /\ base # None /\ r # None =>
            IsPrefix(base, r) /\ SameLetters(SubSeq(r, Len(base) + 1, Len(r)), names)
       /\ base # None /\ ~fault' => r # None
       /\ base # None /\ Undisturbed /\ ~Ambiguous(tree) =>
            ((\E q \in {base \o s : s \in NameLists} :
                /\ SameLetters(q, base \o names)
                /\ IsPrefix(base, q)
                /\ Reached(tree, q) \in DOMAIN tree)
              => Reached(tree, r) \in DOMAIN tree)
       /\ /\ base = None /\ Undisturbed /\ names # <<>>
          /\ \A n \in NamesIn(tree, Top) : Lower[n] # Lower[names[1]]
          => r # None /\ SameLetters(r, names)]_vars

(* Every call returns, whatever the other process does in its moves. *)
CallReturns == (call # Idle) ~> (call = Idle)

=============================================================================
