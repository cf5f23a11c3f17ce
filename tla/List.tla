-------------------------------- MODULE List --------------------------------
(***************************************************************************)
(* The singly linked list of src/list.c and list.h over a heap of nodes.   *)
(* The first node carries the size of the list and the pointer to its last *)
(* node; prepending and removing the first node hand both over.            *)
(*                                                                         *)
(* append and prepend are one step.  The loops of remove and free run one  *)
(* node per step, so that a read from a node that is gone would be seen.   *)
(* "order" is a history variable: the nodes the client's list is made of,  *)
(* in order.  A node's fields are cleared when it is freed, as calloc      *)
(* clears them before it is used again.                                    *)
(***************************************************************************)
EXTENDS Integers, Sequences

CONSTANTS
  Nodes,      \* addresses calloc may return
  Datas,      \* data pointers
  Null,       \* the NULL pointer
  Once        \* data pointers the client stores once at a time: these the
              \* list may be told to free; the others only the client frees

ASSUME ListAssumption ==
  /\ Null \notin Nodes /\ Null \notin Datas
  /\ Once \subseteq Datas

VARIABLES
  head,       \* the client's NcList pointer
  live,       \* nodes allocated and not freed
  data,       \* the fields of the nodes
  next,
  tail,
  size,
  pc,         \* "idle", "walk" (nc_list_remove), "free" (nc_list_free)
  current,
  prev,
  arg,        \* <<data, do_free>> of the call that is walking
  freed,      \* data pointers the list has freed
  order,      \* history: the nodes of the list
  last        \* the last call, its data pointer and its answer

heap    == <<data, next, tail, size>>
walking == <<pc, current, prev, arg>>
vars    == <<head, live, heap, walking, freed, order, last>>

-----------------------------------------------------------------------------
(* Adding *)

(* What is left of a sequence without its i-th element. *)
Without(s, i) == [j \in 1 .. Len(s) - 1 |-> IF j < i THEN s[j] ELSE s[j + 1]]

(* The client adds a pointer to data it has allocated. *)
MayAdd(d) ==
  /\ pc = "idle"
  /\ d \in Once => \A i \in DOMAIN order : data[order[i]] # d

(* calloc(1, sizeof(NcList)) and next->data = data *)
NewNode(n, d) ==
  /\ n \notin live
  /\ live' = live \cup {n}
  /\ data' = [data EXCEPT ![n] = d]
  /\ freed' = freed \ {d}

(* calloc answers NULL. *)
OutOfMemory(call, d) ==
  /\ MayAdd(d)
  /\ last' = <<call, d, FALSE>>
  /\ UNCHANGED <<head, live, heap, walking, freed, order>>

(* nc_list_append and nc_list_prepend on a NULL list *)
NewList(call, n, d) ==
  /\ MayAdd(d) /\ head = Null
  /\ NewNode(n, d)
  /\ head' = n
  /\ next' = [next EXCEPT ![n] = Null]
  /\ tail' = [tail EXCEPT ![n] = n]
  /\ size' = [size EXCEPT ![n] = 1]
  /\ order' = <<n>>
  /\ last' = <<call, d, TRUE>>
  /\ UNCHANGED walking

(* nc_list_append, "New tail generation" *)
AppendNode(n, d) ==
  /\ MayAdd(d) /\ head # Null
  /\ NewNode(n, d)
  /\ next' = [next EXCEPT ![tail[head]] = n, ![n] = Null]
  /\ tail' = [tail EXCEPT ![head] = n, ![n] = Null]
  /\ size' = [size EXCEPT ![head] = @ + 1, ![n] = 0]
  /\ order' = Append(order, n)
  /\ last' = <<"append", d, TRUE>>
  /\ UNCHANGED <<head, walking>>

(* Fault: the old first node hands over the size it had, not one more. *)
PrependNodeSize(n, d) ==
  /\ MayAdd(d) /\ head # Null
  /\ NewNode(n, d)
  /\ head' = n
  /\ next' = [next EXCEPT ![n] = head]
  /\ tail' = [tail EXCEPT ![n] = tail[head], ![head] = Null]
  /\ size' = [size EXCEPT ![n] = size[head], ![head] = 0]
  /\ order' = <<n>> \o order
  /\ last' = <<"prepend", d, TRUE>>
  /\ UNCHANGED walking

(* nc_list_prepend, "New head generation" *)
PrependNode(n, d) ==
  /\ MayAdd(d) /\ head # Null
  /\ NewNode(n, d)
  /\ head' = n
  /\ next' = [next EXCEPT ![n] = head]
  /\ tail' = [tail EXCEPT ![n] = tail[head], ![head] = Null]
  /\ size' = [size EXCEPT ![n] = size[head] + 1, ![head] = 0]
  /\ order' = <<n>> \o order
  /\ last' = <<"prepend", d, TRUE>>
  /\ UNCHANGED walking

-----------------------------------------------------------------------------
(* nc_list_remove *)

Rest == /\ pc' = "idle" /\ current' = Null /\ prev' = Null
        /\ arg' = <<Null, FALSE>>

(* Fault: the search begins behind the first node. *)
StartRemoveSecond(d, do_free) ==
  /\ pc = "idle" /\ (do_free => d \in Once)
  /\ pc' = "walk" /\ prev' = head
  /\ current' = IF head = Null THEN Null ELSE next[head]
  /\ arg' = <<d, do_free>>
  /\ UNCHANGED <<head, live, heap, freed, order, last>>

StartRemove(d, do_free) ==
  /\ pc = "idle" /\ (do_free => d \in Once)
  /\ pc' = "walk" /\ current' = head /\ prev' = head
  /\ arg' = <<d, do_free>>
  /\ UNCHANGED <<head, live, heap, freed, order, last>>

(* Fault: current stays where it is. *)
AdvancePrevOnly ==
  /\ pc = "walk" /\ current # Null /\ data[current] # arg[1]
  /\ prev' = current
  /\ UNCHANGED <<head, live, heap, pc, current, arg, freed, order, last>>

Advance ==
  /\ pc = "walk" /\ current # Null /\ data[current] # arg[1]
  /\ prev' = current
  /\ current' = next[current]
  /\ UNCHANGED <<head, live, heap, pc, arg, freed, order, last>>

NotFound ==
  /\ pc = "walk" /\ current = Null
  /\ Rest
  /\ last' = <<"remove", arg[1], FALSE>>
  /\ UNCHANGED <<head, live, heap, freed, order>>

(* The node the list starts with after "current" is gone, and its tail *)
NewHead == IF current = head THEN next[head] ELSE head

(* Fault: "Update tail pointer" is missing. *)
NewTailKept == tail[head]

NewTail == IF tail[head] = current THEN prev ELSE tail[head]

(* Faults: the data of the node before is freed; the argument of the call  *)
(* is freed, whatever the node holds.                                      *)
FreedPrev == IF arg[2] /\ prev # Null THEN freed \cup {data[prev]} ELSE freed
FreedArg  == IF arg[2] THEN freed \cup {arg[1]} ELSE freed

(* free(current->data) if so asked *)
FreedData == IF arg[2] THEN freed \cup {data[current]} ELSE freed

(* "Head removal" or "Middle or end", the tail pointer, the two frees *)
Unlink ==
  /\ pc = "walk" /\ current # Null /\ data[current] = arg[1]
  /\ head' = NewHead
  /\ next' = [n \in Nodes |-> IF n = current THEN Null
                             ELSE IF n = prev THEN next[current] ELSE next[n]]
  /\ size' = [n \in Nodes |-> IF n = current THEN 0
                             ELSE IF n = NewHead THEN size[head] - 1 ELSE size[n]]
  /\ tail' = [n \in Nodes |-> IF n = current THEN Null
                             ELSE IF n = NewHead THEN NewTail ELSE tail[n]]
  /\ data' = [data EXCEPT ![current] = Null]
  /\ freed' = FreedData
  /\ live' = live \ {current}
  /\ \E i \in DOMAIN order : order[i] = current /\ order' = Without(order, i)
  /\ Rest
  /\ last' = <<"remove", arg[1], TRUE>>

-----------------------------------------------------------------------------
(* nc_list_free, nc_list_free_all (do_free) *)

StartFree(do_free) ==
  /\ pc = "idle"
  /\ do_free => \A i \in DOMAIN order : data[order[i]] \in Once
  /\ IF head = Null
     THEN UNCHANGED walking
     ELSE /\ pc' = "free" /\ current' = head /\ prev' = Null
          /\ arg' = <<Null, do_free>>
  /\ last' = <<"free", Null, TRUE>>
  /\ UNCHANGED <<head, live, heap, freed, order>>

FreeNode ==
  /\ pc = "free" /\ current # Null
  /\ freed' = FreedData
  /\ live' = live \ {current}
  /\ current' = next[current]
  /\ data' = [data EXCEPT ![current] = Null]
  /\ next' = [next EXCEPT ![current] = Null]
  /\ tail' = [tail EXCEPT ![current] = Null]
  /\ size' = [size EXCEPT ![current] = 0]
  /\ order' = Tail(order)
  /\ UNCHANGED <<head, pc, prev, arg, last>>

FreeDone ==
  /\ pc = "free" /\ current = Null
  /\ Rest
  /\ head' = Null
  /\ UNCHANGED <<live, heap, freed, order, last>>

-----------------------------------------------------------------------------
Init ==
  /\ head = Null /\ live = {}
  /\ data = [n \in Nodes |-> Null] /\ next = [n \in Nodes |-> Null]
  /\ tail = [n \in Nodes |-> Null] /\ size = [n \in Nodes |-> 0]
  /\ pc = "idle" /\ current = Null /\ prev = Null /\ arg = <<Null, FALSE>>
  /\ freed = {} /\ order = <<>>
  /\ last = <<"none", Null, TRUE>>

(* The steps of a call that has begun *)
Walk == Advance \/ NotFound \/ Unlink \/ FreeNode \/ FreeDone

Next ==
  \/ \E d \in Datas :
       \/ \E call \in {"append", "prepend"} :
            \/ OutOfMemory(call, d)
            \/ \E n \in Nodes : NewList(call, n, d)
       \/ \E n \in Nodes : AppendNode(n, d) \/ PrependNode(n, d)
       \/ \E do_free \in BOOLEAN : StartRemove(d, do_free)
  \/ \E do_free \in BOOLEAN : StartFree(do_free)
  \/ Walk

Spec == Init /\ [][Next]_vars

(* The loops run on; a client may stop calling. *)
FairSpec == Spec /\ WF_vars(Walk)

-----------------------------------------------------------------------------
(* Properties *)

TypeOK ==
  /\ head \in Nodes \cup {Null} /\ live \subseteq Nodes
  /\ data \in [Nodes -> Datas \cup {Null}]
  /\ next \in [Nodes -> Nodes \cup {Null}]
  /\ tail \in [Nodes -> Nodes \cup {Null}]
  /\ size \in [Nodes -> Int]
  /\ pc \in {"idle", "walk", "free"}
  /\ current \in Nodes \cup {Null} /\ prev \in Nodes \cup {Null}
  /\ arg \in (Datas \cup {Null}) \X BOOLEAN
  /\ freed \subseteq Datas
  /\ order \in Seq(Nodes)

(* The pointers make up the list the client built: following next from the *)
(* first node visits its nodes in order and ends, the nodes allocated are  *)
(* exactly these (nothing leaks), and the first one, whichever call made   *)
(* it the first, has the size and the last node.                           *)
Shape ==
  LET first == IF pc = "free" THEN current ELSE head IN
  /\ first = IF order = <<>> THEN Null ELSE order[1]
  /\ \A i, j \in DOMAIN order : order[i] = order[j] => i = j
  /\ live = {order[i] : i \in DOMAIN order}
  /\ \A i \in DOMAIN order :
       next[order[i]] = IF i < Len(order) THEN order[i + 1] ELSE Null
  /\ pc # "free" /\ order # <<>> =>
       size[head] = Len(order) /\ tail[head] = order[Len(order)]

(* Whatever node a call is about to read or write is allocated, in the     *)
(* middle of every loop too: the tail pointer the next append writes       *)
(* through, and current and prev of a walk.                                *)
NoUseAfterFree ==
  /\ head # Null /\ pc # "free" => {head, tail[head]} \subseteq live
  /\ {current, prev} \subseteq live \cup {Null}

(* The list never frees data it still holds, and so frees nothing twice:   *)
(* freeing with do_free and with nc_list_free_all, in any mix, over        *)
(* pointers stored once.                                                   *)
DataFreedOnce == \A i \in DOMAIN order : data[order[i]] \notin freed

(* Every removal and every free comes to an end. *)
EveryCallReturns == (pc # "idle") ~> (pc = "idle")

(* The list as its clients know it: the data pointers in order.            *)
Abstract == INSTANCE ListSpec WITH
  None <- Null,
  l    <- IF pc = "free" THEN <<>> ELSE [i \in DOMAIN order |-> data[order[i]]]

(* Every call acts on the sequence of data pointers in one step and        *)
(* answers as list.h says: removal takes the first match, and answers      *)
(* false exactly when there is none.                                       *)
ImplementsList == Abstract!Spec

=============================================================================
