------------------------------ MODULE TextSpec ------------------------------
(***************************************************************************)
(* What nc_string promises, without buffers: each handle is a text or      *)
(* nothing.  The promises are those of nc-string.h; NcString names the     *)
(* calls in which the code keeps less.                                     *)
(***************************************************************************)
EXTENDS Integers, Sequences

CONSTANTS
  Handles,  \* nc_string pointers of the client
  Texts,    \* texts the client passes
  Blank,    \* ' '
  None      \* no string

VARIABLES
  val,      \* the text of each handle
  short,    \* memory has run short
  last      \* the last call, its handle and its answer

vars == <<val, short, last>>

Words(t) == {k \in DOMAIN t : t[k] # Blank}

From(t, i) == SubSeq(t, i, Len(t))

(* The text without its leading, without its trailing blanks *)
LeftTrimmed(t)  ==
  {From(t, i) : i \in {k \in DOMAIN t : \A j \in Words(t) : k <= j} \cap Words(t)}
RightTrimmed(t) == {SubSeq(t, 1, i) : i \in {k \in Words(t) : \A j \in Words(t) : j <= k}}

Init ==
  /\ val = [h \in Handles |-> None]
  /\ short = FALSE
  /\ last = <<"none", None, TRUE>>

(* A call found no memory. *)
Short(call, h) == short' = TRUE /\ last' = <<call, h, FALSE>> /\ UNCHANGED val

(* nc_string_dup, nc_string_dup_printf *)
Dup(h, t) ==
  \/ /\ val' = [val EXCEPT ![h] = t]
     /\ last' = <<"dup", h, TRUE>>
     /\ UNCHANGED short
  \/ Short("dup", h)

(* nc_string_cat: the text is appended, unless memory is short. *)
Cat(h, t) ==
  \/ /\ val' = [val EXCEPT ![h] = @ \o t]
     /\ last' = <<"cat", h, TRUE>>
     /\ UNCHANGED short
  \/ Short("cat", h)

(* nc_string_strip answers the text "without start and end whitespace".    *)
(* It works in place: the text loses the blanks at its end, unless it has  *)
(* nothing else.                                                           *)
Strip(h) ==
  /\ \/ /\ Words(val[h]) = {} /\ last' = <<"strip", h, <<>>>>
        /\ UNCHANGED val
     \/ \E r \in RightTrimmed(val[h]) :
          /\ val' = [val EXCEPT ![h] = r]
          /\ \E a \in LeftTrimmed(r) : last' = <<"strip", h, a>>
  /\ UNCHANGED short

(* nc_string_free *)
Free(h) ==
  /\ val' = [val EXCEPT ![h] = None]
  /\ last' = <<"free", h, TRUE>>
  /\ UNCHANGED short

Next ==
  \E h \in Handles :
    \/ val[h] = None /\ \E t \in Texts : Dup(h, t)
    \/ val[h] # None /\ (Strip(h) \/ Free(h) \/
         \E t \in Texts \cup {val[g] : g \in {i \in Handles : val[i] # None}} : Cat(h, t))

Spec == Init /\ [][Next]_vars

=============================================================================
