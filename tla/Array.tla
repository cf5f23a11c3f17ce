------------------------------- MODULE Array -------------------------------
(***************************************************************************)
(* The dynamic array of src/array.c and the greedy_realloc of src/util.c   *)
(* it grows with.  "data" is the block of pointers the array owns, <<>>    *)
(* for NULL; a cell that nothing was stored in holds Wild.  nc_array_add   *)
(* asks greedy_realloc for one cell more than it uses, every time.         *)
(***************************************************************************)
EXTENDS Integers, Sequences, Functions

CONSTANTS
  Items,       \* pointers a client stores
  Null,        \* the NULL pointer
  Wild,        \* what a cell holds that was never written
  Rank,        \* the order the client's comparison function puts them in
  LenMod,      \* 2^16: len is a uint16_t
  MinSlots,    \* the cells in 64 bytes
  AllocFails   \* the allocations that may return NULL

AllocSites == {"array", "block", "grow"}

ASSUME ArrayAssumption ==
  /\ Null \notin Items /\ Wild \notin Items /\ Wild # Null
  /\ Rank \in [Items -> Nat]
  /\ LenMod \in Nat \ {0, 1} /\ MinSlots \in Nat
  /\ AllocFails \subseteq AllocSites

VARIABLES
  status,   \* "none": no array, "live", "crashed": undefined behaviour
  data,     \* the block
  len,
  lost,     \* history: an add has lost the pointers of this array
  last      \* the last call and its answer

vars == <<status, data, len, lost, last>>

-----------------------------------------------------------------------------
(* greedy_realloc *)

(* Fault: a block never grows beyond 64 bytes. *)
SlotsMinOnly(need) == MinSlots

(* MAX(64u, need * 2), in cells *)
Slots(need) == IF 2 * need > MinSlots THEN 2 * need ELSE MinSlots

(* Fault: the new block does not take over what the old one held. *)
ReallocedFresh(block, n) == [i \in 1 .. n |-> Wild]

(* realloc *)
Realloced(block, n) ==
  [i \in 1 .. n |-> IF i \in DOMAIN block THEN block[i] ELSE Wild]

-----------------------------------------------------------------------------
New ==
  /\ status = "none"
  /\ UNCHANGED <<data, len, lost>>
  /\ \/ status' = "live" /\ last' = <<"new", TRUE>>
     \/ "array" \in AllocFails /\ UNCHANGED status /\ last' = <<"new", FALSE>>

(* Fault: the length is not cut to 16 bits. *)
NewLenWide == len + 1

NewLen == (len + 1) % LenMod

(* nc_array_add on a NULL array, or of NULL *)
Refuse(d) ==
  /\ status = "none" \/ (status = "live" /\ d = Null)
  /\ last' = <<"add", FALSE>>
  /\ UNCHANGED <<status, data, len, lost>>

(* A failed greedy_realloc leaves array->data NULL: the block is lost, len *)
(* stays.                                                                  *)
Add(d) ==
  LET block == IF data = <<>> THEN <<Null>> ELSE data IN
  /\ status = "live" /\ d # Null
  /\ UNCHANGED status
  /\ \/ /\ data = <<>> /\ "block" \in AllocFails
        /\ last' = <<"add", FALSE>>
        /\ UNCHANGED <<data, len, lost>>
     \/ /\ NewLen = 0
        /\ data' = block
        /\ last' = <<"add", FALSE>>
        /\ UNCHANGED <<len, lost>>
     \/ /\ NewLen # 0 /\ "grow" \in AllocFails
        /\ data' = <<>>
        /\ lost' = (lost \/ len > 0)
        /\ last' = <<"add", FALSE>>
        /\ UNCHANGED len
     \/ /\ NewLen # 0
        /\ data' = [Realloced(block, Slots(len + 1)) EXCEPT ![NewLen] = d]
        /\ len' = NewLen
        /\ last' = <<"add", TRUE>>
        /\ UNCHANGED lost

Get(i) ==
  /\ status # "crashed"
  /\ UNCHANGED <<data, len, lost>>
  /\ IF status = "live" /\ i < len /\ data = <<>>
     THEN status' = "crashed" /\ UNCHANGED last
     ELSE /\ last' = <<"get", IF status = "live" /\ i < len THEN data[i + 1] ELSE Null>>
          /\ UNCHANGED status

(* The cells in use.  They can be read when there are len of them, and     *)
(* followed when each was stored.                                          *)
Stored   == [i \in 1 .. len |-> data[i]]
Readable == len <= Len(data)
Valid    == Readable /\ \A i \in 1 .. len : data[i] \in Items

(* nc_array_qsort: qsort leaves the pointers in some order that agrees     *)
(* with the comparison function.                                           *)
Sort ==
  /\ status = "live"
  /\ IF Valid
     THEN /\ \E p \in Injection(1 .. len, 1 .. len) :
               /\ \A i, j \in 1 .. len :
                    i < j => Rank[data[p[i]]] <= Rank[data[p[j]]]
               /\ data' = [i \in DOMAIN data |->
                             IF i <= len THEN data[p[i]] ELSE data[i]]
          /\ last' = <<"sort", TRUE>>
          /\ UNCHANGED <<status, len, lost>>
     ELSE status' = "crashed" /\ UNCHANGED <<data, len, lost, last>>

(* nc_array_free, with a free_method for the pointers (all) or without *)
Free(all) ==
  /\ status # "crashed"
  /\ IF all /\ status = "live" /\ ~Valid
     THEN status' = "crashed" /\ UNCHANGED <<data, len, lost, last>>
     ELSE /\ status' = "none" /\ data' = <<>> /\ len' = 0 /\ lost' = FALSE
          /\ last' = <<"free", IF all THEN Stored ELSE <<>>>>

-----------------------------------------------------------------------------
Init ==
  /\ status = "none" /\ data = <<>> /\ len = 0 /\ lost = FALSE
  /\ last = <<"none", TRUE>>

Next ==
  \/ New \/ Sort
  \/ \E d \in Items : Add(d)
  \/ \E d \in Items \cup {Null} : Refuse(d)
  \/ \E i \in 0 .. LenMod - 1 : Get(i)
  \/ \E all \in BOOLEAN : Free(all)

Spec == Init /\ [][Next]_vars

-----------------------------------------------------------------------------
(* Properties *)

TypeOK ==
  /\ status \in {"none", "live", "crashed"}
  /\ data \in Seq(Items \cup {Null, Wild})
  /\ len \in 0 .. LenMod - 1
  /\ lost \in BOOLEAN

(* "@return a data pointer referred to by index, or NULL" (nc_array_get in *)
(* array.h): every index below len is answered with a stored pointer.      *)
GetAnswers == status = "live" => Valid

(* The same as long as no add has failed to grow a block in use: then      *)
(* nc_array_get, nc_array_free and nc_array_qsort stay inside the block    *)
(* and meet no cell that was not stored, after any series of adds that     *)
(* grow the block or reach the limit of len.                               *)
InBounds == ~lost => status # "crashed" /\ GetAnswers

(* The array as its clients know it.                                       *)
Abstract == INSTANCE ArraySpec WITH
  Capacity <- LenMod - 1,
  alive    <- status = "live",
  l        <- Stored

(* Every call acts on the sequence of pointers as array.h says: growing    *)
(* keeps what was stored, a full array refuses and stays as it is.  This   *)
(* stops when an add fails to grow a block in use, and holds again after   *)
(* nc_array_free.                                                          *)
ImplementsArray ==
  Abstract!Init /\ [][lost \/ lost' \/ Abstract!Next]_(Abstract!vars)

=============================================================================
