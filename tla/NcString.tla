------------------------------ MODULE NcString ------------------------------
(***************************************************************************)
(* nc_string of src/nc-string.c and nc-string.h: a buffer that holds a     *)
(* text ended by NUL, and the length the text had when it was written.     *)
(* nc_string_strip writes a NUL into the buffer and leaves the length, so  *)
(* the text may be shorter than the length says.                           *)
(*                                                                         *)
(* A buffer is the sequence of its bytes, of which a client sees blanks    *)
(* and others; what a format string produces is a text like any other.     *)
(***************************************************************************)
EXTENDS Integers, Sequences

CONSTANTS
  Handles,  \* nc_string pointers of the client
  Texts,    \* texts the client passes
  Blank,    \* ' '
  Nul,      \* '\0'
  None,     \* the NULL pointer
  MaxLen    \* bound: the client appends up to this length

(* The bytes of a buffer, and what an nc_string can be *)
Bytes   == {Blank, Nul} \cup UNION {{t[i] : i \in DOMAIN t} : t \in Texts}
Strings == [buf : Seq(Bytes), len : Nat]

ASSUME NcStringAssumption ==
  /\ Texts \subseteq Seq(Bytes \ {Nul})
  /\ Blank # Nul
  /\ None \notin Seq(Bytes) /\ None \notin Strings

VARIABLES
  str,     \* each handle's nc_string: None or [buf, len]
  leaked,  \* a buffer was allocated that nobody holds
  short,   \* history: memory has run short
  last     \* the last call, its handle and its answer

vars == <<str, leaked, short, last>>

-----------------------------------------------------------------------------
(* Buffers as the C library reads them *)

(* What the text at position i of a buffer is. *)
TextAt(b, i) ==
  LET end == CHOOSE k \in i .. Len(b) : b[k] = Nul /\ \A j \in i .. k - 1 : b[j] # Nul
  IN  SubSeq(b, i, end - 1)

Live    == {h \in Handles : str[h] # None}
Text(h) == TextAt(str[h].buf, 1)

(* strncmp(x, y, n) == 0 *)
SameUpTo(x, y, n) ==
  \A i \in 1 .. n :
    (\A j \in 1 .. i - 1 : x[j] = y[j] /\ x[j] # Nul) => x[i] = y[i]

Terminated(t) == Append(t, Nul)

(* The string asprintf has written. *)
Written(t) == [buf |-> Terminated(t), len |-> Len(t)]

-----------------------------------------------------------------------------
(* Calls *)

(* calloc or asprintf fails. *)
Short(call, h) ==
  /\ short' = TRUE /\ last' = <<call, h, FALSE>>
  /\ UNCHANGED <<str, leaked>>

(* nc_string_dup, nc_string_dup_printf *)
Dup(h, t) ==
  /\ h \notin Live
  /\ \/ /\ str' = [str EXCEPT ![h] = Written(t)]
        /\ last' = <<"dup", h, TRUE>>
        /\ UNCHANGED <<leaked, short>>
     \/ Short("dup", h)

(* Faults: no look at the length; the old length is kept. *)
RefusesNever(h, t)  == FALSE
CattedOldLen(h, t)  == [buf |-> Terminated(Text(h) \o t), len |-> str[h].len]

(* len < s->len *)
Refuses(h, t) == Len(Text(h) \o t) < str[h].len

Catted(h, t) == Written(Text(h) \o t)

(* nc_string_cat, of a text of the client or of a string's buffer, its own *)
(* included.                                                               *)
Cat(h, t) ==
  /\ h \in Live /\ Len(Text(h)) + Len(t) <= MaxLen
  /\ \/ /\ ~Refuses(h, t)
        /\ str' = [str EXCEPT ![h] = Catted(h, t)]
        /\ last' = <<"cat", h, TRUE>>
        /\ UNCHANGED <<leaked, short>>
     \/ /\ Refuses(h, t)
        /\ leaked' = TRUE /\ last' = <<"cat", h, FALSE>>
        /\ UNCHANGED <<str, short>>
     \/ Short("cat", h)

(* The position strip answers: the first that is not blank, or the end. *)
Start(s) ==
  CHOOSE i \in 1 .. s.len + 1 :
    /\ \A k \in 1 .. i - 1 : s.buf[k] = Blank
    /\ i = s.len + 1 \/ s.buf[i] # Blank

(* Where the second loop may stop: behind the start. *)
WordsBehind(s) == {j \in Start(s) + 1 .. s.len : s.buf[j] # Blank}

(* Fault: the NUL is written over the last character itself, not behind it. *)
StrippedShort(s) ==
  IF WordsBehind(s) = {} THEN s
  ELSE [s EXCEPT !.buf[CHOOSE j \in WordsBehind(s) :
                         \A k \in WordsBehind(s) : k <= j] = Nul]

Stripped(s) ==
  IF WordsBehind(s) = {} THEN s
  ELSE [s EXCEPT !.buf[1 + CHOOSE j \in WordsBehind(s) :
                             \A k \in WordsBehind(s) : k <= j] = Nul]

(* nc_string_strip *)
Strip(h) ==
  LET s == Stripped(str[h]) IN
  /\ h \in Live
  /\ str' = [str EXCEPT ![h] = s]
  /\ last' = <<"strip", h, TextAt(s.buf, Start(s))>>
  /\ UNCHANGED <<leaked, short>>

(* nc_string_free *)
Free(h) ==
  /\ h \in Live
  /\ str' = [str EXCEPT ![h] = None]
  /\ last' = <<"free", h, TRUE>>
  /\ UNCHANGED <<leaked, short>>

-----------------------------------------------------------------------------
Init ==
  /\ str = [h \in Handles |-> None]
  /\ leaked = FALSE /\ short = FALSE
  /\ last = <<"none", None, TRUE>>

Next ==
  \E h \in Handles :
    \/ \E t \in Texts : Dup(h, t)
    \/ \E t \in Texts \cup {Text(g) : g \in Live} : Cat(h, t)
    \/ Strip(h)
    \/ Free(h)

Spec == Init /\ [][Next]_vars

-----------------------------------------------------------------------------
(* Answers of the calls that change nothing *)

(* nc_string_equal, nc_string_const_equal *)
Equal(g, h)      == SameUpTo(str[g].buf, str[h].buf, str[g].len)
ConstEqual(h, t) == SameUpTo(str[h].buf, Terminated(t), str[h].len)

(* Fault: the suffix is compared with the front of the string.            *)
SuffixAtFront(h, t) ==
  LET k == Len(t) IN
  /\ k > 0 /\ k <= str[h].len
  /\ SameUpTo(str[h].buf, Terminated(t), k)

(* nc_string_has_suffix_const, nc_string_has_prefix_const *)
HasSuffix(h, t) ==
  LET k == Len(t)
      s == str[h]
  IN
  /\ k > 0 /\ k <= s.len
  /\ SameUpTo(SubSeq(s.buf, s.len - k + 1, Len(s.buf)), Terminated(t), k)

HasPrefix(h, t) ==
  LET k == Len(t) IN
  /\ k > 0 /\ k <= str[h].len
  /\ SameUpTo(str[h].buf, Terminated(t), k)

-----------------------------------------------------------------------------
(* Properties *)

IsPrefixOf(t, u) == Len(t) <= Len(u) /\ \A i \in DOMAIN t : t[i] = u[i]
IsSuffixOf(t, u) == Len(t) <= Len(u) /\ \A i \in DOMAIN t : t[i] = u[Len(u) - Len(t) + i]

Shortened(h) == Len(Text(h)) < str[h].len

(* The buffer has room for the length and the NUL behind it, and a NUL is  *)
(* there, whatever strip has written and cat has copied: the index j + 1   *)
(* that strip writes to and the place where a suffix is looked for are in  *)
(* the buffer, and every read of a text ends in it.                        *)
BufferFits ==
  \A h \in Live :
    /\ Len(str[h].buf) = str[h].len + 1
    /\ str[h].buf[str[h].len + 1] = Nul
    /\ Shortened(h) => str[h].len > 1 /\ Text(h)[Len(Text(h))] # Blank

(* What the comparisons answer, in whatever order texts were written, cut  *)
(* and appended: nc_string_equal "will not check beyond the length of      *)
(* string A", so it is true for every text string A begins; a shortened    *)
(* string is compared with its end and equals itself only.  A prefix is    *)
(* always told right, and so is a suffix of a string that no strip has     *)
(* shortened.  Of a shortened one the code looks for it among the blanks   *)
(* that were cut off, and misses it: that case is left out.                *)
AnswersRight ==
  \A h \in Live :
    /\ \A g \in Live :
         Equal(h, g) <=> IF Shortened(h) THEN Text(h) = Text(g)
                         ELSE IsPrefixOf(Text(h), Text(g))
    /\ \A t \in Texts :
         /\ ConstEqual(h, t) <=> IF Shortened(h) THEN Text(h) = t
                                 ELSE IsPrefixOf(Text(h), t)
         /\ t # <<>> => (HasPrefix(h, t) <=> IsPrefixOf(t, Text(h)))
         /\ t # <<>> /\ ~Shortened(h) => (HasSuffix(h, t) <=> IsSuffixOf(t, Text(h)))

(* Each handle's text *)
TextOf == [h \in Handles |-> IF h \in Live THEN Text(h) ELSE None]

Abstract == INSTANCE TextSpec WITH val <- TextOf

WordThenBlanks(t) ==
  \E i \in DOMAIN t : /\ t[i] # Blank /\ i # Len(t)
                      /\ \A j \in DOMAIN t : j # i => t[j] = Blank

(* The calls in which the code keeps less than nc-string.h promises: a     *)
(* strip of a text with one character that is not blank leaves the blanks  *)
(* behind it, and an append to a string that a strip has shortened may be  *)
(* refused, with the new buffer lost.                                      *)
KeepsTail  == \E h \in Live : WordThenBlanks(Text(h)) /\ last'[1] = "strip" /\ last'[2] = h
RefusesCut == \E h \in Live : Shortened(h) /\ last' = <<"cat", h, FALSE>>

(* Every call acts on the text of its handle alone and answers as TextSpec *)
(* says, and no buffer is lost: appending is all or nothing and fails only *)
(* without memory, stripping takes away the blanks at both ends.  Left out *)
(* are the two calls above, of which it says that no text changes.         *)
ImplementsText ==
  /\ Abstract!Init
  /\ [][\/ Abstract!Next /\ UNCHANGED leaked
        \/ (KeepsTail \/ RefusesCut) /\ TextOf' = TextOf]_<<Abstract!vars, leaked>>

=============================================================================
