------------------------------ MODULE MemStream ------------------------------
(***************************************************************************)
(* memstream_overrides.c: the cookie behind open_memstream (Wide FALSE)    *)
(* and open_wmemstream (Wide TRUE), whose functions the stdio layer of     *)
(* libc calls, one at a time.  A unit is a char or a wchar_t.              *)
(*                                                                         *)
(* The multibyte conversion of the wide stream is external; here each      *)
(* character arrives as one byte, so a write has as many bytes as units,   *)
(* and the conversion state mbstate_t carries nothing.                     *)
(***************************************************************************)
EXTENDS Integers, Sequences

CONSTANTS
    Wide,       \* which of the two streams
    Writes,     \* what the stdio layer hands over: sequences of units
    Offsets,    \* offsets of a seek
    SizeMax,    \* SIZE_MAX
    SSizeMax,   \* SSIZE_MAX
    UnitSize,   \* sizeof(wchar_t), or 1
    BitOr(_, _),   \* the operator | on size_t
    MaxCalls    \* bound on the number of calls of a behaviour

ASSUME SizesAssumption ==
    /\ SizeMax \in Nat /\ SSizeMax \in 1 .. SizeMax /\ UnitSize \in Nat \ {0}
    /\ Wide \in BOOLEAN

ASSUME OffsetsAssumption == Offsets \subseteq Int

\* All the growth arithmetic needs to know of |.
ASSUME OrAssumption ==
    \A a, b \in 0 .. SizeMax :
        BitOr(a, b) \in 0 .. SizeMax /\ BitOr(a, b) >= a /\ BitOr(a, b) >= b

VARIABLES
    stage,             \* "none", "open" or "closed"
    pos, len, space,   \* the fields of the cookie
    buf,               \* the contents of its block, which may be longer than space
    block,             \* which block that is
    bufp, sizep,       \* what the caller's two variables hold
    live,              \* the blocks that are allocated
    ret,               \* the last call of the stdio layer and its result
    failed,            \* history: a conversion of the wide stream has failed
    calls              \* the number of calls made

cookie == <<pos, len, space>>
memory == <<buf, block, live>>
vars   == <<stage, cookie, memory, bufp, sizep, ret, failed, calls>>

COOKIE == 0                   \* the cookie's own block
max_chars == SSizeMax \div UnitSize
Wrap(n)   == n % (SizeMax + 1)

\* No object is so large that its size and a position wrap together.
ASSUME WritesAssumption ==
    /\ Writes \subseteq Seq(Nat)
    /\ \A w \in Writes : Len(w) < SizeMax - (IF Wide THEN max_chars ELSE 0)

Call(op) == calls < MaxCalls /\ calls' = calls + 1 /\ stage = op

-----------------------------------------------------------------------------
(* open.                                                                   *)

\* Both mallocs and fopencookie may fail; what was obtained before is released.
\* bufp and sizep are set before fopencookie is called.
open ==
    /\ Call("none")
    /\ \/ UNCHANGED <<stage, cookie, memory, bufp, sizep>>
       \/ /\ bufp' = 1
          /\ sizep' = 0
          /\ \/ UNCHANGED <<stage, cookie, memory>>
             \/ /\ stage' = "open"
                /\ pos' = 0 /\ len' = 0 /\ space' = 0
                /\ buf' = [i \in {0} |-> 0]
                /\ block' = 1
                /\ live' = {COOKIE, 1}
    /\ UNCHANGED <<ret, failed>>

-----------------------------------------------------------------------------
(* grow.                                                                   *)

\* The check against overflow, itself in size_t arithmetic.
TooBig(n) == pos > Wrap((IF Wide THEN max_chars ELSE SizeMax) - n - 1)

Required(n) == Wrap(pos + n + 1)

Doubled == IF space > (SizeMax - 1) \div 2 THEN SizeMax ELSE 2 * space + 1

\* Mutant: the space is doubled and the size required forgotten.
Mutant_new_space(n) == Doubled

new_space(n) == BitOr(Doubled, Required(n))

\* realloc (external) refuses what cannot be an object's size.
MayRealloc(n) == n * UnitSize <= SSizeMax

\* Mutant: the first new unit is not cleared.
Mutant_ClearFrom == space + 1

\* Mutant: what the write is going to skip is not cleared.
Mutant_ClearFrom_pos == IF pos > space THEN pos ELSE space

\* The first unit that memset clears.
ClearFrom == space

JUNK == -1    \* a unit nobody has written

\* The block after realloc and memset.
Grown(n) ==
    [i \in 0 .. n - 1 |->
        IF i >= ClearFrom THEN 0 ELSE IF i \in DOMAIN buf THEN buf[i] ELSE JUNK]

\* Mutant: the caller's pointer is not updated.
Mutant_Publish(b) == UNCHANGED bufp

Publish(b) == bufp' = b

\* Too much is refused, and realloc may refuse any growth.
GrowFails(n) == TooBig(n) \/ Required(n) > space

Stays(n) ==
    /\ ~TooBig(n) /\ Required(n) <= space
    /\ UNCHANGED <<space, block, live, bufp>>

\* The block may move.
Grows(n) ==
    /\ ~TooBig(n) /\ Required(n) > space
    /\ ~(Wide /\ new_space(n) > max_chars)
    /\ MayRealloc(new_space(n))
    /\ space' = new_space(n)
    /\ \E b \in {block, 3 - block} :
          /\ block' = b
          /\ live' = {COOKIE, b}
          /\ Publish(b)

\* The contents before the write's own units are stored.
Room(n) == IF Required(n) <= space THEN buf ELSE Grown(new_space(n))

-----------------------------------------------------------------------------
(* write.                                                                  *)

\* b with w stored from position p on.
Stored(b, p, w) ==
    [i \in DOMAIN b |-> IF p <= i /\ i < p + Len(w) THEN w[i - p + 1] ELSE b[i]]

\* Mutant: a write before the end makes the data end there.
Mutant_LenAfter(p) == p

LenAfter(p) == IF p >= len THEN p ELSE len

\* The position moves by n units; the call says it took all of w.
Advance(n, w) ==
    /\ pos' = pos + n
    /\ len' = LenAfter(pos + n)
    /\ sizep' = pos + n
    /\ ret' = <<"write", Len(w)>>

ao_memstream_write(w) ==
    /\ ~Wide
    /\ Call("open")
    /\ \/ /\ GrowFails(Len(w))
          /\ ret' = <<"write", 0>>
          /\ UNCHANGED <<cookie, memory, bufp, sizep>>
       \/ /\ Stays(Len(w)) \/ Grows(Len(w))
          /\ buf' = Stored(Room(Len(w)), pos, w)
          /\ Advance(Len(w), w)
    /\ UNCHANGED <<stage, failed>>

\* mbsnrtowcs (external) converts up to an embedded 0, which it stores and does
\* not count.
Converted(w) ==
    LET zeros == {i \in DOMAIN w : w[i] = 0}
    IN  IF zeros = {} THEN Len(w)
        ELSE (CHOOSE i \in zeros : \A j \in zeros : i <= j) - 1

Units(w) == SubSeq(w, 1, IF Converted(w) < Len(w) THEN Converted(w) + 1 ELSE Len(w))

\* It may also fail, having stored a few characters; then write returns 0 with
\* the cookie's position as it was.
ao_wmemstream_write(w) ==
    /\ Wide
    /\ Call("open")
    /\ \/ /\ GrowFails(Len(w))
          /\ ret' = <<"write", 0>>
          /\ UNCHANGED <<cookie, memory, bufp, sizep, failed>>
       \/ /\ Stays(Len(w)) \/ Grows(Len(w))
          /\ \/ /\ buf' = Stored(Room(Len(w)), pos, Units(w))
                /\ Advance(Converted(w), w)
                /\ UNCHANGED failed
             \/ \E n \in 0 .. Converted(w) - 1 :
                   /\ buf' = Stored(Room(Len(w)), pos, SubSeq(w, 1, n))
                   /\ failed' = TRUE
                   /\ ret' = <<"write", 0>>
                   /\ UNCHANGED <<pos, len, sizep>>
    /\ UNCHANGED stage

-----------------------------------------------------------------------------
(* seek and close.                                                         *)

SeekMax == IF Wide THEN max_chars ELSE SSizeMax

Base(whence) == <<0, pos, len>>[whence + 1]

\* Mutant: an offset from the position or the end is not bounded above.
Mutant_OutOfRange(offset, whence) ==
    offset < -Base(whence) \/ (whence = 0 /\ offset > SeekMax)

OutOfRange(offset, whence) == offset < -Base(whence) \/ offset > SeekMax - Base(whence)

ao_memstream_seek(offset, whence) ==
    /\ Call("open")
    /\ \/ /\ whence \notin 0 .. 2
          /\ ret' = <<"seek", -1>>
          /\ UNCHANGED pos
       \/ /\ whence \in 0 .. 2
          /\ OutOfRange(offset, whence)
          /\ ret' = <<"seek", -1>>
          /\ UNCHANGED pos
       \/ /\ whence \in 0 .. 2
          /\ ~OutOfRange(offset, whence)
          /\ pos' = Base(whence) + offset
          /\ ret' = <<"seek", pos'>>
    /\ UNCHANGED <<stage, len, space, memory, bufp, sizep, failed>>

\* The cookie is released; the buffer is the caller's.
ao_memstream_close ==
    /\ Call("open")
    /\ stage' = "closed"
    /\ live' = live \ {COOKIE}
    /\ UNCHANGED <<cookie, buf, block, bufp, sizep, ret, failed>>

-----------------------------------------------------------------------------
Init ==
    /\ stage = "none"
    /\ pos = 0 /\ len = 0 /\ space = 0
    /\ buf = [i \in {} |-> 0]
    /\ block = 1
    /\ bufp = -1 /\ sizep = 0     \* not yet set
    /\ live = {}
    /\ ret = <<"none", 0>>
    /\ failed = FALSE
    /\ calls = 0

Next ==
    \/ open
    \/ \E w \in Writes : ao_memstream_write(w) \/ ao_wmemstream_write(w)
    \/ \E offset \in Offsets, whence \in 0 .. 3 : ao_memstream_seek(offset, whence)
    \/ ao_memstream_close

Spec == Init /\ [][Next]_vars

-----------------------------------------------------------------------------
\* The state has its shape: the position is one that a seek may reach, and the
\* block has space units, or the first one.
TypeOK ==
    /\ stage \in {"none", "open", "closed"}
    /\ pos \in 0 .. SeekMax
    /\ space \in 0 .. SizeMax
    /\ len \in 0 .. SizeMax
    /\ DOMAIN buf = 0 .. (IF stage = "none" THEN 0
                          ELSE IF space = 0 THEN 1 ELSE space) - 1
    /\ block \in {1, 2}
    /\ failed \in BOOLEAN

\* The unit after the data, and all the spare ones, are 0: the caller's string
\* ends where the data ends, though no write stores a terminator, and what a
\* later write behind the end leaves out reads as zeros.  There is such a unit,
\* also after sizes that made the check of line 126 wrap.  A conversion that
\* failed half way (line 173) may have left units there.
TailIsZero ==
    stage # "none" =>
        /\ len \in DOMAIN buf
        /\ failed \/ \A i \in DOMAIN buf : i >= len => buf[i] = 0

\* The caller's pointer is the live block, from open until after close; nothing
\* else is live then but the cookie, until it is closed.
CallerHasBuffer ==
    /\ live = IF stage = "open" THEN {COOKIE, block}
              ELSE IF stage = "closed" THEN {block} ELSE {}
    /\ stage # "none" => bufp = block

Data == [i \in 0 .. len - 1 |-> buf[i]]

Abstract == INSTANCE OutputStream
               WITH data <- Data, size <- sizep, PosMax <- SeekMax

\* The narrow stream implements the abstract one: whatever the order of writes
\* and seeks, and wherever growth failed, the data is what was written, with
\* zeros between, and the published size is the position after the last write.
ImplementsStream == Abstract!Spec

=============================================================================
