--------------------------- MODULE MemStreamProofs ---------------------------
(***************************************************************************)
(* The memory streams of module MemStream, for every width of size_t and   *)
(* of wchar_t, every write and every way to seek: the block and its tail,  *)
(* what the caller holds, and that the narrow stream implements module     *)
(* OutputStream.                                                           *)
(***************************************************************************)
EXTENDS MemStream, WellFoundedInduction, TLAPS

\* What realloc granted is a size that a seek can reach; before open nothing has
\* happened; only a conversion leaves units behind.
Bounds ==
    /\ space <= SeekMax
    /\ stage = "none" => pos = 0 /\ len = 0 /\ space = 0 /\ sizep = 0
    /\ failed => Wide

Inv == TypeOK /\ Bounds /\ TailIsZero /\ CallerHasBuffer

-----------------------------------------------------------------------------
(* Arithmetic.                                                             *)

\* Every non-empty set of numbers has a least one.
LEMMA LeastNumber ==
    ASSUME NEW S \in SUBSET Nat, S # {}
    PROVE  \E m \in S : \A k \in S : m <= k
  <1> DEFINE R == OpToRel(<, Nat)
  <1>1. IsWellFoundedOn(R, Nat)
    BY NatLessThanWellFounded
  <1> HIDE DEF R
  <1>2. PICK m \in S : \A k \in S : ~(<<k, m>> \in R)
    BY <1>1, WFMin
  <1>3. \A k \in S : k < m => <<k, m>> \in R
    BY DEF R, OpToRel
  <1>4. \A k \in S : m <= k
    <2> SUFFICES ASSUME NEW k \in S PROVE m <= k
      OBVIOUS
    <2>1. ~(k < m)
      BY <1>2, <1>3
    <2>2. m \in Nat /\ k \in Nat
      OBVIOUS
    <2>3. QED
      BY <2>1, <2>2
  <1>5. QED
    BY <1>4

\* A size that fits does not wrap.
LEMMA NoWrap ==
    ASSUME NEW k \in 0 .. SizeMax
    PROVE  Wrap(k) = k
  <1>1. SizeMax \in Nat
    BY SizesAssumption
  <1>2. QED
    BY <1>1 DEF Wrap

\* The largest position is a size.
LEMMA Limits ==
    /\ SizeMax \in Nat /\ SSizeMax \in Nat /\ SSizeMax <= SizeMax
    /\ max_chars \in Nat /\ max_chars <= SSizeMax
    /\ SeekMax \in Nat /\ SeekMax <= SizeMax
  <1>1. /\ SizeMax \in Nat /\ SSizeMax \in Nat /\ SSizeMax <= SizeMax
        /\ UnitSize \in Nat /\ UnitSize > 0
    BY SizesAssumption
  <1>2. max_chars \in Nat /\ max_chars <= SSizeMax
    BY <1>1 DEF max_chars
  <1>3. QED
    BY <1>1, <1>2 DEF SeekMax

\* What mbsnrtowcs converts ends before the first 0.
LEMMA ConvertedUnits ==
    ASSUME NEW w \in Seq(Nat)
    PROVE  /\ Converted(w) \in 0 .. Len(w)
           /\ Converted(w) < Len(w) => w[Converted(w) + 1] = 0
  <1> DEFINE zeros == {i \in DOMAIN w : w[i] = 0}
  <1>1. Len(w) \in Nat /\ DOMAIN w = 1 .. Len(w)
    OBVIOUS
  <1>2. CASE zeros = {}
    BY <1>1, <1>2 DEF Converted
  <1>3. CASE zeros # {}
    <2>1. zeros \in SUBSET Nat
      BY <1>1
    <2> DEFINE first == CHOOSE i \in zeros : \A j \in zeros : i <= j
    <2>2. first \in zeros
      <3> HIDE DEF zeros
      <3>1. QED
        BY <1>3, <2>1, LeastNumber
    <2>3. Converted(w) = first - 1
      BY <1>3 DEF Converted
    <2>4. first \in 1 .. Len(w) /\ w[first] = 0
      BY <1>1, <2>2
    <2> HIDE DEF first
    <2>5. first - 1 \in 0 .. Len(w) /\ (first - 1) + 1 = first
      BY <1>1, <2>4
    <2>6. QED
      BY <2>3, <2>4, <2>5
  <1>4. QED
    BY <1>2, <1>3

-----------------------------------------------------------------------------
(* Growing and storing.                                                    *)

\* After grow has succeeded for n units, the block has room for them and one
\* more, the old units are where they were, and the new ones are 0.
LEMMA RoomFor ==
    ASSUME Inv, stage # "none", NEW n \in Nat,
           n < SizeMax - (IF Wide THEN max_chars ELSE 0),
           Stays(n) \/ Grows(n)
    PROVE  /\ space' \in Nat /\ space' <= SeekMax /\ space <= space'
           /\ pos + n + 1 <= space'
           /\ DOMAIN Room(n) = 0 .. space' - 1
           /\ \A i \in 0 .. space' - 1 :
                 Room(n)[i] = IF i < space THEN buf[i] ELSE 0
  <1>1. /\ pos \in Nat /\ pos <= SeekMax /\ space \in Nat /\ space <= SeekMax
        /\ space <= SizeMax
    BY Limits DEF Inv, TypeOK, Bounds
  <1>2. ~TooBig(n)
    BY DEF Stays, Grows
  <1>3. pos + n + 1 <= SizeMax
    <2>1. CASE Wide
      BY <1>1, <2>1, Limits DEF SeekMax
    <2>2. CASE ~Wide
      <3>1. SizeMax - n - 1 \in 0 .. SizeMax
        BY <2>2, Limits
      <3>2. Wrap(SizeMax - n - 1) = SizeMax - n - 1
        BY <3>1, NoWrap
      <3>3. ~(pos > SizeMax - n - 1)
        BY <1>2, <2>2, <3>2 DEF TooBig
      <3>4. QED
        BY <1>1, <3>1, <3>3, Limits
    <2>3. QED
      BY <2>1, <2>2
  <1>4. Required(n) = pos + n + 1
    <2>1. pos + n + 1 \in 0 .. SizeMax
      BY <1>1, <1>3, Limits
    <2>2. QED
      BY <2>1, NoWrap DEF Required
  <1>5. CASE Required(n) <= space
    <2>1. space' = space /\ Room(n) = buf
      BY <1>1, <1>4, <1>5 DEF Stays, Grows, Room
    <2>2. space # 0 /\ DOMAIN buf = 0 .. space - 1
      BY <1>1, <1>4, <1>5 DEF Inv, TypeOK
    <2>3. QED
      BY <1>1, <1>4, <1>5, <2>1, <2>2
  <1>6. CASE ~(Required(n) <= space)
    <2> DEFINE m == new_space(n)
    <2>1. space' = m /\ Room(n) = Grown(m)
          /\ ~(Wide /\ m > max_chars) /\ MayRealloc(m)
      BY <1>6 DEF Stays, Grows, Room
    <2>2. Doubled \in 0 .. SizeMax
      BY <1>1, Limits DEF Doubled
    <2>3. Required(n) \in 0 .. SizeMax
      BY <1>1, <1>3, <1>4, Limits
    <2>4. m \in 0 .. SizeMax /\ m >= Required(n)
      BY <2>2, <2>3, OrAssumption DEF new_space
    <2> HIDE DEF m
    <2>5. m \in Nat /\ m >= pos + n + 1 /\ m > space
      BY <1>1, <1>4, <1>6, <2>4, Limits
    <2>6. m <= SeekMax
      <3>1. CASE Wide
        BY <2>1, <2>5, <3>1, Limits DEF SeekMax
      <3>2. CASE ~Wide
        <4>1. m * UnitSize <= SSizeMax /\ UnitSize \in Nat /\ UnitSize >= 1
          BY <2>1, SizesAssumption DEF MayRealloc
        <4>2. m <= m * UnitSize
          BY <2>5, <4>1
        <4>3. m * UnitSize \in Nat
          BY <2>5, <4>1
        <4>4. QED
          BY <2>5, <3>2, <4>1, <4>2, <4>3, Limits DEF SeekMax
      <3>3. QED
        BY <3>1, <3>2
    <2>7. /\ DOMAIN Grown(m) = 0 .. m - 1
          /\ \A i \in 0 .. m - 1 : Grown(m)[i] =
                IF i >= space THEN 0 ELSE IF i \in DOMAIN buf THEN buf[i] ELSE JUNK
      BY DEF Grown, ClearFrom
    <2>8. \A i \in 0 .. m - 1 : i < space => i \in DOMAIN buf
      BY <1>1, <2>5 DEF Inv, TypeOK
    <2>9. \A i \in 0 .. m - 1 : Grown(m)[i] = IF i < space THEN buf[i] ELSE 0
      BY <1>1, <2>5, <2>7, <2>8
    <2>10. QED
      BY <1>1, <2>1, <2>5, <2>6, <2>7, <2>9
  <1>7. QED
    BY <1>5, <1>6

\* The effect of a call of write that stores the units u, of which it counts k:
\* the rest, if there is one, is a 0.
StoresUnits(n, u, k) ==
    /\ Stays(n) \/ Grows(n)
    /\ buf' = Stored(Room(n), pos, u)
    /\ \/ pos' = pos + k /\ len' = LenAfter(pos + k) /\ UNCHANGED failed
       \/ Wide /\ failed' = TRUE /\ UNCHANGED <<pos, len>>
    /\ UNCHANGED stage

\* A write stores inside the block and leaves zeros behind the data.
LEMMA WriteKeeps ==
    ASSUME Inv, stage = "open", NEW n \in Nat,
           n < SizeMax - (IF Wide THEN max_chars ELSE 0),
           NEW u \in Seq(Nat), NEW k \in Nat, k <= n, Len(u) <= n,
           Len(u) = k \/ (Len(u) = k + 1 /\ u[k + 1] = 0),
           StoresUnits(n, u, k)
    PROVE  Inv'
  <1>1. /\ pos \in Nat /\ pos <= SeekMax /\ space \in Nat /\ len \in Nat
        /\ space <= SizeMax /\ SeekMax \in Nat /\ SeekMax <= SizeMax
    BY Limits DEF Inv, TypeOK, Bounds
  <1>2. Stays(n) \/ Grows(n)
    BY DEF StoresUnits
  <1>3. /\ space' \in Nat /\ space' <= SeekMax /\ space <= space'
        /\ pos + n + 1 <= space'
        /\ DOMAIN Room(n) = 0 .. space' - 1
        /\ \A i \in 0 .. space' - 1 : Room(n)[i] = IF i < space THEN buf[i] ELSE 0
    BY <1>2, RoomFor
  <1>4. Len(u) \in Nat
    OBVIOUS
  <1>5. /\ DOMAIN buf' = 0 .. space' - 1
        /\ \A i \in 0 .. space' - 1 : buf'[i] =
              IF pos <= i /\ i < pos + Len(u) THEN u[i - pos + 1] ELSE Room(n)[i]
    BY <1>3 DEF StoresUnits, Stored
  <1>6. len < (IF space = 0 THEN 1 ELSE space)
    BY <1>1 DEF Inv, TypeOK, TailIsZero
  <1>7. /\ pos' \in Nat /\ pos' <= SeekMax /\ len' \in Nat /\ len' < space'
        /\ len <= len' /\ stage' = "open" /\ space' # 0
    <2>1. /\ stage' = "open" /\ space' # 0 /\ len < space'
          /\ space' \in Nat /\ space' <= SeekMax /\ pos + n + 1 <= space'
      BY <1>1, <1>3, <1>6 DEF StoresUnits
    <2>2. \/ pos' = pos + k /\ len' = IF pos + k >= len THEN pos + k ELSE len
          \/ pos' = pos /\ len' = len
      BY DEF StoresUnits, LenAfter
    <2>3. QED
      BY <1>1, <2>1, <2>2
  <1>8. /\ block' \in {1, 2} /\ bufp' = block' /\ live' = {COOKIE, block'}
    <2>1. block \in {1, 2} /\ bufp = block /\ live = {COOKIE, block}
      BY DEF Inv, TypeOK, CallerHasBuffer
    <2>2. CASE Stays(n)
      BY <2>1, <2>2 DEF Stays
    <2>3. CASE Grows(n)
      <3>1. PICK b \in {block, 3 - block} : block' = b /\ live' = {COOKIE, b} /\ bufp' = b
        BY <2>3 DEF Grows, Publish
      <3>2. QED
        BY <2>1, <3>1
    <2>4. QED
      BY <1>2, <2>2, <2>3
  <1>9. failed' \in BOOLEAN
    BY DEF Inv, TypeOK, StoresUnits
  <1>10. failed' \/ \A i \in DOMAIN buf' : i >= len' => buf'[i] = 0
    <2> SUFFICES ASSUME failed' = FALSE, NEW i \in 0 .. space' - 1, i >= len'
                 PROVE  buf'[i] = 0
      BY <1>5, <1>9
    <2>1. failed = FALSE /\ len' >= pos + k
      BY <1>1 DEF StoresUnits, LenAfter, Inv, TypeOK
    <2>2. i \in Nat /\ i >= len /\ i >= pos + k
      BY <1>1, <1>3, <1>7, <2>1
    <2>3. CASE i < pos + Len(u)
      <3>1. Len(u) = k + 1 /\ i - pos + 1 = k + 1
        BY <1>1, <1>4, <2>2, <2>3
      <3>2. QED
        BY <1>1, <1>5, <2>2, <2>3, <3>1
    <2>4. CASE ~(i < pos + Len(u))
      <3>1. buf'[i] = IF i < space THEN buf[i] ELSE 0
        BY <1>3, <1>5, <2>4
      <3>2. i < space => i \in DOMAIN buf
        BY <1>1, <2>2 DEF Inv, TypeOK
      <3>3. QED
        BY <2>1, <2>2, <3>1, <3>2 DEF Inv, TailIsZero
    <2>5. QED
      BY <2>3, <2>4
  <1>11. TypeOK'
    BY <1>1, <1>3, <1>5, <1>7, <1>8, <1>9, Limits DEF TypeOK, SeekMax
  <1>12. Bounds' /\ CallerHasBuffer'
    <2>1. failed' => Wide
      BY DEF Inv, Bounds, StoresUnits
    <2>2. QED
      BY <1>3, <1>7, <1>8, <2>1 DEF Bounds, CallerHasBuffer, SeekMax
  <1>13. TailIsZero'
    <2>1. len' \in DOMAIN buf'
      BY <1>3, <1>5, <1>7
    <2>2. QED
      BY <1>10, <2>1 DEF TailIsZero
  <1>14. QED
    BY <1>11, <1>12, <1>13 DEF Inv

-----------------------------------------------------------------------------
(* The steps.                                                              *)

\* open.
LEMMA OpenStep ==
    ASSUME Inv, open
    PROVE  Inv' /\ stage = "none" /\ pos' = 0 /\ len' = 0 /\ sizep' = 0 /\ ret' = ret
  <1> USE DEF cookie, memory
  <1>1. /\ stage = "none" /\ pos = 0 /\ len = 0 /\ space = 0 /\ sizep = 0
        /\ UNCHANGED <<ret, failed>>
    BY DEF Inv, Bounds, open, Call
  <1>2. CASE UNCHANGED <<stage, cookie, memory>>
    BY <1>1, <1>2 DEF open, Inv, TypeOK, Bounds, TailIsZero, CallerHasBuffer, SeekMax
  <1>3. CASE /\ bufp' = 1 /\ sizep' = 0 /\ stage' = "open"
             /\ pos' = 0 /\ len' = 0 /\ space' = 0
             /\ buf' = [i \in {0} |-> 0] /\ block' = 1 /\ live' = {COOKIE, 1}
    <2>1. DOMAIN buf' = {0} /\ buf'[0] = 0 /\ 0 .. (1 - 1) = {0}
      BY <1>3
    <2>2. TypeOK' /\ Bounds'
      BY <1>1, <1>3, <2>1, Limits DEF Inv, TypeOK, Bounds, SeekMax
    <2>3. TailIsZero' /\ CallerHasBuffer'
      BY <1>3, <2>1 DEF TailIsZero, CallerHasBuffer
    <2>4. QED
      BY <1>1, <1>3, <2>2, <2>3 DEF Inv
  <1>4. QED
    BY <1>1, <1>2, <1>3 DEF open

\* A write that changes nothing but the answer.
LEMMA RefusedStep ==
    ASSUME Inv, UNCHANGED <<stage, cookie, memory, bufp, sizep, failed>>
    PROVE  Inv'
  BY DEF cookie, memory, Inv, TypeOK, Bounds, TailIsZero, CallerHasBuffer, SeekMax

\* The narrow write.
LEMMA WriteStep ==
    ASSUME Inv, NEW w \in Writes, ao_memstream_write(w)
    PROVE  Inv'
  <1>1. /\ w \in Seq(Nat) /\ Len(w) \in Nat
        /\ Len(w) < SizeMax - (IF Wide THEN max_chars ELSE 0)
    BY WritesAssumption
  <1>2. stage = "open"
    BY DEF ao_memstream_write, Call
  <1>3. CASE UNCHANGED <<cookie, memory, bufp, sizep>>
    BY <1>3, RefusedStep DEF ao_memstream_write
  <1>4. CASE StoresUnits(Len(w), w, Len(w))
    BY <1>1, <1>2, <1>4, WriteKeeps
  <1>5. QED
    BY <1>3, <1>4 DEF ao_memstream_write, Advance, StoresUnits

\* The wide write, also when the conversion stops or fails.
LEMMA WideWriteStep ==
    ASSUME Inv, NEW w \in Writes, ao_wmemstream_write(w)
    PROVE  Inv'
  <1>1. /\ w \in Seq(Nat) /\ Len(w) \in Nat
        /\ Len(w) < SizeMax - (IF Wide THEN max_chars ELSE 0)
    BY WritesAssumption
  <1>2. stage = "open" /\ Wide
    BY DEF ao_wmemstream_write, Call
  <1>3. /\ Converted(w) \in 0 .. Len(w)
        /\ Converted(w) < Len(w) => w[Converted(w) + 1] = 0
    BY <1>1, ConvertedUnits
  <1>4. CASE UNCHANGED <<cookie, memory, bufp, sizep, failed>>
    BY <1>4, RefusedStep DEF ao_wmemstream_write
  <1>5. CASE StoresUnits(Len(w), Units(w), Converted(w))
    <2> DEFINE k == Converted(w)
               m == IF k < Len(w) THEN k + 1 ELSE Len(w)
    <2>1. k \in Nat /\ k <= Len(w) /\ m \in Nat /\ m <= Len(w) /\ (m = k \/ m = k + 1)
      BY <1>1, <1>3
    <2>2. Units(w) = SubSeq(w, 1, m)
      BY DEF Units
    <2>3. m = k + 1 => k < Len(w) /\ w[k + 1] = 0
      BY <1>1, <1>3
    <2> HIDE DEF m
    <2>4. /\ Units(w) \in Seq(Nat) /\ Len(Units(w)) = m
          /\ \A i \in 1 .. m : Units(w)[i] = w[i]
      BY <1>1, <2>1, <2>2
    <2> HIDE DEF k
    <2>5. Len(Units(w)) = k \/ (Len(Units(w)) = k + 1 /\ Units(w)[k + 1] = 0)
      BY <2>1, <2>3, <2>4
    <2>6. QED
      BY <1>1, <1>2, <1>5, <2>1, <2>4, <2>5, WriteKeeps DEF k
  <1>6. ASSUME NEW n \in 0 .. Converted(w) - 1, StoresUnits(Len(w), SubSeq(w, 1, n), n)
        PROVE  Inv'
    <2>1. n \in Nat /\ n <= Len(w)
      BY <1>1, <1>3
    <2>2. SubSeq(w, 1, n) \in Seq(Nat) /\ Len(SubSeq(w, 1, n)) = n
      BY <1>1, <2>1
    <2>3. QED
      BY <1>1, <1>2, <1>6, <2>1, <2>2, WriteKeeps
  <1>7. QED
    BY <1>2, <1>4, <1>5, <1>6 DEF ao_wmemstream_write, Advance, StoresUnits

\* The position after a seek is in range.
LEMMA SeekStep ==
    ASSUME Inv, NEW offset \in Offsets, NEW whence \in 0 .. 3,
           ao_memstream_seek(offset, whence)
    PROVE  /\ Inv' /\ UNCHANGED <<len, buf, sizep>>
           /\ \/ ret' = <<"seek", -1>> /\ pos' = pos
              \/ \E base \in {0, pos, len} :
                    /\ base + offset \in 0 .. SeekMax
                    /\ pos' = base + offset /\ ret' = <<"seek", pos'>>
  <1>1. UNCHANGED <<stage, len, space, memory, bufp, sizep, failed>> /\ stage = "open"
    BY DEF ao_memstream_seek, Call
  <1>2. /\ pos \in 0 .. SeekMax /\ len \in Nat /\ len <= SizeMax /\ SeekMax \in Nat
        /\ offset \in Int
    BY Limits, OffsetsAssumption DEF Inv, TypeOK
  <1>3. pos' \in 0 .. SeekMax => Inv'
    BY <1>1, <1>2 DEF memory, Inv, TypeOK, Bounds, TailIsZero, CallerHasBuffer, SeekMax
  <1>4. CASE ret' = <<"seek", -1>> /\ pos' = pos
    BY <1>1, <1>2, <1>3, <1>4 DEF memory
  <1>5. CASE /\ whence \in 0 .. 2 /\ ~OutOfRange(offset, whence)
             /\ pos' = Base(whence) + offset /\ ret' = <<"seek", pos'>>
    <2>1. Base(whence) \in {0, pos, len}
      BY <1>5 DEF Base
    <2>2. Base(whence) + offset \in 0 .. SeekMax
      BY <1>2, <1>5, <2>1 DEF OutOfRange
    <2>3. QED
      BY <1>1, <1>3, <1>5, <2>1, <2>2 DEF memory
  <1>6. QED
    BY <1>4, <1>5 DEF ao_memstream_seek

\* close.
LEMMA CloseStep ==
    ASSUME Inv, ao_memstream_close
    PROVE  Inv' /\ UNCHANGED <<pos, len, buf, sizep, ret>>
  <1>1. /\ stage = "open" /\ stage' = "closed" /\ live' = live \ {COOKIE}
        /\ UNCHANGED <<cookie, buf, block, bufp, sizep, ret, failed>>
    BY DEF ao_memstream_close, Call
  <1>2. live' = {block}
    BY <1>1 DEF Inv, CallerHasBuffer, TypeOK, COOKIE
  <1>3. QED
    BY <1>1, <1>2 DEF cookie, Inv, TypeOK, Bounds, TailIsZero, CallerHasBuffer, SeekMax

\* The invariant holds in every state.
THEOREM Invariance == Spec => []Inv
  <1>1. Init => Inv
    <2> SUFFICES ASSUME Init PROVE Inv
      OBVIOUS
    <2>1. DOMAIN buf = 0 .. (0 - 1)
      BY DEF Init
    <2>2. TypeOK
      <3>1. /\ stage = "none" /\ pos = 0 /\ len = 0 /\ space = 0 /\ block = 1
            /\ failed \in BOOLEAN
        BY DEF Init
      <3>2. 0 \in 0 .. SeekMax /\ 0 \in 0 .. SizeMax
        BY Limits
      <3>3. QED
        BY <2>1, <3>1, <3>2 DEF TypeOK
    <2>3. Bounds /\ TailIsZero /\ CallerHasBuffer
      BY Limits DEF Init, Bounds, TailIsZero, CallerHasBuffer
    <2>4. QED
      BY <2>2, <2>3 DEF Inv
  <1>2. Inv /\ [Next]_vars => Inv'
    <2> SUFFICES ASSUME Inv, [Next]_vars PROVE Inv'
      OBVIOUS
    <2>1. CASE open
      BY <2>1, OpenStep
    <2>2. ASSUME NEW w \in Writes, ao_memstream_write(w) \/ ao_wmemstream_write(w)
          PROVE  Inv'
      BY <2>2, WriteStep, WideWriteStep
    <2>3. ASSUME NEW offset \in Offsets, NEW whence \in 0 .. 3,
                 ao_memstream_seek(offset, whence)
          PROVE  Inv'
      BY <2>3, SeekStep
    <2>4. CASE ao_memstream_close
      BY <2>4, CloseStep
    <2>5. CASE UNCHANGED vars
      BY <2>5, RefusedStep DEF vars
    <2>6. QED
      BY <2>1, <2>2, <2>3, <2>4, <2>5 DEF Next
  <1>3. QED
    BY <1>1, <1>2, PTL DEF Spec

\* The position stays where a seek could put it, and the block has its size.
THEOREM TypeCorrect == Spec => []TypeOK
  BY Invariance, PTL DEF Inv

\* There is always a unit after the data, and without a failed conversion it and
\* all behind it are 0.
THEOREM TailStaysZero == Spec => []TailIsZero
  BY Invariance, PTL DEF Inv

\* The caller's pointer is the live block, and nothing else stays allocated.
THEOREM CallerKeepsBuffer == Spec => []CallerHasBuffer
  BY Invariance, PTL DEF Inv

-----------------------------------------------------------------------------
(* The narrow stream implements the abstract one.                          *)

\* An interval from 0 determines its length.
LEMMA SameInterval ==
    ASSUME NEW a \in Nat, NEW b \in Nat, 0 .. a - 1 = 0 .. b - 1
    PROVE  a = b
  <1>1. a \notin 0 .. a - 1 /\ b \notin 0 .. b - 1
    OBVIOUS
  <1>2. CASE a < b
    BY <1>1, <1>2
  <1>3. CASE b < a
    BY <1>1, <1>3
  <1>4. QED
    BY <1>2, <1>3

\* A longer interval has the numbers of a shorter one.
LEMMA WiderInterval ==
    \A a, b \in Nat : a <= b => \A i \in 0 .. a - 1 : i \in 0 .. b - 1 /\ i \in Nat
  OBVIOUS

\* The length of the abstract data is the cookie's len.
LEMMA DataLength ==
    ASSUME Inv
    PROVE  /\ Abstract!Length(Data) = len
           /\ len \in Nat /\ len <= SeekMax /\ DOMAIN Data = 0 .. len - 1
           /\ \A i \in 0 .. len - 1 : Data[i] = buf[i]
  <1>1. len \in Nat /\ len <= SeekMax /\ SeekMax \in Nat
    <2>1. len \in Nat /\ space \in Nat /\ space <= SeekMax /\ SeekMax \in Nat
      BY Limits DEF Inv, TypeOK, Bounds
    <2>2. CASE stage = "none"
      BY <2>1, <2>2 DEF Inv, Bounds
    <2>3. CASE stage # "none"
      BY <2>1, <2>3 DEF Inv, TypeOK, TailIsZero
    <2>4. QED
      BY <2>1, <2>2, <2>3
  <1>2. DOMAIN Data = 0 .. len - 1 /\ \A i \in 0 .. len - 1 : Data[i] = buf[i]
    BY DEF Data
  <1>3. len \in 0 .. 2 * SeekMax
    BY <1>1
  <1>4. \A m \in 0 .. 2 * SeekMax : DOMAIN Data = 0 .. m - 1 => m = len
    BY <1>1, <1>2, SameInterval
  <1>5. Abstract!Length(Data) = len
    <2> DEFINE d == Data
    <2> HIDE DEF d
    <2>1. Abstract!Length(d) = CHOOSE m \in 0 .. 2 * SeekMax : DOMAIN d = 0 .. m - 1
      BY DEF Abstract!Length
    <2>2. QED
      BY <1>2, <1>3, <1>4, <2>1 DEF d
  <1>6. QED
    BY <1>1, <1>2, <1>5

\* A write that succeeds overlays the data.
LEMMA WriteOverlays ==
    ASSUME Inv, Inv', ~Wide, stage = "open", NEW w \in Writes,
           Stays(Len(w)) \/ Grows(Len(w)),
           buf' = Stored(Room(Len(w)), pos, w), len' = LenAfter(pos + Len(w))
    PROVE  Data' = Abstract!Overlay(Data, len, pos, w)
  <1> DEFINE n == Len(w)
  <1>1. /\ w \in Seq(Nat) /\ n \in Nat /\ n < SizeMax - (IF Wide THEN max_chars ELSE 0)
        /\ pos \in Nat /\ space \in Nat /\ len \in Nat /\ len' \in Nat
        /\ failed = FALSE
    BY WritesAssumption, Limits DEF Inv, TypeOK, Bounds
  <1>2. /\ space' \in Nat /\ pos + n + 1 <= space'
        /\ DOMAIN Room(n) = 0 .. space' - 1
        /\ \A i \in 0 .. space' - 1 : Room(n)[i] = IF i < space THEN buf[i] ELSE 0
    BY <1>1, RoomFor
  <1>3. \A i \in 0 .. space' - 1 : buf'[i] =
              IF pos <= i /\ i < pos + n THEN w[i - pos + 1] ELSE Room(n)[i]
    BY <1>2 DEF Stored
  <1>4. /\ len' = (IF pos + n >= len THEN pos + n ELSE len)
        /\ DOMAIN Data' = 0 .. len' - 1
        /\ \A i \in 0 .. len' - 1 : Data'[i] = buf'[i]
    BY DEF LenAfter, Data
  <1>5. len' <= space' /\ (len <= space \/ (space = 0 /\ len = 0))
    <2>1. DOMAIN buf = 0 .. (IF space = 0 THEN 1 ELSE space) - 1 /\ len \in DOMAIN buf
      BY DEF Inv, TypeOK, TailIsZero
    <2>2. len <= space \/ (space = 0 /\ len = 0)
      BY <1>1, <2>1
    <2>3. space <= space'
      BY <1>1, RoomFor
    <2>4. QED
      BY <1>1, <1>2, <1>4, <2>2, <2>3
  <1>6. \A i \in Nat : i < space /\ i >= len => buf[i] = 0
    <2>1. \A i \in DOMAIN buf : i >= len => buf[i] = 0
      BY <1>1 DEF Inv, TailIsZero
    <2>2. space \in Nat /\ space # 0 => DOMAIN buf = 0 .. space - 1
      BY DEF Inv, TypeOK
    <2>3. QED
      BY <1>1, <2>1, <2>2
  <1> DEFINE o == Abstract!Overlay(Data, len, pos, w)
  <1>7. /\ o = [i \in 0 .. len' - 1 |->
                  IF pos <= i /\ i < pos + n THEN w[i - pos + 1]
                  ELSE IF i < len THEN Data[i] ELSE 0]
    BY <1>4 DEF Abstract!Overlay
  <1> HIDE DEF o, n
  <1>8. ASSUME NEW i \in 0 .. len' - 1
        PROVE  Data'[i] = o[i]
    <2>1. i \in 0 .. space' - 1 /\ i \in Nat
      <3>1. space' \in Nat /\ len' \in Nat /\ len' <= space'
        BY <1>1, <1>2, <1>5
      <3>2. QED
        BY <1>8, <3>1, WiderInterval, Zenon
    <2>2. CASE pos <= i /\ i < pos + n
      BY <1>3, <1>4, <1>7, <2>1, <2>2
    <2>3. CASE ~(pos <= i /\ i < pos + n) /\ i < len
      <3>1. i < space /\ Data[i] = buf[i]
        BY <1>1, <1>5, <2>1, <2>3, DataLength
      <3>2. QED
        BY <1>2, <1>3, <1>4, <1>7, <2>1, <2>3, <3>1
    <2>4. CASE ~(pos <= i /\ i < pos + n) /\ ~(i < len)
      <3>1. Room(n)[i] = 0
        <4>1. Room(n)[i] = IF i < space THEN buf[i] ELSE 0
          BY <1>2, <2>1
        <4>2. i >= len
          BY <1>1, <2>1, <2>4
        <4>3. QED
          BY <1>6, <2>1, <4>1, <4>2
      <3>2. QED
        BY <1>3, <1>4, <1>7, <2>1, <2>4, <3>1
    <2>5. QED
      BY <2>2, <2>3, <2>4
  <1>9. Data' = [i \in 0 .. len' - 1 |-> Data'[i]] /\ o = [i \in 0 .. len' - 1 |-> o[i]]
    BY <1>7 DEF Data
  <1>10. QED
    BY <1>8, <1>9 DEF o

\* Every step of the narrow stream is a step of the abstract one, or leaves it
\* alone.
LEMMA StepSimulation ==
    ASSUME ~Wide, Inv, Inv', [Next]_vars
    PROVE  [Abstract!Next]_(Abstract!vars)
  <1> USE DEF Abstract!vars
  <1>1. /\ Abstract!Length(Data) = len
        /\ len \in Nat /\ DOMAIN Data = 0 .. len - 1
    BY DataLength
  <1>2. ASSUME UNCHANGED <<len, buf>> PROVE Data' = Data
    BY <1>2 DEF Data
  <1>3. CASE open
    <2>1. stage = "none" /\ pos' = 0 /\ len' = 0 /\ sizep' = 0 /\ ret' = ret
      BY <1>3, OpenStep
    <2>2. len = 0 /\ pos = 0 /\ sizep = 0
      BY <2>1 DEF Inv, Bounds
    <2>3. Data' = Data
      BY <2>1, <2>2 DEF Data
    <2>4. QED
      BY <2>1, <2>2, <2>3
  <1>4. ASSUME NEW w \in Writes, ao_memstream_write(w) \/ ao_wmemstream_write(w)
        PROVE  Abstract!Next
    <2>1. stage = "open" /\ ao_memstream_write(w)
      BY <1>4 DEF ao_memstream_write, ao_wmemstream_write, Call
    <2>2. CASE /\ ret' = <<"write", 0>>
               /\ UNCHANGED <<cookie, memory, bufp, sizep>>
      <3>1. Abstract!Write(w)
        BY <1>2, <2>2 DEF Abstract!Write, cookie, memory
      <3>2. QED
        BY <3>1 DEF Abstract!Next
    <2>3. CASE /\ Stays(Len(w)) \/ Grows(Len(w))
               /\ buf' = Stored(Room(Len(w)), pos, w)
               /\ Advance(Len(w), w)
      <3>1. Data' = Abstract!Overlay(Data, len, pos, w)
        BY <2>1, <2>3, WriteOverlays DEF Advance
      <3>2. Abstract!Write(w)
        BY <1>1, <2>3, <3>1 DEF Abstract!Write, Advance
      <3>3. QED
        BY <3>2 DEF Abstract!Next
    <2>4. QED
      BY <2>1, <2>2, <2>3 DEF ao_memstream_write
  <1>5. ASSUME NEW offset \in Offsets, NEW whence \in 0 .. 3,
               ao_memstream_seek(offset, whence)
        PROVE  Abstract!Next
    <2>1. /\ UNCHANGED <<len, buf, sizep>>
          /\ \/ ret' = <<"seek", -1>> /\ pos' = pos
             \/ \E base \in {0, pos, len} :
                   /\ base + offset \in 0 .. SeekMax
                   /\ pos' = base + offset /\ ret' = <<"seek", pos'>>
      BY <1>5, SeekStep
    <2>2. Data' = Data
      BY <1>2, <2>1
    <2>3. Abstract!Seek(offset)
      BY <1>1, <2>1, <2>2 DEF Abstract!Seek
    <2>4. QED
      BY <2>3 DEF Abstract!Next
  <1>6. CASE ao_memstream_close
    BY <1>2, <1>6, CloseStep
  <1>7. CASE UNCHANGED vars
    BY <1>2, <1>7 DEF vars, cookie, memory
  <1>8. QED
    BY <1>3, <1>4, <1>5, <1>6, <1>7 DEF Next

\* Whatever the order of writes and seeks, and wherever growth failed, the narrow
\* stream holds what was written, with zeros between, and publishes the position
\* after the last write.
THEOREM NarrowImplementsStream == ~Wide => (Spec => ImplementsStream)
  <1> SUFFICES ASSUME ~Wide PROVE Spec => ImplementsStream
    OBVIOUS
  <1>1. Init => Abstract!Init
    BY DEF Init, Abstract!Init, Data
  <1>2. Inv /\ Inv' /\ [Next]_vars => [Abstract!Next]_(Abstract!vars)
    BY StepSimulation
  <1>3. QED
    BY Invariance, <1>1, <1>2, PTL DEF Spec, ImplementsStream, Abstract!Spec

=============================================================================
