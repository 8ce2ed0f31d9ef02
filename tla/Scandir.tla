------------------------------- MODULE Scandir -------------------------------
(***************************************************************************)
(* dirent_overrides.c: one call of scandir (or of scandir64, whose text is *)
(* the same).  The directory stream, the caller's sel and cmp, and the     *)
(* allocator are external.  An entry is a number, the one cmp orders by.   *)
(*                                                                         *)
(* The function has one way to know that its loop ended early: errno,      *)
(* which it reads after closedir and which everybody it calls may set.     *)
(***************************************************************************)
EXTENDS Integers, Sequences, Functions

CONSTANTS
    Directories,   \* what readdir may go through: sequences of different entries
    Errors,        \* the values a failing call may leave in errno
    ENOMEM,        \* the one among them that a failing malloc leaves
    PointersMax,   \* SIZE_MAX / sizeof(*names)
    IntMax         \* INT_MAX

ASSUME ScandirAssumption ==
    /\ Directories \subseteq Seq(Int)
    /\ Errors \subseteq Nat \ {0} /\ ENOMEM \in Errors
    /\ PointersMax \in Nat /\ IntMax \in Nat

VARIABLES
    dir, at,             \* the entries of the stream, and how many were read
    chosen, cmp,         \* the entries sel accepts; whether there is a cmp
    names, room,         \* the array: its entries, and the pointers it has room for
    capacity,            \* the local variable
    errno, old_errno,
    live,                \* the blocks allocated by the call and not freed
    res, result,         \* *res and the value returned, once the call is over
    cause,               \* history: which steps of the loop did not succeed
    pc

stream == <<dir, at>>
caller == <<chosen, cmp>>
array  == <<names, room, capacity>>
output == <<res, result>>
vars   == <<stream, caller, array, errno, old_errno, live, output, cause, pc>>

NAMES == 0         \* the array's block; the entries have theirs, from 1 on
NULL  == <<>>      \* *res when nothing was published or the array is empty

-----------------------------------------------------------------------------
\* opendir may leave anything in errno when it succeeds.
opendir ==
    /\ pc = "call"
    /\ \/ /\ errno' \in Errors
          /\ result' = -1
          /\ cause' = {"open"}
          /\ pc' = "failed"
          /\ UNCHANGED old_errno
       \/ /\ errno' \in {errno} \cup Errors
          /\ old_errno' = errno'
          /\ pc' = "loop"
          /\ UNCHANGED <<result, cause>>
    /\ UNCHANGED <<stream, caller, array, live, res>>

\* Mutant: errno is not cleared before readdir.
Mutant_Cleared == errno

\* errno when readdir is called, and after it unless it fails.
Cleared == 0

\* The next entry, the end of the directory, or an error.
readdir ==
    /\ pc = "loop"
    /\ \/ /\ at < Len(dir)
          /\ at' = at + 1
          /\ errno' = Cleared
          /\ pc' = "sel"
          /\ UNCHANGED cause
       \/ /\ at = Len(dir)
          /\ errno' = Cleared
          /\ pc' = "close"
          /\ UNCHANGED <<at, cause>>
       \/ /\ errno' \in Errors
          /\ cause' = cause \cup {"read"}
          /\ pc' = "close"
          /\ UNCHANGED at
    /\ UNCHANGED <<dir, caller, array, old_errno, live, output>>

\* The caller's filter, which may leave anything but zero in errno.
sel ==
    /\ pc = "sel"
    /\ errno' \in {errno} \cup Errors
    /\ pc' = IF dir[at] \in chosen THEN "store" ELSE "loop"
    /\ UNCHANGED <<stream, caller, array, old_errno, live, output, cause>>

\* Mutant: the array grows one entry too late.
Mutant_Full == Len(names) > capacity

Full == Len(names) >= capacity

\* The array doubles. Neither end of the loop here frees anything; the first one
\* also leaves errno alone.
grow ==
    /\ pc = "store"
    /\ Full
    /\ capacity' = 2 * capacity + 1
    /\ \/ /\ capacity' > PointersMax
          /\ cause' = cause \cup {"limit"}
          /\ pc' = "close"
          /\ UNCHANGED <<room, live, errno>>
       \/ /\ capacity' <= PointersMax
          /\ errno' = ENOMEM
          /\ cause' = cause \cup {"memory"}
          /\ pc' = "close"
          /\ UNCHANGED <<room, live>>
       \/ /\ capacity' <= PointersMax
          /\ room' = capacity'
          /\ live' = live \cup {NAMES}
          /\ UNCHANGED <<errno, cause, pc>>
    /\ UNCHANGED <<stream, caller, names, old_errno, output>>

\* A copy of the entry goes to the end of the array.
store ==
    /\ pc = "store"
    /\ ~Full
    /\ \/ /\ errno' = ENOMEM
          /\ cause' = cause \cup {"memory"}
          /\ pc' = "close"
          /\ UNCHANGED <<names, live>>
       \/ /\ names' = Append(names, dir[at])
          /\ live' = live \cup {Len(names) + 1}
          /\ pc' = "loop"
          /\ UNCHANGED <<errno, cause>>
    /\ UNCHANGED <<stream, caller, room, capacity, old_errno, output>>

\* Mutant: errno is that of closedir.
Mutant_AfterClose(e) == e

\* errno after closedir, which sets it to e when it fails and never clears it.
AfterClose(e) == IF e = 0 THEN errno ELSE e

closedir ==
    /\ pc = "close"
    /\ \E e \in {0} \cup Errors :
          /\ errno' = AfterClose(e)
          /\ cause' = IF e = 0 THEN cause ELSE cause \cup {"close"}
    /\ pc' = "decide"
    /\ UNCHANGED <<stream, caller, array, old_errno, live, output>>

\* Mutant: the first entry is not freed.
Mutant_Freed == {NAMES} \cup 2 .. Len(names)

\* What a failing call frees; free(NULL) is harmless.
Freed == {NAMES} \cup 1 .. Len(names)

fail ==
    /\ pc = "decide"
    /\ errno # 0
    /\ live' = live \ Freed
    /\ result' = -1
    /\ pc' = "failed"
    /\ UNCHANGED <<stream, caller, array, errno, old_errno, res, cause>>

\* The value of type int that count is converted to.
ToInt(count) == LET m == count % (2 * (IntMax + 1))
                IN  IF m <= IntMax THEN m ELSE m - 2 * (IntMax + 1)

\* What qsort may make of s: a rearrangement of it, in the order of cmp.
qsort(s) ==
    {o \in {[i \in DOMAIN s |-> s[p[i]]] : p \in Bijection(DOMAIN s, DOMAIN s)} :
        \A i, j \in DOMAIN s : i < j => o[i] <= o[j]}

\* qsort calls cmp, which may leave anything but zero in errno.
succeed ==
    /\ pc = "decide"
    /\ errno = 0
    /\ errno' \in {old_errno} \cup (IF cmp THEN Errors ELSE {})
    /\ names' \in IF cmp THEN qsort(names) ELSE {names}
    /\ res' = names'
    /\ result' = ToInt(Len(names))
    /\ pc' = "succeeded"
    /\ UNCHANGED <<stream, caller, room, capacity, old_errno, live, cause>>

-----------------------------------------------------------------------------
Init ==
    /\ dir \in Directories
    /\ at = 0
    /\ chosen \in SUBSET {dir[i] : i \in DOMAIN dir}
    /\ cmp \in BOOLEAN
    /\ names = <<>> /\ room = 0 /\ capacity = 0
    /\ errno \in {0} \cup Errors
    /\ old_errno = errno
    /\ live = {}
    /\ res = NULL /\ result = 0
    /\ cause = {}
    /\ pc = "call"

Next == opendir \/ readdir \/ sel \/ grow \/ store \/ closedir \/ fail \/ succeed

Spec == Init /\ [][Next]_vars

-----------------------------------------------------------------------------
\* The places, among the first k entries, of those that sel accepts.
Accepted(k) == {i \in 1 .. k : dir[i] \in chosen}

\* Memory is all or nothing: a call that fails, wherever it does, has freed every
\* block it got (lines 56-59), one that succeeds leaves the array and one block
\* for each entry, for the caller to free; no entry is stored past the array.
AllOrNothing ==
    /\ Len(names) <= room
    /\ pc = "failed" => live = {}
    /\ pc = "succeeded" =>
          live = IF res = NULL THEN {} ELSE {NAMES} \cup 1 .. Len(res)

\* The one test of errno (line 55) tells failures from ends of the directory: a
\* call fails only if a step of it did, not because sel left something in errno,
\* and then with an error in errno, ENOMEM if no more than memory ran out (at the
\* limit of the array the error may still be one that sel left). A call that
\* succeeds has hidden no failure but that of the array at its limit, returns the
\* number of entries while an int can hold it, and gives the caller the errno from
\* before the loop unless cmp set it.
FailuresTold ==
    /\ pc = "failed" =>
          /\ cause # {} /\ errno \in Errors /\ result = -1
          /\ cause = {"memory"} => errno = ENOMEM
    /\ pc = "succeeded" =>
          /\ cause \subseteq {"limit"}
          /\ result = Len(res) \/ Len(res) > IntMax
          /\ cmp \/ errno = old_errno

\* A call that succeeds returns every entry that sel accepts, once, in the order
\* of cmp if there is one and of the directory if not, whatever failed on the way:
\* it never passes off part of a directory as all of it. The exception is an array
\* that cannot grow further, when the entry that did not fit and those after it
\* are missing. (place[i] is where the directory has the entry number i.)
NothingMissing ==
    pc = "succeeded" =>
        \E place \in Bijection(DOMAIN res,
                               Accepted(IF "limit" \in cause THEN at - 1 ELSE Len(dir))) :
            /\ \A i \in DOMAIN res : res[i] = dir[place[i]]
            /\ \A i, j \in DOMAIN res : i < j =>
                  IF cmp THEN res[i] <= res[j] ELSE place[i] < place[j]

=============================================================================
