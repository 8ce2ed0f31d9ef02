------------------------------ MODULE LineReader ------------------------------
(***************************************************************************)
(* line_overrides.c: getdelim (and __getdelim and getline, which call it)  *)
(* on several threads that read one FILE, each into a buffer of its own.   *)
(* The stream, its lock and realloc are external.  Characters are members  *)
(* of a set; the text left to read and the position in it stand for the    *)
(* FILE.                                                                   *)
(***************************************************************************)
EXTENDS Naturals, Sequences

CONSTANTS
    Threads,
    Chars,      \* the characters
    Texts,      \* what the stream may hold
    Delim,      \* the delimiter
    Buffers,    \* capacities of the blocks callers bring along
    SizeMax,    \* SIZE_MAX
    NONE,       \* no block, nobody, no terminator
    MaxCalls    \* bound on the number of calls of a behaviour

ASSUME ReaderAssumption ==
    /\ Texts \subseteq Seq(Chars)
    /\ SizeMax \in Nat \ {0, 1} /\ Buffers \subseteq Nat
    /\ NONE \notin Threads /\ NONE \notin Seq(Chars \cup {NONE})

VARIABLES
    text, at,      \* the stream: what it holds, and how much of it is consumed
    error,         \* its error indicator, which nobody clears
    lock,          \* the thread that has locked it
    s, cap, n,     \* per thread: *s as a sequence of characters or NONE, the real
                   \* capacity of its block, and *n
    length, pc,    \* per thread: the local variable, and where it is
    lines,         \* history: the lines returned, as intervals of the text
    lost,          \* history: the characters that failing calls consumed
    calls

stream == <<text, at, error>>
buffer == <<s, cap, n>>
vars   == <<stream, lock, buffer, length, pc, lines, lost, calls>>

Goto(t, l) == pc' = [pc EXCEPT ![t] = l]

\* b with c at index i (from 0).
Set(b, i, c) == [j \in 1 .. (IF i + 1 > Len(b) THEN i + 1 ELSE Len(b)) |->
                    IF j = i + 1 THEN c ELSE b[j]]

-----------------------------------------------------------------------------
\* A thread calls; a null *s counts as an empty buffer, whatever *n says.
getdelim(t) ==
    /\ pc[t] = "idle"
    /\ calls < MaxCalls
    /\ calls' = calls + 1
    /\ length' = [length EXCEPT ![t] = 0]
    /\ n' = IF s[t] = NONE THEN [n EXCEPT ![t] = 0] ELSE n
    /\ Goto(t, "lock")
    /\ UNCHANGED <<stream, lock, s, cap, lines, lost>>

\* Mutant: the stream is not locked.
Mutant_MayLock(t) == TRUE

MayLock(t) == lock = NONE

flockfile(t) ==
    /\ pc[t] = "lock"
    /\ MayLock(t)
    /\ lock' = t
    /\ Goto(t, "loop")
    /\ UNCHANGED <<stream, buffer, length, lines, lost, calls>>

\* Mutant: the buffer grows only when the next character would not fit.
Mutant_Full(t) == length[t] >= n[t]

Full(t) == length[t] + 1 >= n[t]

\* Mutant: a call that fails leaves the stream locked.
Mutant_Fail(t) ==
    /\ lost' = lost + length[t]
    /\ UNCHANGED lock
    /\ Goto(t, "idle")

\* The call fails: the characters it has consumed are in the buffer, without a
\* terminator, and the caller does not learn how many.
Fail(t) ==
    /\ lost' = lost + length[t]
    /\ lock' = NONE
    /\ Goto(t, "idle")

min_capacity(t) == length[t] + 2
new_capacity(t) ==
    IF min_capacity(t) < SizeMax \div 4
    THEN min_capacity(t) + min_capacity(t) \div 2 ELSE min_capacity(t)

\* Mutant: after the second attempt *n is what the first one asked for.
Mutant_Recorded(t, c) == new_capacity(t)

\* What *n becomes when realloc gave a block of capacity c.
Recorded(t, c) == c

\* realloc is tried with the larger size, then with the smaller; both may fail.
ao_grow_line_buffer(t) ==
    /\ pc[t] = "loop"
    /\ Full(t)
    /\ \/ /\ Fail(t)
          /\ UNCHANGED buffer
       \/ /\ length[t] <= SizeMax - 2
          /\ \E c \in {new_capacity(t), min_capacity(t)} :
                /\ cap' = [cap EXCEPT ![t] = c]
                /\ n' = [n EXCEPT ![t] = Recorded(t, c)]
          /\ s' = IF s[t] = NONE THEN [s EXCEPT ![t] = <<>>] ELSE s
          /\ UNCHANGED <<pc, lock, lost>>
    /\ UNCHANGED <<stream, length, lines, calls>>

\* A character, the end of the text, or an error.
getc_unlocked(t) ==
    /\ pc[t] = "loop"
    /\ ~Full(t)
    /\ \/ /\ at < Len(text)
          /\ at' = at + 1
          /\ s' = [s EXCEPT ![t] = Set(@, length[t], text[at + 1])]
          /\ length' = [length EXCEPT ![t] = @ + 1]
          /\ Goto(t, IF text[at + 1] = Delim THEN "done" ELSE "loop")
          /\ UNCHANGED <<error, lock, lost>>
       \/ /\ at = Len(text)
          /\ \/ /\ length[t] = 0 \/ error
                /\ Fail(t)
             \/ /\ ~(length[t] = 0 \/ error)
                /\ Goto(t, "done")
                /\ UNCHANGED <<lock, lost>>
          /\ UNCHANGED <<at, error, s, length>>
       \/ /\ error' = TRUE
          /\ Fail(t)
          /\ UNCHANGED <<at, s, length>>
    /\ UNCHANGED <<text, cap, n, lines, calls>>

\* The terminator is stored and the line returned.
finish(t) ==
    /\ pc[t] = "done"
    /\ s' = [s EXCEPT ![t] = Set(@, length[t], NONE)]
    /\ lines' = Append(lines, [by |-> t, from |-> at - length[t], to |-> at])
    /\ lock' = NONE
    /\ Goto(t, "idle")
    /\ UNCHANGED <<stream, cap, n, length, lost, calls>>

-----------------------------------------------------------------------------
\* A caller brings no block, with anything in *n, or a block and its capacity.
Init ==
    /\ text \in Texts
    /\ at = 0
    /\ error = FALSE
    /\ lock = NONE
    /\ \E own \in [Threads -> BOOLEAN], c \in [Threads -> Buffers] :
          /\ s = [t \in Threads |-> IF own[t] THEN <<>> ELSE NONE]
          /\ cap = [t \in Threads |-> IF own[t] THEN c[t] ELSE 0]
          /\ n = c
    /\ length = [t \in Threads |-> 0]
    /\ pc = [t \in Threads |-> "idle"]
    /\ lines = <<>>
    /\ lost = 0
    /\ calls = 0

Next ==
    \E t \in Threads :
        \/ getdelim(t)
        \/ flockfile(t)
        \/ ao_grow_line_buffer(t)
        \/ getc_unlocked(t)
        \/ finish(t)

\* A call that has begun goes on: a thread is scheduled while it can take a step,
\* and gets a stream that stays unlocked. Nobody has to call.
Proceed(t) == flockfile(t) \/ ao_grow_line_buffer(t) \/ getc_unlocked(t) \/ finish(t)

Spec == Init /\ [][Next]_vars /\ \A t \in Threads : WF_vars(Proceed(t))

-----------------------------------------------------------------------------
\* The state has its shape, and a thread in the loop has the stream locked.
TypeOK ==
    /\ at \in 0 .. Len(text)
    /\ error \in BOOLEAN
    /\ lock \in Threads \cup {NONE}
    /\ pc \in [Threads -> {"idle", "lock", "loop", "done"}]
    /\ length \in [Threads -> 0 .. Len(text)]
    /\ \A t \in Threads : (pc[t] \in {"loop", "done"}) <=> (lock = t)

\* Every character and the terminator are stored inside the block: *n never
\* claims more than the block has (line 34, also when the smaller size was
\* taken), and what is stored never exceeds it (line 55).
StaysInBlock ==
    \A t \in Threads :
        /\ s[t] = NONE \/ n[t] <= cap[t]
        /\ s[t] # NONE => Len(s[t]) <= cap[t]

\* What a call has in its buffer, from its first character on, is a stretch of
\* the text with no delimiter but possibly the last character: calls of other
\* threads do not take characters out of the middle of a line. Every character
\* consumed is in one line returned, in the order of the text, in the call in
\* progress, or was lost by a call that failed (lines 56 and 64); without a
\* failure the lines are the text, cut at its delimiters.
LinesWhole ==
    /\ \A t \in Threads : pc[t] \in {"loop", "done"} =>
          /\ length[t] <= at
          /\ \A i \in 1 .. length[t] : s[t][i] = text[at - length[t] + i]
    /\ \A k \in DOMAIN lines :
          LET l == lines[k]
          IN  /\ l.from < l.to
              /\ \A i \in l.from + 1 .. l.to - 1 : text[i] # Delim
              /\ text[l.to] = Delim \/ l.to = Len(text)
    /\ \A k \in 1 .. Len(lines) - 1 : lines[k].to <= lines[k + 1].from
    /\ lost = 0 /\ lock = NONE =>
          /\ lines = <<>> => at = 0
          /\ lines # <<>> => lines[1].from = 0 /\ lines[Len(lines)].to = at
          /\ \A k \in 1 .. Len(lines) - 1 : lines[k].to = lines[k + 1].from

\* Every call returns, also one that waits while another thread has the stream:
\* none of the ways out of getdelim keeps it locked (lines 57, 65 and 78), and a
\* buffer that has grown takes a character.
CallsReturn == \A t \in Threads : pc[t] = "lock" ~> pc[t] = "idle"

=============================================================================
