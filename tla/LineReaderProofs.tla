--------------------------- MODULE LineReaderProofs ---------------------------
(***************************************************************************)
(* getdelim of module LineReader, for every number of threads, every text  *)
(* and every size of buffer: mutual exclusion, the bounds of the buffers,  *)
(* and the lines that are returned.                                        *)
(***************************************************************************)
EXTENDS LineReader, TLAPS

\* The types of the variables that TypeOK does not mention.
Shape ==
    /\ text \in Seq(Chars)
    /\ s \in [Threads -> Seq(Chars \cup {NONE}) \cup {NONE}]
    /\ cap \in [Threads -> Nat]
    /\ n \in [Threads -> Nat]
    /\ lines \in Seq([by : Threads, from : Nat, to : Nat])
    /\ lost \in Nat

\* *n is the capacity of the block, which has room for what is in it; a call on
\* no block at all starts from an empty one.
BufferOK(t) ==
    /\ s[t] # NONE => n[t] = cap[t] /\ Len(s[t]) <= cap[t]
    /\ pc[t] # "idle" /\ s[t] = NONE => n[t] = 0

\* A call that has the stream has the last length[t] characters consumed in its
\* buffer, and none of them is a delimiter, except the last one of a line that is
\* done, which leaves room for the terminator.
CallOK(t) ==
    /\ pc[t] = "lock" => length[t] = 0
    /\ pc[t] \in {"loop", "done"} =>
          /\ length[t] <= at
          /\ s[t] = NONE => length[t] = 0
          /\ s[t] # NONE => length[t] <= Len(s[t])
          /\ \A i \in 1 .. length[t] : s[t][i] = text[at - length[t] + i]
    /\ pc[t] = "loop" => \A i \in at - length[t] + 1 .. at : text[i] # Delim
    /\ pc[t] = "done" =>
          /\ s[t] # NONE /\ length[t] > 0 /\ length[t] + 1 <= n[t]
          /\ \A i \in at - length[t] + 1 .. at - 1 : text[i] # Delim
          /\ text[at] = Delim \/ at = Len(text)

\* Where the line that is being read begins.
Start == IF lock = NONE THEN at ELSE at - length[lock]

\* The lines are in the order of the text and end before the one that is being
\* read; they follow one another without a gap while nothing has been lost.
LinesOK ==
    /\ \A k \in 1 .. Len(lines) :
          /\ lines[k].from < lines[k].to /\ lines[k].to <= Start
          /\ \A i \in lines[k].from + 1 .. lines[k].to - 1 : text[i] # Delim
          /\ text[lines[k].to] = Delim \/ lines[k].to = Len(text)
    /\ \A k \in 1 .. Len(lines) - 1 : lines[k].to <= lines[k + 1].from
    /\ lost = 0 =>
          /\ lines = <<>> => Start = 0
          /\ lines # <<>> => lines[1].from = 0 /\ lines[Len(lines)].to = Start
          /\ \A k \in 1 .. Len(lines) - 1 : lines[k].to = lines[k + 1].from

Inv ==
    /\ TypeOK
    /\ Shape
    /\ \A t \in Threads : BufferOK(t)
    /\ \A t \in Threads : CallOK(t)
    /\ LinesOK

-----------------------------------------------------------------------------
(* Facts about the operators and about a step.                             *)

\* Storing at an index up to the length of a sequence changes or adds the
\* character there and nothing else.
LEMMA SetChar ==
    ASSUME NEW S, NEW b \in Seq(S), NEW i \in 0 .. Len(b), NEW c \in S
    PROVE  /\ Set(b, i, c) \in Seq(S)
           /\ Len(Set(b, i, c)) = IF i + 1 > Len(b) THEN i + 1 ELSE Len(b)
           /\ Set(b, i, c)[i + 1] = c
           /\ \A j \in 1 .. i : Set(b, i, c)[j] = b[j]
  <1> DEFINE m == IF i + 1 > Len(b) THEN i + 1 ELSE Len(b)
  <1>1. Len(b) \in Nat /\ i \in Nat /\ i <= Len(b) /\ m \in Nat
    OBVIOUS
  <1>2. /\ i + 1 \in 1 .. m
        /\ \A j \in 1 .. i : j \in 1 .. m /\ j # i + 1
        /\ \A j \in 1 .. m : j # i + 1 => j \in 1 .. Len(b)
    BY <1>1
  <1>3. \A j \in 1 .. Len(b) : b[j] \in S
    OBVIOUS
  <1>4. Set(b, i, c) = [j \in 1 .. m |-> IF j = i + 1 THEN c ELSE b[j]]
    BY DEF Set
  <1> HIDE DEF m
  <1>5. Set(b, i, c) \in [1 .. m -> S]
    BY <1>2, <1>3, <1>4
  <1>6. Set(b, i, c) \in Seq(S) /\ Len(Set(b, i, c)) = m
    BY <1>1, <1>5
  <1>7. QED
    BY <1>2, <1>4, <1>6 DEF m

\* The sizes realloc is asked for have room for another character and the
\* terminator.
LEMMA Grown ==
    ASSUME TypeOK, NEW t \in Threads, NEW c \in {new_capacity(t), min_capacity(t)}
    PROVE  c \in Nat /\ c >= length[t] + 2
  <1>1. length[t] \in Nat
    BY DEF TypeOK
  <1>2. min_capacity(t) \in Nat /\ min_capacity(t) >= length[t] + 2
    BY <1>1 DEF min_capacity
  <1>3. new_capacity(t) \in Nat /\ new_capacity(t) >= length[t] + 2
    <2>1. \A m \in Nat : m \div 2 \in Nat
      OBVIOUS
    <2>2. QED
      BY <1>1, <1>2, <2>1 DEF new_capacity
  <1>4. QED
    BY <1>2, <1>3

\* A step of t is one of its five actions.
Moves(t) ==
    getdelim(t) \/ flockfile(t) \/ ao_grow_line_buffer(t) \/ getc_unlocked(t) \/ finish(t)

\* A step of one thread leaves the others where they are, with their buffers.
LEMMA OthersUntouched ==
    ASSUME TypeOK, Shape, NEW t \in Threads, Moves(t), NEW u \in Threads, u # t
    PROVE  /\ pc'[u] = pc[u] /\ length'[u] = length[u]
           /\ s'[u] = s[u] /\ cap'[u] = cap[u] /\ n'[u] = n[u]
  <1> USE DEF TypeOK, Shape, Goto, stream, buffer
  <1>1. CASE getdelim(t)
    BY <1>1 DEF getdelim
  <1>2. CASE flockfile(t)
    BY <1>2 DEF flockfile
  <1>3. CASE ao_grow_line_buffer(t)
    BY <1>3 DEF ao_grow_line_buffer, Fail
  <1>4. CASE getc_unlocked(t)
    BY <1>4 DEF getc_unlocked, Fail
  <1>5. CASE finish(t)
    BY <1>5 DEF finish
  <1>6. QED
    BY <1>1, <1>2, <1>3, <1>4, <1>5 DEF Moves

\* A thread that has the stream sees the same position after a step of another.
LEMMA StreamKept ==
    ASSUME TypeOK, NEW t \in Threads, Moves(t)
    PROVE  /\ text' = text
           /\ pc[t] \notin {"loop", "done"} => at' = at /\ lines' = lines /\ lost' = lost
           /\ pc[t] = "done" => at' = at
           /\ \A u \in Threads \ {t} : pc[u] \in {"loop", "done"} =>
                 lock = u /\ pc[t] \notin {"loop", "done"}
  <1>1. \A u \in Threads \ {t} : pc[u] \in {"loop", "done"} =>
                 lock = u /\ pc[t] \notin {"loop", "done"}
    BY DEF TypeOK
  <1>2. /\ text' = text
        /\ pc[t] \notin {"loop", "done"} => at' = at /\ lines' = lines /\ lost' = lost
        /\ pc[t] = "done" => at' = at
    BY DEF Moves, getdelim, flockfile, ao_grow_line_buffer, getc_unlocked, finish,
           stream
  <1>3. QED
    BY <1>1, <1>2

-----------------------------------------------------------------------------
(* The inductive invariant, part by part.                                  *)

\* Every step keeps the types and mutual exclusion.
LEMMA TypeStep ==
    ASSUME Inv, NEW t \in Threads, Moves(t)
    PROVE  TypeOK'
  <1> USE ReaderAssumption DEF Goto, stream, buffer
  <1>0. TypeOK /\ Shape /\ Len(text) \in Nat
    BY DEF Inv, Shape
  <1>1. CASE getdelim(t)
    BY <1>0, <1>1 DEF getdelim, TypeOK
  <1>2. CASE flockfile(t)
    BY <1>0, <1>2 DEF flockfile, MayLock, TypeOK
  <1>3. CASE ao_grow_line_buffer(t)
    BY <1>0, <1>3 DEF ao_grow_line_buffer, Fail, TypeOK
  <1>4. CASE getc_unlocked(t)
    <2>1. /\ at' \in 0 .. Len(text') /\ length' \in [Threads -> 0 .. Len(text')]
      BY <1>0, <1>4 DEF getc_unlocked, TypeOK, Inv, CallOK
    <2>2. QED
      BY <1>0, <1>4, <2>1 DEF getc_unlocked, Fail, TypeOK
  <1>5. CASE finish(t)
    BY <1>0, <1>5 DEF finish, TypeOK
  <1>6. QED
    BY <1>1, <1>2, <1>3, <1>4, <1>5 DEF Moves

\* Every step keeps the types of the other variables.
LEMMA ShapeStep ==
    ASSUME Inv, NEW t \in Threads, Moves(t)
    PROVE  Shape'
  <1> USE ReaderAssumption DEF stream, buffer
  <1>0. TypeOK /\ Shape /\ CallOK(t) /\ BufferOK(t) /\ length[t] \in Nat /\ at \in Nat
    BY DEF Inv, TypeOK
  <1>1. CASE getdelim(t)
    BY <1>0, <1>1 DEF getdelim, Shape
  <1>2. CASE flockfile(t)
    BY <1>0, <1>2 DEF flockfile, Shape
  <1>3. CASE ao_grow_line_buffer(t)
    <2>1. <<>> \in Seq(Chars \cup {NONE})
      OBVIOUS
    <2>2. s' \in [Threads -> Seq(Chars \cup {NONE}) \cup {NONE}]
      BY <1>0, <1>3, <2>1 DEF ao_grow_line_buffer, Shape
    <2>3. cap' \in [Threads -> Nat] /\ n' \in [Threads -> Nat]
      <3>1. CASE UNCHANGED buffer
        BY <1>0, <3>1 DEF Shape
      <3>2. CASE ~UNCHANGED buffer
        <4>1. PICK c \in {new_capacity(t), min_capacity(t)} :
                 cap' = [cap EXCEPT ![t] = c] /\ n' = [n EXCEPT ![t] = c]
          BY <1>3, <3>2, Zenon DEF ao_grow_line_buffer, Recorded
        <4>2. c \in Nat
          BY <1>0, <1>3, <3>2, <4>1, Grown DEF ao_grow_line_buffer
        <4>3. QED
          BY <1>0, <4>1, <4>2 DEF Shape
      <3>3. QED
        BY <3>1, <3>2
    <2>4. lost' \in Nat
      BY <1>0, <1>3 DEF ao_grow_line_buffer, Fail, Shape
    <2>5. QED
      BY <1>0, <1>3, <2>2, <2>3, <2>4 DEF ao_grow_line_buffer, Shape
  <1>4. CASE getc_unlocked(t)
    <2>0. lost' \in Nat /\ UNCHANGED <<text, cap, n, lines>>
      <3>1. lost' = lost \/ lost' = lost + length[t]
        BY <1>4 DEF getc_unlocked, Fail
      <3>2. lost \in Nat
        BY <1>0 DEF Shape
      <3>3. UNCHANGED <<text, cap, n, lines>>
        BY <1>4 DEF getc_unlocked
      <3>4. QED
        BY <1>0, <3>1, <3>2, <3>3
    <2>1. CASE at < Len(text) /\ s' = [s EXCEPT ![t] = Set(@, length[t], text[at + 1])]
      <3>1. text[at + 1] \in Chars \cup {NONE}
        BY <1>0, <2>1 DEF Shape
      <3>2. s[t] \in Seq(Chars \cup {NONE}) /\ length[t] \in 0 .. Len(s[t])
        BY <1>0, <1>4 DEF getc_unlocked, Full, CallOK, BufferOK, Shape
      <3>3. Set(s[t], length[t], text[at + 1]) \in Seq(Chars \cup {NONE})
        BY <3>1, <3>2, SetChar
      <3>4. s' \in [Threads -> Seq(Chars \cup {NONE}) \cup {NONE}]
        BY <1>0, <2>1, <3>3 DEF Shape
      <3>5. QED
        BY <1>0, <2>0, <3>4 DEF Shape
    <2>2. CASE UNCHANGED s
      BY <1>0, <2>0, <2>2 DEF Shape
    <2>3. QED
      BY <1>4, <2>1, <2>2 DEF getc_unlocked
  <1>5. CASE finish(t)
    <2>1. s[t] \in Seq(Chars \cup {NONE}) /\ length[t] \in 0 .. Len(s[t])
      BY <1>0, <1>5 DEF finish, CallOK, Shape
    <2>2. Set(s[t], length[t], NONE) \in Seq(Chars \cup {NONE})
      BY <2>1, SetChar
    <2>3. s' \in [Threads -> Seq(Chars \cup {NONE}) \cup {NONE}]
      BY <1>0, <1>5, <2>2 DEF finish, Shape
    <2>4. [by |-> t, from |-> at - length[t], to |-> at]
             \in [by : Threads, from : Nat, to : Nat]
      BY <1>0, <1>5 DEF finish, CallOK
    <2>5. lines' \in Seq([by : Threads, from : Nat, to : Nat])
      BY <1>0, <1>5, <2>4 DEF finish, Shape
    <2>6. QED
      BY <1>0, <1>5, <2>3, <2>5 DEF finish, Shape
  <1>6. QED
    BY <1>1, <1>2, <1>3, <1>4, <1>5 DEF Moves

\* Every step keeps the buffer of the thread inside its block.
LEMMA BufferStep ==
    ASSUME Inv, NEW t \in Threads, Moves(t)
    PROVE  \A u \in Threads : BufferOK(u)'
  <1> USE ReaderAssumption DEF stream, buffer, Goto
  <1>0. TypeOK /\ Shape /\ CallOK(t) /\ BufferOK(t) /\ length[t] \in Nat /\ at \in Nat
    BY DEF Inv, TypeOK
  <1>1. ASSUME getdelim(t) PROVE BufferOK(t)'
    BY <1>0, <1>1 DEF getdelim, BufferOK, TypeOK, Shape
  <1>2. ASSUME flockfile(t) PROVE BufferOK(t)'
    BY <1>0, <1>2 DEF flockfile, BufferOK, TypeOK
  <1>3. ASSUME ao_grow_line_buffer(t) PROVE BufferOK(t)'
    <2>1. CASE UNCHANGED buffer
      BY <1>0, <1>3, <2>1 DEF ao_grow_line_buffer, Fail, BufferOK, TypeOK
    <2>2. CASE /\ \E c \in {new_capacity(t), min_capacity(t)} :
                     /\ cap' = [cap EXCEPT ![t] = c]
                     /\ n' = [n EXCEPT ![t] = Recorded(t, c)]
               /\ s' = IF s[t] = NONE THEN [s EXCEPT ![t] = <<>>] ELSE s
      <3>1. PICK c \in Nat : c >= length[t] + 2 /\ cap'[t] = c /\ n'[t] = c
        BY <1>0, <2>2, Grown DEF Recorded, Shape
      <3>2. s[t] = NONE => s'[t] = <<>>
        BY <1>0, <2>2 DEF Shape
      <3>3. s[t] # NONE => s'[t] = s[t] /\ Len(s[t]) \in Nat /\ Len(s[t]) <= length[t] + 1
        BY <1>0, <1>3, <2>2 DEF ao_grow_line_buffer, Shape, BufferOK, Full
      <3>4. s'[t] # NONE /\ Len(s'[t]) <= c
        <4>1. CASE s[t] = NONE
          <5>1. <<>> \in Seq(Chars \cup {NONE}) /\ Len(<<>>) = 0
            OBVIOUS
          <5>2. <<>> # NONE
            BY <5>1
          <5>3. QED
            BY <3>1, <3>2, <4>1, <5>1, <5>2
        <4>2. CASE s[t] # NONE
          BY <1>0, <3>1, <3>3, <4>2
        <4>3. QED
          BY <4>1, <4>2
      <3>5. QED
        BY <3>1, <3>4 DEF BufferOK
    <2>3. QED
      BY <1>3, <2>1, <2>2 DEF ao_grow_line_buffer
  <1>4. ASSUME getc_unlocked(t) PROVE BufferOK(t)'
    <2>1. CASE at < Len(text) /\ s' = [s EXCEPT ![t] = Set(@, length[t], text[at + 1])]
      <3>1. text[at + 1] \in Chars \cup {NONE}
        BY <1>0, <2>1 DEF Shape
      <3>2. s[t] \in Seq(Chars \cup {NONE}) /\ length[t] \in 0 .. Len(s[t]) /\ s[t] # NONE
        BY <1>0, <1>4 DEF getc_unlocked, Full, CallOK, BufferOK, Shape
      <3>3. /\ s'[t] \in Seq(Chars \cup {NONE})
            /\ Len(s'[t]) = IF length[t] + 1 > Len(s[t]) THEN length[t] + 1 ELSE Len(s[t])
        <4>1. s'[t] = Set(s[t], length[t], text[at + 1])
          BY <1>0, <2>1 DEF Shape
        <4>2. Set(s[t], length[t], text[at + 1]) \in Seq(Chars \cup {NONE})
          BY <3>1, <3>2, SetChar
        <4>3. Len(Set(s[t], length[t], text[at + 1]))
                = IF length[t] + 1 > Len(s[t]) THEN length[t] + 1 ELSE Len(s[t])
          <5> DEFINE C == Chars \cup {NONE}
          <5>1. s[t] \in Seq(C) /\ length[t] \in 0 .. Len(s[t]) /\ text[at + 1] \in C
            BY <3>1, <3>2
          <5> HIDE DEF C
          <5>2. \A b \in Seq(C) : \A i \in 0 .. Len(b), c \in C :
                   Len(Set(b, i, c)) = IF i + 1 > Len(b) THEN i + 1 ELSE Len(b)
            BY SetChar
          <5>3. QED
            BY <5>1, <5>2, Zenon
        <4>4. QED
          BY <4>1, <4>2, <4>3, Zenon
      <3>4. n'[t] = n[t] /\ cap'[t] = cap[t] /\ n[t] = cap[t] /\ n[t] \in Nat
            /\ length[t] + 1 < n[t] /\ Len(s[t]) <= cap[t]
        BY <1>0, <1>4, <3>2 DEF getc_unlocked, Full, BufferOK, Shape
      <3>5. QED
        BY <1>0, <3>2, <3>3, <3>4 DEF BufferOK
    <2>2. CASE UNCHANGED s
      BY <1>0, <1>4, <2>2 DEF getc_unlocked, Fail, BufferOK, TypeOK
    <2>3. QED
      BY <1>4, <2>1, <2>2 DEF getc_unlocked
  <1>5. ASSUME finish(t) PROVE BufferOK(t)'
    <2>1. s[t] \in Seq(Chars \cup {NONE}) /\ length[t] \in 0 .. Len(s[t]) /\ s[t] # NONE
      BY <1>0, <1>5 DEF finish, CallOK, Shape
    <2>2. /\ s'[t] \in Seq(Chars \cup {NONE})
          /\ Len(s'[t]) = IF length[t] + 1 > Len(s[t]) THEN length[t] + 1 ELSE Len(s[t])
      <3>1. s'[t] = Set(s[t], length[t], NONE)
        BY <1>0, <1>5 DEF finish, Shape
      <3>2. QED
        BY <2>1, <3>1, SetChar
    <2>3. n'[t] = n[t] /\ cap'[t] = cap[t] /\ n[t] = cap[t] /\ n[t] \in Nat
          /\ length[t] + 1 <= n[t] /\ Len(s[t]) <= cap[t]
      BY <1>0, <1>5, <2>1 DEF finish, BufferOK, CallOK, Shape
    <2>4. QED
      BY <1>0, <2>1, <2>2, <2>3 DEF BufferOK
  <1>6. BufferOK(t)'
    BY <1>1, <1>2, <1>3, <1>4, <1>5 DEF Moves
  <1>7. QED
    BY <1>0, <1>6, OthersUntouched DEF Inv, BufferOK

\* What a call of another thread has in its buffer stays what it is.
LEMMA OtherCall ==
    ASSUME Inv, NEW t \in Threads, Moves(t), NEW u \in Threads, u # t
    PROVE  CallOK(u)'
  <1>1. TypeOK /\ Shape /\ CallOK(u)
    BY DEF Inv
  <1>2. /\ pc'[u] = pc[u] /\ length'[u] = length[u]
        /\ s'[u] = s[u] /\ n'[u] = n[u] /\ text' = text
    BY <1>1, OthersUntouched, StreamKept
  <1>3. pc[u] \in {"loop", "done"} => at' = at
    BY <1>1, StreamKept
  <1>4. QED
    BY <1>1, <1>2, <1>3 DEF CallOK

\* A character that is read goes to the end of what the call has.
LEMMA CharacterRead ==
    ASSUME Inv, NEW t \in Threads, getc_unlocked(t),
           at < Len(text), at' = at + 1,
           s' = [s EXCEPT ![t] = Set(@, length[t], text[at + 1])],
           length' = [length EXCEPT ![t] = @ + 1],
           Goto(t, IF text[at + 1] = Delim THEN "done" ELSE "loop")
    PROVE  CallOK(t)'
  <1> DEFINE l == length[t]
  <1>0. /\ TypeOK /\ Shape /\ CallOK(t) /\ BufferOK(t)
        /\ l \in Nat /\ at \in Nat /\ Len(text) \in Nat
    <2>1. TypeOK /\ Shape /\ CallOK(t) /\ BufferOK(t)
      BY DEF Inv
    <2>2. l \in Nat /\ at \in Nat
      BY <2>1 DEF TypeOK
    <2>3. Len(text) \in Nat
      BY <2>1 DEF Shape
    <2>4. QED
      BY <2>1, <2>2, <2>3
  <1>1. /\ pc[t] = "loop" /\ l + 1 < n[t] /\ n'[t] = n[t] /\ n[t] \in Nat
        /\ text' = text /\ length'[t] = l + 1
        /\ pc'[t] = IF text[at + 1] = Delim THEN "done" ELSE "loop"
    BY <1>0 DEF getc_unlocked, Full, Goto, TypeOK, Shape
  <1>2. s[t] \in Seq(Chars \cup {NONE}) /\ l \in 0 .. Len(s[t]) /\ s[t] # NONE
    BY <1>0, <1>1 DEF CallOK, BufferOK, Shape
  <1>3. text[at + 1] \in Chars \cup {NONE}
    BY <1>0 DEF Shape
  <1>4. /\ s'[t] \in Seq(Chars \cup {NONE})
        /\ Len(s'[t]) = IF l + 1 > Len(s[t]) THEN l + 1 ELSE Len(s[t])
        /\ s'[t][l + 1] = text[at + 1]
        /\ \A j \in 1 .. l : s'[t][j] = s[t][j]
    <2>1. s'[t] = Set(s[t], l, text[at + 1])
      BY <1>0 DEF Shape
    <2>2. QED
      <3> DEFINE S == Chars \cup {NONE}
                 c == text[at + 1]
                 b == s[t]
      <3>1. b \in Seq(S) /\ l \in 0 .. Len(b) /\ c \in S
        BY <1>2, <1>3
      <3> HIDE DEF l, S, c, b
      <3>2. /\ Set(b, l, c) \in Seq(S)
            /\ Len(Set(b, l, c)) = IF l + 1 > Len(b) THEN l + 1 ELSE Len(b)
            /\ Set(b, l, c)[l + 1] = c
            /\ \A j \in 1 .. l : Set(b, l, c)[j] = b[j]
        BY <3>1, SetChar
      <3>3. QED
        BY <2>1, <3>2 DEF S, c, b
  <1>5. /\ l <= at
        /\ \A i \in 1 .. l : s[t][i] = text[at - l + i]
        /\ \A i \in at - l + 1 .. at : text[i] # Delim
    BY <1>0, <1>1 DEF CallOK
  <1> HIDE DEF l
  <1>6. s'[t] # NONE /\ l + 1 <= Len(s'[t])
    <2>1. Len(s[t]) \in Nat
      BY <1>2
    <2>2. QED
      BY <1>0, <1>2, <1>4, <2>1, ReaderAssumption
  <1>7. \A i \in 1 .. l + 1 : s'[t][i] = text[(at + 1) - (l + 1) + i]
    <2> SUFFICES ASSUME NEW i \in 1 .. l + 1
                 PROVE  s'[t][i] = text[(at + 1) - (l + 1) + i]
      OBVIOUS
    <2>1. (at + 1) - (l + 1) + i = at - l + i
      BY <1>0
    <2>2. CASE i = l + 1
      <3>1. at - l + i = at + 1
        BY <1>0, <2>2
      <3>2. QED
        BY <1>4, <2>1, <2>2, <3>1
    <2>3. CASE i \in 1 .. l
      BY <1>4, <1>5, <2>1, <2>3
    <2>4. QED
      BY <1>0, <2>2, <2>3
  <1>8. \A i \in (at + 1) - (l + 1) + 1 .. (at + 1) - 1 : text[i] # Delim
    BY <1>0, <1>5
  <1>9. text[at + 1] # Delim =>
           \A i \in (at + 1) - (l + 1) + 1 .. at + 1 : text[i] # Delim
    BY <1>0, <1>5
  <1>10. QED
    <2>1. /\ length'[t] <= at' /\ s'[t] # NONE /\ length'[t] <= Len(s'[t])
          /\ \A i \in 1 .. length'[t] : s'[t][i] = text'[at' - length'[t] + i]
      <3>1. /\ length'[t] <= at' /\ s'[t] # NONE /\ length'[t] <= Len(s'[t])
        BY <1>0, <1>1, <1>5, <1>6
      <3>2. \A i \in 1 .. length'[t] : s'[t][i] = text'[at' - length'[t] + i]
        BY <1>1, <1>7, Zenon
      <3>3. QED
        BY <3>1, <3>2
    <2>2. CASE text[at + 1] = Delim
      <3>1. /\ pc'[t] = "done" /\ length'[t] > 0 /\ length'[t] + 1 <= n'[t]
            /\ text'[at'] = Delim
            /\ \A i \in at' - length'[t] + 1 .. at' - 1 : text'[i] # Delim
        <4>1. pc'[t] = "done" /\ length'[t] > 0 /\ length'[t] + 1 <= n'[t] /\ text'[at'] = Delim
          BY <1>0, <1>1, <2>2
        <4>2. \A i \in at' - length'[t] + 1 .. at' - 1 : text'[i] # Delim
          BY <1>1, <1>8, Zenon
        <4>3. QED
          BY <4>1, <4>2
      <3>2. QED
        BY <2>1, <3>1 DEF CallOK
    <2>3. CASE text[at + 1] # Delim
      <3>1. /\ pc'[t] = "loop"
            /\ \A i \in at' - length'[t] + 1 .. at' : text'[i] # Delim
        BY <1>0, <1>1, <1>9, <2>3
      <3>2. QED
        BY <2>1, <3>1 DEF CallOK
    <2>4. QED
      BY <2>2, <2>3

\* Every step keeps what the calls have in their buffers.
LEMMA CallStep ==
    ASSUME Inv, NEW t \in Threads, Moves(t)
    PROVE  \A u \in Threads : CallOK(u)'
  <1> USE ReaderAssumption DEF stream, buffer, Goto
  <1>0. TypeOK /\ Shape /\ CallOK(t) /\ BufferOK(t) /\ length[t] \in Nat /\ at \in Nat
    BY DEF Inv, TypeOK
  <1>1. ASSUME getdelim(t) PROVE CallOK(t)'
    BY <1>0, <1>1 DEF getdelim, CallOK, TypeOK
  <1>2. ASSUME flockfile(t) PROVE CallOK(t)'
    <2>1. /\ pc'[t] = "loop" /\ length'[t] = 0 /\ at' = at
      BY <1>0, <1>2 DEF flockfile, CallOK, TypeOK
    <2>2. s'[t] # NONE => Len(s'[t]) \in Nat
      BY <1>0, <1>2 DEF flockfile, Shape
    <2>3. QED
      BY <1>0, <2>1, <2>2 DEF CallOK
  <1>3. ASSUME ao_grow_line_buffer(t) PROVE CallOK(t)'
    <2>1. CASE Fail(t)
      BY <1>0, <2>1 DEF Fail, CallOK, TypeOK
    <2>2. CASE UNCHANGED pc
      <3>1. /\ pc[t] = "loop" /\ pc'[t] = "loop"
            /\ UNCHANGED <<text, at, length>>
        BY <1>3, <2>2 DEF ao_grow_line_buffer
      <3>2. CASE s[t] = NONE
        <4>1. length[t] = 0 /\ (s'[t] = <<>> \/ s'[t] = NONE)
          BY <1>0, <1>3, <3>1, <3>2 DEF ao_grow_line_buffer, CallOK, Shape
        <4>2. Len(<<>>) = 0
          OBVIOUS
        <4>3. QED
          BY <1>0, <3>1, <4>1, <4>2 DEF CallOK
      <3>3. CASE s[t] # NONE
        BY <1>0, <1>3, <3>1, <3>3 DEF ao_grow_line_buffer, CallOK
      <3>4. QED
        BY <3>2, <3>3
    <2>3. QED
      BY <1>3, <2>1, <2>2 DEF ao_grow_line_buffer
  <1>4. ASSUME getc_unlocked(t) PROVE CallOK(t)'
    <2>1. CASE at < Len(text) /\ at' = at + 1
      <3>1. at' # at
        BY <1>0, <2>1
      <3>2. /\ s' = [s EXCEPT ![t] = Set(@, length[t], text[at + 1])]
            /\ length' = [length EXCEPT ![t] = @ + 1]
            /\ Goto(t, IF text[at + 1] = Delim THEN "done" ELSE "loop")
        BY <1>4, <3>1 DEF getc_unlocked
      <3>3. QED
        BY <1>4, <2>1, <3>2, CharacterRead
    <2>2. CASE Fail(t)
      BY <1>0, <2>2 DEF Fail, CallOK, TypeOK
    <2>3. CASE /\ at = Len(text) /\ ~(length[t] = 0 \/ error) /\ Goto(t, "done")
               /\ UNCHANGED <<at, s, length>>
      <3>1. /\ pc[t] = "loop" /\ pc'[t] = "done" /\ text' = text
            /\ n'[t] = n[t] /\ length[t] + 1 < n[t] /\ n[t] \in Nat
        BY <1>0, <1>4, <2>3 DEF getc_unlocked, Full, TypeOK, Shape
      <3>2. s[t] # NONE /\ length[t] > 0
        BY <1>0, <2>3, <3>1 DEF CallOK
      <3>3. \A i \in at - length[t] + 1 .. at - 1 : text[i] # Delim
        BY <1>0, <3>1 DEF CallOK
      <3>4. QED
        BY <1>0, <2>3, <3>1, <3>2, <3>3 DEF CallOK
    <2>4. QED
      BY <1>4, <2>1, <2>2, <2>3 DEF getc_unlocked
  <1>5. ASSUME finish(t) PROVE CallOK(t)'
    BY <1>0, <1>5 DEF finish, CallOK, TypeOK
  <1>6. CallOK(t)'
    BY <1>1, <1>2, <1>3, <1>4, <1>5 DEF Moves
  <1>7. QED
    BY <1>6, OtherCall

\* The beginning of the line under way moves only when a call that has the stream
\* fails, past the characters that are lost, or returns a line, past that line.
LEMMA StartMoves ==
    ASSUME Inv, NEW t \in Threads, Moves(t)
    PROVE  /\ text' = text /\ Start \in Nat
           /\ \/ UNCHANGED <<lines, lost, Start>>
              \/ /\ lines' = lines
                 /\ lost' = lost + length[t] /\ Start' = Start + length[t]
              \/ finish(t) /\ Start = at - length[t] /\ Start' = at /\ lost' = lost
  <1> USE ReaderAssumption DEF stream, buffer, Goto
  <1>0. /\ TypeOK /\ CallOK(t) /\ length[t] \in Nat /\ at \in Nat /\ text' = text
        /\ lock # NONE => lock \in Threads /\ length[lock] \in Nat /\ length[lock] <= at
    BY StreamKept DEF Inv, TypeOK, CallOK
  <1>1. Start \in Nat
    BY <1>0 DEF Start
  <1>2. pc[t] \in {"loop", "done"} => lock = t /\ Start = at - length[t]
    BY <1>0 DEF Start, TypeOK
  <1>3. CASE getdelim(t)
    <2>1. lock # t /\ lock' = lock /\ at' = at /\ UNCHANGED <<lines, lost>>
      BY <1>0, <1>3 DEF getdelim, TypeOK
    <2>2. lock # NONE => length'[lock] = length[lock]
      BY <1>0, <1>3, <2>1 DEF getdelim, TypeOK
    <2>3. QED
      BY <1>0, <1>1, <2>1, <2>2 DEF Start
  <1>4. CASE flockfile(t)
    <2>1. /\ lock = NONE /\ lock' = t /\ at' = at /\ UNCHANGED <<lines, lost>>
          /\ length'[t] = 0
      BY <1>0, <1>4 DEF flockfile, MayLock, CallOK
    <2>2. QED
      BY <1>0, <1>1, <2>1 DEF Start
  <1>5. CASE /\ Fail(t) /\ pc[t] = "loop"
             /\ at' = at /\ lines' = lines
    <2>1. Start' = at
      BY <1>5 DEF Fail, Start
    <2>2. QED
      BY <1>0, <1>1, <1>2, <1>5, <2>1 DEF Fail
  <1>6. CASE UNCHANGED <<lock, at, length, lines, lost>>
    BY <1>0, <1>1, <1>6 DEF Start
  <1>7. CASE /\ pc[t] = "loop" /\ at' = at + 1 /\ lock' = lock
             /\ length' = [length EXCEPT ![t] = @ + 1]
             /\ UNCHANGED <<lines, lost>>
    <2>1. length'[t] = length[t] + 1
      BY <1>0, <1>7 DEF TypeOK
    <2>2. Start' = (at + 1) - (length[t] + 1)
      BY <1>2, <1>7, <2>1 DEF Start
    <2>3. QED
      BY <1>0, <1>1, <1>2, <1>7, <2>2
  <1>8. CASE finish(t)
    <2>1. Start' = at
      BY <1>8 DEF finish, Start
    <2>2. QED
      BY <1>0, <1>1, <1>2, <1>8, <2>1 DEF finish
  <1>9. CASE ao_grow_line_buffer(t)
    BY <1>5, <1>6, <1>9 DEF ao_grow_line_buffer
  <1>10. CASE getc_unlocked(t)
    BY <1>5, <1>6, <1>7, <1>10 DEF getc_unlocked
  <1>11. QED
    BY <1>3, <1>4, <1>8, <1>9, <1>10 DEF Moves

\* Every step keeps the lines in order, whole, and without a gap.
LEMMA LinesStep ==
    ASSUME Inv, NEW t \in Threads, Moves(t)
    PROVE  LinesOK'
  <1>0. /\ TypeOK /\ Shape /\ CallOK(t) /\ LinesOK
        /\ length[t] \in Nat /\ at \in Nat /\ Start \in Nat /\ text' = text
        /\ lost \in Nat /\ Len(lines) \in Nat
        /\ \A k \in 1 .. Len(lines) : lines[k].from \in Nat /\ lines[k].to \in Nat
    <2>1. TypeOK /\ Shape /\ CallOK(t) /\ LinesOK
      BY DEF Inv
    <2>2. Start \in Nat /\ text' = text
      BY StartMoves
    <2>3. length[t] \in Nat /\ at \in Nat
      BY <2>1 DEF TypeOK
    <2>4. /\ lost \in Nat /\ Len(lines) \in Nat
          /\ \A k \in 1 .. Len(lines) : lines[k] \in [by : Threads, from : Nat, to : Nat]
      <3> DEFINE R == [by : Threads, from : Nat, to : Nat]
      <3>1. lost \in Nat /\ lines \in Seq(R)
        BY <2>1 DEF Shape
      <3> HIDE DEF R
      <3>2. Len(lines) \in Nat /\ \A k \in 1 .. Len(lines) : lines[k] \in R
        BY <3>1
      <3>3. QED
        BY <3>1, <3>2 DEF R
    <2>5. QED
      BY <2>1, <2>2, <2>3, <2>4
  <1>1. CASE UNCHANGED <<lines, lost, Start>>
    BY <1>0, <1>1 DEF LinesOK
  <1>2. CASE lines' = lines /\ lost' = lost + length[t] /\ Start' = Start + length[t]
    <2>1. \A k \in 1 .. Len(lines) : lines[k].to <= Start'
      BY <1>0, <1>2 DEF LinesOK
    <2>2. lost' = 0 => lost = 0 /\ Start' = Start
      BY <1>0, <1>2
    <2>3. QED
      BY <1>0, <1>2, <2>1, <2>2 DEF LinesOK
  <1>3. CASE finish(t) /\ Start = at - length[t] /\ Start' = at /\ lost' = lost
    <2> DEFINE line == [by |-> t, from |-> Start, to |-> at]
               m    == Len(lines)
    <2>1. /\ lines' = Append(lines, line) /\ lines' # <<>>
          /\ Len(lines') = m + 1 /\ lines'[m + 1] = line
          /\ \A k \in 1 .. m : lines'[k] = lines[k]
      <3> DEFINE R == [by : Threads, from : Nat, to : Nat]
      <3>1. lines' = Append(lines, line)
        BY <1>3 DEF finish
      <3>2. lines \in Seq(R)
        BY <1>0 DEF Shape
      <3>3. line \in R
        BY <1>0
      <3> HIDE DEF R, line
      <3>4. QED
        BY <3>1, <3>2, <3>3
    <2>2. /\ line.from = Start /\ line.to = at /\ Start < at
          /\ \A i \in Start + 1 .. at - 1 : text[i] # Delim
          /\ text[at] = Delim \/ at = Len(text)
      BY <1>0, <1>3 DEF finish, CallOK
    <2> HIDE DEF line, m
    <2>3. m \in Nat /\ m = Len(lines) /\ (lines = <<>> <=> m = 0)
      BY <1>0 DEF m, Shape
    <2>4. \A k \in 1 .. m + 1 : k \in 1 .. m \/ k = m + 1
      BY <2>3
    <2>5. \A k \in 1 .. m :
             /\ lines[k].from < lines[k].to /\ lines[k].to <= Start /\ lines[k].to <= at
             /\ \A i \in lines[k].from + 1 .. lines[k].to - 1 : text[i] # Delim
             /\ text[lines[k].to] = Delim \/ lines[k].to = Len(text)
      BY <1>0, <2>2, <2>3 DEF LinesOK
    <2>6. \A k \in 1 .. m + 1 :
             /\ lines'[k].from < lines'[k].to /\ lines'[k].to <= at
             /\ \A i \in lines'[k].from + 1 .. lines'[k].to - 1 : text[i] # Delim
             /\ text[lines'[k].to] = Delim \/ lines'[k].to = Len(text)
      <3> SUFFICES ASSUME NEW k \in 1 .. m + 1
                   PROVE  /\ lines'[k].from < lines'[k].to /\ lines'[k].to <= at
                          /\ \A i \in lines'[k].from + 1 .. lines'[k].to - 1 : text[i] # Delim
                          /\ text[lines'[k].to] = Delim \/ lines'[k].to = Len(text)
        OBVIOUS
      <3>1. CASE k \in 1 .. m
        BY <2>1, <2>5, <3>1
      <3>2. CASE k = m + 1
        BY <1>0, <2>1, <2>2, <3>2
      <3>3. QED
        BY <2>4, <3>1, <3>2
    <2>7. \A k \in 1 .. m : lines'[k].to <= lines'[k + 1].from
      <3> SUFFICES ASSUME NEW k \in 1 .. m PROVE lines'[k].to <= lines'[k + 1].from
        OBVIOUS
      <3>1. CASE k = m
        BY <2>1, <2>2, <2>5, <3>1
      <3>2. CASE k # m
        <4>1. k \in 1 .. m - 1 /\ k + 1 \in 1 .. m
          BY <2>3, <3>2
        <4>2. QED
          BY <1>0, <2>1, <2>3, <4>1 DEF LinesOK
      <3>3. QED
        BY <3>1, <3>2
    <2>8. lost = 0 =>
             /\ lines'[1].from = 0
             /\ \A k \in 1 .. m : lines'[k].to = lines'[k + 1].from
      <3> SUFFICES ASSUME lost = 0
                   PROVE  /\ lines'[1].from = 0
                          /\ \A k \in 1 .. m : lines'[k].to = lines'[k + 1].from
        OBVIOUS
      <3>1. lines'[1].from = 0
        <4>1. CASE m = 0
          BY <1>0, <2>1, <2>2, <2>3, <4>1 DEF LinesOK
        <4>2. CASE m # 0
          BY <1>0, <2>1, <2>3, <4>2 DEF LinesOK
        <4>3. QED
          BY <4>1, <4>2
      <3>2. ASSUME NEW k \in 1 .. m PROVE lines'[k].to = lines'[k + 1].from
        <4>1. CASE k = m
          BY <1>0, <2>1, <2>2, <2>3, <4>1 DEF LinesOK
        <4>2. CASE k # m
          <5>1. k \in 1 .. m - 1 /\ k + 1 \in 1 .. m
            BY <2>3, <4>2
          <5>2. QED
            BY <1>0, <2>1, <2>3, <5>1 DEF LinesOK
        <4>3. QED
          BY <4>1, <4>2
      <3>3. QED
        BY <3>1, <3>2
    <2>9. Len(lines') - 1 = m /\ lines'[Len(lines')].to = at
      BY <2>1, <2>2, <2>3
    <2>10. text' = text /\ Start' = at /\ lost' = lost /\ Len(lines') = m + 1 /\ lines' # <<>>
      BY <1>0, <1>3, <2>1
    <2>11. \A k \in 1 .. Len(lines') :
              /\ lines'[k].from < lines'[k].to /\ lines'[k].to <= Start'
              /\ \A i \in lines'[k].from + 1 .. lines'[k].to - 1 : text'[i] # Delim
              /\ text'[lines'[k].to] = Delim \/ lines'[k].to = Len(text')
      BY <2>6, <2>10
    <2>12. \A k \in 1 .. Len(lines') - 1 : lines'[k].to <= lines'[k + 1].from
      BY <2>7, <2>9
    <2>13. lost' = 0 =>
              /\ lines'[1].from = 0 /\ lines'[Len(lines')].to = Start'
              /\ \A k \in 1 .. Len(lines') - 1 : lines'[k].to = lines'[k + 1].from
      BY <2>8, <2>9, <2>10
    <2>14. QED
      BY <2>10, <2>11, <2>12, <2>13 DEF LinesOK
  <1>4. QED
    BY <1>1, <1>2, <1>3, StartMoves

\* The invariant holds in every state.
THEOREM Invariance == Spec => []Inv
  <1>1. Init => Inv
    <2> SUFFICES ASSUME Init PROVE Inv
      OBVIOUS
    <2>1. /\ text \in Seq(Chars) /\ Len(text) \in Nat /\ at = 0 /\ lock = NONE
          /\ pc = [t \in Threads |-> "idle"] /\ length = [t \in Threads |-> 0]
          /\ lines = <<>> /\ lost = 0 /\ error = FALSE
      BY ReaderAssumption DEF Init
    <2>2. PICK own \in [Threads -> BOOLEAN], c \in [Threads -> Buffers] :
             /\ s = [t \in Threads |-> IF own[t] THEN <<>> ELSE NONE]
             /\ cap = [t \in Threads |-> IF own[t] THEN c[t] ELSE 0]
             /\ n = c
      BY DEF Init
    <2>3. TypeOK
      <3>1. \A t \in Threads : lock # t /\ pc[t] = "idle"
        BY <2>1, ReaderAssumption
      <3>2. /\ pc \in [Threads -> {"idle", "lock", "loop", "done"}]
            /\ length \in [Threads -> 0 .. Len(text)] /\ at \in 0 .. Len(text)
        BY <2>1
      <3>3. error \in BOOLEAN
        BY <2>1
      <3>4. QED
        BY <2>1, <3>1, <3>2, <3>3 DEF TypeOK
    <2>4. Shape
      <3>1. <<>> \in Seq(Chars \cup {NONE})
            /\ <<>> \in Seq([by : Threads, from : Nat, to : Nat])
        OBVIOUS
      <3>2. QED
        BY <2>1, <2>2, <3>1, ReaderAssumption DEF Shape
    <2>5. ASSUME NEW t \in Threads PROVE BufferOK(t) /\ CallOK(t)
      <3>1. pc[t] = "idle"
        BY <2>1
      <3>2. s[t] # NONE => s[t] = <<>> /\ n[t] = cap[t]
        BY <2>2
      <3>3. cap[t] \in Nat /\ Len(<<>>) = 0
        BY <2>4 DEF Shape
      <3>4. QED
        BY <3>1, <3>2, <3>3 DEF BufferOK, CallOK
    <2>6. LinesOK
      BY <2>1 DEF LinesOK, Start
    <2>7. QED
      BY <2>3, <2>4, <2>5, <2>6 DEF Inv
  <1>2. Inv /\ [Next]_vars => Inv'
    <2> SUFFICES ASSUME Inv, [Next]_vars PROVE Inv'
      OBVIOUS
    <2>1. ASSUME NEW t \in Threads, Moves(t) PROVE Inv'
      BY <2>1, TypeStep, ShapeStep, BufferStep, CallStep, LinesStep DEF Inv
    <2>2. CASE UNCHANGED vars
      BY <2>2, SMTT(30) DEF vars, stream, buffer, Inv, TypeOK, Shape, BufferOK, CallOK, LinesOK,
                  Start
    <2>3. QED
      BY <2>1, <2>2 DEF Next, Moves
  <1>3. QED
    BY <1>1, <1>2, PTL DEF Spec

\* At most one thread reads the stream at a time, and its counters stay in range.
THEOREM MutualExclusion == Spec => []TypeOK
  BY Invariance, PTL DEF Inv

\* No character and no terminator is stored past the end of a block, and *n never
\* claims more than the block has.
THEOREM StoresStayInBlock == Spec => []StaysInBlock
  <1>1. Inv => StaysInBlock
    <2> SUFFICES ASSUME Inv, NEW t \in Threads
                 PROVE  /\ s[t] = NONE \/ n[t] <= cap[t]
                        /\ s[t] # NONE => Len(s[t]) <= cap[t]
      BY DEF StaysInBlock
    <2>1. BufferOK(t) /\ n[t] \in Nat /\ cap[t] \in Nat
      BY DEF Inv, Shape
    <2>2. QED
      BY <2>1 DEF BufferOK
  <1>2. QED
    BY Invariance, <1>1, PTL

\* Threads that read one stream get whole lines, in the order of the text.
THEOREM LinesAreWhole == Spec => []LinesWhole
  <1>1. Inv => LinesWhole
    <2> SUFFICES ASSUME Inv PROVE LinesWhole
      OBVIOUS
    <2>1. DOMAIN lines = 1 .. Len(lines)
      BY DEF Inv, Shape
    <2>2. lock = NONE => Start = at
      BY DEF Start
    <2>3. QED
      BY <2>1, <2>2 DEF Inv, CallOK, LinesOK, LinesWhole
  <1>2. QED
    BY Invariance, <1>1, PTL

=============================================================================
