---------------------------- MODULE StartupProofs ----------------------------
(***************************************************************************)
(* Start-up of module Startup, for every number of threads, every size of  *)
(* the bootstrap heap and every width of size_t: the bootstrap blocks, and *)
(* the resolution of the real functions.                                   *)
(***************************************************************************)
EXTENDS Startup, FiniteSetTheorems, TLAPS

\* The pointers into the bootstrap heap, and to blocks of the real allocator.
BootPointers == {"boot"} \X Nat
RealPointers == {"real"} \X Nat

\* The types of the variables that TypeOK does not mention; a pointer is into the
\* bootstrap heap or to a block of the real allocator.
Shape ==
    /\ boot \in [Threads -> [at : {"none", "load", "cas"}, size : 0 .. Modulus - 1,
                             old : {NULL} \cup BootPointers, current : Nat]]
    /\ held \subseteq BootPointers \cup RealPointers
    /\ call \in [Threads -> [fn : Functions \cup {"none"},
                             ptr : {NULL} \cup RealPointers]]
    /\ IsFiniteSet(blocks)

\* A thread about to exchange the offset has seen room for its request, and the
\* blocks whose total does not wrap end before the offset.
Heap ==
    /\ \A t \in Threads : boot[t].at = "cas" =>
          /\ boot[t].current <= HeapSize
          /\ Total(boot[t].size) <= HeapSize - boot[t].current
    /\ \A b \in blocks : Reasonable(b.size) => Ends(b) <= g_bootstrap_offset

\* One thread resolves, while the control says so; the real functions are all
\* known when it has finished, and only then does anybody get past it.
Resolution ==
    /\ \A t \in Threads :
          /\ g_in_resolver[t] => pc[t] = "resolving"
          /\ pc[t] = "resolving" => g_resolve_once = "running"
          /\ pc[t] = "resolving" => g_in_resolver[t] \/ exited
          /\ pc[t] = "real" => g_resolve_once = "done"
    /\ \A t, u \in Threads : pc[t] = "resolving" /\ pc[u] = "resolving" => t = u
    /\ g_resolve_once = "done" => g_real = Functions
    /\ g_resolve_once # "done" => held \subseteq BootPointers

Inv == TypeOK /\ Shape /\ Heap /\ BlocksDisjoint /\ Resolution

-----------------------------------------------------------------------------
(* Sizes.                                                                  *)

\* A total that does not wrap has room for the header and for the block.
LEMMA TotalHolds ==
    ASSUME NEW size \in 0 .. Modulus - 1
    PROVE  /\ Total(size) \in Nat
           /\ Reasonable(size) => HeaderSize + size <= Total(size)
  <1>1. HeaderSize \in Nat /\ Modulus \in Nat \ {0} /\ Alignment \in Nat \ {0}
    BY StartupAssumption
  <1> DEFINE value == (HeaderSize + size) % Modulus
             remainder == value % Alignment
  <1>2. value \in 0 .. Modulus - 1
    BY <1>1
  <1>3. remainder \in 0 .. Alignment - 1
    <2> HIDE DEF value
    <2>1. QED
      BY <1>1, <1>2
  <1>4. Total(size) = IF remainder = 0 THEN value
                      ELSE (value + (Alignment - remainder)) % Modulus
    BY DEF Total, ao_align_up
  <1>5. Reasonable(size) => value = HeaderSize + size
    BY <1>1 DEF Reasonable
  <1> HIDE DEF value, remainder
  <1>6. value + (Alignment - remainder) \in Nat
    BY <1>1, <1>2, <1>3
  <1>7. (value + (Alignment - remainder)) % Modulus \in 0 .. Modulus - 1
    BY <1>1, <1>6
  <1>8. Total(size) \in Nat
    BY <1>1, <1>2, <1>4, <1>7
  <1>9. ASSUME Reasonable(size) PROVE HeaderSize + size <= Total(size)
    <2>1. value + Alignment <= Modulus
      BY <1>1, <1>5, <1>9 DEF Reasonable
    <2>2. CASE remainder = 0
      BY <1>1, <1>2, <1>4, <1>5, <1>9, <2>2
    <2>3. CASE remainder # 0
      <3>1. value + (Alignment - remainder) \in 0 .. Modulus - 1
        BY <1>1, <1>2, <1>3, <2>1, <2>3
      <3>2. (value + (Alignment - remainder)) % Modulus = value + (Alignment - remainder)
        BY <1>1, <3>1
      <3>3. value <= value + (Alignment - remainder)
        BY <1>1, <1>2, <1>3
      <3>4. QED
        BY <1>4, <1>5, <1>9, <2>3, <3>2, <3>3
    <2>4. QED
      BY <2>2, <2>3
  <1>10. QED
    BY <1>8, <1>9

-----------------------------------------------------------------------------
(* What a call does.                                                       *)

\* A call is over at once, asks the bootstrap heap, or goes for the real function.
AtOnce(t) == UNCHANGED <<pc, call, boot>>

AsksHeap(t) ==
    /\ \E size \in 0 .. Modulus - 1, old \in {NULL} \cup BootPointers : Request(t, size, old)
    /\ UNCHANGED <<pc, call>>

GoesForReal(t) ==
    /\ ~g_in_resolver[t]
    /\ \E fn \in Functions, p \in {NULL} \cup RealPointers : Ensure(t, fn, p)

LEMMA CallEffect ==
    ASSUME Inv, NEW t \in Threads, Call(t)
    PROVE  /\ Enter(t) /\ held' \subseteq held
           /\ AtOnce(t) \/ AsksHeap(t) \/ GoesForReal(t)
  <1>1. /\ held \subseteq BootPointers \cup RealPointers /\ Modulus \in Nat \ {0}
        /\ Sizes \subseteq 0 .. Modulus - 1
    BY StartupAssumption DEF Inv, Shape
  <1>2. \A p \in held : ao_bootstrap_contains(p) <=> p \in BootPointers
    BY <1>1 DEF ao_bootstrap_contains, BootPointers, RealPointers
  <1>3. ASSUME NEW size \in Sizes, malloc(t, size)
        PROVE  /\ Enter(t) /\ held' \subseteq held
               /\ AtOnce(t) \/ AsksHeap(t) \/ GoesForReal(t)
    BY <1>1, <1>3 DEF malloc, InResolver, AsksHeap, GoesForReal, Functions
  <1>4. ASSUME NEW nmemb \in Sizes, NEW size \in Sizes, calloc(t, nmemb, size)
        PROVE  /\ Enter(t) /\ held' \subseteq held
               /\ AtOnce(t) \/ AsksHeap(t) \/ GoesForReal(t)
    <2>1. (nmemb * size) % Modulus \in 0 .. Modulus - 1
      <3>1. nmemb \in Nat /\ size \in Nat
        BY <1>1
      <3>2. nmemb * size \in Int
        BY <3>1
      <3>3. \A k \in Int : k % Modulus \in 0 .. Modulus - 1
        BY <1>1
      <3>4. QED
        BY <3>2, <3>3
    <2>2. QED
      BY <1>4, <2>1 DEF calloc, InResolver, AtOnce, AsksHeap, GoesForReal, Functions
  <1>5. ASSUME NEW p \in held \cup {NULL}, NEW size \in Sizes, realloc(t, p, size)
        PROVE  /\ Enter(t) /\ held' \subseteq held
               /\ AtOnce(t) \/ AsksHeap(t) \/ GoesForReal(t)
    <2>1. NULL \notin held /\ ~ao_bootstrap_contains(NULL)
      BY <1>1 DEF NULL, BootPointers, RealPointers, ao_bootstrap_contains
    <2>2. Enter(t)
      BY <1>5 DEF realloc
    <2>3. CASE ao_bootstrap_realloc(t, p, size)
      BY <1>1, <1>2, <2>2, <2>3 DEF ao_bootstrap_realloc, AtOnce, AsksHeap
    <2>4. CASE /\ ~(InResolver(t) \/ ao_bootstrap_contains(p))
               /\ held' = held \ {p} /\ Ensure(t, "realloc", p)
      <3>1. p \in {NULL} \cup RealPointers
        BY <1>1, <1>2, <2>4
      <3>2. QED
        BY <2>2, <2>4, <3>1 DEF InResolver, GoesForReal, Functions
    <2>5. QED
      BY <1>5, <2>3, <2>4 DEF realloc
  <1>6. ASSUME NEW p \in held, free(t, p)
        PROVE  /\ Enter(t) /\ held' \subseteq held
               /\ AtOnce(t) \/ AsksHeap(t) \/ GoesForReal(t)
    <2>1. ~ao_bootstrap_contains(p) => p \in RealPointers
      BY <1>1, <1>2
    <2>2. QED
      BY <1>6, <2>1 DEF free, InResolver, AtOnce, GoesForReal, Functions
  <1>7. QED
    BY <1>3, <1>4, <1>5, <1>6 DEF Call

-----------------------------------------------------------------------------
(* The inductive invariant, part by part.                                  *)

\* The request that an exchange serves fits behind the offset.
LEMMA Exchange ==
    ASSUME Inv, NEW t \in Threads, bootstrap_cas(t)
    PROVE  /\ boot[t].size \in 0 .. Modulus - 1
           /\ boot[t].current = g_bootstrap_offset /\ g_bootstrap_offset \in Nat
           /\ Total(boot[t].size) \in Nat
           /\ g_bootstrap_offset' = g_bootstrap_offset + Total(boot[t].size)
           /\ g_bootstrap_offset' \in 0 .. HeapSize
           /\ blocks' = blocks \cup {[nr |-> Cardinality(blocks),
                                      at |-> g_bootstrap_offset, size |-> boot[t].size]}
           /\ Cardinality(blocks) \in Nat /\ IsFiniteSet(blocks')
  <1>1. /\ boot[t].size \in 0 .. Modulus - 1 /\ boot[t].current = g_bootstrap_offset
        /\ g_bootstrap_offset \in Nat /\ HeapSize \in Nat
        /\ Total(boot[t].size) <= HeapSize - g_bootstrap_offset
        /\ IsFiniteSet(blocks)
    BY StartupAssumption DEF Inv, Shape, TypeOK, Heap, bootstrap_cas, Unchanged
  <1>2. Total(boot[t].size) \in Nat
    BY <1>1, TotalHolds
  <1>3. Cardinality(blocks) \in Nat
    BY <1>1, FS_CardinalityType
  <1> DEFINE b == [nr |-> Cardinality(blocks), at |-> g_bootstrap_offset,
                   size |-> boot[t].size]
  <1>4. /\ g_bootstrap_offset' = g_bootstrap_offset + Total(boot[t].size)
        /\ blocks' = blocks \cup {b}
    BY <1>1 DEF bootstrap_cas
  <1> HIDE DEF b
  <1>5. IsFiniteSet(blocks')
    BY <1>1, <1>4, FS_AddElement
  <1>6. g_bootstrap_offset' \in 0 .. HeapSize
    BY <1>1, <1>2, <1>4
  <1>7. QED
    BY <1>1, <1>2, <1>3, <1>4, <1>5, <1>6 DEF b

\* Every step keeps the types, and the offset in the heap.
LEMMA TypeStep ==
    ASSUME Inv, NEW t \in Threads, Call(t) \/ Progress(t)
    PROVE  TypeOK'
  <1> USE DEF TypeOK
  <1>0. TypeOK
    BY DEF Inv
  <1>1. CASE Call(t)
    <2>1. Enter(t) /\ (AtOnce(t) \/ AsksHeap(t) \/ GoesForReal(t))
      BY <1>1, CallEffect
    <2>2. pc' \in [Threads -> {"idle", "once", "resolving", "real"}]
      BY <1>0, <2>1 DEF AtOnce, AsksHeap, GoesForReal, Ensure
    <2>3. QED
      BY <1>0, <2>1, <2>2 DEF Enter
  <1>2. CASE bootstrap_load(t)
    BY <1>0, <1>2 DEF bootstrap_load
  <1>3. CASE bootstrap_cas(t)
    <2>1. blocks' \subseteq [nr : Nat, at : 0 .. HeapSize, size : 0 .. Modulus - 1]
      BY <1>0, <1>3, Exchange
    <2>2. g_bootstrap_offset' \in 0 .. HeapSize
      BY <1>3, Exchange
    <2>3. QED
      BY <1>0, <1>3, <2>1, <2>2 DEF bootstrap_cas
  <1>4. CASE bootstrap_cas_fails(t)
    BY <1>0, <1>4 DEF bootstrap_cas_fails
  <1>5. CASE pthread_once_pass(t)
    BY <1>0, <1>5 DEF pthread_once_pass
  <1>6. CASE pthread_once_run(t)
    BY <1>0, <1>6 DEF pthread_once_run
  <1>7. CASE resolve_symbol(t)
    <2>1. Order[looked_up + 1] \in Functions /\ looked_up' \in 0 .. Len(Order)
      BY <1>0, <1>7 DEF resolve_symbol, Order, Functions
    <2>2. g_real' \subseteq Functions
      BY <1>0, <1>7, <2>1 DEF resolve_symbol
    <2>3. QED
      BY <1>0, <1>7, <2>1, <2>2 DEF resolve_symbol
  <1>8. CASE resolve_done(t)
    BY <1>0, <1>8 DEF resolve_done
  <1>9. CASE real_call(t)
    BY <1>0, <1>9 DEF real_call
  <1>10. QED
    BY <1>1, <1>2, <1>3, <1>4, <1>5, <1>6, <1>7, <1>8, <1>9 DEF Progress

\* Every step keeps the types of the other variables.
LEMMA ShapeStep ==
    ASSUME Inv, NEW t \in Threads, Call(t) \/ Progress(t)
    PROVE  Shape'
  <1> USE DEF Shape
  <1>0. Shape
    BY DEF Inv
  <1> DEFINE Boots == [at : {"none", "load", "cas"}, size : 0 .. Modulus - 1,
                       old : {NULL} \cup BootPointers, current : Nat]
  <1>a. NoRequest \in Boots
    BY StartupAssumption DEF NoRequest
  <1>1. CASE Call(t)
    <2>1. /\ Enter(t) /\ held' \subseteq held
          /\ AtOnce(t) \/ AsksHeap(t) \/ GoesForReal(t)
      BY <1>1, CallEffect
    <2>2. CASE AtOnce(t)
      BY <1>0, <2>1, <2>2 DEF Enter, AtOnce
    <2>3. CASE AsksHeap(t)
      BY <1>0, <2>1, <2>3 DEF Enter, AsksHeap, Request
    <2>4. CASE GoesForReal(t)
      BY <1>0, <2>1, <2>4 DEF Enter, GoesForReal, Ensure
    <2>5. QED
      BY <2>1, <2>2, <2>3, <2>4
  <1>2. CASE bootstrap_load(t)
    <2>1. boot[t] \in Boots /\ g_bootstrap_offset \in Nat
      BY <1>0 DEF Inv, TypeOK
    <2>2. [boot[t] EXCEPT !.at = "cas", !.current = g_bootstrap_offset] \in Boots
      BY <2>1
    <2>3. boot' \in [Threads -> Boots]
      BY <1>0, <1>2, <1>a, <2>2 DEF bootstrap_load
    <2>4. held' \subseteq BootPointers \cup RealPointers
      BY <1>0, <1>2, <2>1 DEF bootstrap_load
    <2>5. QED
      BY <1>0, <1>2, <2>3, <2>4 DEF bootstrap_load
  <1>3. CASE bootstrap_cas(t)
    <2>1. boot' \in [Threads -> Boots]
      BY <1>0, <1>3, <1>a DEF bootstrap_cas
    <2>2. held' \subseteq BootPointers \cup RealPointers
      <3>1. boot[t].current + HeaderSize \in Nat
        BY <1>0, StartupAssumption
      <3>2. InBoot(boot[t].current + HeaderSize) \in BootPointers
        BY <3>1 DEF InBoot, BootPointers
      <3>3. QED
        BY <1>0, <1>3, <3>2 DEF bootstrap_cas
    <2>3. IsFiniteSet(blocks')
      BY <1>3, Exchange
    <2>4. QED
      BY <1>0, <1>3, <2>1, <2>2, <2>3 DEF bootstrap_cas
  <1>4. CASE bootstrap_cas_fails(t)
    BY <1>0, <1>4 DEF bootstrap_cas_fails
  <1>5. CASE pthread_once_pass(t)
    BY <1>0, <1>5 DEF pthread_once_pass
  <1>6. CASE pthread_once_run(t)
    BY <1>0, <1>6 DEF pthread_once_run
  <1>7. CASE resolve_symbol(t)
    BY <1>0, <1>7 DEF resolve_symbol
  <1>8. CASE resolve_done(t)
    BY <1>0, <1>8 DEF resolve_done
  <1>9. CASE real_call(t)
    <2>1. call' \in [Threads -> [fn : Functions \cup {"none"}, ptr : {NULL} \cup RealPointers]]
      BY <1>0, <1>9 DEF real_call, NoCall
    <2>2. Unused \subseteq RealPointers
      BY DEF Unused, Real, RealPointers
    <2>3. call[t].ptr \in {NULL} \cup RealPointers
      BY <1>0
    <2>4. held' \subseteq BootPointers \cup RealPointers
      BY <1>0, <1>9, <2>2, <2>3 DEF real_call
    <2>5. QED
      BY <1>0, <1>9, <2>1, <2>4 DEF real_call
  <1>10. QED
    BY <1>1, <1>2, <1>3, <1>4, <1>5, <1>6, <1>7, <1>8, <1>9 DEF Progress

\* Only the exchange moves the offset or makes a block.
LEMMA HeapMoves ==
    ASSUME Inv, NEW t \in Threads, Call(t) \/ Progress(t)
    PROVE  bootstrap_cas(t) \/ UNCHANGED <<g_bootstrap_offset, blocks>>
  <1>1. CASE Call(t)
    BY <1>1, CallEffect DEF Enter
  <1>2. CASE Progress(t)
    BY <1>2 DEF Progress, bootstrap_load, bootstrap_cas_fails, pthread_once_pass,
                pthread_once_run, resolve_symbol, resolve_done, real_call
  <1>3. QED
    BY <1>1, <1>2

\* Every step keeps the requests that are being served within the room they saw.
LEMMA RequestStep ==
    ASSUME Inv, NEW t \in Threads, Call(t) \/ Progress(t),
           NEW u \in Threads, boot'[u].at = "cas"
    PROVE  /\ boot'[u].current <= HeapSize
           /\ Total(boot'[u].size) <= HeapSize - boot'[u].current
  <1>0. /\ Shape /\ boot[u].at = "cas" =>
              /\ boot[u].current <= HeapSize
              /\ Total(boot[u].size) <= HeapSize - boot[u].current
    BY DEF Inv, Heap
  <1>1. CASE boot'[u] = boot[u]
    BY <1>0, <1>1 DEF Inv
  <1>2. CASE Call(t)
    <2>1. AtOnce(t) \/ AsksHeap(t) \/ GoesForReal(t)
      BY <1>2, CallEffect
    <2>2. boot'[u] = boot[u] \/ boot'[u].at = "load"
      BY <2>1 DEF Inv, Shape, AtOnce, AsksHeap, GoesForReal, Request, Ensure
    <2>3. QED
      BY <1>1, <2>2
  <1>3. CASE bootstrap_load(t) /\ u = t
    <2>1. g_bootstrap_offset \in Nat /\ HeapSize \in Nat /\ boot[t].size \in 0 .. Modulus - 1
      BY StartupAssumption DEF Inv, TypeOK, Shape
    <2>2. Total(boot[t].size) \in Nat
      BY <2>1, TotalHolds
    <2>3. /\ ~NoRoom(g_bootstrap_offset, Total(boot[t].size))
          /\ boot'[t].current = g_bootstrap_offset /\ boot'[t].size = boot[t].size
      <3>1. boot'[t] # NoRequest
        BY <1>3 DEF NoRequest
      <3>2. boot \in [Threads -> [at : {"none", "load", "cas"}, size : 0 .. Modulus - 1,
                                  old : {NULL} \cup BootPointers, current : Nat]]
        BY DEF Inv, Shape
      <3>3. boot' # [boot EXCEPT ![t] = NoRequest]
        BY <3>1, <3>2
      <3>4. /\ ~NoRoom(g_bootstrap_offset, Total(boot[t].size))
            /\ boot' = [boot EXCEPT ![t] = [boot[t] EXCEPT !.at = "cas",
                                              !.current = g_bootstrap_offset]]
        BY <1>3, <3>3 DEF bootstrap_load
      <3>5. QED
        BY <3>2, <3>4
    <2>4. QED
      BY <1>3, <2>1, <2>2, <2>3 DEF NoRoom
  <1>4. CASE bootstrap_load(t) /\ u # t
    BY <1>1, <1>4 DEF bootstrap_load, Inv, Shape
  <1>5. CASE bootstrap_cas(t) \/ bootstrap_cas_fails(t)
    <2>1. boot'[u] = boot[u] \/ boot'[u].at # "cas"
      BY <1>5 DEF bootstrap_cas, bootstrap_cas_fails, NoRequest, Inv, Shape
    <2>2. QED
      BY <1>1, <2>1
  <1>6. CASE \/ pthread_once_pass(t) \/ pthread_once_run(t) \/ resolve_symbol(t)
             \/ resolve_done(t) \/ real_call(t)
    BY <1>1, <1>6 DEF pthread_once_pass, pthread_once_run, resolve_symbol, resolve_done,
                      real_call
  <1>7. QED
    BY <1>2, <1>3, <1>4, <1>5, <1>6 DEF Progress

\* Every step keeps the blocks apart.
LEMMA HeapStep ==
    ASSUME Inv, NEW t \in Threads, Call(t) \/ Progress(t)
    PROVE  Heap' /\ BlocksDisjoint'
  <1>1. \A u \in Threads : boot'[u].at = "cas" =>
           /\ boot'[u].current <= HeapSize
           /\ Total(boot'[u].size) <= HeapSize - boot'[u].current
    BY RequestStep
  <1>2. CASE UNCHANGED <<g_bootstrap_offset, blocks>>
    <2>1. Heap'
      BY <1>1, <1>2 DEF Inv, Heap, Ends, Reasonable, Total, ao_align_up
    <2>2. QED
      BY <1>2, <2>1 DEF Inv, BlocksDisjoint, Ends, Reasonable
  <1>3. CASE bootstrap_cas(t)
    <2> DEFINE b == [nr |-> Cardinality(blocks), at |-> g_bootstrap_offset,
                     size |-> boot[t].size]
    <2>1. /\ b.size \in 0 .. Modulus - 1 /\ b.at = g_bootstrap_offset
          /\ g_bootstrap_offset \in Nat /\ Total(b.size) \in Nat
          /\ g_bootstrap_offset' = g_bootstrap_offset + Total(b.size)
          /\ g_bootstrap_offset' \in 0 .. HeapSize
          /\ blocks' = blocks \cup {b}
      BY <1>3, Exchange
    <2> HIDE DEF b
    <2>2. Reasonable(b.size) => Ends(b) <= g_bootstrap_offset'
      <3>1. HeaderSize \in Nat /\ b.size \in Nat
        BY <2>1, StartupAssumption
      <3>2. Reasonable(b.size) => HeaderSize + b.size <= Total(b.size)
        BY <2>1, TotalHolds
      <3>3. QED
        BY <2>1, <3>1, <3>2 DEF Ends
    <2>3. \A c \in blocks : Reasonable(c.size) =>
             /\ Ends(c) <= g_bootstrap_offset /\ Ends(c) \in Nat
      <3>1. \A c \in blocks : c.at \in Nat /\ c.size \in Nat
        BY StartupAssumption DEF Inv, TypeOK
      <3>2. QED
        BY <3>1, StartupAssumption DEF Inv, Heap, Ends
    <2>4. \A c \in blocks' : Reasonable(c.size) => Ends(c) <= g_bootstrap_offset'
      BY <2>1, <2>2, <2>3
    <2>5. Heap'
      BY <1>1, <2>4 DEF Heap, Ends, Reasonable, Total, ao_align_up
    <2>6. Ends(b) \in Nat
      BY <2>1, StartupAssumption DEF Ends
    <2>7. \A c \in blocks' : Reasonable(c.size) => Ends(c) <= HeapSize
      BY <2>1, <2>2, <2>3, <2>6, StartupAssumption
    <2>8. \A c, d \in blocks' : Reasonable(c.size) /\ Reasonable(d.size) /\ c # d =>
             Ends(c) <= d.at \/ Ends(d) <= c.at
      <3>1. \A c, d \in blocks : Reasonable(c.size) /\ Reasonable(d.size) /\ c # d =>
               Ends(c) <= d.at \/ Ends(d) <= c.at
        BY DEF Inv, BlocksDisjoint
      <3>2. \A c \in blocks : Reasonable(c.size) => Ends(c) <= b.at
        BY <2>1, <2>3
      <3>3. QED
        BY <2>1, <3>1, <3>2
    <2>9. BlocksDisjoint'
      BY <2>7, <2>8 DEF BlocksDisjoint, Ends, Reasonable
    <2>10. QED
      BY <2>5, <2>9
  <1>4. QED
    BY <1>2, <1>3, HeapMoves

\* Every step keeps the resolution of the real functions in order.
LEMMA ResolutionStep ==
    ASSUME Inv, NEW t \in Threads, Call(t) \/ Progress(t)
    PROVE  Resolution'
  <1> USE DEF Resolution
  <1>0. TypeOK /\ Shape /\ Resolution
    BY DEF Inv
  <1>1. CASE Call(t)
    <2>1. /\ Enter(t) /\ held' \subseteq held
          /\ AtOnce(t) \/ AsksHeap(t) \/ GoesForReal(t)
      BY <1>1, CallEffect
    <2>2. CASE UNCHANGED pc
      BY <1>0, <2>1, <2>2 DEF Enter
    <2>3. CASE GoesForReal(t)
      <3>1. pc[t] = "idle" /\ pc' = [pc EXCEPT ![t] = "once"]
        BY <1>0, <2>1, <2>3 DEF Enter, GoesForReal, Ensure
      <3>2. QED
        BY <1>0, <2>1, <3>1 DEF Enter, TypeOK
    <2>4. QED
      BY <2>1, <2>2, <2>3 DEF AtOnce, AsksHeap
  <1>2. CASE bootstrap_load(t)
    <2>1. held' \subseteq held \cup BootPointers
      BY <1>0, <1>2 DEF bootstrap_load, Shape
    <2>2. QED
      BY <1>0, <1>2, <2>1 DEF bootstrap_load
  <1>3. CASE bootstrap_cas(t)
    <2>1. held' \subseteq held \cup BootPointers
      <3>1. boot[t].current + HeaderSize \in Nat
        BY <1>0, StartupAssumption DEF Shape
      <3>2. QED
        BY <1>3, <3>1 DEF bootstrap_cas, InBoot, BootPointers
    <2>2. QED
      BY <1>0, <1>3, <2>1 DEF bootstrap_cas
  <1>4. CASE bootstrap_cas_fails(t)
    BY <1>0, <1>4 DEF bootstrap_cas_fails
  <1>5. CASE pthread_once_pass(t)
    BY <1>0, <1>5 DEF pthread_once_pass, MayPass, TypeOK
  <1>6. CASE pthread_once_run(t)
    BY <1>0, <1>6 DEF pthread_once_run, MayRun, TypeOK
  <1>7. CASE resolve_symbol(t)
    BY <1>0, <1>7 DEF resolve_symbol, TypeOK
  <1>8. CASE resolve_done(t)
    BY <1>0, <1>8 DEF resolve_done, TypeOK
  <1>9. CASE real_call(t)
    BY <1>0, <1>9 DEF real_call, TypeOK
  <1>10. QED
    BY <1>1, <1>2, <1>3, <1>4, <1>5, <1>6, <1>7, <1>8, <1>9 DEF Progress

\* The invariant holds in every state.
THEOREM Invariance == Spec => []Inv
  <1>1. Init => Inv
    <2> SUFFICES ASSUME Init PROVE Inv
      OBVIOUS
    <2>1. TypeOK
      <3>1. g_in_resolver \in [Threads -> BOOLEAN] /\ exited \in BOOLEAN
        BY DEF Init
      <3>2. 0 \in 0 .. Len(Order) /\ 0 \in 0 .. HeapSize
        BY StartupAssumption DEF Order
      <3>3. QED
        BY <3>1, <3>2 DEF Init, TypeOK
    <2>2. Shape
      BY StartupAssumption, FS_EmptySet DEF Init, Shape, NoRequest, NoCall
    <2>3. Heap /\ BlocksDisjoint
      BY DEF Init, Heap, BlocksDisjoint, NoRequest
    <2>4. Resolution
      BY DEF Init, Resolution
    <2>5. QED
      BY <2>1, <2>2, <2>3, <2>4 DEF Inv
  <1>2. Inv /\ [Next]_vars => Inv'
    <2> SUFFICES ASSUME Inv, [Next]_vars PROVE Inv'
      OBVIOUS
    <2>1. ASSUME NEW t \in Threads, Call(t) \/ Progress(t) PROVE Inv'
      BY <2>1, TypeStep, ShapeStep, HeapStep, ResolutionStep DEF Inv
    <2>2. CASE UNCHANGED vars
      <3> USE <2>2 DEF vars, Inv
      <3>1. TypeOK' /\ Shape' /\ Resolution'
        BY DEF TypeOK, Shape, Resolution
      <3>2. Heap' /\ BlocksDisjoint'
        BY DEF Heap, BlocksDisjoint, Ends, Reasonable, Total, ao_align_up
      <3>3. QED
        BY <3>1, <3>2
    <2>3. QED
      BY <2>1, <2>2 DEF Next
  <1>3. QED
    BY <1>1, <1>2, PTL DEF Spec

\* The bump pointer of the bootstrap heap never leaves it.
THEOREM TypeCorrect == Spec => []TypeOK
  BY Invariance, PTL DEF Inv

\* The bootstrap blocks that threads get at the same time do not overlap and lie
\* in the heap, as far as their totals do not wrap.
THEOREM BootstrapBlocksDisjoint == Spec => []BlocksDisjoint
  BY Invariance, PTL DEF Inv

\* No thread calls through a real pointer that is not resolved.
THEOREM RealCallsAreResolved == Spec => []RealCallsResolved
  <1>1. Inv => RealCallsResolved
    BY DEF Inv, Resolution, RealCallsResolved
  <1>2. QED
    BY Invariance, <1>1, PTL

\* The functions called in the resolver never see a block of the real allocator.
THEOREM ResolverIsFirst == Spec => []ResolverSeesNoRealBlock
  <1>1. Inv => ResolverSeesNoRealBlock
    <2> SUFFICES ASSUME Inv, NEW t \in Threads, g_in_resolver[t], NEW p \in held
                 PROVE  p[1] = "boot"
      BY DEF ResolverSeesNoRealBlock
    <2>1. g_resolve_once # "done"
      BY DEF Inv, Resolution
    <2>2. p \in BootPointers
      BY <2>1 DEF Inv, Resolution
    <2>3. QED
      BY <2>2 DEF BootPointers
  <1>2. QED
    BY Invariance, <1>1, PTL

=============================================================================
