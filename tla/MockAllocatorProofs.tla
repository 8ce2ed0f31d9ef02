------------------------- MODULE MockAllocatorProofs -------------------------
(***************************************************************************)
(* Proofs about the interposed allocator, for any number of threads,       *)
(* addresses and calls and any capacity of the registry.                   *)
(*                                                                         *)
(* The argument is one of custody: every block that is allocated and that  *)
(* a call can still reach is in the hands of exactly one caller or of      *)
(* exactly one call in progress, so what one thread does to the registry   *)
(* entry of its own block disturbs no other thread.  The one exception is  *)
(* a realloc that has let go of an address whose entry it has still to     *)
(* remove (FixUpPending).                                                  *)
(***************************************************************************)
EXTENDS MockAllocator, FiniteSetTheorems, TLAPS

-----------------------------------------------------------------------------
(* The inductive invariant.                                                *)

Pointers == Addr \cup {NULL}
Origins  == {"none", "mock", "libc"}

Frames ==
    [ptr : Pointers, size : Nat, kind : 0 .. 2, old_size : Nat,
     allocation_id : Nat, new_ptr : Pointers, keeps : Pointers,
     origin : Origins]

\* The two counters that are kept whether or not capture is on.  No reset
\* clears them.
Live == {"live_blocks", "live_bytes"}

Adds     == [op : {"add"}, counter : Counters \ Live, n : Int, adds : {<<>>}]
Accesses ==
    {x \in [op : {"add", "store", "record"}, counter : Counters \cup {"none"},
            n : Int, adds : Seq(Adds)] :
        x.op = "store" => x.counter \notin Live}

\* The locals of every call and the counter accesses it has still to make have
\* their shape, and the registry is finite.
FramesOK ==
    /\ frame \in [Threads -> Frames]
    /\ todo \in [Threads -> Seq(Accesses)]
    /\ IsFiniteSet(DOMAIN g_registry)
    /\ reused \in BOOLEAN
    /\ nest \in [Threads -> Int]

\* The labels at which a call answers for new_ptr, and those where it answers
\* for ptr.
NewLabels ==
    {"track_lock", "track", "exhausted", "re_fix_lock", "re_fix",
     "exhausted_realloc"}
PtrLabels ==
    {"re_lookup_lock", "re_lookup", "re_bypass", "re_tracked", "fr_lock",
     "fr_remove", "fr_real", "ow_lock", "ow_lookup", "bridge"}

\* The block the call of thread t answers for, or NULL.
Carried(t) ==
    IF pc[t] \in NewLabels THEN frame[t].new_ptr
    ELSE IF pc[t] \in PtrLabels THEN frame[t].ptr
    ELSE IF pc[t] = "return" THEN frame[t].keeps
    ELSE NULL

\* Blocks that callers hold or calls carry are allocated, and each is with one
\* of them only.
Custody ==
    /\ \A a \in Addr : held[a] # "none" => a \in heap
    /\ \A t \in Threads :
          Carried(t) # NULL => Carried(t) \in heap /\ held[Carried(t)] = "none"
    /\ \A t, u \in Threads :
          Carried(t) # NULL /\ Carried(t) = Carried(u) => t = u

\* What the locals of a call are at each label.
LocalsOf(t) ==
    /\ pc[t] \in PtrLabels \cup {"re_fix_lock", "re_fix"} => frame[t].ptr \in Addr
    /\ pc[t] \in {"track_lock", "track"} =>
          /\ frame[t].new_ptr \in Addr
          /\ frame[t].keeps = frame[t].new_ptr
          /\ frame[t].origin = "mock"
    /\ pc[t] \in {"re_fix_lock", "re_fix"} => frame[t].keeps = frame[t].new_ptr
    /\ pc[t] \in {"re_lookup_lock", "re_lookup", "re_bypass", "re_tracked",
                  "re_fix_lock", "re_fix", "ow_lock", "ow_lookup", "bridge"} =>
          frame[t].origin # "none"
    /\ pc[t] \in {"ow_lock", "ow_lookup", "bridge"} => frame[t].keeps = frame[t].ptr
    /\ pc[t] \in {"fr_lock", "fr_remove", "fr_real"} => frame[t].keeps = NULL
    /\ pc[t] = "return" /\ frame[t].keeps # NULL => frame[t].origin # "none"
    /\ pc[t] = "resetting" => frame[t].keeps = NULL

LocalsOK == \A t \in Threads : LocalsOf(t)

\* A block about to be given back, or to be reallocated as one that is not
\* tracked, is not in the registry.
Untracked ==
    \A t \in Threads :
        pc[t] \in {"fr_real", "bridge", "re_bypass"} =>
            frame[t].ptr \notin DOMAIN g_registry

\* An address is released by one realloc at a time, and it is not allocated
\* until that realloc has removed it.
PendingAlone ==
    \A t \in Threads : \A a \in Addr :
        FixUpPending(t, a) =>
            /\ a \notin heap
            /\ \A u \in Threads : FixUpPending(u, a) => t = u

\* The block a call answers for is tracked if its caller obtained it from this
\* library, and not tracked if it comes from libc.
KnownOf(t) ==
    /\ pc[t] \in {"re_lookup_lock", "re_lookup", "ow_lock", "ow_lookup",
                  "bridge", "re_bypass", "re_tracked", "return"}
          /\ Carried(t) # NULL =>
          (frame[t].origin = "mock" <=> Carried(t) \in DOMAIN g_registry)
    /\ pc[t] \in {"re_tracked", "re_fix_lock", "re_fix"} =>
          /\ frame[t].ptr \in DOMAIN g_registry
          /\ frame[t].origin = "mock"

CarriedKnown == \A t \in Threads : KnownOf(t)

\* No realloc has run out of room.
NoExhaustion ==
    /\ exited # "exhausted_realloc"
    /\ \A t \in Threads : pc[t] # "exhausted_realloc"

\* What holds as long as no address is reused under an unfinished realloc.
Orderly ==
    /\ PendingAlone
    /\ CarriedKnown
    /\ MockBlocksTracked
    /\ LibcBlocksUntracked
    /\ NoExhaustion

Inv ==
    /\ TypeOK
    /\ FramesOK
    /\ LocalsOK
    /\ Custody
    /\ Untracked
    /\ NoStaleEntry
    /\ (~reused => Orderly)

\* The threads between the load and the decrement of ao_mock_end_capture leave
\* the depth above its floor.
Ending == {t \in Threads : pc[t] = "end_sub"}
FloorInv ==
    g_capture_depth - Cardinality(Ending) >= 1 - Cardinality(Threads)

-----------------------------------------------------------------------------
(* Sums over finite sets.                                                  *)

\* A set of subsets of a finite set has one that is minimal.
LEMMA Minimal ==
    ASSUME NEW S, IsFiniteSet(S), NEW B \in SUBSET SUBSET S, B # {}
    PROVE  \E T \in B : \A U \in B : U \subseteq T => U = T
  <1> DEFINE R == StrictSubsetOrdering(S)
  <1>1. IsWellFoundedOn(R, SUBSET S)
    BY FS_FiniteSubsetsOfFinite, FS_StrictSubsetOrderingWellFounded
  <1> HIDE DEF R
  <1>2. PICK T \in B : \A U \in B : ~(<<U, T>> \in R)
    BY <1>1, WFMin
  <1>3. \A U \in B : U \subseteq T /\ U # T => <<U, T>> \in R
    BY DEF R, StrictSubsetOrdering
  <1>4. ASSUME NEW U \in B, U \subseteq T, U # T  PROVE FALSE
    BY <1>2, <1>3, <1>4
  <1>5. \A U \in B : U \subseteq T => U = T
    BY <1>4
  <1> QED
    BY <1>5

\* The element that the folds of module Functions take next, and the function
\* that they define by recursion on the subsets of S.
Chosen(s) == CHOOSE x \in s : TRUE
Sums(f, S, it) ==
    it = [s \in SUBSET S |-> IF s = {} THEN 0 ELSE f[Chosen(s)] + it[s \ {Chosen(s)}]]

LEMMA SumsUnfold ==
    ASSUME NEW f, NEW S, NEW it, Sums(f, S, it)
    PROVE  \E g : Sums(f, S, g) /\ SumFunctionOnSet(f, S) = g[S]
  BY Zenon DEF SumFunctionOnSet, FoldFunctionOnSet, MapThenFoldSet, Sums, Chosen

LEMMA SumsEmpty ==
    ASSUME NEW f, NEW S, NEW it, Sums(f, S, it)
    PROVE  it[{}] = 0
  BY Zenon DEF Sums

LEMMA SumsNext ==
    ASSUME NEW f, NEW S, NEW it, Sums(f, S, it), NEW s \in SUBSET S, s # {}
    PROVE  it[s] = f[Chosen(s)] + it[s \ {Chosen(s)}]
  BY Zenon DEF Sums

LEMMA ChosenIn ==
    ASSUME NEW s, s # {}
    PROVE  Chosen(s) \in s
  BY DEF Chosen

LEMMA SumsAgree ==
    ASSUME NEW f, NEW S, NEW T, NEW g, NEW h, Sums(f, S, g), Sums(f, T, h),
           NEW s \in SUBSET (S \cap T), IsFiniteSet(s)
    PROVE  g[s] = h[s]
  <1> DEFINE B == {u \in SUBSET s : g[u] # h[u]}
  <1>1. B = {}
    <2> SUFFICES ASSUME B # {}  PROVE FALSE
      OBVIOUS
    <2>1. PICK u \in B : \A v \in B : v \subseteq u => v = u
      <3>1. B \in SUBSET SUBSET s
        OBVIOUS
      <3> HIDE DEF B
      <3> QED
        BY <3>1, Minimal
    <2>2. u \in SUBSET S /\ u \in SUBSET T /\ u \in SUBSET s /\ g[u] # h[u]
      BY <2>1
    <2>3. CASE u = {}
      <3>1. g[{}] = 0 /\ h[{}] = 0
        BY SumsEmpty, Zenon
      <3> QED
        BY <2>2, <2>3, <3>1, Zenon
    <2>4. CASE u # {}
      <3> DEFINE c == Chosen(u)
                 v == u \ {c}
      <3>1. g[u] = f[c] + g[v] /\ h[u] = f[c] + h[v] /\ c \in u
        <4>1. g[u] = f[c] + g[v]
          BY <2>2, <2>4, SumsNext
        <4>2. h[u] = f[c] + h[v]
          BY <2>2, <2>4, SumsNext
        <4> QED
          BY <2>4, <4>1, <4>2, ChosenIn, Zenon
      <3> HIDE DEF c
      <3>2. v \notin B /\ v \in SUBSET s
        BY <2>1, <2>2, <3>1
      <3> QED
        BY <2>2, <3>1, <3>2
    <2> QED
      BY <2>3, <2>4
  <1> QED
    BY <1>1

LEMMA SumsExist ==
    ASSUME NEW f, NEW S, IsFiniteSet(S)
    PROVE  \E it : Sums(f, S, it)
  <1> DEFINE B == {u \in SUBSET S : ~\E it : Sums(f, u, it)}
  <1>1. B = {}
    <2> SUFFICES ASSUME B # {}  PROVE FALSE
      OBVIOUS
    <2>1. PICK u \in B : \A v \in B : v \subseteq u => v = u
      <3>1. B \in SUBSET SUBSET S
        OBVIOUS
      <3> HIDE DEF B
      <3> QED
        BY <3>1, Minimal
    <2>2. u \in SUBSET S /\ ~\E it : Sums(f, u, it)
      BY <2>1
    <2> DEFINE G(v) == CHOOSE it : Sums(f, v, it)
               it   == [s \in SUBSET u |-> IF s = {} THEN 0
                                           ELSE f[Chosen(s)] + G(s \ {Chosen(s)})[s \ {Chosen(s)}]]
    <2>3. ASSUME NEW v \in SUBSET u, v # u  PROVE Sums(f, v, G(v))
      <3>1. \E i : Sums(f, v, i)
        BY <2>1, <2>2, <2>3
      <3> QED
        BY <3>1
    <2> HIDE DEF G
    <2>4. ASSUME NEW s \in SUBSET u, s # {}
          PROVE  it[s \ {Chosen(s)}] = G(s \ {Chosen(s)})[s \ {Chosen(s)}]
      <3> DEFINE v == s \ {Chosen(s)}
                 w == v \ {Chosen(v)}
      <3>1. Chosen(s) \in s
        BY <2>4 DEF Chosen
      <3>2. v \in SUBSET u /\ v # u
        BY <3>1
      <3>3. Sums(f, v, G(v)) /\ v \in SUBSET v
        BY <2>3, <3>2
      <3>4. it[v] = IF v = {} THEN 0 ELSE f[Chosen(v)] + G(w)[w]
        BY <3>2
      <3>5. CASE v = {}
        BY <3>3, <3>4, <3>5, SumsEmpty, Zenon
      <3>6. CASE v # {}
        <4>1. G(v)[v] = f[Chosen(v)] + G(v)[w] /\ Chosen(v) \in v /\ w \in SUBSET v
          <5>1. G(v)[v] = f[Chosen(v)] + G(v)[w]
            <6> DEFINE gv == G(v)
            <6>1. Sums(f, v, gv) /\ v \in SUBSET v /\ v # {}
              BY <3>3, <3>6
            <6> HIDE DEF gv, v
            <6>2. gv[v] = f[Chosen(v)] + gv[w]
              BY <6>1, SumsNext
            <6> QED
              BY <6>2 DEF gv
          <5>2. Chosen(v) \in v
            BY <3>6, ChosenIn, Zenon
          <5> QED
            BY <5>1, <5>2
        <4>2. Sums(f, w, G(w))
          <5>1. w \in SUBSET u /\ w # u
            BY <3>2, <4>1
          <5> QED
            BY <2>3, <5>1
        <4>3. IsFiniteSet(w)
          BY <2>2, <3>2, <4>1, FS_Subset
        <4>4. w \in SUBSET (w \cap v)
          BY <4>1
        <4>5. G(v)[w] = G(w)[w]
          BY <3>3, <4>2, <4>3, <4>4, SumsAgree
        <4> QED
          BY <3>4, <3>6, <4>1, <4>5
      <3> QED
        BY <3>5, <3>6
    <2>5. Sums(f, u, it)
      <3>1. ASSUME NEW s \in SUBSET u
            PROVE  it[s] = IF s = {} THEN 0 ELSE f[Chosen(s)] + it[s \ {Chosen(s)}]
        BY <2>4, <3>1
      <3>2. it = [s \in SUBSET u |-> it[s]]
        OBVIOUS
      <3> HIDE DEF it
      <3> QED
        BY <3>1, <3>2, Zenon DEF Sums
    <2> QED
      BY <2>2, <2>5
  <1> QED
    BY <1>1
\* What SumFunctionOnSet is for finite sets.
LEMMA SumEmpty ==
    ASSUME NEW f
    PROVE  SumFunctionOnSet(f, {}) = 0
  <1>1. \E it : Sums(f, {}, it)
    BY SumsExist, FS_EmptySet
  <1>2. PICK g : Sums(f, {}, g) /\ SumFunctionOnSet(f, {}) = g[{}]
    BY <1>1, SumsUnfold
  <1> QED
    BY <1>2, SumsEmpty

LEMMA SumChosen ==
    ASSUME NEW f, NEW S, IsFiniteSet(S), S # {}
    PROVE  SumFunctionOnSet(f, S) = f[Chosen(S)] + SumFunctionOnSet(f, S \ {Chosen(S)})
  <1> DEFINE T == S \ {Chosen(S)}
  <1>1. IsFiniteSet(T) /\ T \in SUBSET S /\ T \in SUBSET T
    BY FS_Subset
  <1>2. (\E it : Sums(f, S, it)) /\ (\E it : Sums(f, T, it))
    BY <1>1, SumsExist
  <1> HIDE DEF T
  <1>3. PICK g : Sums(f, S, g) /\ SumFunctionOnSet(f, S) = g[S]
    BY <1>2, SumsUnfold
  <1>4. PICK h : Sums(f, T, h) /\ SumFunctionOnSet(f, T) = h[T]
    BY <1>2, SumsUnfold
  <1>5. g[S] = f[Chosen(S)] + g[T]
    BY <1>3, SumsNext DEF T
  <1>6. g[T] = h[T]
    <2>1. T \in SUBSET (S \cap T)
      BY <1>1
    <2> QED
      BY <1>1, <1>3, <1>4, <2>1, SumsAgree
  <1> QED
    BY <1>3, <1>4, <1>5, <1>6 DEF T

\* A sum of integers is one, and any of them may be taken first.
LEMMA SumTakes ==
    ASSUME NEW f, NEW S, IsFiniteSet(S), \A x \in S : f[x] \in Int
    PROVE  /\ SumFunctionOnSet(f, S) \in Int
           /\ \A x \in S : SumFunctionOnSet(f, S) = f[x] + SumFunctionOnSet(f, S \ {x})
  <1> DEFINE F(T) == SumFunctionOnSet(f, T)
             Fine(T) == F(T) \in Int /\ \A x \in T : F(T) = f[x] + F(T \ {x})
             B == {T \in SUBSET S : ~Fine(T)}
  <1>1. B = {}
    <2> SUFFICES ASSUME B # {}  PROVE FALSE
      OBVIOUS
    <2>1. PICK u \in B : \A v \in B : v \subseteq u => v = u
      <3>1. B \in SUBSET SUBSET S
        OBVIOUS
      <3> HIDE DEF B
      <3> QED
        BY <3>1, Minimal
    <2>2. u \in SUBSET S /\ ~Fine(u)
      BY <2>1
    <2>3. ASSUME NEW v \in SUBSET u, v # u  PROVE Fine(v)
      BY <2>1, <2>2, <2>3
    <2> HIDE DEF B
    <2>4. u # {}
      <3> SUFFICES ASSUME u = {}  PROVE FALSE
        OBVIOUS
      <3>1. F({}) = 0
        BY SumEmpty
      <3> HIDE DEF F
      <3> QED
        BY <2>2, <3>1
    <2> DEFINE c == Chosen(u)
    <2>5. F(u) = f[c] + F(u \ {c}) /\ c \in u
      <3>1. IsFiniteSet(u)
        BY <2>2, FS_Subset
      <3> QED
        BY <2>4, <3>1, SumChosen, ChosenIn
    <2> HIDE DEF F, c
    <2>6. F(u \ {c}) \in Int /\ f[c] \in Int
      BY <2>2, <2>3, <2>5
    <2>7. ASSUME NEW x \in u, x # c  PROVE F(u) = f[x] + F(u \ {x})
      <3> DEFINE w == (u \ {c}) \ {x}
      <3>1. F(u \ {c}) = f[x] + F(w)
        <4>1. Fine(u \ {c}) /\ x \in u \ {c}
          BY <2>3, <2>5, <2>7
        <4> QED
          BY <4>1
      <3>2. F(u \ {x}) = f[c] + F((u \ {x}) \ {c})
        <4>1. Fine(u \ {x}) /\ c \in u \ {x}
          BY <2>3, <2>5, <2>7
        <4> QED
          BY <4>1
      <3>3. (u \ {x}) \ {c} = w
        OBVIOUS
      <3>4. F(w) \in Int /\ f[x] \in Int
        <4>1. w \in SUBSET u /\ w # u
          BY <2>7
        <4> HIDE DEF w
        <4> QED
          BY <2>2, <2>3, <2>7, <4>1
      <3> HIDE DEF w
      <3>5. F(u \ {x}) = f[c] + F(w)
        BY <3>2, <3>3
      <3> QED
        BY <2>5, <2>6, <3>1, <3>4, <3>5
    <2>8. Fine(u)
      BY <2>5, <2>6, <2>7
    <2> QED
      BY <2>2, <2>8
  <1> QED
    BY <1>1

\* Summands may be renamed.
LEMMA SumRenamed ==
    ASSUME NEW f, NEW S, IsFiniteSet(S), \A x \in S : f[x] \in Int,
           NEW g, NEW T, NEW b \in [S -> T],
           \A x, y \in S : b[x] = b[y] => x = y,
           \A y \in T : \E x \in S : b[x] = y,
           \A x \in S : g[b[x]] = f[x]
    PROVE  SumFunctionOnSet(f, S) = SumFunctionOnSet(g, T)
  <1> DEFINE F(u) == SumFunctionOnSet(f, u)
             G(u) == SumFunctionOnSet(g, u)
             Image(u) == {b[x] : x \in u}
             B == {u \in SUBSET S : F(u) # G(Image(u))}
  <1>1. B = {}
    <2> SUFFICES ASSUME B # {}  PROVE FALSE
      OBVIOUS
    <2>1. PICK u \in B : \A v \in B : v \subseteq u => v = u
      <3>1. B \in SUBSET SUBSET S
        OBVIOUS
      <3> HIDE DEF B
      <3> QED
        BY <3>1, Minimal
    <2>2. u \in SUBSET S /\ F(u) # G(Image(u))
      BY <2>1
    <2>3. ASSUME NEW v \in SUBSET u, v # u  PROVE F(v) = G(Image(v))
      BY <2>1, <2>2, <2>3
    <2> HIDE DEF B
    <2>4. CASE u = {}
      <3>1. Image({}) = {}
        OBVIOUS
      <3>2. F({}) = 0 /\ G({}) = 0
        BY SumEmpty
      <3> HIDE DEF F, G, Image
      <3> QED
        BY <2>2, <2>4, <3>1, <3>2
    <2>5. CASE u # {}
      <3>1. PICK x \in u : TRUE
        BY <2>5
      <3> DEFINE v == u \ {x}
      <3>2. IsFiniteSet(u) /\ (\A y \in u : f[y] \in Int)
        BY <2>2, FS_Subset
      <3>3. F(u) = f[x] + F(v)
        BY <3>1, <3>2, SumTakes
      <3>4. IsFiniteSet(Image(u))
        <4> DEFINE h == [y \in u |-> b[y]]
        <4>1. h \in Surjection(u, Image(u))
          BY DEF Surjection
        <4> HIDE DEF h, Image
        <4> QED
          BY <3>2, <4>1, FS_Surjection
      <3>5. \A y \in Image(u) : g[y] \in Int
        BY <2>2
      <3>6. b[x] \in Image(u) /\ g[b[x]] = f[x]
        BY <2>2, <3>1
      <3>7. G(Image(u)) = g[b[x]] + G(Image(u) \ {b[x]})
        <4> DEFINE I == Image(u)
                   z == b[x]
        <4>1. IsFiniteSet(I) /\ (\A y \in I : g[y] \in Int) /\ z \in I
          BY <3>4, <3>5, <3>6
        <4> HIDE DEF I, z
        <4>2. SumFunctionOnSet(g, I) = g[z] + SumFunctionOnSet(g, I \ {z})
          BY <4>1, SumTakes
        <4> QED
          BY <4>2 DEF I, z
      <3>8. Image(u) \ {b[x]} = Image(v)
        BY <2>2, <3>1
      <3>9. F(v) = G(Image(v))
        <4>1. v \in SUBSET u /\ v # u
          BY <3>1
        <4> HIDE DEF v, F, G, Image
        <4> QED
          BY <2>3, <4>1
      <3> HIDE DEF F, G, Image, v
      <3> QED
        BY <2>2, <3>3, <3>6, <3>7, <3>8, <3>9
    <2> QED
      BY <2>4, <2>5
  <1>2. Image(S) = T
    OBVIOUS
  <1>3. F(S) = G(Image(S))
    <2> HIDE DEF F, G, Image
    <2> QED
      BY <1>1
  <1> QED
    BY <1>2, <1>3

LEMMA SumSame ==
    ASSUME NEW f, NEW S, IsFiniteSet(S), \A x \in S : f[x] \in Int,
           NEW g, \A x \in S : g[x] = f[x]
    PROVE  SumFunctionOnSet(f, S) = SumFunctionOnSet(g, S)
  <1> DEFINE b == [x \in S |-> x]
  <1>1. /\ b \in [S -> S] /\ (\A x, y \in S : b[x] = b[y] => x = y)
        /\ (\A y \in S : \E x \in S : b[x] = y) /\ (\A x \in S : g[b[x]] = f[x])
    OBVIOUS
  <1> HIDE DEF b
  <1> QED
    BY <1>1, SumRenamed

\* A sum in which one summand changes.
LEMMA SumChanges ==
    ASSUME NEW f, NEW S, IsFiniteSet(S), \A x \in S : f[x] \in Int,
           NEW g, NEW z \in S, g[z] \in Int, \A x \in S \ {z} : g[x] = f[x]
    PROVE  SumFunctionOnSet(g, S) = SumFunctionOnSet(f, S) + g[z] - f[z]
  <1> DEFINE r == SumFunctionOnSet(f, S \ {z})
  <1>1. \A x \in S : g[x] \in Int
    OBVIOUS
  <1>2. IsFiniteSet(S \ {z}) /\ \A x \in S \ {z} : f[x] \in Int
    BY FS_Subset
  <1>3. r \in Int
    BY <1>2, SumTakes
  <1>4. SumFunctionOnSet(g, S \ {z}) = r
    BY <1>2, SumSame
  <1>5. SumFunctionOnSet(f, S) = f[z] + r
    BY SumTakes
  <1>6. SumFunctionOnSet(g, S) = g[z] + SumFunctionOnSet(g, S \ {z})
    BY <1>1, SumTakes
  <1> HIDE DEF r
  <1> QED
    BY <1>3, <1>4, <1>5, <1>6

\* A sum of zeros.
LEMMA SumZero ==
    ASSUME NEW f, NEW S, IsFiniteSet(S), \A x \in S : f[x] = 0
    PROVE  SumFunctionOnSet(f, S) = 0
  <1> DEFINE F(u) == SumFunctionOnSet(f, u)
             B == {u \in SUBSET S : F(u) # 0}
  <1>1. B = {}
    <2> SUFFICES ASSUME B # {}  PROVE FALSE
      OBVIOUS
    <2>1. PICK u \in B : \A v \in B : v \subseteq u => v = u
      <3>1. B \in SUBSET SUBSET S
        OBVIOUS
      <3> HIDE DEF B
      <3> QED
        BY <3>1, Minimal
    <2>2. u \in SUBSET S /\ F(u) # 0
      BY <2>1
    <2>3. PICK x \in u : TRUE
      <3>1. F({}) = 0
        BY SumEmpty
      <3> HIDE DEF F
      <3> QED
        BY <2>2, <3>1
    <2>4. F(u) = f[x] + F(u \ {x})
      <3>1. IsFiniteSet(u) /\ \A y \in u : f[y] \in Int
        BY <2>2, FS_Subset
      <3> QED
        BY <2>3, <3>1, SumTakes
    <2>5. F(u \ {x}) = 0
      <3> HIDE DEF F
      <3> QED
        BY <2>1, <2>2, <2>3
    <2> HIDE DEF F
    <2> QED
      BY <2>2, <2>3, <2>4, <2>5
  <1> QED
    BY <1>1

\* Two disjoint sets of summands.
LEMMA SumUnion ==
    ASSUME NEW f, NEW S, NEW T, IsFiniteSet(S), IsFiniteSet(T), S \cap T = {},
           \A x \in S \cup T : f[x] \in Int
    PROVE  SumFunctionOnSet(f, S \cup T) = SumFunctionOnSet(f, S) + SumFunctionOnSet(f, T)
  <1> DEFINE F(u) == SumFunctionOnSet(f, u)
             B == {u \in SUBSET S : F(u \cup T) # F(u) + F(T)}
  <1>1. B = {}
    <2> SUFFICES ASSUME B # {}  PROVE FALSE
      OBVIOUS
    <2>1. PICK u \in B : \A v \in B : v \subseteq u => v = u
      <3>1. B \in SUBSET SUBSET S
        OBVIOUS
      <3> HIDE DEF B
      <3> QED
        BY <3>1, Minimal
    <2>2. u \in SUBSET S /\ F(u \cup T) # F(u) + F(T)
      BY <2>1
    <2>3. ASSUME NEW v \in SUBSET u, v # u  PROVE F(v \cup T) = F(v) + F(T)
      BY <2>1, <2>2, <2>3
    <2> HIDE DEF B
    <2>4. F(T) \in Int
      BY SumTakes
    <2>5. CASE u = {}
      <3>1. F({}) = 0
        BY SumEmpty
      <3>2. u \cup T = T
        BY <2>5
      <3> HIDE DEF F
      <3> QED
        BY <2>2, <2>4, <2>5, <3>1, <3>2
    <2>6. CASE u # {}
      <3>1. PICK x \in u : TRUE
        BY <2>6
      <3> DEFINE v == u \ {x}
      <3>2. IsFiniteSet(u) /\ (\A y \in u : f[y] \in Int)
        BY <2>2, FS_Subset
      <3>3. F(u) = f[x] + F(v) /\ f[x] \in Int
        BY <3>1, <3>2, SumTakes
      <3>4. F(v) \in Int
        <4>1. IsFiniteSet(v) /\ \A y \in v : f[y] \in Int
          BY <3>2, FS_Subset
        <4> HIDE DEF v
        <4> QED
          BY <4>1, SumTakes
      <3>5. F(u \cup T) = f[x] + F((u \cup T) \ {x})
        <4> DEFINE w == u \cup T
        <4>1. IsFiniteSet(w) /\ (\A y \in w : f[y] \in Int) /\ x \in w
          BY <2>2, <3>1, <3>2, FS_Union
        <4> HIDE DEF w
        <4>2. SumFunctionOnSet(f, w) = f[x] + SumFunctionOnSet(f, w \ {x})
          BY <4>1, SumTakes
        <4> QED
          BY <4>2 DEF w
      <3>6. (u \cup T) \ {x} = v \cup T
        BY <2>2, <3>1
      <3>7. F(v \cup T) = F(v) + F(T)
        <4>1. v \in SUBSET u /\ v # u
          BY <3>1
        <4> HIDE DEF v, F
        <4> QED
          BY <2>3, <4>1
      <3> HIDE DEF F, v
      <3>8. F(u \cup T) = f[x] + F(v \cup T)
        BY <3>5, <3>6
      <3> QED
        BY <2>2, <2>4, <3>3, <3>4, <3>7, <3>8
    <2> QED
      BY <2>5, <2>6
  <1>2. F(S \cup T) = F(S) + F(T)
    <2> HIDE DEF F
    <2> QED
      BY <1>1
  <1> QED
    BY <1>2

\* A sequence of summands in two parts.
LEMMA SumConcat ==
    ASSUME NEW g, g \in Seq(Int), NEW h, h \in Seq(Int)
    PROVE  SumFunction(g \o h) = SumFunction(g) + SumFunction(h)
  <1> DEFINE f == g \o h
             m == Len(g)
             n == Len(h)
             S == DOMAIN g
             R == DOMAIN h
             T == m + 1 .. m + n
             b == [i \in R |-> m + i]
  <1>1. m \in Nat /\ n \in Nat /\ S = 1 .. m /\ R = 1 .. n /\ DOMAIN f = 1 .. m + n
    OBVIOUS
  <1>2. /\ \A i \in S : g[i] \in Int /\ f[i] = g[i]
        /\ \A i \in R : h[i] \in Int /\ f[m + i] = h[i]
    OBVIOUS
  <1> HIDE DEF f, m, n, S, R
  <1>3. IsFiniteSet(S) /\ IsFiniteSet(R) /\ IsFiniteSet(T)
    <2>1. 1 \in Int /\ m \in Int /\ n \in Int /\ m + 1 \in Int /\ m + n \in Int
      BY <1>1
    <2> QED
      BY <1>1, <2>1, FS_Interval
  <1>4. S \cap T = {} /\ S \cup T = DOMAIN f
    BY <1>1
  <1>5. b \in [R -> T] /\ \A x, y \in R : b[x] = b[y] => x = y
    BY <1>1
  <1>6. \A y \in T : \E x \in R : b[x] = y
    <2>1. \A y \in T : y - m \in R /\ m + (y - m) = y
      BY <1>1
    <2> QED
      BY <2>1
  <1>7. \A x \in R : h[x] \in Int /\ f[b[x]] = h[x]
    BY <1>2
  <1> HIDE DEF T, b
  <1>8. SumFunctionOnSet(h, R) = SumFunctionOnSet(f, T)
    BY ONLY <1>3, <1>5, <1>6, <1>7, SumRenamed
  <1>9. SumFunctionOnSet(g, S) = SumFunctionOnSet(f, S)
    BY ONLY <1>2, <1>3, SumSame
  <1>10. \A x \in S \cup T : f[x] \in Int
    BY <1>2, <1>5, <1>6, <1>7
  <1>11. SumFunctionOnSet(f, S \cup T) = SumFunctionOnSet(f, S) + SumFunctionOnSet(f, T)
    BY ONLY <1>3, <1>4, <1>10, SumUnion
  <1>12. /\ SumFunction(g) = SumFunctionOnSet(g, S)
         /\ SumFunction(h) = SumFunctionOnSet(h, R)
         /\ SumFunction(f) = SumFunctionOnSet(f, S \cup T)
    BY <1>4, Zenon DEF SumFunction, S, R
  <1> QED
    BY <1>8, <1>9, <1>11, <1>12 DEF f

\* A sum of natural numbers is one.
LEMMA SumNat ==
    ASSUME NEW f, NEW S, IsFiniteSet(S), \A x \in S : f[x] \in Nat
    PROVE  SumFunctionOnSet(f, S) \in Nat
  <1> DEFINE F(u) == SumFunctionOnSet(f, u)
             B == {u \in SUBSET S : F(u) \notin Nat}
  <1>1. B = {}
    <2> SUFFICES ASSUME B # {}  PROVE FALSE
      OBVIOUS
    <2>1. PICK u \in B : \A v \in B : v \subseteq u => v = u
      <3>1. B \in SUBSET SUBSET S
        OBVIOUS
      <3> HIDE DEF B
      <3> QED
        BY <3>1, Minimal
    <2>2. u \in SUBSET S /\ F(u) \notin Nat
      BY <2>1
    <2>3. PICK x \in u : TRUE
      <3>1. F({}) = 0
        BY SumEmpty
      <3> HIDE DEF F
      <3> QED
        BY <2>2, <3>1
    <2>4. F(u) = f[x] + F(u \ {x})
      <3>1. IsFiniteSet(u) /\ \A y \in u : f[y] \in Int
        BY <2>2, FS_Subset
      <3> QED
        BY <2>3, <3>1, SumTakes
    <2>5. F(u \ {x}) \in Nat
      <3> HIDE DEF F
      <3> QED
        BY <2>1, <2>2, <2>3
    <2>6. f[x] \in Nat
      BY <2>2, <2>3
    <2> HIDE DEF F
    <2> QED
      BY <2>2, <2>4, <2>5, <2>6
  <1> QED
    BY <1>1

\* A sum is bounded by another one if each positive summand of the first is
\* bounded by a summand of its own of the second, none of which is negative.
LEMMA SumCovered ==
    ASSUME NEW f, NEW S, IsFiniteSet(S), \A x \in S : f[x] \in Int,
           NEW g, NEW T, IsFiniteSet(T), \A y \in T : g[y] \in Nat,
           NEW P, NEW b, \A x \in P : b[x] \in T,
           \A x, y \in P : b[x] = b[y] => x = y,
           \A x \in S \cap P : f[x] <= g[b[x]],
           \A x \in S \ P : f[x] <= 0
    PROVE  SumFunctionOnSet(f, S) <= SumFunctionOnSet(g, T)
  <1> DEFINE F(u) == SumFunctionOnSet(f, u)
             G(u) == SumFunctionOnSet(g, u)
             Image(u) == {b[x] : x \in u \cap P}
             B == {u \in SUBSET S : ~(F(u) <= G(Image(u)))}
  <1>1. ASSUME NEW u \in SUBSET T  PROVE IsFiniteSet(u) /\ \A y \in u : g[y] \in Nat /\ g[y] \in Int
    BY FS_Subset
  <1>2. ASSUME NEW u \in SUBSET T  PROVE G(u) \in Nat
    <2> QED
      BY <1>1, SumNat
  <1>3. B = {}
    <2> SUFFICES ASSUME B # {}  PROVE FALSE
      OBVIOUS
    <2>1. PICK u \in B : \A v \in B : v \subseteq u => v = u
      <3>1. B \in SUBSET SUBSET S
        OBVIOUS
      <3> HIDE DEF B
      <3> QED
        BY <3>1, Minimal
    <2>2. u \in SUBSET S /\ ~(F(u) <= G(Image(u)))
      BY <2>1
    <2>3. ASSUME NEW v \in SUBSET u, v # u  PROVE F(v) <= G(Image(v))
      BY <2>1, <2>2, <2>3
    <2> HIDE DEF B
    <2>4. Image(u) \in SUBSET T
      OBVIOUS
    <2>5. PICK x \in u : TRUE
      <3>1. F({}) = 0
        BY SumEmpty
      <3>2. G(Image(u)) \in Nat
        <4> HIDE DEF G, Image
        <4> QED
          BY <1>2, <2>4
      <3> HIDE DEF F, G
      <3> QED
        BY <2>2, <3>1, <3>2
    <2> DEFINE v == u \ {x}
    <2>6. IsFiniteSet(u) /\ (\A y \in u : f[y] \in Int) /\ f[x] \in Int
      BY <2>2, <2>5, FS_Subset
    <2>7. F(u) = f[x] + F(v)
      BY <2>5, <2>6, SumTakes
    <2>8. F(v) \in Int
      <3>1. IsFiniteSet(v) /\ \A y \in v : f[y] \in Int
        BY <2>6, FS_Subset
      <3> HIDE DEF v
      <3> QED
        BY <3>1, SumTakes
    <2>9. F(v) <= G(Image(v))
      <3>1. v \in SUBSET u /\ v # u
        BY <2>5
      <3> HIDE DEF v, F, G, Image
      <3> QED
        BY <2>3, <3>1
    <2>10. Image(v) \in SUBSET T
      OBVIOUS
    <2>11. G(Image(v)) \in Int /\ G(Image(u)) \in Int
      <3> HIDE DEF G, Image, v
      <3> QED
        BY <1>2, <2>4, <2>10
    <2>12. CASE x \in P
      <3>1. b[x] \in Image(u) /\ Image(u) \ {b[x]} = Image(v) /\ f[x] <= g[b[x]]
        BY <2>2, <2>5, <2>12
      <3>2. G(Image(u)) = g[b[x]] + G(Image(u) \ {b[x]}) /\ g[b[x]] \in Int
        <4> DEFINE I == Image(u)
                   z == b[x]
        <4>1. z \in I /\ I \in SUBSET T
          BY <2>4, <3>1
        <4> HIDE DEF I, z
        <4>2. IsFiniteSet(I) /\ (\A y \in I : g[y] \in Int)
          BY <1>1, <4>1
        <4>3. SumFunctionOnSet(g, I) = g[z] + SumFunctionOnSet(g, I \ {z}) /\ g[z] \in Int
          BY <4>1, <4>2, SumTakes
        <4> QED
          BY <4>3 DEF I, z
      <3> HIDE DEF F, G, Image, v
      <3> QED
        BY <2>2, <2>6, <2>7, <2>8, <2>9, <2>11, <3>1, <3>2
    <2>13. CASE x \notin P
      <3>1. Image(u) = Image(v) /\ f[x] <= 0
        BY <2>2, <2>5, <2>13
      <3> HIDE DEF F, G, Image, v
      <3> QED
        BY <2>2, <2>6, <2>7, <2>8, <2>9, <2>11, <3>1
    <2> QED
      BY <2>12, <2>13
  <1> DEFINE I == Image(S)
             J == T \ I
  <1>4. I \in SUBSET T /\ J \in SUBSET T /\ I \cap J = {} /\ I \cup J = T
    OBVIOUS
  <1>5. F(S) <= G(I) /\ F(S) \in Int
    <2>1. F(S) \in Int
      BY SumTakes
    <2> HIDE DEF F, G, Image
    <2> QED
      BY <1>3, <2>1
  <1> HIDE DEF I, J, Image, F
  <1>6. G(I) \in Nat /\ G(J) \in Nat
    <2> HIDE DEF G
    <2> QED
      BY <1>2, <1>4
  <1>7. G(I \cup J) = G(I) + G(J)
    <2>1. IsFiniteSet(I) /\ IsFiniteSet(J) /\ \A y \in I \cup J : g[y] \in Int
      BY <1>1, <1>4
    <2> QED
      BY <1>4, <2>1, SumUnion
  <1>8. F(S) <= G(T)
    <2>1. G(T) = G(I) + G(J)
      BY <1>4, <1>7, Zenon
    <2> HIDE DEF G
    <2> QED
      BY <1>5, <1>6, <2>1
  <1> QED
    BY <1>8 DEF F

-----------------------------------------------------------------------------
(* Counter accesses.                                                       *)

\* A remainder lies below a positive modulus: a counter keeps its range.
LEMMA Remainder ==
    ASSUME NEW x \in Int, NEW m \in Nat \ {0}
    PROVE  x % m \in 0 .. m - 1
  BY SMT

\* Add and Store are well-formed accesses.
LEMMA AddTypes ==
    /\ \A c \in Counters \ Live, n \in Int : Add(c, n) \in Adds
    /\ Adds \subseteq Accesses
    /\ \A c \in Counters, n \in Int : Add(c, n) \in Accesses
    /\ \A c \in Counters \ Live : Store(c) \in Accesses
  <1>1. <<>> \in Seq(Adds)
    OBVIOUS
  <1>2. \A c \in Counters \ Live, n \in Int : Add(c, n) \in Adds
    BY DEF Add, Adds
  <1>3. ASSUME NEW x \in Adds PROVE x \in Accesses
    <2>1. x = [op |-> x.op, counter |-> x.counter, n |-> x.n, adds |-> x.adds]
      BY DEF Adds
    <2>2. /\ x.op = "add" /\ x.counter \in Counters /\ x.n \in Int
          /\ x.adds \in Seq(Adds)
      BY <1>1 DEF Adds
    <2>3. QED
      BY <2>1, <2>2 DEF Accesses
  <1>4. \A c \in Counters, n \in Int : Add(c, n) \in Accesses
    BY <1>1 DEF Add, Accesses
  <1>5. \A c \in Counters \ Live : Store(c) \in Accesses
    BY <1>1 DEF Store, Accesses
  <1>6. QED
    BY <1>2, <1>3, <1>4, <1>5

\* A record step over well-formed adds is a sequence of well-formed accesses.
LEMMA RecordTypes ==
    \A adds \in Seq(Adds) : Record(adds) \in Seq(Accesses)
  BY DEF Record, Accesses

\* So are all the accesses the calls of this library make.
LEMMA WorkTypes ==
    /\ ao_record_failed_allocation \in Seq(Accesses)
    /\ \A kind \in 0 .. 2, size \in Nat :
          ao_record_successful_allocation(kind, size) \in Seq(Accesses)
    /\ ao_record_free(TRUE) \in Seq(Accesses)
    /\ ao_record_free(FALSE) \in Seq(Accesses)
    /\ ao_record_realloc(TRUE) \in Seq(Accesses)
    /\ ao_record_realloc(FALSE) \in Seq(Accesses)
    /\ \A size \in Nat : ao_live_add(size) \in Seq(Accesses)
    /\ \A size, other \in Nat : ao_live_update(size, other) \in Seq(Accesses)
    /\ \A size \in Nat : ao_live_remove(size) \in Seq(Accesses)
  <1>1. /\ \A c \in Counters \ Live, n \in Int : Add(c, n) \in Adds
        /\ \A c \in Counters, n \in Int : Add(c, n) \in Accesses
    BY AddTypes
  <1>2. /\ {"failed_allocations", "successful_allocations",
            "successful_allocation_bytes", "free_calls", "bypass_free_calls",
            "realloc_calls", "bypass_realloc_calls"} \subseteq Counters \ Live
        /\ Live \subseteq Counters /\ "live_blocks" \in Live /\ "live_bytes" \in Live
    BY DEF Counters, Live
  <1>3. ao_record_failed_allocation \in Seq(Accesses)
    <2>1. <<Add("failed_allocations", 1)>> \in Seq(Adds)
      BY <1>1, <1>2
    <2>2. QED
      BY <2>1, RecordTypes DEF ao_record_failed_allocation
  <1>4. ASSUME NEW kind \in 0 .. 2, NEW size \in Nat
        PROVE  ao_record_successful_allocation(kind, size) \in Seq(Accesses)
    <2>1. <<"malloc_calls", "calloc_calls", "realloc_calls">>[kind + 1] \in Counters \ Live
      BY DEF Counters, Live
    <2>2. <<Add(<<"malloc_calls", "calloc_calls", "realloc_calls">>[kind + 1], 1),
            Add("successful_allocations", 1),
            Add("successful_allocation_bytes", size)>> \in Seq(Adds)
      BY <1>1, <1>2, <2>1
    <2>3. QED
      BY <2>2, RecordTypes DEF ao_record_successful_allocation
  <1>5. ao_record_free(TRUE) \in Seq(Accesses) /\ ao_record_free(FALSE) \in Seq(Accesses)
    <2>1. /\ <<Add("free_calls", 1)>> \o <<Add("bypass_free_calls", 1)>> \in Seq(Adds)
          /\ <<Add("free_calls", 1)>> \o <<>> \in Seq(Adds)
      BY <1>1, <1>2
    <2>2. QED
      BY <2>1, RecordTypes DEF ao_record_free
  <1>6. /\ ao_record_realloc(TRUE) \in Seq(Accesses)
        /\ ao_record_realloc(FALSE) \in Seq(Accesses)
    <2>1. /\ <<Add("realloc_calls", 1)>> \o <<Add("bypass_realloc_calls", 1)>>
               \in Seq(Adds)
          /\ <<Add("realloc_calls", 1)>> \o <<>> \in Seq(Adds)
      BY <1>1, <1>2
    <2>2. QED
      BY <2>1, RecordTypes DEF ao_record_realloc
  <1>7. \A size \in Nat : ao_live_add(size) \in Seq(Accesses)
    BY <1>1, <1>2 DEF ao_live_add
  <1>8. \A size, other \in Nat : ao_live_update(size, other) \in Seq(Accesses)
    BY <1>1, <1>2 DEF ao_live_update
  <1>9. \A size \in Nat : ao_live_remove(size) \in Seq(Accesses)
    BY <1>1, <1>2 DEF ao_live_remove
  <1>10. QED
    BY <1>3, <1>4, <1>5, <1>6, <1>7, <1>8, <1>9

\* One piece of work after another is work.
LEMMA WorkJoins ==
    /\ <<>> \in Seq(Accesses)
    /\ \A v, w \in Seq(Accesses) : v \o w \in Seq(Accesses)
  OBVIOUS

\* What the accesses of work come to, each at its value.
Total(work, val) == SumFunction([i \in DOMAIN work |-> val[work[i]]])

\* It is the sum over the positions of the work.
LEMMA TotalIs ==
    ASSUME NEW work \in Seq(Accesses), NEW val \in [Accesses -> Int]
    PROVE  \E f :
              /\ f \in [1 .. Len(work) -> Int]
              /\ f = [i \in 1 .. Len(work) |-> val[work[i]]]
              /\ Total(work, val) = SumFunctionOnSet(f, 1 .. Len(work))
  <1> DEFINE f == [i \in 1 .. Len(work) |-> val[work[i]]]
  <1>1. f \in [1 .. Len(work) -> Int] /\ DOMAIN work = 1 .. Len(work)
    OBVIOUS
  <1>2. Total(work, val) = SumFunction(f)
    BY <1>1 DEF Total
  <1>3. SumFunction(f) = SumFunctionOnSet(f, 1 .. Len(work))
    <2>1. DOMAIN f = 1 .. Len(work)
      OBVIOUS
    <2> HIDE DEF f
    <2> QED
      BY <2>1, Zenon DEF SumFunction
  <1> QED
    BY <1>1, <1>2, <1>3

LEMMA TotalType ==
    ASSUME NEW work \in Seq(Accesses), NEW val \in [Accesses -> Int]
    PROVE  Total(work, val) \in Int
  <1>1. PICK f :
           /\ f \in [1 .. Len(work) -> Int]
           /\ Total(work, val) = SumFunctionOnSet(f, 1 .. Len(work))
    BY TotalIs
  <1>2. 1 \in Int /\ Len(work) \in Int
    OBVIOUS
  <1>3. IsFiniteSet(1 .. Len(work))
    BY <1>2, FS_Interval
  <1>4. \A i \in 1 .. Len(work) : f[i] \in Int
    BY <1>1
  <1> QED
    BY <1>1, <1>3, <1>4, SumTakes

LEMMA TotalEmpty ==
    ASSUME NEW val \in [Accesses -> Int]
    PROVE  Total(<<>>, val) = 0
  <1>1. <<>> \in Seq(Accesses) /\ 1 .. Len(<<>>) = {}
    OBVIOUS
  <1>2. PICK f : Total(<<>>, val) = SumFunctionOnSet(f, 1 .. Len(<<>>))
    BY <1>1, TotalIs
  <1> QED
    BY <1>1, <1>2, SumEmpty

LEMMA TotalOne ==
    ASSUME NEW x \in Accesses, NEW val \in [Accesses -> Int]
    PROVE  Total(<<x>>, val) = val[x]
  <1>1. <<x>> \in Seq(Accesses) /\ 1 .. Len(<<x>>) = {1} /\ <<x>>[1] = x
    OBVIOUS
  <1>2. PICK f :
           /\ f \in [1 .. Len(<<x>>) -> Int]
           /\ f = [i \in 1 .. Len(<<x>>) |-> val[<<x>>[i]]]
           /\ Total(<<x>>, val) = SumFunctionOnSet(f, 1 .. Len(<<x>>))
    BY <1>1, TotalIs
  <1>3. f[1] = val[x] /\ val[x] \in Int /\ f \in [{1} -> Int]
    BY <1>1, <1>2
  <1>4. SumFunctionOnSet(f, {1}) = f[1] + SumFunctionOnSet(f, {1} \ {1})
    <2>1. IsFiniteSet({1}) /\ \A i \in {1} : f[i] \in Int
      BY <1>3, FS_Singleton
    <2> QED
      BY <2>1, SumTakes
  <1>5. {1} \ {1} = {}
    OBVIOUS
  <1>6. SumFunctionOnSet(f, {}) = 0
    BY SumEmpty
  <1>7. SumFunctionOnSet(f, {1}) = f[1] + 0
    BY <1>4, <1>5, <1>6
  <1> QED
    BY <1>1, <1>2, <1>3, <1>7

LEMMA TotalJoin ==
    ASSUME NEW v \in Seq(Accesses), NEW w \in Seq(Accesses),
           NEW val \in [Accesses -> Int]
    PROVE  Total(v \o w, val) = Total(v, val) + Total(w, val)
  <1> DEFINE g == [i \in DOMAIN v |-> val[v[i]]]
             h == [i \in DOMAIN w |-> val[w[i]]]
             f == [i \in DOMAIN (v \o w) |-> val[(v \o w)[i]]]
  <1>1. g \in Seq(Int) /\ h \in Seq(Int) /\ Len(g) = Len(v) /\ Len(h) = Len(w)
    OBVIOUS
  <1>2. f = g \o h
    <2>1. f \in Seq(Int) /\ Len(f) = Len(v) + Len(w)
      OBVIOUS
    <2>2. \A i \in 1 .. Len(v) + Len(w) : f[i] = (g \o h)[i]
      OBVIOUS
    <2> DEFINE e == g \o h
    <2>3. e \in Seq(Int) /\ Len(e) = Len(v) + Len(w)
      <3> HIDE DEF g, h
      <3> QED
        BY <1>1
    <2>4. \A i \in 1 .. Len(v) + Len(w) : f[i] = e[i]
      BY <2>2
    <2> HIDE DEF e, f, g, h
    <2>5. f = e
      BY <2>1, <2>3, <2>4
    <2> QED
      BY <2>5 DEF e
  <1> HIDE DEF f, g, h
  <1>3. SumFunction(g \o h) = SumFunction(g) + SumFunction(h)
    BY <1>1, SumConcat
  <1>4. Total(v \o w, val) = SumFunction(f) /\ Total(v, val) = SumFunction(g)
        /\ Total(w, val) = SumFunction(h)
    BY Zenon DEF Total, f, g, h
  <1> QED
    BY <1>2, <1>3, <1>4

LEMMA TotalTail ==
    ASSUME NEW w \in Seq(Accesses), w # <<>>, NEW val \in [Accesses -> Int]
    PROVE  Total(w, val) = val[Head(w)] + Total(Tail(w), val)
  <1>1. Head(w) \in Accesses /\ Tail(w) \in Seq(Accesses)
    OBVIOUS
  <1>2. <<Head(w)>> \in Seq(Accesses) /\ w = <<Head(w)>> \o Tail(w)
    OBVIOUS
  <1>3. Total(<<Head(w)>> \o Tail(w), val) = Total(<<Head(w)>>, val) + Total(Tail(w), val)
    BY <1>1, <1>2, TotalJoin
  <1>4. Total(<<Head(w)>>, val) = val[Head(w)]
    BY <1>1, TotalOne
  <1> QED
    BY <1>2, <1>3, <1>4

LEMMA TotalZero ==
    ASSUME NEW w \in Seq(Accesses), NEW val \in [Accesses -> Int],
           \A i \in DOMAIN w : val[w[i]] = 0
    PROVE  Total(w, val) = 0
  <1>1. PICK f :
           /\ f \in [1 .. Len(w) -> Int]
           /\ f = [i \in 1 .. Len(w) |-> val[w[i]]]
           /\ Total(w, val) = SumFunctionOnSet(f, 1 .. Len(w))
    BY TotalIs
  <1>2. IsFiniteSet(1 .. Len(w)) /\ \A i \in 1 .. Len(w) : f[i] = 0
    BY <1>1, FS_Interval
  <1> QED
    BY <1>1, <1>2, SumZero

-----------------------------------------------------------------------------
(* What a step can change.                                                 *)

\* A step of thread t leaves the locals of the other threads alone.
LEMMA OthersUntouched ==
    ASSUME TypeOK, FramesOK, NEW t \in Threads, Call(t) \/ Step(t)
    PROVE  /\ \A u \in Threads \ {t} :
                 /\ pc'[u] = pc[u]
                 /\ frame'[u] = frame[u]
                 /\ todo'[u] = todo[u]
           /\ DOMAIN pc' = Threads /\ DOMAIN frame' = Threads
           /\ DOMAIN todo' = Threads
  <1> USE DEF TypeOK, FramesOK
  <1>1. CASE \E size \in Sizes : malloc(t, size)
    BY <1>1 DEF malloc, g_real_malloc, Allocated, Enter, Go, Goto, Idle, At
  <1>2. CASE \E nmemb, size \in Sizes : calloc(t, nmemb, size)
    BY <1>2 DEF calloc, g_real_malloc, Allocated, Enter, Go, Goto, Idle, At
  <1>3. CASE \E size \in Sizes : realloc_null(t, size)
    BY <1>3 DEF realloc_null, g_real_malloc, Allocated, Enter, Go, Goto,
       Idle, At
  <1>4. CASE \E p \in Addr, size \in Sizes : realloc(t, p, size)
    BY <1>4 DEF realloc, TakeFrom, Enter, Go, Goto, Idle, At
  <1>5. CASE \E p \in Addr : free(t, p)
    BY <1>5 DEF free, TakeFrom, Enter, Go, Goto, Idle, At
  <1>6. CASE libc_allocates(t)
    BY <1>6 DEF libc_allocates, g_real_malloc, Enter, Go, Goto, Idle, At
  <1>7. CASE \E p \in Addr : ao_alloc_bridge_owns(t, p)
    BY <1>7 DEF ao_alloc_bridge_owns, TakeFrom, Enter, Go, Goto, Idle, At
  <1>8. CASE ao_mock_begin_capture(t)
    BY <1>8 DEF ao_mock_begin_capture, Enter, Go, Goto, Idle, At
  <1>9. CASE ao_mock_end_capture(t)
    BY <1>9 DEF ao_mock_end_capture, Enter, Go, Goto, Idle, At
  <1>10. CASE ao_mock_reset(t)
    BY <1>10 DEF ao_mock_reset, Enter, Go, Goto, Idle, At
  <1>11. CASE CounterStep(t)
    BY <1>11 DEF CounterStep, Enter, Go, Goto, Idle, At
  <1>12. CASE ao_registry_lock(t)
    BY <1>12 DEF ao_registry_lock, Lock, Enter, Go, Goto, Idle, At
  <1>13. CASE ao_track_allocation_or_die(t)
    BY <1>13 DEF ao_track_allocation_or_die, Unlock, Enter, Go, Goto, Idle,
       At
  <1>14. CASE realloc_lookup(t)
    BY <1>14 DEF realloc_lookup, Unlock, Enter, Go, Goto, Idle, At
  <1>15. CASE realloc_bypass(t)
    BY <1>15 DEF realloc_bypass, g_real_realloc, Enter, Go, Goto, Idle, At
  <1>16. CASE realloc_tracked(t)
    BY <1>16 DEF realloc_tracked, g_real_realloc, Enter, Go, Goto, Idle, At
  <1>17. CASE realloc_fix(t)
    BY <1>17 DEF realloc_fix, Unlock, Enter, Go, Goto, Idle, At
  <1>18. CASE free_remove(t)
    BY <1>18 DEF free_remove, Unlock, Enter, Go, Goto, Idle, At
  <1>19. CASE free_real(t)
    BY <1>19 DEF free_real, g_real_free, Enter, Go, Goto, Idle, At
  <1>20. CASE ao_registry_contains(t)
    BY <1>20 DEF ao_registry_contains, Unlock, Enter, Go, Goto, Idle, At
  <1>21. CASE ao_alloc_bridge_libc_free(t)
    BY <1>21 DEF ao_alloc_bridge_libc_free, g_real_free, Enter, Go, Goto,
       Idle, At
  <1>22. CASE \E size \in Sizes : ao_alloc_bridge_libc_realloc(t, size)
    BY <1>22 DEF ao_alloc_bridge_libc_realloc, g_real_realloc, Enter, Go,
       Goto, Idle, At
  <1>23. CASE end_capture_sub(t)
    BY <1>23 DEF end_capture_sub, Enter, Go, Goto, Idle, At
  <1>24. CASE ao_fatal(t)
    BY <1>24 DEF ao_fatal, Enter, Go, Goto, Idle, At
  <1>25. CASE Return(t)
    BY <1>25 DEF Return, Enter, Go, Goto, Idle, At
  <1>26. QED
    BY <1>1, <1>2, <1>3, <1>4, <1>5, <1>6, <1>7, <1>8, <1>9, <1>10, <1>11,
       <1>12, <1>13, <1>14, <1>15, <1>16, <1>17, <1>18, <1>19, <1>20, <1>21,
       <1>22, <1>23, <1>24, <1>25 DEF Call, Step

\* Only three steps change the registry, each under the lock.
LEMMA RegistryChanges ==
    ASSUME NEW t \in Threads, Call(t) \/ Step(t)
    PROVE  \/ UNCHANGED g_registry
           \/ ao_track_allocation_or_die(t)
           \/ realloc_fix(t)
           \/ free_remove(t)
  <1>1. CASE \E size \in Sizes : malloc(t, size)
    BY <1>1 DEF malloc, g_real_malloc, Allocated, table
  <1>2. CASE \E nmemb, size \in Sizes : calloc(t, nmemb, size)
    BY <1>2 DEF calloc, g_real_malloc, Allocated, table
  <1>3. CASE \E size \in Sizes : realloc_null(t, size)
    BY <1>3 DEF realloc_null, g_real_malloc, Allocated, table
  <1>4. CASE \E p \in Addr, size \in Sizes : realloc(t, p, size)
    BY <1>4 DEF realloc, TakeFrom, table
  <1>5. CASE \E p \in Addr : free(t, p)
    BY <1>5 DEF free, TakeFrom, table
  <1>6. CASE libc_allocates(t)
    BY <1>6 DEF libc_allocates, g_real_malloc, table
  <1>7. CASE \E p \in Addr : ao_alloc_bridge_owns(t, p)
    BY <1>7 DEF ao_alloc_bridge_owns, TakeFrom, table
  <1>8. CASE ao_mock_begin_capture(t)
    BY <1>8 DEF ao_mock_begin_capture, table
  <1>9. CASE ao_mock_end_capture(t)
    BY <1>9 DEF ao_mock_end_capture, table
  <1>10. CASE ao_mock_reset(t)
    BY <1>10 DEF ao_mock_reset, table
  <1>11. CASE CounterStep(t)
    BY <1>11 DEF CounterStep, table
  <1>12. CASE ao_registry_lock(t)
    BY <1>12 DEF ao_registry_lock, Lock, table
  <1>13. CASE ao_track_allocation_or_die(t)
    BY <1>13
  <1>14. CASE realloc_lookup(t)
    BY <1>14 DEF realloc_lookup, Unlock, table
  <1>15. CASE realloc_bypass(t)
    BY <1>15 DEF realloc_bypass, g_real_realloc, table
  <1>16. CASE realloc_tracked(t)
    BY <1>16 DEF realloc_tracked, g_real_realloc, table
  <1>17. CASE realloc_fix(t)
    BY <1>17
  <1>18. CASE free_remove(t)
    BY <1>18
  <1>19. CASE free_real(t)
    BY <1>19 DEF free_real, g_real_free, table
  <1>20. CASE ao_registry_contains(t)
    BY <1>20 DEF ao_registry_contains, Unlock, table
  <1>21. CASE ao_alloc_bridge_libc_free(t)
    BY <1>21 DEF ao_alloc_bridge_libc_free, g_real_free, table
  <1>22. CASE \E size \in Sizes : ao_alloc_bridge_libc_realloc(t, size)
    BY <1>22 DEF ao_alloc_bridge_libc_realloc, g_real_realloc, table
  <1>23. CASE end_capture_sub(t)
    BY <1>23 DEF end_capture_sub, table
  <1>24. CASE ao_fatal(t)
    BY <1>24 DEF ao_fatal, table
  <1>25. CASE Return(t)
    BY <1>25 DEF Return, table
  <1>26. QED
    BY <1>1, <1>2, <1>3, <1>4, <1>5, <1>6, <1>7, <1>8, <1>9, <1>10, <1>11,
       <1>12, <1>13, <1>14, <1>15, <1>16, <1>17, <1>18, <1>19, <1>20, <1>21,
       <1>22, <1>23, <1>24, <1>25 DEF Call, Step

\* The lock is taken by a thread that goes into a critical section, and
\* released by the thread that leaves one.
LEMMA LockChanges ==
    ASSUME TypeOK, NEW t \in Threads, Call(t) \/ Step(t)
    PROVE  \/ /\ g_registry_lock = NULL /\ g_registry_lock' = t
              /\ pc'[t] \in InLock
           \/ /\ g_registry_lock = t /\ g_registry_lock' = NULL
              /\ pc'[t] \notin InLock
           \/ /\ UNCHANGED g_registry_lock
              /\ pc[t] \notin InLock /\ pc'[t] \notin InLock
           \/ UNCHANGED <<g_registry_lock, pc>>
  <1> USE DEF TypeOK, InLock
  <1>1. CASE \E size \in Sizes : malloc(t, size)
    BY <1>1 DEF malloc, g_real_malloc, Allocated, Enter, Go, Goto, Idle, At,
       table
  <1>2. CASE \E nmemb, size \in Sizes : calloc(t, nmemb, size)
    BY <1>2 DEF calloc, g_real_malloc, Allocated, Enter, Go, Goto, Idle, At,
       table
  <1>3. CASE \E size \in Sizes : realloc_null(t, size)
    BY <1>3 DEF realloc_null, g_real_malloc, Allocated, Enter, Go, Goto,
       Idle, At, table
  <1>4. CASE \E p \in Addr, size \in Sizes : realloc(t, p, size)
    BY <1>4 DEF realloc, TakeFrom, Enter, Go, Goto, Idle, At, table
  <1>5. CASE \E p \in Addr : free(t, p)
    BY <1>5 DEF free, TakeFrom, Enter, Go, Goto, Idle, At, table
  <1>6. CASE libc_allocates(t)
    BY <1>6 DEF libc_allocates, g_real_malloc, Enter, Go, Goto, Idle, At,
       table
  <1>7. CASE \E p \in Addr : ao_alloc_bridge_owns(t, p)
    BY <1>7 DEF ao_alloc_bridge_owns, TakeFrom, Enter, Go, Goto, Idle, At,
       table
  <1>8. CASE ao_mock_begin_capture(t)
    BY <1>8 DEF ao_mock_begin_capture, Enter, Go, Goto, Idle, At, table
  <1>9. CASE ao_mock_end_capture(t)
    BY <1>9 DEF ao_mock_end_capture, Enter, Go, Goto, Idle, At, table
  <1>10. CASE ao_mock_reset(t)
    BY <1>10 DEF ao_mock_reset, Enter, Go, Goto, Idle, At, table
  <1>11. CASE CounterStep(t)
    BY <1>11 DEF CounterStep, Enter, Go, Goto, Idle, At, table
  <1>12. CASE ao_registry_lock(t)
    BY <1>12 DEF ao_registry_lock, Lock, Enter, Go, Goto, Idle, At, table
  <1>13. CASE ao_track_allocation_or_die(t)
    BY <1>13 DEF ao_track_allocation_or_die, Unlock, Enter, Go, Goto, Idle,
       At, table
  <1>14. CASE realloc_lookup(t)
    BY <1>14 DEF realloc_lookup, Unlock, Enter, Go, Goto, Idle, At, table
  <1>15. CASE realloc_bypass(t)
    BY <1>15 DEF realloc_bypass, g_real_realloc, Enter, Go, Goto, Idle, At,
       table
  <1>16. CASE realloc_tracked(t)
    BY <1>16 DEF realloc_tracked, g_real_realloc, Enter, Go, Goto, Idle, At,
       table
  <1>17. CASE realloc_fix(t)
    BY <1>17 DEF realloc_fix, Unlock, Enter, Go, Goto, Idle, At, table
  <1>18. CASE free_remove(t)
    BY <1>18 DEF free_remove, Unlock, Enter, Go, Goto, Idle, At, table
  <1>19. CASE free_real(t)
    BY <1>19 DEF free_real, g_real_free, Enter, Go, Goto, Idle, At, table
  <1>20. CASE ao_registry_contains(t)
    BY <1>20 DEF ao_registry_contains, Unlock, Enter, Go, Goto, Idle, At,
       table
  <1>21. CASE ao_alloc_bridge_libc_free(t)
    BY <1>21 DEF ao_alloc_bridge_libc_free, g_real_free, Enter, Go, Goto,
       Idle, At, table
  <1>22. CASE \E size \in Sizes : ao_alloc_bridge_libc_realloc(t, size)
    BY <1>22 DEF ao_alloc_bridge_libc_realloc, g_real_realloc, Enter, Go,
       Goto, Idle, At, table
  <1>23. CASE end_capture_sub(t)
    BY <1>23 DEF end_capture_sub, Enter, Go, Goto, Idle, At, table
  <1>24. CASE ao_fatal(t)
    BY <1>24 DEF ao_fatal, Enter, Go, Goto, Idle, At, table
  <1>25. CASE Return(t)
    BY <1>25 DEF Return, Enter, Go, Goto, Idle, At, table
  <1>26. QED
    BY <1>1, <1>2, <1>3, <1>4, <1>5, <1>6, <1>7, <1>8, <1>9, <1>10, <1>11,
       <1>12, <1>13, <1>14, <1>15, <1>16, <1>17, <1>18, <1>19, <1>20, <1>21,
       <1>22, <1>23, <1>24, <1>25 DEF Call, Step

-----------------------------------------------------------------------------
(* Types and mutual exclusion.                                            *)

\* The locals a call starts with are a frame.
LEMMA NewFrames ==
    /\ NoFrame \in Frames
    /\ \A kind \in 0 .. 2, size \in Nat, a \in Pointers :
          [NoFrame EXCEPT !.kind = kind, !.size = size, !.new_ptr = a,
                          !.keeps = a, !.origin = "mock"] \in Frames
    /\ \A p \in Pointers, size \in Nat, who \in Origins :
          [NoFrame EXCEPT !.ptr = p, !.size = size, !.origin = who] \in Frames
    /\ \A p \in Pointers : [NoFrame EXCEPT !.ptr = p] \in Frames
    /\ \A p \in Pointers, who \in Origins :
          [NoFrame EXCEPT !.ptr = p, !.keeps = p, !.origin = who] \in Frames
  <1>1. NULL \in Pointers /\ "none" \in Origins /\ "mock" \in Origins
    BY DEF Pointers, Origins
  <1>2. NoFrame \in Frames
    BY <1>1 DEF NoFrame, Frames
  <1>3. QED
    BY <1>1, <1>2 DEF Frames

\* So are the locals it goes on with.
LEMMA NextFrames ==
    ASSUME NEW f \in Frames
    PROVE  /\ \A k \in Pointers : [f EXCEPT !.keeps = k] \in Frames
           /\ \A k, a \in Pointers :
                 [f EXCEPT !.new_ptr = a, !.keeps = k] \in Frames
           /\ \A size, id \in Nat :
                 [f EXCEPT !.old_size = size, !.allocation_id = id] \in Frames
  BY DEF Frames

\* A call that goes on with a frame and well-formed accesses keeps the types.
LEMMA GoTypes ==
    ASSUME FramesOK, NEW t \in Threads, NEW l, NEW f \in Frames,
           NEW work \in Seq(Accesses), Go(t, l, f, work)
    PROVE  frame' \in [Threads -> Frames] /\ todo' \in [Threads -> Seq(Accesses)]
  BY DEF FramesOK, Go

\* malloc, calloc and realloc of NULL go on with well-formed locals.
LEMMA AllocatedTypes ==
    ASSUME FramesOK, NEW t \in Threads, NEW kind \in 0 .. 2, NEW size \in Nat,
           NEW a \in Addr \cup {NULL}, Allocated(t, kind, size, a)
    PROVE  frame' \in [Threads -> Frames] /\ todo' \in [Threads -> Seq(Accesses)]
  <1>1. a \in Pointers /\ "mock" \in Origins /\ <<>> \in Seq(Accesses)
    BY DEF Pointers, Origins
  <1>2. NoFrame \in Frames /\ ao_record_failed_allocation \in Seq(Accesses)
    BY <1>1, NewFrames, WorkTypes
  <1>3. [NoFrame EXCEPT !.kind = kind, !.size = size, !.new_ptr = a,
                        !.keeps = a, !.origin = "mock"] \in Frames
    BY <1>1, NewFrames
  <1>4. CASE Go(t, "return", NoFrame, ao_record_failed_allocation)
    BY <1>2, <1>4, GoTypes
  <1>5. CASE Go(t, "track_lock",
                [NoFrame EXCEPT !.kind = kind, !.size = size, !.new_ptr = a,
                                !.keeps = a, !.origin = "mock"], <<>>)
    BY <1>1, <1>3, <1>5, GoTypes
  <1>6. QED
    BY <1>4, <1>5 DEF Allocated

\* The locals of the calls and their counter accesses keep their shape.
LEMMA FrameTypes ==
    ASSUME TypeOK, FramesOK, NEW t \in Threads, Call(t) \/ Step(t)
    PROVE  frame' \in [Threads -> Frames] /\ todo' \in [Threads -> Seq(Accesses)]
  <1>1. CASE \E size \in Sizes : malloc(t, size)
    <2>1. PICK size \in Sizes : malloc(t, size)
      BY <1>1
    <2>2. PICK a \in Addr \cup {NULL} : Allocated(t, 0, size, a)
      BY <2>1 DEF malloc
    <2>3. size \in Nat
      BY SizesAssumption
    <2>4. QED
      BY <2>2, <2>3, AllocatedTypes
  <1>2. CASE \E nmemb, size \in Sizes : calloc(t, nmemb, size)
    <2>1. PICK nmemb \in Sizes, size \in Sizes : calloc(t, nmemb, size)
      BY <1>2
    <2>2. nmemb * size \in Nat /\ size \in Nat
      BY SizesAssumption
    <2>3. NoFrame \in Frames /\ ao_record_failed_allocation \in Seq(Accesses)
      BY <2>2, NewFrames, WorkTypes
    <2>4. CASE Go(t, "return", NoFrame, ao_record_failed_allocation)
      BY <2>3, <2>4, GoTypes
    <2>5. ASSUME NEW a \in Addr \cup {NULL}, Allocated(t, 1, nmemb * size, a)
          PROVE  frame' \in [Threads -> Frames] /\ todo' \in [Threads -> Seq(Accesses)]
      BY <2>2, <2>5, AllocatedTypes
    <2>6. QED
      BY <2>1, <2>4, <2>5 DEF calloc
  <1>3. CASE \E size \in Sizes : realloc_null(t, size)
    <2>1. PICK size \in Sizes : realloc_null(t, size)
      BY <1>3
    <2>2. PICK a \in Addr \cup {NULL} : Allocated(t, 2, size, a)
      BY <2>1 DEF realloc_null
    <2>3. size \in Nat
      BY SizesAssumption
    <2>4. QED
      BY <2>2, <2>3, AllocatedTypes
  <1>4. CASE \E p \in Addr, size \in Sizes : realloc(t, p, size)
    <2>1. PICK p \in Addr, size \in Sizes : realloc(t, p, size)
      BY <1>4
    <2>2. p \in Pointers /\ size \in Nat /\ held[p] \in Origins
      BY SizesAssumption DEF Pointers, Origins, TypeOK
    <2>3. [NoFrame EXCEPT !.ptr = p, !.size = size, !.origin = held[p]] \in Frames
      BY <2>2, NewFrames
    <2>4. <<>> \in Seq(Accesses)
      OBVIOUS
    <2>5. QED
      BY <2>1, <2>3, <2>4, GoTypes DEF realloc
  <1>5. CASE \E p \in Addr : free(t, p)
    <2>1. PICK p \in Addr : free(t, p)
      BY <1>5
    <2>2. p \in Pointers
      BY DEF Pointers
    <2>3. [NoFrame EXCEPT !.ptr = p] \in Frames
      BY <2>2, NewFrames
    <2>4. <<>> \in Seq(Accesses)
      OBVIOUS
    <2>5. QED
      BY <2>1, <2>3, <2>4, GoTypes DEF free
  <1>6. CASE libc_allocates(t)
    BY <1>6 DEF libc_allocates, FramesOK
  <1>7. CASE \E p \in Addr : ao_alloc_bridge_owns(t, p)
    <2>1. PICK p \in Addr : ao_alloc_bridge_owns(t, p)
      BY <1>7
    <2>2. p \in Pointers /\ held[p] \in Origins
      BY DEF Pointers, Origins, TypeOK
    <2>3. [NoFrame EXCEPT !.ptr = p, !.keeps = p, !.origin = held[p]] \in Frames
      BY <2>2, NewFrames
    <2>4. <<>> \in Seq(Accesses)
      OBVIOUS
    <2>5. QED
      BY <2>1, <2>3, <2>4, GoTypes DEF ao_alloc_bridge_owns
  <1>8. CASE ao_mock_begin_capture(t)
    BY <1>8 DEF ao_mock_begin_capture, FramesOK
  <1>9. CASE ao_mock_end_capture(t)
    BY <1>9 DEF ao_mock_end_capture, FramesOK
  <1>10. CASE ao_mock_reset(t)
    <2>1. NoFrame \in Frames
      BY NewFrames, WorkJoins
    <2>2. ResetOrder \in Seq(Counters \ Live)
      BY DEF ResetOrder, Counters, Live
    <2>3. [i \in DOMAIN ResetOrder |-> Store(ResetOrder[i])] \in Seq(Accesses)
      BY <2>2, AddTypes
    <2>4. QED
      BY <1>10, <2>1, <2>3, GoTypes DEF ao_mock_reset
  <1>11. CASE CounterStep(t)
    <2>1. todo[t] \in Seq(Accesses) /\ todo[t] # <<>>
      BY <1>11 DEF FramesOK, CounterStep
    <2>2. /\ Head(todo[t]) \in Accesses /\ Tail(todo[t]) \in Seq(Accesses)
      BY <2>1
    <2>3. Head(todo[t]).adds \in Seq(Adds)
      BY <2>2 DEF Accesses
    <2>4. Head(todo[t]).adds \in Seq(Accesses)
      BY <2>3, AddTypes
    <2>5. Head(todo[t]).adds \o Tail(todo[t]) \in Seq(Accesses)
      BY <2>2, <2>4, WorkJoins
    <2>6. QED
      BY <1>11, <2>2, <2>5 DEF CounterStep, FramesOK
  <1>12. CASE ao_registry_lock(t)
    BY <1>12 DEF ao_registry_lock, Lock, FramesOK
  <1>13. CASE ao_track_allocation_or_die(t)
    <2>1. /\ frame[t] \in Frames /\ frame[t].size \in Nat
          /\ frame[t].kind \in 0 .. 2
      BY DEF FramesOK, Frames
    <2>2. /\ ao_live_add(frame[t].size) \in Seq(Accesses)
          /\ ao_record_successful_allocation(frame[t].kind, frame[t].size)
                \in Seq(Accesses)
      BY <2>1, WorkTypes
    <2>3. ao_live_add(frame[t].size)
            \o ao_record_successful_allocation(frame[t].kind, frame[t].size)
              \in Seq(Accesses)
      BY <2>2, WorkJoins
    <2>4. CASE UNCHANGED <<frame, todo>>
      BY <2>4 DEF FramesOK
    <2>5. QED
      BY <1>13, <2>1, <2>3, <2>4, GoTypes DEF ao_track_allocation_or_die
  <1>14. CASE realloc_lookup(t)
    <2>1. frame[t] \in Frames
      BY DEF FramesOK
    <2>2. ao_record_realloc(TRUE) \in Seq(Accesses) /\ <<>> \in Seq(Accesses)
      BY WorkTypes, WorkJoins
    <2>3. CASE Go(t, "re_bypass", frame[t], ao_record_realloc(TRUE))
      BY <2>1, <2>2, <2>3, GoTypes
    <2>4. CASE frame[t].ptr \in DOMAIN g_registry
      <3>1. /\ g_registry[frame[t].ptr].requested_size \in Nat
            /\ g_registry[frame[t].ptr].allocation_id \in Nat
        BY <2>4 DEF TypeOK
      <3>2. [frame[t] EXCEPT
               !.old_size = g_registry[frame[t].ptr].requested_size,
               !.allocation_id = g_registry[frame[t].ptr].allocation_id] \in Frames
        BY <2>1, <3>1, NextFrames
      <3>3. QED
        BY <1>14, <2>2, <2>4, <3>2, GoTypes DEF realloc_lookup
    <2>5. QED
      BY <1>14, <2>3, <2>4 DEF realloc_lookup
  <1>15. CASE realloc_bypass(t)
    <2>1. frame[t] \in Frames /\ frame[t].ptr \in Pointers
      BY DEF FramesOK, Frames
    <2>2. PICK a \in Addr \cup {NULL} :
             Go(t, "return",
                [frame[t] EXCEPT !.keeps = KeepsOf(frame[t].ptr, frame[t].size, a)],
                IF a = NULL /\ frame[t].size # 0
                THEN ao_record_failed_allocation ELSE <<>>)
      BY <1>15 DEF realloc_bypass
    <2>3. a \in Pointers /\ KeepsOf(frame[t].ptr, frame[t].size, a) \in Pointers
      BY <2>1 DEF Pointers, KeepsOf
    <2>4. [frame[t] EXCEPT !.keeps = KeepsOf(frame[t].ptr, frame[t].size, a)]
             \in Frames
      BY <2>1, <2>3, NextFrames
    <2>5. (IF a = NULL /\ frame[t].size # 0
           THEN ao_record_failed_allocation ELSE <<>>) \in Seq(Accesses)
      BY WorkTypes, WorkJoins
    <2>6. QED
      BY <2>2, <2>4, <2>5, GoTypes
  <1>16. CASE realloc_tracked(t)
    <2>1. frame[t] \in Frames /\ frame[t].ptr \in Pointers
      BY DEF FramesOK, Frames
    <2> DEFINE g(a) == [frame[t] EXCEPT
                          !.new_ptr = a,
                          !.keeps = KeepsOf(frame[t].ptr, frame[t].size, a)]
    <2>2. PICK a \in Addr \cup {NULL} :
             \/ Go(t, "return", g(a),
                   ao_record_realloc(FALSE) \o ao_record_failed_allocation)
             \/ Go(t, "re_fix_lock", g(a), <<>>)
      BY <1>16 DEF realloc_tracked
    <2>3. a \in Pointers /\ KeepsOf(frame[t].ptr, frame[t].size, a) \in Pointers
      BY <2>1 DEF Pointers, KeepsOf
    <2>4. g(a) \in Frames
      BY <2>1, <2>3, NextFrames
    <2>5. /\ ao_record_realloc(FALSE) \in Seq(Accesses)
          /\ ao_record_failed_allocation \in Seq(Accesses)
      BY WorkTypes
    <2>6. /\ ao_record_realloc(FALSE) \o ao_record_failed_allocation \in Seq(Accesses)
          /\ <<>> \in Seq(Accesses)
      BY <2>5, WorkJoins
    <2> HIDE DEF g
    <2>7. QED
      BY <2>2, <2>4, <2>6, GoTypes
  <1>17. CASE realloc_fix(t)
    <2>1. /\ frame[t] \in Frames /\ frame[t].size \in Nat
          /\ frame[t].old_size \in Nat
      BY DEF FramesOK, Frames
    <2>2. /\ ao_record_realloc(FALSE) \in Seq(Accesses)
          /\ ao_live_remove(frame[t].old_size) \in Seq(Accesses)
          /\ ao_live_update(frame[t].old_size, frame[t].size) \in Seq(Accesses)
      BY <2>1, WorkTypes
    <2>3. /\ ao_record_realloc(FALSE) \o ao_live_remove(frame[t].old_size)
               \in Seq(Accesses)
          /\ ao_record_realloc(FALSE)
               \o ao_live_update(frame[t].old_size, frame[t].size) \in Seq(Accesses)
      BY <2>2, WorkJoins
    <2>4. CASE UNCHANGED <<frame, todo>>
      BY <2>4 DEF FramesOK
    <2>5. QED
      BY <1>17, <2>1, <2>3, <2>4, GoTypes DEF realloc_fix
  <1>18. CASE free_remove(t)
    <2>1. frame[t] \in Frames /\ ao_record_free(TRUE) \in Seq(Accesses)
      BY WorkTypes DEF FramesOK
    <2>2. CASE Go(t, "fr_real", frame[t], ao_record_free(TRUE))
      BY <2>1, <2>2, GoTypes
    <2>3. CASE frame[t].ptr \in DOMAIN g_registry
      <3>1. g_registry[frame[t].ptr].requested_size \in Nat
        BY <2>3 DEF TypeOK
      <3>2. /\ ao_record_free(FALSE) \in Seq(Accesses)
            /\ ao_live_remove(g_registry[frame[t].ptr].requested_size)
                 \in Seq(Accesses)
        BY <3>1, WorkTypes
      <3>3. ao_record_free(FALSE)
              \o ao_live_remove(g_registry[frame[t].ptr].requested_size)
                \in Seq(Accesses)
        BY <3>2, WorkJoins
      <3>4. QED
        BY <1>18, <2>1, <2>3, <3>3, GoTypes DEF free_remove
    <2>4. QED
      BY <1>18, <2>2, <2>3 DEF free_remove
  <1>19. CASE free_real(t)
    BY <1>19 DEF free_real, g_real_free, FramesOK
  <1>20. CASE ao_registry_contains(t)
    BY <1>20 DEF ao_registry_contains, Unlock, FramesOK
  <1>21. CASE ao_alloc_bridge_libc_free(t)
    <2>1. NoFrame \in Frames /\ <<>> \in Seq(Accesses)
      BY NewFrames, WorkJoins
    <2>2. QED
      BY <1>21, <2>1, GoTypes DEF ao_alloc_bridge_libc_free
  <1>22. CASE \E size \in Sizes : ao_alloc_bridge_libc_realloc(t, size)
    <2>1. frame[t] \in Frames /\ frame[t].ptr \in Pointers
      BY DEF FramesOK, Frames
    <2>2. PICK size \in Sizes, a \in Addr \cup {NULL} :
             Go(t, "return",
                [frame[t] EXCEPT !.keeps = KeepsOf(frame[t].ptr, size, a)], <<>>)
      BY <1>22 DEF ao_alloc_bridge_libc_realloc
    <2>3. a \in Pointers /\ KeepsOf(frame[t].ptr, size, a) \in Pointers
      BY <2>1 DEF Pointers, KeepsOf
    <2>4. [frame[t] EXCEPT !.keeps = KeepsOf(frame[t].ptr, size, a)] \in Frames
      BY <2>1, <2>3, NextFrames
    <2>5. <<>> \in Seq(Accesses)
      OBVIOUS
    <2>6. QED
      BY <2>2, <2>4, <2>5, GoTypes
  <1>23. CASE end_capture_sub(t)
    BY <1>23 DEF end_capture_sub, FramesOK
  <1>24. CASE ao_fatal(t)
    BY <1>24 DEF ao_fatal, FramesOK
  <1>25. CASE Return(t)
    <2>1. NoFrame \in Frames /\ <<>> \in Seq(Accesses)
      BY NewFrames, WorkJoins
    <2>2. QED
      BY <1>25, <2>1, GoTypes DEF Return
  <1>26. QED
    BY <1>1, <1>2, <1>3, <1>4, <1>5, <1>6, <1>7, <1>8, <1>9, <1>10, <1>11,
       <1>12, <1>13, <1>14, <1>15, <1>16, <1>17, <1>18, <1>19, <1>20, <1>21,
       <1>22, <1>23, <1>24, <1>25 DEF Call, Step

\* Binding an address in a map and dropping it change its domain by that address.
LEMMA PutDomain ==
    ASSUME NEW m, NEW k, NEW e
    PROVE  /\ DOMAIN Map!Put(m, k, e) = DOMAIN m \cup {k}
           /\ Map!Put(m, k, e)[k] = e
           /\ \A x \in DOMAIN m \ {k} : Map!Put(m, k, e)[x] = m[x]
  BY DEF Map!Put

LEMMA DropDomain ==
    ASSUME NEW m, NEW k
    PROVE  /\ DOMAIN Map!Drop(m, k) = DOMAIN m \ {k}
           /\ \A x \in DOMAIN m \ {k} : Map!Drop(m, k)[x] = m[x]
  BY DEF Map!Drop

\* There is room for an address that is bound or when the map is not full.
LEMMA RoomMeans ==
    ASSUME NEW m, NEW k
    PROVE  Map!CanPut(m, k) <=>
              k \in DOMAIN m \/ Cardinality(DOMAIN m) < Capacity
  <1>1. \A S : Map!Cardinality(S) = Cardinality(S)
    BY DEF Map!Cardinality, Cardinality
  <1>2. QED
    BY <1>1 DEF Map!CanPut

\* A map within its capacity stays there when an address is bound for which
\* there is room.
LEMMA PutBound ==
    ASSUME NEW m, NEW k, NEW e,
           IsFiniteSet(DOMAIN m), Cardinality(DOMAIN m) <= Capacity
    PROVE  /\ IsFiniteSet(DOMAIN Map!Put(m, k, e))
           /\ Map!CanPut(m, k) => Cardinality(DOMAIN Map!Put(m, k, e)) <= Capacity
  <1>1. Cardinality(DOMAIN m) \in Nat /\ Capacity \in Nat
    BY FS_CardinalityType, BoundsAssumption
  <1>2. /\ IsFiniteSet(DOMAIN m \cup {k})
        /\ Cardinality(DOMAIN m \cup {k})
             = IF k \in DOMAIN m THEN Cardinality(DOMAIN m)
               ELSE Cardinality(DOMAIN m) + 1
    BY FS_AddElement
  <1>3. DOMAIN Map!Put(m, k, e) = DOMAIN m \cup {k}
    BY PutDomain
  <1>4. Map!CanPut(m, k) => k \in DOMAIN m \/ Cardinality(DOMAIN m) < Capacity
    BY RoomMeans
  <1>5. QED
    BY <1>1, <1>2, <1>3, <1>4

\* Dropping an address keeps it there, and makes room for any other when the
\* address was bound.
LEMMA DropBound ==
    ASSUME NEW m, NEW k,
           IsFiniteSet(DOMAIN m), Cardinality(DOMAIN m) <= Capacity
    PROVE  /\ IsFiniteSet(DOMAIN Map!Drop(m, k))
           /\ Cardinality(DOMAIN Map!Drop(m, k)) <= Capacity
           /\ k \in DOMAIN m => \A x : Map!CanPut(Map!Drop(m, k), x)
  <1>1. Cardinality(DOMAIN m) \in Nat /\ Capacity \in Nat
    BY FS_CardinalityType, BoundsAssumption
  <1>2. /\ IsFiniteSet(DOMAIN m \ {k})
        /\ Cardinality(DOMAIN m \ {k})
             = IF k \in DOMAIN m THEN Cardinality(DOMAIN m) - 1
               ELSE Cardinality(DOMAIN m)
    BY FS_RemoveElement
  <1>3. DOMAIN Map!Drop(m, k) = DOMAIN m \ {k}
    BY DropDomain
  <1>4. k \in DOMAIN m => Cardinality(DOMAIN Map!Drop(m, k)) < Capacity
    BY <1>1, <1>2, <1>3
  <1>5. k \in DOMAIN m => \A x : Map!CanPut(Map!Drop(m, k), x)
    BY <1>4, RoomMeans
  <1>6. QED
    BY <1>1, <1>2, <1>3, <1>5

\* The shape of a registry.
IsRegistry(m) ==
    /\ DOMAIN m \subseteq Addr
    /\ IsFiniteSet(DOMAIN m)
    /\ Cardinality(DOMAIN m) <= Capacity
    /\ \A a \in DOMAIN m : m[a] \in [requested_size : Nat, allocation_id : Nat]

\* Binding an address to an entry, where there is room, keeps the shape.
LEMMA PutTypes ==
    ASSUME NEW m, IsRegistry(m), NEW k \in Addr,
           NEW e \in [requested_size : Nat, allocation_id : Nat], Map!CanPut(m, k)
    PROVE  IsRegistry(Map!Put(m, k, e))
  <1>1. /\ IsFiniteSet(DOMAIN Map!Put(m, k, e))
        /\ Cardinality(DOMAIN Map!Put(m, k, e)) <= Capacity
    BY PutBound DEF IsRegistry
  <1>2. DOMAIN Map!Put(m, k, e) = DOMAIN m \cup {k}
    BY PutDomain
  <1>3. ASSUME NEW a \in DOMAIN m \cup {k}
        PROVE  Map!Put(m, k, e)[a] \in [requested_size : Nat, allocation_id : Nat]
    <2>1. Map!Put(m, k, e)[a] = IF a = k THEN e ELSE m[a]
      BY DEF Map!Put
    <2>2. QED
      BY <2>1 DEF IsRegistry
  <1>4. QED
    BY <1>1, <1>2, <1>3 DEF IsRegistry

\* Dropping an address keeps the shape.
LEMMA DropTypes ==
    ASSUME NEW m, IsRegistry(m), NEW k
    PROVE  IsRegistry(Map!Drop(m, k))
  <1>1. /\ IsFiniteSet(DOMAIN Map!Drop(m, k))
        /\ Cardinality(DOMAIN Map!Drop(m, k)) <= Capacity
    BY DropBound DEF IsRegistry
  <1>2. DOMAIN Map!Drop(m, k) = DOMAIN m \ {k}
    BY DropDomain
  <1>3. \A a \in DOMAIN m \ {k} : Map!Drop(m, k)[a] = m[a]
    BY DropDomain
  <1>4. QED
    BY <1>1, <1>2, <1>3 DEF IsRegistry

\* The registry stays a bounded map from addresses to entries.
LEMMA RegistryTypes ==
    ASSUME TypeOK, FramesOK, LocalsOK, NEW t \in Threads, Call(t) \/ Step(t)
    PROVE  IsRegistry(g_registry')
  <1>1. IsRegistry(g_registry)
    BY DEF TypeOK, FramesOK, IsRegistry
  <1>2. CASE UNCHANGED g_registry
    BY <1>1, <1>2
  <1>3. /\ frame[t].size \in Nat /\ frame[t].allocation_id \in Nat
        /\ frame[t].new_ptr \in Pointers /\ g_next_allocation_id \in Nat
    BY DEF FramesOK, Frames, TypeOK
  <1>4. CASE ao_track_allocation_or_die(t)
    <2> DEFINE entry == [requested_size |-> frame[t].size,
                         allocation_id |-> g_next_allocation_id]
    <2>1. /\ Map!CanPut(g_registry, frame[t].new_ptr)
          /\ g_registry' = Map!Put(g_registry, frame[t].new_ptr, entry)
          \/ UNCHANGED g_registry
      BY <1>4 DEF ao_track_allocation_or_die
    <2>2. entry \in [requested_size : Nat, allocation_id : Nat]
      BY <1>3
    <2>3. frame[t].new_ptr \in Addr
      BY <1>4 DEF LocalsOK, LocalsOf, ao_track_allocation_or_die, At
    <2> HIDE DEF entry
    <2>4. CASE /\ Map!CanPut(g_registry, frame[t].new_ptr)
               /\ g_registry' = Map!Put(g_registry, frame[t].new_ptr, entry)
      BY <1>1, <2>2, <2>3, <2>4, PutTypes
    <2>5. QED
      BY <1>2, <2>1, <2>4
  <1>5. CASE realloc_fix(t)
    <2> DEFINE entry == [requested_size |-> frame[t].size,
                         allocation_id |-> frame[t].allocation_id]
               less == Map!Drop(g_registry, frame[t].ptr)
    <2>1. \/ g_registry' = less
          \/ /\ frame[t].new_ptr # NULL
             /\ Map!CanPut(less, frame[t].new_ptr)
             /\ g_registry' = Map!Put(less, frame[t].new_ptr, entry)
      BY <1>5 DEF realloc_fix, Moved, RoomToMove
    <2>2. entry \in [requested_size : Nat, allocation_id : Nat]
      BY <1>3
    <2>3. IsRegistry(less)
      BY <1>1, DropTypes
    <2>4. CASE g_registry' = less
      BY <2>3, <2>4
    <2>5. CASE /\ frame[t].new_ptr # NULL
               /\ Map!CanPut(less, frame[t].new_ptr)
               /\ g_registry' = Map!Put(less, frame[t].new_ptr, entry)
      <3>1. frame[t].new_ptr \in Addr
        BY <1>3, <2>5 DEF Pointers
      <3> HIDE DEF entry, less
      <3>2. QED
        BY <2>2, <2>3, <2>5, <3>1, PutTypes
    <2>6. QED
      BY <2>1, <2>4, <2>5
  <1>6. CASE free_remove(t)
    <2>1. g_registry' = Map!Drop(g_registry, frame[t].ptr)
      BY <1>6 DEF free_remove
    <2>2. QED
      BY <1>1, <2>1, DropTypes
  <1>7. QED
    BY <1>2, <1>4, <1>5, <1>6, RegistryChanges

\* The lock is with the thread that is in a critical section.
LEMMA LockStep ==
    ASSUME TypeOK, FramesOK, NEW t \in Threads, Call(t) \/ Step(t)
    PROVE  \A u \in Threads : (g_registry_lock' = u) <=> (pc'[u] \in InLock)
  <1>1. \A u \in Threads : (g_registry_lock = u) <=> (pc[u] \in InLock)
    BY DEF TypeOK
  <1>2. \A u \in Threads \ {t} : pc'[u] = pc[u]
    BY OthersUntouched
  <1>3. NULL \notin Threads
    BY NullAssumption
  <1>4. QED
    BY <1>1, <1>2, <1>3, LockChanges

\* The rest of the state keeps its shape.
LEMMA PlainTypes ==
    ASSUME TypeOK, FramesOK, LocalsOK, NEW t \in Threads, Call(t) \/ Step(t)
    PROVE  /\ heap' \subseteq Addr
           /\ g_next_allocation_id' \in Nat \ {0}
           /\ g_stats' \in [Counters -> 0 .. Modulus - 1]
           /\ g_capture_depth' \in Int
           /\ pc' \in [Threads -> Labels]
           /\ held' \in [Addr -> {"none", "mock", "libc"}]
           /\ exited' \in {"no", "exhausted", "exhausted_realloc"}
           /\ reused' \in BOOLEAN
           /\ nest' \in [Threads -> Int]
  <1> USE NullAssumption DEF TypeOK, FramesOK, Labels
  <1>1. CASE \E size \in Sizes : malloc(t, size)
    BY <1>1 DEF malloc, g_real_malloc, Allocated, Reuse, Enter, Go, Goto,
       Idle, At, memory, table, stats, control
  <1>2. CASE \E nmemb, size \in Sizes : calloc(t, nmemb, size)
    BY <1>2 DEF calloc, g_real_malloc, Allocated, Reuse, Enter, Go, Goto,
       Idle, At, memory, table, stats, control
  <1>3. CASE \E size \in Sizes : realloc_null(t, size)
    BY <1>3 DEF realloc_null, g_real_malloc, Allocated, Reuse, Enter, Go,
       Goto, Idle, At, memory, table, stats, control
  <1>4. CASE \E p \in Addr, size \in Sizes : realloc(t, p, size)
    BY <1>4 DEF realloc, TakeFrom, Enter, Go, Goto, Idle, At, memory, table,
       stats, control
  <1>5. CASE \E p \in Addr : free(t, p)
    BY <1>5 DEF free, TakeFrom, Enter, Go, Goto, Idle, At, memory, table,
       stats, control
  <1>6. CASE libc_allocates(t)
    BY <1>6 DEF libc_allocates, g_real_malloc, Reuse, Enter, Go, Goto, Idle,
       At, memory, table, stats, control
  <1>7. CASE \E p \in Addr : ao_alloc_bridge_owns(t, p)
    BY <1>7 DEF ao_alloc_bridge_owns, TakeFrom, Enter, Go, Goto, Idle, At,
       memory, table, stats, control
  <1>8. CASE ao_mock_begin_capture(t)
    BY <1>8 DEF ao_mock_begin_capture, Enter, Go, Goto, Idle, At, memory,
       table, stats, control
  <1>9. CASE ao_mock_end_capture(t)
    <2>1. UNCHANGED <<memory, table, g_stats, g_capture_depth, exited>>
      BY <1>9 DEF ao_mock_end_capture, Enter
    <2>2. nest' \in [Threads -> Int]
      BY <1>9 DEF ao_mock_end_capture
    <2>3. pc' \in [Threads -> Labels]
      BY <1>9 DEF ao_mock_end_capture, Goto
    <2>4. QED
      BY <2>1, <2>2, <2>3 DEF memory, table
  <1>10. CASE ao_mock_reset(t)
    BY <1>10 DEF ao_mock_reset, Enter, Go, Goto, Idle, At, memory, table,
       stats, control
  <1>11. CASE CounterStep(t)
    <2>1. Head(todo[t]) \in Accesses
      BY <1>11 DEF CounterStep
    <2>2. Head(todo[t]).n \in Int
      BY <2>1 DEF Accesses
    <2>3. ASSUME NEW c \in Counters
          PROVE  (g_stats[c] + Head(todo[t]).n) % Modulus \in 0 .. Modulus - 1
      <3>1. g_stats[c] + Head(todo[t]).n \in Int
        BY <2>2
      <3>2. QED
        BY <3>1, Remainder, BoundsAssumption
    <2>4. 0 \in 0 .. Modulus - 1
      BY BoundsAssumption
    <2>5. g_stats' \in [Counters -> 0 .. Modulus - 1]
      BY <1>11, <2>3, <2>4, SMTT(30) DEF CounterStep
    <2>6. QED
      BY <1>11, <2>5 DEF CounterStep, memory, table, control
  <1>12. CASE ao_registry_lock(t)
    BY <1>12 DEF ao_registry_lock, Lock, Enter, Go, Goto, Idle, At, memory,
       table, stats, control
  <1>13. CASE ao_track_allocation_or_die(t)
    <2>1. /\ g_next_allocation_id' = g_next_allocation_id + 1
          /\ UNCHANGED <<memory, stats, control>>
      BY <1>13 DEF ao_track_allocation_or_die
    <2>2. pc' \in [Threads -> Labels]
      BY <1>13 DEF ao_track_allocation_or_die, Go, Goto
    <2>3. QED
      BY <2>1, <2>2 DEF memory, stats, control
  <1>14. CASE realloc_lookup(t)
    BY <1>14 DEF realloc_lookup, Unlock, Enter, Go, Goto, Idle, At, memory,
       table, stats, control
  <1>15. CASE realloc_bypass(t)
    BY <1>15 DEF realloc_bypass, g_real_realloc, Reuse, Enter, Go, Goto,
       Idle, At, memory, table, stats, control
  <1>16. CASE realloc_tracked(t)
    BY <1>16 DEF realloc_tracked, g_real_realloc, Reuse, Enter, Go, Goto,
       Idle, At, memory, table, stats, control
  <1>17. CASE realloc_fix(t)
    BY <1>17 DEF realloc_fix, Unlock, Enter, Go, Goto, Idle, At, memory,
       table, stats, control
  <1>18. CASE free_remove(t)
    BY <1>18 DEF free_remove, Unlock, Enter, Go, Goto, Idle, At, memory,
       table, stats, control
  <1>19. CASE free_real(t)
    BY <1>19 DEF free_real, g_real_free, Enter, Go, Goto, Idle, At, memory,
       table, stats, control
  <1>20. CASE ao_registry_contains(t)
    BY <1>20 DEF ao_registry_contains, Unlock, Enter, Go, Goto, Idle, At,
       memory, table, stats, control
  <1>21. CASE ao_alloc_bridge_libc_free(t)
    BY <1>21 DEF ao_alloc_bridge_libc_free, g_real_free, Enter, Go, Goto,
       Idle, At, memory, table, stats, control
  <1>22. CASE \E size \in Sizes : ao_alloc_bridge_libc_realloc(t, size)
    BY <1>22 DEF ao_alloc_bridge_libc_realloc, g_real_realloc, Reuse, Enter,
       Go, Goto, Idle, At, memory, table, stats, control
  <1>23. CASE end_capture_sub(t)
    BY <1>23 DEF end_capture_sub, Enter, Go, Goto, Idle, At, memory, table,
       stats, control
  <1>24. CASE ao_fatal(t)
    BY <1>24 DEF ao_fatal, Enter, Go, Goto, Idle, At, memory, table, stats,
       control
  <1>25. CASE Return(t)
    BY <1>25 DEF Return, Frames, Origins, Enter, Go, Goto, Idle, At, memory,
       table, stats, control
  <1>26. QED
    BY <1>1, <1>2, <1>3, <1>4, <1>5, <1>6, <1>7, <1>8, <1>9, <1>10, <1>11,
       <1>12, <1>13, <1>14, <1>15, <1>16, <1>17, <1>18, <1>19, <1>20, <1>21,
       <1>22, <1>23, <1>24, <1>25 DEF Call, Step

-----------------------------------------------------------------------------
(* The effect of each step.                                                *)

\* malloc, calloc and realloc of NULL come back without a block, or with one that
\* was not allocated before.
NewBlock(t) ==
    /\ pc[t] = "idle"
    /\ UNCHANGED <<held, g_registry, exited>>
    /\ \/ /\ UNCHANGED <<heap, reused>>
          /\ pc'[t] = "return"
          /\ frame'[t].keeps = NULL
       \/ \E a \in Addr \ heap :
             /\ heap' = heap \cup {a}
             /\ Reuse(a)
             /\ pc'[t] = "track_lock"
             /\ frame'[t].new_ptr = a
             /\ frame'[t].keeps = a
             /\ frame'[t].origin = "mock"

LEMMA AllocatedEffect ==
    ASSUME TypeOK, FramesOK, NEW t \in Threads, NEW kind, NEW size,
           NEW a \in Addr \cup {NULL}, g_real_malloc(a), Allocated(t, kind, size, a),
           pc[t] = "idle", UNCHANGED <<held, g_registry, exited>>
    PROVE  NewBlock(t)
  <1>1. CASE a = NULL
    <2>1. pc'[t] = "return" /\ frame'[t] = NoFrame
      BY <1>1 DEF Allocated, Go, Goto, TypeOK, FramesOK
    <2>2. UNCHANGED <<heap, reused>>
      BY <1>1, NullAssumption DEF g_real_malloc
    <2>3. QED
      BY <2>1, <2>2 DEF NewBlock, NoFrame
  <1>2. CASE a # NULL
    <2>1. /\ pc'[t] = "track_lock"
          /\ frame'[t] = [NoFrame EXCEPT !.kind = kind, !.size = size, !.new_ptr = a,
                                         !.keeps = a, !.origin = "mock"]
      BY <1>2 DEF Allocated, Go, Goto, TypeOK, FramesOK
    <2>2. /\ frame'[t].new_ptr = a /\ frame'[t].keeps = a
          /\ frame'[t].origin = "mock"
      BY <2>1 DEF NoFrame
    <2>3. a \in Addr \ heap /\ heap' = heap \cup {a} /\ Reuse(a)
      BY <1>2 DEF g_real_malloc
    <2>4. QED
      BY <2>1, <2>2, <2>3 DEF NewBlock
  <1>3. QED
    BY <1>1, <1>2

LEMMA AllocationEffect ==
    ASSUME TypeOK, FramesOK, NEW t \in Threads,
           \/ \E size \in Sizes : malloc(t, size)
           \/ \E nmemb, size \in Sizes : calloc(t, nmemb, size)
           \/ \E size \in Sizes : realloc_null(t, size)
    PROVE  NewBlock(t)
  <1>1. ASSUME NEW size \in Sizes, malloc(t, size) PROVE NewBlock(t)
    <2>1. PICK a \in Addr \cup {NULL} : g_real_malloc(a) /\ Allocated(t, 0, size, a)
      BY <1>1 DEF malloc
    <2>2. pc[t] = "idle" /\ UNCHANGED <<held, g_registry, exited>>
      BY <1>1 DEF malloc, Enter, Idle, table
    <2>3. QED
      BY <2>1, <2>2, AllocatedEffect
  <1>2. ASSUME NEW nmemb \in Sizes, NEW size \in Sizes, calloc(t, nmemb, size)
        PROVE  NewBlock(t)
    <2>1. pc[t] = "idle" /\ UNCHANGED <<held, g_registry, exited>>
      BY <1>2 DEF calloc, Enter, Idle, table
    <2>2. CASE /\ Go(t, "return", NoFrame, ao_record_failed_allocation)
               /\ UNCHANGED <<heap, reused>>
      BY <2>1, <2>2 DEF NewBlock, Go, Goto, NoFrame, TypeOK, FramesOK
    <2>3. ASSUME NEW a \in Addr \cup {NULL}, g_real_malloc(a),
                 Allocated(t, 1, nmemb * size, a)
          PROVE  NewBlock(t)
      BY <2>1, <2>3, AllocatedEffect
    <2>4. QED
      BY <1>2, <2>2, <2>3 DEF calloc
  <1>3. ASSUME NEW size \in Sizes, realloc_null(t, size) PROVE NewBlock(t)
    <2>1. PICK a \in Addr \cup {NULL} : g_real_malloc(a) /\ Allocated(t, 2, size, a)
      BY <1>3 DEF realloc_null
    <2>2. pc[t] = "idle" /\ UNCHANGED <<held, g_registry, exited>>
      BY <1>3 DEF realloc_null, Enter, Idle, table
    <2>3. QED
      BY <2>1, <2>2, AllocatedEffect
  <1>4. QED
    BY <1>1, <1>2, <1>3

\* realloc, free and the bridge take the block of their caller.
TakesBlock(t) ==
    /\ pc[t] = "idle"
    /\ pc'[t] \in {"re_lookup_lock", "fr_lock", "ow_lock"}
    /\ \E p \in Addr :
          /\ held[p] # "none"
          /\ held' = [held EXCEPT ![p] = "none"]
          /\ frame'[t].ptr = p
          /\ pc'[t] # "fr_lock" => frame'[t].origin = held[p]
          /\ pc'[t] = "fr_lock" => frame'[t].keeps = NULL
          /\ pc'[t] = "ow_lock" => frame'[t].keeps = p
    /\ UNCHANGED <<heap, reused, g_registry, exited>>

LEMMA TakeEffect ==
    ASSUME TypeOK, FramesOK, NEW t \in Threads,
           \/ \E p \in Addr, size \in Sizes : realloc(t, p, size)
           \/ \E p \in Addr : free(t, p)
           \/ \E p \in Addr : ao_alloc_bridge_owns(t, p)
    PROVE  TakesBlock(t)
  <1>1. ASSUME NEW p \in Addr, NEW size \in Sizes, realloc(t, p, size)
        PROVE  TakesBlock(t)
    <2>1. /\ pc'[t] = "re_lookup_lock"
          /\ frame'[t] = [NoFrame EXCEPT !.ptr = p, !.size = size, !.origin = held[p]]
      BY <1>1 DEF realloc, Go, Goto, TypeOK, FramesOK
    <2>2. frame'[t].ptr = p /\ frame'[t].origin = held[p]
      BY <2>1 DEF NoFrame
    <2>3. QED
      BY <1>1, <2>1, <2>2 DEF realloc, TakeFrom, TakesBlock, Enter, Idle, table
  <1>2. ASSUME NEW p \in Addr, free(t, p)
        PROVE  TakesBlock(t)
    <2>1. pc'[t] = "fr_lock" /\ frame'[t] = [NoFrame EXCEPT !.ptr = p]
      BY <1>2 DEF free, Go, Goto, TypeOK, FramesOK
    <2>2. frame'[t].ptr = p /\ frame'[t].keeps = NULL
      BY <2>1 DEF NoFrame
    <2>3. QED
      BY <1>2, <2>1, <2>2 DEF free, TakeFrom, TakesBlock, Enter, Idle, table
  <1>3. ASSUME NEW p \in Addr, ao_alloc_bridge_owns(t, p)
        PROVE  TakesBlock(t)
    <2>1. /\ pc'[t] = "ow_lock"
          /\ frame'[t] = [NoFrame EXCEPT !.ptr = p, !.keeps = p, !.origin = held[p]]
      BY <1>3 DEF ao_alloc_bridge_owns, Go, Goto, TypeOK, FramesOK
    <2>2. /\ frame'[t].ptr = p /\ frame'[t].keeps = p
          /\ frame'[t].origin = held[p]
      BY <2>1 DEF NoFrame
    <2>3. QED
      BY <1>3, <2>1, <2>2
         DEF ao_alloc_bridge_owns, TakeFrom, TakesBlock, Enter, Idle, table
  <1>4. QED
    BY <1>1, <1>2, <1>3

\* The lookup of realloc leaves its block alone and finds it tracked or not.
LooksUp(t) ==
    /\ pc[t] = "re_lookup"
    /\ frame'[t].ptr = frame[t].ptr
    /\ frame'[t].origin = frame[t].origin
    /\ pc'[t] = IF frame[t].ptr \in DOMAIN g_registry
                THEN "re_tracked" ELSE "re_bypass"
    /\ frame[t].ptr \in DOMAIN g_registry =>
          frame'[t].old_size = g_registry[frame[t].ptr].requested_size
    /\ UNCHANGED <<heap, held, reused, g_registry, exited>>

LEMMA LookupEffect ==
    ASSUME TypeOK, FramesOK, NEW t \in Threads, realloc_lookup(t)
    PROVE  LooksUp(t)
  <1>1. frame[t] \in Frames
    BY DEF FramesOK
  <1>2. /\ pc[t] = "re_lookup"
        /\ UNCHANGED <<heap, held, reused, g_registry, exited>>
    BY DEF realloc_lookup, At, memory, control
  <1>3. pc'[t] = IF frame[t].ptr \in DOMAIN g_registry
                 THEN "re_tracked" ELSE "re_bypass"
    BY DEF realloc_lookup, Go, Goto, TypeOK
  <1>4. \/ frame[t].ptr \notin DOMAIN g_registry /\ frame'[t] = frame[t]
        \/ frame'[t] =
              [frame[t] EXCEPT
                 !.old_size = g_registry[frame[t].ptr].requested_size,
                 !.allocation_id = g_registry[frame[t].ptr].allocation_id]
    BY DEF realloc_lookup, Go, FramesOK
  <1>5. /\ frame'[t].ptr = frame[t].ptr /\ frame'[t].origin = frame[t].origin
        /\ frame[t].ptr \in DOMAIN g_registry =>
              frame'[t].old_size = g_registry[frame[t].ptr].requested_size
    BY <1>1, <1>4 DEF Frames
  <1>6. QED
    BY <1>2, <1>3, <1>5 DEF LooksUp

\* The real realloc of a block that is not tracked ends the call.
Bypasses(t) ==
    /\ pc[t] \in {"re_bypass", "bridge"}
    /\ pc'[t] = "return"
    /\ frame'[t].origin = frame[t].origin
    /\ \E a \in Pointers, size \in Nat :
          /\ g_real_realloc(frame[t].ptr, size, a)
          /\ frame'[t].keeps = KeepsOf(frame[t].ptr, size, a)
    /\ UNCHANGED <<held, g_registry, exited>>

LEMMA BypassEffect ==
    ASSUME TypeOK, FramesOK, NEW t \in Threads,
           \/ realloc_bypass(t)
           \/ \E size \in Sizes : ao_alloc_bridge_libc_realloc(t, size)
    PROVE  Bypasses(t)
  <1>1. frame[t] \in Frames /\ frame[t].size \in Nat
    BY DEF FramesOK, Frames
  <1>2. CASE realloc_bypass(t)
    <2>1. PICK a \in Pointers :
             /\ g_real_realloc(frame[t].ptr, frame[t].size, a)
             /\ Go(t, "return",
                   [frame[t] EXCEPT !.keeps = KeepsOf(frame[t].ptr, frame[t].size, a)],
                   IF a = NULL /\ frame[t].size # 0
                   THEN ao_record_failed_allocation ELSE <<>>)
      BY <1>2 DEF realloc_bypass, Pointers
    <2>2. /\ frame'[t] =
                [frame[t] EXCEPT !.keeps = KeepsOf(frame[t].ptr, frame[t].size, a)]
          /\ pc'[t] = "return"
      BY <2>1 DEF Go, Goto, TypeOK, FramesOK
    <2>3. /\ frame'[t].keeps = KeepsOf(frame[t].ptr, frame[t].size, a)
          /\ frame'[t].origin = frame[t].origin
      BY <1>1, <2>2 DEF Frames
    <2>4. pc[t] = "re_bypass" /\ UNCHANGED <<held, g_registry, exited>>
      BY <1>2 DEF realloc_bypass, At, table, control
    <2>5. QED
      BY <1>1, <2>1, <2>2, <2>3, <2>4 DEF Bypasses
  <1>3. ASSUME NEW size \in Sizes, ao_alloc_bridge_libc_realloc(t, size)
        PROVE  Bypasses(t)
    <2>1. PICK a \in Pointers :
             /\ g_real_realloc(frame[t].ptr, size, a)
             /\ Go(t, "return",
                   [frame[t] EXCEPT !.keeps = KeepsOf(frame[t].ptr, size, a)], <<>>)
      BY <1>3 DEF ao_alloc_bridge_libc_realloc, Pointers
    <2>2. /\ frame'[t] = [frame[t] EXCEPT !.keeps = KeepsOf(frame[t].ptr, size, a)]
          /\ pc'[t] = "return"
      BY <2>1 DEF Go, Goto, TypeOK, FramesOK
    <2>3. /\ frame'[t].keeps = KeepsOf(frame[t].ptr, size, a)
          /\ frame'[t].origin = frame[t].origin
      BY <1>1, <2>2 DEF Frames
    <2>4. pc[t] = "bridge" /\ UNCHANGED <<held, g_registry, exited>>
      BY <1>3 DEF ao_alloc_bridge_libc_realloc, At, table, control
    <2>5. QED
      BY <2>1, <2>2, <2>3, <2>4, SizesAssumption DEF Bypasses
  <1>4. QED
    BY <1>2, <1>3

\* The real realloc of a tracked block ends the call if it is refused, and goes
\* on to fix the registry if not.
Reallocates(t) ==
    /\ pc[t] = "re_tracked"
    /\ frame'[t].ptr = frame[t].ptr
    /\ frame'[t].old_size = frame[t].old_size
    /\ frame'[t].origin = frame[t].origin
    /\ \E a \in Pointers :
          /\ g_real_realloc(frame[t].ptr, frame[t].size, a)
          /\ frame'[t].new_ptr = a
          /\ frame'[t].keeps = KeepsOf(frame[t].ptr, frame[t].size, a)
          /\ pc'[t] = IF a = NULL /\ frame[t].size # 0
                      THEN "return" ELSE "re_fix_lock"
    /\ UNCHANGED <<held, g_registry, exited>>

LEMMA TrackedEffect ==
    ASSUME TypeOK, FramesOK, NEW t \in Threads, realloc_tracked(t)
    PROVE  Reallocates(t)
  <1>1. frame[t] \in Frames
    BY DEF FramesOK
  <1> DEFINE g(a) == [frame[t] EXCEPT
                        !.new_ptr = a,
                        !.keeps = KeepsOf(frame[t].ptr, frame[t].size, a)]
  <1>2. PICK a \in Pointers :
           /\ g_real_realloc(frame[t].ptr, frame[t].size, a)
           /\ \/ /\ a = NULL /\ frame[t].size # 0
                 /\ Go(t, "return", g(a),
                       ao_record_realloc(FALSE) \o ao_record_failed_allocation)
              \/ /\ ~(a = NULL /\ frame[t].size # 0)
                 /\ Go(t, "re_fix_lock", g(a), <<>>)
    BY DEF realloc_tracked, Pointers
  <1>3. /\ pc'[t] = IF a = NULL /\ frame[t].size # 0 THEN "return" ELSE "re_fix_lock"
        /\ frame'[t] = g(a)
    BY <1>2 DEF Go, Goto, TypeOK, FramesOK
  <1>4. /\ frame'[t].ptr = frame[t].ptr
        /\ frame'[t].old_size = frame[t].old_size
        /\ frame'[t].new_ptr = a
        /\ frame'[t].keeps = KeepsOf(frame[t].ptr, frame[t].size, a)
        /\ frame'[t].origin = frame[t].origin
    BY <1>1, <1>3 DEF Frames
  <1>5. pc[t] = "re_tracked" /\ UNCHANGED <<held, g_registry, exited>>
    BY DEF realloc_tracked, At, table, control
  <1>6. QED
    BY <1>2, <1>3, <1>4, <1>5 DEF Reallocates

\* The tracked addresses after each of the steps that change the registry: the
\* block a call carries enters, the block it was given leaves.
EntryChange(t) ==
    /\ UNCHANGED <<heap, held, reused, exited>>
    /\ frame'[t] = frame[t]
    /\ \/ /\ pc[t] = "track" /\ pc'[t] = "return"
          /\ DOMAIN g_registry' = DOMAIN g_registry \cup {frame[t].new_ptr}
       \/ /\ pc[t] = "track" /\ pc'[t] = "exhausted"
          /\ DOMAIN g_registry' = DOMAIN g_registry
       \/ /\ pc[t] = "re_fix" /\ pc'[t] = "return" /\ frame[t].new_ptr = NULL
          /\ DOMAIN g_registry' = DOMAIN g_registry \ {frame[t].ptr}
       \/ /\ pc[t] = "re_fix" /\ pc'[t] = "return" /\ frame[t].new_ptr # NULL
          /\ DOMAIN g_registry' =
                (DOMAIN g_registry \ {frame[t].ptr}) \cup {frame[t].new_ptr}
       \/ /\ pc[t] = "re_fix" /\ pc'[t] = "exhausted_realloc"
          /\ frame[t].ptr \notin DOMAIN g_registry
          /\ DOMAIN g_registry' = DOMAIN g_registry \ {frame[t].ptr}
       \/ /\ pc[t] = "fr_remove" /\ pc'[t] = "fr_real"
          /\ DOMAIN g_registry' = DOMAIN g_registry \ {frame[t].ptr}

LEMMA EntryEffect ==
    ASSUME TypeOK, FramesOK, NEW t \in Threads,
           ao_track_allocation_or_die(t) \/ realloc_fix(t) \/ free_remove(t)
    PROVE  EntryChange(t)
  <1>1. CASE ao_track_allocation_or_die(t)
    <2>1. /\ UNCHANGED <<heap, held, reused, exited>>
          /\ pc[t] = "track"
      BY <1>1 DEF ao_track_allocation_or_die, At, memory, control
    <2> DEFINE entry == [requested_size |-> frame[t].size,
                         allocation_id  |-> g_next_allocation_id]
    <2>2. \/ /\ pc'[t] = "return" /\ frame'[t] = frame[t]
             /\ g_registry' = Map!Put(g_registry, frame[t].new_ptr, entry)
          \/ /\ pc'[t] = "exhausted" /\ frame' = frame /\ g_registry' = g_registry
      BY <1>1 DEF ao_track_allocation_or_die, Go, Goto, TypeOK, FramesOK
    <2> HIDE DEF entry
    <2>3. DOMAIN Map!Put(g_registry, frame[t].new_ptr, entry)
            = DOMAIN g_registry \cup {frame[t].new_ptr}
      BY DEF Map!Put
    <2>4. QED
      BY <2>1, <2>2, <2>3 DEF EntryChange
  <1>2. CASE realloc_fix(t)
    <2>1. /\ UNCHANGED <<heap, held, reused, exited>>
          /\ pc[t] = "re_fix"
      BY <1>2 DEF realloc_fix, At, memory, control
    <2> DEFINE less == Map!Drop(g_registry, frame[t].ptr)
               entry == [requested_size |-> frame[t].size,
                         allocation_id |-> frame[t].allocation_id]
    <2>2. \/ /\ frame[t].new_ptr = NULL
             /\ g_registry' = less
             /\ pc'[t] = "return" /\ frame'[t] = frame[t]
          \/ /\ frame[t].new_ptr # NULL
             /\ g_registry' = Map!Put(less, frame[t].new_ptr, entry)
             /\ pc'[t] = "return" /\ frame'[t] = frame[t]
          \/ /\ frame[t].new_ptr # NULL /\ ~Map!CanPut(less, frame[t].new_ptr)
             /\ g_registry' = less
             /\ pc'[t] = "exhausted_realloc" /\ frame'[t] = frame[t]
      BY <1>2 DEF realloc_fix, Moved, RoomToMove, Go, Goto, TypeOK, FramesOK
    <2>3. DOMAIN less = DOMAIN g_registry \ {frame[t].ptr}
      BY DropDomain
    <2> HIDE DEF less, entry
    <2>4. DOMAIN Map!Put(less, frame[t].new_ptr, entry)
            = (DOMAIN g_registry \ {frame[t].ptr}) \cup {frame[t].new_ptr}
      BY <2>3 DEF Map!Put
    <2>5. ~Map!CanPut(less, frame[t].new_ptr) => frame[t].ptr \notin DOMAIN g_registry
      BY DropBound DEF TypeOK, FramesOK, less
    <2>6. QED
      BY <2>1, <2>2, <2>3, <2>4, <2>5 DEF EntryChange
  <1>3. CASE free_remove(t)
    <2>1. /\ UNCHANGED <<heap, held, reused, exited>>
          /\ pc[t] = "fr_remove"
          /\ pc'[t] = "fr_real" /\ frame'[t] = frame[t]
          /\ g_registry' = Map!Drop(g_registry, frame[t].ptr)
      BY <1>3 DEF free_remove, At, memory, control, Go, Goto, TypeOK, FramesOK
    <2>2. QED
      BY <2>1, DropDomain DEF EntryChange
  <1>4. QED
    BY <1>1, <1>2, <1>3

\* The remaining steps: one that stays where it is, one of a call that has no
\* block, taking the lock, the answer of the bridge, giving a block back, a block
\* of libc, and the return to the caller.
Stays(t) ==
    /\ pc'[t] = pc[t]
    /\ frame'[t] = frame[t]
    /\ exited' \in {exited, pc[t]}
    /\ UNCHANGED <<heap, held, reused, g_registry>>

Blockless(t) ==
    /\ pc[t] \in {"idle", "end_sub", "resetting"}
    /\ pc'[t] \in {"idle", "end_sub", "resetting"}
    /\ pc'[t] = "resetting" => frame'[t].keeps = NULL
    /\ UNCHANGED <<heap, held, reused, g_registry, exited>>

TakesLock(t) ==
    /\ \/ pc[t] = "track_lock" /\ pc'[t] = "track"
       \/ pc[t] = "re_lookup_lock" /\ pc'[t] = "re_lookup"
       \/ pc[t] = "re_fix_lock" /\ pc'[t] = "re_fix"
       \/ pc[t] = "fr_lock" /\ pc'[t] = "fr_remove"
       \/ pc[t] = "ow_lock" /\ pc'[t] = "ow_lookup"
    /\ frame'[t] = frame[t]
    /\ UNCHANGED <<heap, held, reused, g_registry, exited>>

Answers(t) ==
    /\ pc[t] = "ow_lookup"
    /\ pc'[t] = IF frame[t].ptr \in DOMAIN g_registry THEN "return" ELSE "bridge"
    /\ frame'[t] = frame[t]
    /\ UNCHANGED <<heap, held, reused, g_registry, exited>>

GivesBack(t) ==
    /\ pc[t] \in {"fr_real", "bridge"}
    /\ pc'[t] = "return"
    /\ frame'[t].keeps = NULL
    /\ heap' = heap \ {frame[t].ptr}
    /\ UNCHANGED <<held, reused, g_registry, exited>>

GetsFromLibc(t) ==
    /\ pc'[t] = pc[t]
    /\ frame'[t] = frame[t]
    /\ \E a \in Addr \ heap :
          /\ heap' = heap \cup {a}
          /\ Reuse(a)
          /\ held' = [held EXCEPT ![a] = "libc"]
    /\ UNCHANGED <<g_registry, exited>>

Returns(t) ==
    /\ pc[t] = "return"
    /\ pc'[t] = "idle"
    /\ held' = IF frame[t].keeps = NULL THEN held
               ELSE [held EXCEPT ![frame[t].keeps] = frame[t].origin]
    /\ UNCHANGED <<heap, reused, g_registry, exited>>

Effect(t) ==
    \/ Stays(t) \/ Blockless(t) \/ TakesLock(t) \/ Answers(t)
    \/ NewBlock(t) \/ TakesBlock(t) \/ LooksUp(t) \/ Bypasses(t) \/ Reallocates(t)
    \/ EntryChange(t) \/ GivesBack(t) \/ GetsFromLibc(t) \/ Returns(t)

\* Every step has one of these effects.
LEMMA EveryEffect ==
    ASSUME TypeOK, FramesOK, LocalsOK, NEW t \in Threads, Call(t) \/ Step(t)
    PROVE  Effect(t)
  <1>a. LocalsOf(t)
    BY DEF LocalsOK
  <1>b. pc \in [Threads -> Labels] /\ frame \in [Threads -> Frames]
    BY DEF TypeOK, FramesOK
  <1>1. CASE \E size \in Sizes : malloc(t, size)
    BY <1>1, AllocationEffect DEF Effect
  <1>2. CASE \E nmemb, size \in Sizes : calloc(t, nmemb, size)
    BY <1>2, AllocationEffect DEF Effect
  <1>3. CASE \E size \in Sizes : realloc_null(t, size)
    BY <1>3, AllocationEffect DEF Effect
  <1>4. CASE \E p \in Addr, size \in Sizes : realloc(t, p, size)
    BY <1>4, TakeEffect DEF Effect
  <1>5. CASE \E p \in Addr : free(t, p)
    BY <1>5, TakeEffect DEF Effect
  <1>6. CASE libc_allocates(t)
    <2>1. GetsFromLibc(t)
      BY <1>6, <1>b, NullAssumption DEF GetsFromLibc, libc_allocates, g_real_malloc, Enter, table
    <2>2. QED
      BY <2>1 DEF Effect
  <1>7. CASE \E p \in Addr : ao_alloc_bridge_owns(t, p)
    BY <1>7, TakeEffect DEF Effect
  <1>8. CASE ao_mock_begin_capture(t)
    <2>1. Blockless(t)
      BY <1>8, <1>b DEF Blockless, ao_mock_begin_capture, Enter, Idle, memory, table
    <2>2. QED
      BY <2>1 DEF Effect
  <1>9. CASE ao_mock_end_capture(t)
    <2>1. Blockless(t)
      BY <1>9, <1>b DEF Blockless, ao_mock_end_capture, Enter, Idle, Goto, memory, table
    <2>2. QED
      BY <2>1 DEF Effect
  <1>10. CASE ao_mock_reset(t)
    <2>1. Blockless(t)
      BY <1>10, <1>b DEF Blockless, ao_mock_reset, Enter, Idle, Go, Goto, NoFrame, memory, table
    <2>2. QED
      BY <2>1 DEF Effect
  <1>11. CASE CounterStep(t)
    <2>1. Stays(t)
      BY <1>11, <1>b DEF Stays, CounterStep, memory, table, control
    <2>2. QED
      BY <2>1 DEF Effect
  <1>12. CASE ao_registry_lock(t)
    <2>1. TakesLock(t)
      BY <1>12, <1>b DEF TakesLock, ao_registry_lock, Lock, At, Goto, memory, control
    <2>2. QED
      BY <2>1 DEF Effect
  <1>13. CASE ao_track_allocation_or_die(t)
    BY <1>13, EntryEffect DEF Effect
  <1>14. CASE realloc_lookup(t)
    BY <1>14, LookupEffect DEF Effect
  <1>15. CASE realloc_bypass(t)
    BY <1>15, BypassEffect DEF Effect
  <1>16. CASE realloc_tracked(t)
    BY <1>16, TrackedEffect DEF Effect
  <1>17. CASE realloc_fix(t)
    BY <1>17, EntryEffect DEF Effect
  <1>18. CASE free_remove(t)
    BY <1>18, EntryEffect DEF Effect
  <1>19. CASE free_real(t)
    <2>1. GivesBack(t)
      BY <1>19, <1>a, <1>b DEF GivesBack, free_real, g_real_free, At, Goto, LocalsOf, table, control
    <2>2. QED
      BY <2>1 DEF Effect
  <1>20. CASE ao_registry_contains(t)
    <2>1. Answers(t)
      BY <1>20, <1>b DEF Answers, ao_registry_contains, Owned, At, Goto, memory, control
    <2>2. QED
      BY <2>1 DEF Effect
  <1>21. CASE ao_alloc_bridge_libc_free(t)
    <2>1. GivesBack(t)
      BY <1>21, <1>b DEF GivesBack, ao_alloc_bridge_libc_free, g_real_free, At, Go,
            Goto, NoFrame, table, control
    <2>2. QED
      BY <2>1 DEF Effect
  <1>22. CASE \E size \in Sizes : ao_alloc_bridge_libc_realloc(t, size)
    BY <1>22, BypassEffect DEF Effect
  <1>23. CASE end_capture_sub(t)
    <2>1. Blockless(t)
      BY <1>23, <1>b DEF Blockless, end_capture_sub, At, Goto, memory, table, control
    <2>2. QED
      BY <2>1 DEF Effect
  <1>24. CASE ao_fatal(t)
    <2>1. Stays(t)
      BY <1>24, <1>b DEF Stays, ao_fatal, At, memory, table
    <2>2. QED
      BY <2>1 DEF Effect
  <1>25. CASE Return(t)
    <2>1. CASE pc[t] = "return"
      <3>1. Returns(t)
        BY <1>25, <1>b, <2>1 DEF Returns, Return, Go, Goto, table, control
      <3>2. QED
        BY <3>1 DEF Effect
    <2>2. CASE pc[t] = "resetting"
      <3>1. Blockless(t)
        BY <1>25, <1>a, <1>b, <2>2
           DEF Blockless, Return, Go, Goto, LocalsOf, table, control
      <3>2. QED
        BY <3>1 DEF Effect
    <2>3. QED
      BY <1>25, <2>1, <2>2 DEF Return, At
  <1>26. QED
    BY <1>1, <1>2, <1>3, <1>4, <1>5, <1>6, <1>7, <1>8, <1>9, <1>10, <1>11,
       <1>12, <1>13, <1>14, <1>15, <1>16, <1>17, <1>18, <1>19, <1>20, <1>21,
       <1>22, <1>23, <1>24, <1>25 DEF Call, Step

-----------------------------------------------------------------------------
(* Custody.                                                                *)

\* Each label finds the locals it relies on.
LEMMA LocalsStep ==
    ASSUME TypeOK, FramesOK, LocalsOK, NEW t \in Threads, Call(t) \/ Step(t)
    PROVE  LocalsOK'
  <1>a. LocalsOf(t)
    BY DEF LocalsOK
  <1>b. held \in [Addr -> {"none", "mock", "libc"}] /\ frame[t].ptr \in Pointers
    BY DEF TypeOK, FramesOK, Frames
  <1> SUFFICES LocalsOf(t)'
    BY OthersUntouched DEF LocalsOK, LocalsOf
  <1> USE DEF LocalsOf, PtrLabels
  <1>1. CASE Stays(t)
    BY <1>1, <1>a, <1>b, NullAssumption DEF Stays
  <1>2. CASE Blockless(t)
    BY <1>2, <1>a, <1>b, NullAssumption DEF Blockless
  <1>3. CASE TakesLock(t)
    BY <1>3, <1>a, <1>b, NullAssumption DEF TakesLock
  <1>4. CASE Answers(t)
    BY <1>4, <1>a, <1>b, NullAssumption DEF Answers
  <1>5. CASE NewBlock(t)
    BY <1>5, <1>a, <1>b, NullAssumption DEF NewBlock
  <1>6. CASE TakesBlock(t)
    BY <1>6, <1>a, <1>b, NullAssumption DEF TakesBlock
  <1>7. CASE LooksUp(t)
    BY <1>7, <1>a, <1>b, NullAssumption DEF LooksUp
  <1>8. CASE Bypasses(t)
    BY <1>8, <1>a, <1>b, NullAssumption DEF Bypasses, KeepsOf
  <1>9. CASE Reallocates(t)
    BY <1>9, <1>a, <1>b, NullAssumption DEF Reallocates, KeepsOf
  <1>10. CASE EntryChange(t)
    BY <1>10, <1>a, <1>b, NullAssumption DEF EntryChange
  <1>11. CASE GivesBack(t)
    BY <1>11, <1>a, <1>b, NullAssumption DEF GivesBack
  <1>12. CASE GetsFromLibc(t)
    BY <1>12, <1>a, <1>b, NullAssumption DEF GetsFromLibc
  <1>13. CASE Returns(t)
    BY <1>13, <1>a, <1>b, NullAssumption DEF Returns
  <1>14. QED
    BY <1>1, <1>2, <1>3, <1>4, <1>5, <1>6, <1>7, <1>8, <1>9, <1>10, <1>11,
       <1>12, <1>13, EveryEffect DEF Effect

\* What a step of thread t can do with blocks: nothing, carry a new one or have
\* libc give the caller one, take one from the caller or return it, release the
\* one it carries, or exchange it for another.
Transfer(t) ==
    \/ UNCHANGED <<heap, held>> /\ Carried(t)' = Carried(t)
    \/ \E a \in Addr \ heap :
          /\ heap' = heap \cup {a} /\ held' = held
          /\ Carried(t) = NULL /\ Carried(t)' = a
    \/ \E a \in Addr \ heap :
          /\ heap' = heap \cup {a} /\ held' = [held EXCEPT ![a] = "libc"]
          /\ Carried(t)' = Carried(t)
    \/ \E p \in Addr :
          /\ heap' = heap /\ held[p] # "none" /\ held' = [held EXCEPT ![p] = "none"]
          /\ Carried(t) = NULL /\ Carried(t)' = p
    \/ /\ heap' = heap /\ held' = [held EXCEPT ![Carried(t)] = frame[t].origin]
       /\ Carried(t) # NULL /\ Carried(t)' = NULL
    \/ /\ heap' = heap \ {Carried(t)} /\ held' = held
       /\ Carried(t) # NULL /\ Carried(t)' = NULL
    \/ \E a \in Addr \ heap :
          /\ heap' = (heap \ {Carried(t)}) \cup {a} /\ held' = held
          /\ Carried(t) # NULL /\ Carried(t)' = a

\* Every step is one of these.
LEMMA EveryTransfer ==
    ASSUME TypeOK, FramesOK, LocalsOK, NEW t \in Threads, Call(t) \/ Step(t)
    PROVE  Transfer(t)
  <1>a. LocalsOf(t)
    BY DEF LocalsOK
  <1> USE NullAssumption DEF Transfer, Carried, NewLabels, PtrLabels
  <1>1. CASE Stays(t)
    BY <1>1, <1>a DEF Stays, LocalsOf
  <1>2. CASE Blockless(t)
    BY <1>2, <1>a DEF Blockless, LocalsOf
  <1>3. CASE TakesLock(t)
    BY <1>3, <1>a DEF TakesLock, LocalsOf
  <1>4. CASE Answers(t)
    BY <1>4, <1>a DEF Answers, LocalsOf
  <1>5. CASE NewBlock(t)
    BY <1>5, <1>a DEF NewBlock, LocalsOf
  <1>6. CASE TakesBlock(t)
    BY <1>6, <1>a DEF TakesBlock, LocalsOf
  <1>7. CASE LooksUp(t)
    BY <1>7, <1>a DEF LooksUp, LocalsOf
  <1>8. CASE Bypasses(t)
    BY <1>8, <1>a DEF Bypasses, KeepsOf, g_real_realloc, Pointers,
       LocalsOf
  <1>9. CASE Reallocates(t)
    BY <1>9, <1>a DEF Reallocates, KeepsOf, g_real_realloc, Pointers,
       LocalsOf
  <1>10. CASE EntryChange(t)
    BY <1>10, <1>a DEF EntryChange, LocalsOf
  <1>11. CASE GivesBack(t)
    BY <1>11, <1>a DEF GivesBack, LocalsOf
  <1>12. CASE GetsFromLibc(t)
    BY <1>12, <1>a DEF GetsFromLibc, LocalsOf
  <1>13. CASE Returns(t)
    BY <1>13, <1>a DEF Returns, LocalsOf
  <1>14. QED
    BY <1>1, <1>2, <1>3, <1>4, <1>5, <1>6, <1>7, <1>8, <1>9, <1>10, <1>11,
       <1>12, <1>13, EveryEffect DEF Effect

\* A step of thread t does not change what the other threads carry.
LEMMA OthersCarry ==
    ASSUME TypeOK, FramesOK, NEW t \in Threads, Call(t) \/ Step(t),
           NEW u \in Threads \ {t}
    PROVE  Carried(u)' = Carried(u)
  BY OthersUntouched DEF Carried

\* What is carried is a pointer.
LEMMA CarriedType ==
    ASSUME FramesOK, NEW u \in Threads
    PROVE  Carried(u) \in Pointers
  BY DEF FramesOK, Frames, Carried, Pointers

\* Each block stays with one caller or one call.
LEMMA CustodyStep ==
    ASSUME TypeOK, FramesOK, LocalsOK, Custody, NEW t \in Threads,
           Call(t) \/ Step(t)
    PROVE  Custody'
  <1>1. \A u \in Threads \ {t} : Carried(u)' = Carried(u)
    BY OthersCarry
  <1>2. \A u \in Threads : Carried(u) \in Pointers
    BY CarriedType
  <1>3. /\ \A a \in Addr : held[a] # "none" => a \in heap
        /\ \A u \in Threads :
              Carried(u) # NULL => Carried(u) \in heap /\ held[Carried(u)] = "none"
        /\ \A u, v \in Threads :
              Carried(u) # NULL /\ Carried(u) = Carried(v) => u = v
    BY DEF Custody
  <1>4. held \in [Addr -> {"none", "mock", "libc"}] /\ heap \subseteq Addr
    BY DEF TypeOK
  <1>5. Transfer(t)
    BY EveryTransfer
  <1> HIDE DEF Carried
  <1>6. /\ \A a \in Addr : held'[a] # "none" => a \in heap'
    BY <1>1, <1>2, <1>3, <1>4, <1>5, NullAssumption DEF Transfer, Pointers
  <1>7. \A u \in Threads :
           Carried(u)' # NULL => Carried(u)' \in heap' /\ held'[Carried(u)'] = "none"
    BY <1>1, <1>2, <1>3, <1>4, <1>5, NullAssumption DEF Transfer, Pointers
  <1>8. \A u, v \in Threads :
           Carried(u)' # NULL /\ Carried(u)' = Carried(v)' => u = v
    BY <1>1, <1>2, <1>3, <1>4, <1>5, NullAssumption DEF Transfer, Pointers
  <1>9. QED
    BY <1>6, <1>7, <1>8 DEF Custody

-----------------------------------------------------------------------------
(* The registry and the blocks.                                            *)

\* An address enters the registry only as the block that the call carries.
LEMMA OnlyCarriedEnter ==
    ASSUME TypeOK, FramesOK, LocalsOK, NEW t \in Threads, Call(t) \/ Step(t),
           NEW a \in DOMAIN g_registry', a \notin DOMAIN g_registry
    PROVE  EntryChange(t) /\ Carried(t) = a /\ a # NULL
  <1>1. EntryChange(t)
    BY RegistryChanges, EntryEffect
  <1>2. pc[t] = "track" => frame[t].new_ptr \in Addr
    BY DEF LocalsOK, LocalsOf
  <1>3. QED
    BY <1>1, <1>2, NullAssumption DEF EntryChange, Carried, NewLabels

\* An address leaves the registry only as the block that the call carries or
\* that its realloc has released.
LEMMA OnlyOwnLeave ==
    ASSUME TypeOK, FramesOK, LocalsOK, NEW t \in Threads, Call(t) \/ Step(t),
           NEW a \in DOMAIN g_registry, a \notin DOMAIN g_registry'
    PROVE  /\ pc[t] \in {"re_fix", "fr_remove"} /\ a = frame[t].ptr
           /\ Carried(t) = a \/ FixUpPending(t, a)
  <1>1. EntryChange(t)
    BY RegistryChanges, EntryEffect
  <1>2. QED
    BY <1>1 DEF EntryChange, Carried, NewLabels, PtrLabels, FixUpPending

\* A block about to be given back stays out of the registry.
LEMMA UntrackedStep ==
    ASSUME TypeOK, FramesOK, LocalsOK, Custody, Untracked, NEW t \in Threads,
           Call(t) \/ Step(t)
    PROVE  Untracked'
  <1>1. ASSUME NEW u \in Threads \ {t}, pc'[u] \in {"fr_real", "bridge", "re_bypass"}
        PROVE  frame'[u].ptr \notin DOMAIN g_registry'
    <2>1. pc'[u] = pc[u] /\ frame'[u] = frame[u]
      BY OthersUntouched
    <2>2. frame[u].ptr \notin DOMAIN g_registry
      BY <1>1, <2>1 DEF Untracked
    <2>3. Carried(u) = frame[u].ptr
      BY <1>1, <2>1 DEF Carried, NewLabels, PtrLabels
    <2>4. Carried(t) # NULL /\ Carried(t) = Carried(u) => t = u
      BY DEF Custody
    <2>5. QED
      BY <2>1, <2>2, <2>3, <2>4, OnlyCarriedEnter
  <1>2. ASSUME pc'[t] \in {"fr_real", "bridge", "re_bypass"}
        PROVE  frame'[t].ptr \notin DOMAIN g_registry'
    <2>1. CASE Stays(t)
      BY <2>1, <1>2 DEF Stays, Untracked
    <2>2. CASE Blockless(t)
      BY <2>2, <1>2 DEF Blockless, Untracked
    <2>3. CASE TakesLock(t)
      BY <2>3, <1>2 DEF TakesLock, Untracked
    <2>4. CASE Answers(t)
      BY <2>4, <1>2 DEF Answers, Untracked
    <2>5. CASE NewBlock(t)
      BY <2>5, <1>2 DEF NewBlock, Untracked
    <2>6. CASE TakesBlock(t)
      BY <2>6, <1>2 DEF TakesBlock, Untracked
    <2>7. CASE LooksUp(t)
      BY <2>7, <1>2 DEF LooksUp, Untracked
    <2>8. CASE Bypasses(t)
      BY <2>8, <1>2 DEF Bypasses, Untracked
    <2>9. CASE Reallocates(t)
      BY <2>9, <1>2 DEF Reallocates, Untracked
    <2>10. CASE EntryChange(t)
      BY <2>10, <1>2 DEF EntryChange, Untracked
    <2>11. CASE GivesBack(t)
      BY <2>11, <1>2 DEF GivesBack, Untracked
    <2>12. CASE GetsFromLibc(t)
      BY <2>12, <1>2 DEF GetsFromLibc, Untracked
    <2>13. CASE Returns(t)
      BY <2>13, <1>2 DEF Returns, Untracked
    <2>14. QED
      BY <2>1, <2>2, <2>3, <2>4, <2>5, <2>6, <2>7, <2>8, <2>9, <2>10,
         <2>11, <2>12, <2>13, EveryEffect DEF Effect
  <1>3. QED
    BY <1>1, <1>2 DEF Untracked

\* A block is released as the one a call was given: it is not in the
\* registry, or its realloc goes on to remove it from there.
LEMMA Released ==
    ASSUME TypeOK, FramesOK, LocalsOK, NEW t \in Threads,
           Call(t) \/ Step(t), NEW a \in heap, a \notin heap'
    PROVE  /\ a = frame[t].ptr
           /\ \/ pc[t] \in {"fr_real", "bridge", "re_bypass"}
              \/ FixUpPending(t, a)'
  <1>1. CASE Stays(t)
    BY <1>1, NullAssumption DEF Stays
  <1>2. CASE Blockless(t)
    BY <1>2, NullAssumption DEF Blockless
  <1>3. CASE TakesLock(t)
    BY <1>3, NullAssumption DEF TakesLock
  <1>4. CASE Answers(t)
    BY <1>4, NullAssumption DEF Answers
  <1>5. CASE NewBlock(t)
    BY <1>5, NullAssumption DEF NewBlock
  <1>6. CASE TakesBlock(t)
    BY <1>6, NullAssumption DEF TakesBlock
  <1>7. CASE LooksUp(t)
    BY <1>7, NullAssumption DEF LooksUp
  <1>8. CASE Bypasses(t)
    BY <1>8, NullAssumption DEF Bypasses, g_real_realloc
  <1>9. CASE Reallocates(t)
    <2>1. PICK b \in Pointers :
             /\ g_real_realloc(frame[t].ptr, frame[t].size, b)
             /\ frame'[t].new_ptr = b
             /\ pc'[t] = IF b = NULL /\ frame[t].size # 0
                         THEN "return" ELSE "re_fix_lock"
      BY <1>9 DEF Reallocates
    <2>2. a \in Addr /\ a # NULL
      BY NullAssumption DEF TypeOK
    <2>3. a = frame[t].ptr
      BY <2>1 DEF g_real_realloc
    <2>4. b # a
      <3>1. SUFFICES ASSUME b = a PROVE FALSE
        OBVIOUS
      <3>2. QED
        BY <3>1, <2>1, <2>2, <2>3 DEF g_real_realloc
    <2>5. pc'[t] = "re_fix_lock"
      BY <2>1, <2>3, <2>4, NullAssumption DEF g_real_realloc
    <2>6. QED
      BY <1>9, <2>1, <2>3, <2>4, <2>5 DEF Reallocates, FixUpPending
  <1>10. CASE EntryChange(t)
    BY <1>10, NullAssumption DEF EntryChange
  <1>11. CASE GivesBack(t)
    BY <1>11, NullAssumption DEF GivesBack
  <1>12. CASE GetsFromLibc(t)
    BY <1>12, NullAssumption DEF GetsFromLibc
  <1>13. CASE Returns(t)
    BY <1>13, NullAssumption DEF Returns
  <1>14. QED
    BY <1>1, <1>2, <1>3, <1>4, <1>5, <1>6, <1>7, <1>8, <1>9, <1>10, <1>11,
       <1>12, <1>13, EveryEffect DEF Effect

\* A realloc that has released an address has removed it from the registry when
\* it leaves the labels where that is pending.
LEMMA PendingEnds ==
    ASSUME TypeOK, FramesOK, LocalsOK, NEW t \in Threads, Call(t) \/ Step(t),
           NEW a \in Addr, FixUpPending(t, a), ~FixUpPending(t, a)'
    PROVE  a \notin DOMAIN g_registry'
  <1>1. CASE Stays(t)
    BY <1>1 DEF Stays, FixUpPending
  <1>2. CASE Blockless(t)
    BY <1>2 DEF Blockless, FixUpPending
  <1>3. CASE TakesLock(t)
    BY <1>3 DEF TakesLock, FixUpPending
  <1>4. CASE Answers(t)
    BY <1>4 DEF Answers, FixUpPending
  <1>5. CASE NewBlock(t)
    BY <1>5 DEF NewBlock, FixUpPending
  <1>6. CASE TakesBlock(t)
    BY <1>6 DEF TakesBlock, FixUpPending
  <1>7. CASE LooksUp(t)
    BY <1>7 DEF LooksUp, FixUpPending
  <1>8. CASE Bypasses(t)
    BY <1>8 DEF Bypasses, FixUpPending
  <1>9. CASE Reallocates(t)
    BY <1>9 DEF Reallocates, FixUpPending
  <1>10. CASE EntryChange(t)
    BY <1>10 DEF EntryChange, FixUpPending
  <1>11. CASE GivesBack(t)
    BY <1>11 DEF GivesBack, FixUpPending
  <1>12. CASE GetsFromLibc(t)
    BY <1>12 DEF GetsFromLibc, FixUpPending
  <1>13. CASE Returns(t)
    BY <1>13 DEF Returns, FixUpPending
  <1>14. QED
    BY <1>1, <1>2, <1>3, <1>4, <1>5, <1>6, <1>7, <1>8, <1>9, <1>10, <1>11,
       <1>12, <1>13, EveryEffect DEF Effect

\* It is pending from the moment the block it carried is released.
LEMMA PendingBegins ==
    ASSUME TypeOK, FramesOK, LocalsOK, Custody, NEW t \in Threads,
           Call(t) \/ Step(t), NEW a \in Addr, FixUpPending(t, a)', ~FixUpPending(t, a)
    PROVE  Carried(t) = a /\ a \in heap /\ a \notin heap'
  <1>1. CASE Stays(t)
    BY <1>1 DEF Stays, FixUpPending
  <1>2. CASE Blockless(t)
    BY <1>2 DEF Blockless, FixUpPending
  <1>3. CASE TakesLock(t)
    BY <1>3 DEF TakesLock, FixUpPending
  <1>4. CASE Answers(t)
    BY <1>4 DEF Answers, FixUpPending
  <1>5. CASE NewBlock(t)
    BY <1>5 DEF NewBlock, FixUpPending
  <1>6. CASE TakesBlock(t)
    BY <1>6 DEF TakesBlock, FixUpPending
  <1>7. CASE LooksUp(t)
    BY <1>7 DEF LooksUp, FixUpPending
  <1>8. CASE Bypasses(t)
    BY <1>8 DEF Bypasses, FixUpPending
  <1>9. CASE Reallocates(t)
    <2>1. PICK b \in Pointers :
             /\ g_real_realloc(frame[t].ptr, frame[t].size, b)
             /\ frame'[t].new_ptr = b
             /\ pc'[t] = IF b = NULL /\ frame[t].size # 0
                         THEN "return" ELSE "re_fix_lock"
      BY <1>9 DEF Reallocates
    <2>2. frame[t].ptr = a /\ b # a /\ pc'[t] = "re_fix_lock"
      BY <1>9, <2>1 DEF Reallocates, FixUpPending
    <2>3. Carried(t) = a
      BY <1>9, <2>2 DEF Reallocates, Carried, NewLabels, PtrLabels
    <2>4. a \in heap
      BY <2>3, NullAssumption DEF Custody
    <2>5. a \notin heap'
      BY <2>1, <2>2, <2>4 DEF g_real_realloc
    <2>6. QED
      BY <2>3, <2>4, <2>5
  <1>10. CASE EntryChange(t)
    BY <1>10 DEF EntryChange, FixUpPending
  <1>11. CASE GivesBack(t)
    BY <1>11 DEF GivesBack, FixUpPending
  <1>12. CASE GetsFromLibc(t)
    BY <1>12 DEF GetsFromLibc, FixUpPending
  <1>13. CASE Returns(t)
    BY <1>13 DEF Returns, FixUpPending
  <1>14. QED
    BY <1>1, <1>2, <1>3, <1>4, <1>5, <1>6, <1>7, <1>8, <1>9, <1>10, <1>11,
       <1>12, <1>13, EveryEffect DEF Effect

\* Reuse remembers that a realloc had the address to remove.
LEMMA ReuseMeans ==
    ASSUME reused \in BOOLEAN, NEW a, Reuse(a), ~reused'
    PROVE  ~reused /\ \A u \in Threads : ~FixUpPending(u, a)
  BY Zenon DEF Reuse

\* Every block that is newly allocated is looked at.
LEMMA ReuseLooks ==
    ASSUME TypeOK, FramesOK, LocalsOK, NEW t \in Threads, Call(t) \/ Step(t)
    PROVE  \/ reused' = reused /\ heap' \subseteq heap
           \/ \E a \in Addr \ heap : heap' \subseteq heap \cup {a} /\ Reuse(a)
  <1>1. CASE Stays(t)
    BY <1>1 DEF Stays
  <1>2. CASE Blockless(t)
    BY <1>2 DEF Blockless
  <1>3. CASE TakesLock(t)
    BY <1>3 DEF TakesLock
  <1>4. CASE Answers(t)
    BY <1>4 DEF Answers
  <1>5. CASE NewBlock(t)
    BY <1>5 DEF NewBlock
  <1>6. CASE TakesBlock(t)
    BY <1>6 DEF TakesBlock
  <1>7. CASE LooksUp(t)
    BY <1>7 DEF LooksUp
  <1>8. CASE Bypasses(t)
    BY <1>8 DEF Bypasses, g_real_realloc
  <1>9. CASE Reallocates(t)
    BY <1>9 DEF Reallocates, g_real_realloc
  <1>10. CASE EntryChange(t)
    BY <1>10 DEF EntryChange
  <1>11. CASE GivesBack(t)
    BY <1>11 DEF GivesBack
  <1>12. CASE GetsFromLibc(t)
    BY <1>12 DEF GetsFromLibc
  <1>13. CASE Returns(t)
    BY <1>13 DEF Returns
  <1>14. QED
    BY <1>1, <1>2, <1>3, <1>4, <1>5, <1>6, <1>7, <1>8, <1>9, <1>10, <1>11,
       <1>12, <1>13, EveryEffect DEF Effect

\* Once an address has been reused, that is remembered; until then no address is
\* handed out while a realloc has it to remove.
LEMMA ReuseSeen ==
    ASSUME TypeOK, FramesOK, LocalsOK, NEW t \in Threads, Call(t) \/ Step(t),
           ~reused'
    PROVE  /\ ~reused
           /\ \A a \in heap' \ heap : \A u \in Threads : ~FixUpPending(u, a)
  <1>1. CASE reused' = reused /\ heap' \subseteq heap
    BY <1>1
  <1>2. ASSUME NEW b \in Addr \ heap, heap' \subseteq heap \cup {b}, Reuse(b)
        PROVE  /\ ~reused
               /\ \A a \in heap' \ heap : \A u \in Threads : ~FixUpPending(u, a)
    <2>1. ~reused /\ \A u \in Threads : ~FixUpPending(u, b)
      BY <1>2, ReuseMeans DEF FramesOK
    <2>2. \A a \in heap' \ heap : a = b
      BY <1>2
    <2>3. QED
      BY <2>1, <2>2
  <1>3. QED
    BY <1>1, <1>2, ReuseLooks

\* No entry outlives its block but under a realloc that is about to remove it.
LEMMA NoStaleStep ==
    ASSUME TypeOK, FramesOK, LocalsOK, Custody, Untracked, NoStaleEntry,
           NEW t \in Threads, Call(t) \/ Step(t)
    PROVE  NoStaleEntry'
  <1> SUFFICES ASSUME NEW a \in DOMAIN g_registry'
               PROVE  a \in heap' \/ \E u \in Threads : FixUpPending(u, a)'
    BY DEF NoStaleEntry
  <1>1. CASE a \notin DOMAIN g_registry
    <2>1. EntryChange(t) /\ Carried(t) = a /\ a # NULL
      BY <1>1, OnlyCarriedEnter
    <2>2. a \in heap
      BY <2>1 DEF Custody
    <2>3. heap' = heap
      BY <2>1 DEF EntryChange
    <2>4. QED
      BY <2>2, <2>3
  <1>2. CASE a \in DOMAIN g_registry
    <2>1. a \in Addr
      BY <1>2 DEF TypeOK
    <2>2. CASE a \in heap
      <3>1. ASSUME a \notin heap' PROVE FixUpPending(t, a)'
        <4>1. /\ a = frame[t].ptr
              /\ pc[t] \in {"fr_real", "bridge", "re_bypass"} \/ FixUpPending(t, a)'
          BY <2>2, <3>1, Released
        <4>2. QED
          BY <1>2, <4>1 DEF Untracked
      <3>2. QED
        BY <3>1
    <2>3. CASE \E u \in Threads : FixUpPending(u, a)
      <3>1. PICK u \in Threads : FixUpPending(u, a)
        BY <2>3
      <3>2. CASE u = t
        BY <2>1, <3>1, <3>2, PendingEnds
      <3>3. CASE u # t
        BY <3>1, <3>3, OthersUntouched DEF FixUpPending
      <3>4. QED
        BY <3>2, <3>3
    <2>4. QED
      BY <1>2, <2>2, <2>3 DEF NoStaleEntry
  <1>3. QED
    BY <1>1, <1>2

-----------------------------------------------------------------------------
(* Ownership.                                                              *)

\* An address that a realloc has released is not allocated until the realloc has
\* removed it.
LEMMA PendingAloneStep ==
    ASSUME TypeOK, FramesOK, LocalsOK, Custody, PendingAlone, NEW t \in Threads,
           Call(t) \/ Step(t), ~reused'
    PROVE  PendingAlone'
  <1>1. ASSUME NEW u \in Threads, NEW a \in Addr, FixUpPending(u, a)'
        PROVE  \/ FixUpPending(u, a)
               \/ u = t /\ Carried(t) = a /\ a \in heap /\ a \notin heap'
    <2>1. CASE u = t
      BY <1>1, <2>1, PendingBegins
    <2>2. CASE u # t
      BY <1>1, <2>2, OthersUntouched DEF FixUpPending
    <2>3. QED
      BY <2>1, <2>2
  <1>2. ASSUME NEW u \in Threads, NEW a \in Addr, FixUpPending(u, a)'
        PROVE  a \notin heap'
    <2>1. CASE FixUpPending(u, a)
      BY <2>1, ReuseSeen DEF PendingAlone
    <2>2. QED
      BY <1>1, <1>2, <2>1
  <1>3. ASSUME NEW u \in Threads, NEW v \in Threads, NEW a \in Addr,
               FixUpPending(u, a)', FixUpPending(v, a)'
        PROVE  u = v
    <2>1. FixUpPending(u, a) \/ (u = t /\ a \in heap)
      BY <1>1, <1>3
    <2>2. FixUpPending(v, a) \/ (v = t /\ a \in heap)
      BY <1>1, <1>3
    <2>3. QED
      BY <2>1, <2>2 DEF PendingAlone
  <1>4. QED
    BY <1>2, <1>3 DEF PendingAlone

\* An address that is allocated, and that this call does not carry, stays in the
\* registry or out of it.
LEMMA OthersKnown ==
    ASSUME TypeOK, FramesOK, LocalsOK, Custody, PendingAlone, NEW t \in Threads,
           Call(t) \/ Step(t), NEW a \in Addr, a # Carried(t),
           \/ a \in heap
           \/ \E u \in Threads \ {t} : FixUpPending(u, a)
    PROVE  a \in DOMAIN g_registry' <=> a \in DOMAIN g_registry
  <1>1. ASSUME a \in DOMAIN g_registry', a \notin DOMAIN g_registry PROVE FALSE
    BY <1>1, OnlyCarriedEnter
  <1>2. ASSUME a \in DOMAIN g_registry, a \notin DOMAIN g_registry' PROVE FALSE
    <2>1. FixUpPending(t, a)
      BY <1>2, OnlyOwnLeave
    <2>2. QED
      BY <2>1 DEF PendingAlone
  <1>3. QED
    BY <1>1, <1>2

\* A step of thread t leaves what is known of the other threads' blocks.
LEMMA OthersStayKnown ==
    ASSUME TypeOK, FramesOK, LocalsOK, Custody, PendingAlone, NEW t \in Threads,
           Call(t) \/ Step(t), NEW u \in Threads \ {t}, KnownOf(u)
    PROVE  KnownOf(u)'
  <1>1. /\ pc'[u] = pc[u] /\ frame'[u] = frame[u]
        /\ Carried(u)' = Carried(u)
    BY OthersUntouched, OthersCarry
  <1>2. ASSUME Carried(u) # NULL
        PROVE  Carried(u) \in DOMAIN g_registry' <=> Carried(u) \in DOMAIN g_registry
    <2>1. Carried(u) \in Addr /\ Carried(u) \in heap
      BY <1>2, CarriedType DEF Custody, Pointers
    <2>2. Carried(u) # Carried(t)
      BY <1>2 DEF Custody
    <2>3. QED
      BY <2>1, <2>2, OthersKnown
  <1>3. ASSUME pc[u] \in {"re_tracked", "re_fix_lock", "re_fix"}
        PROVE  frame[u].ptr \in DOMAIN g_registry'
    <2>1. frame[u].ptr \in DOMAIN g_registry /\ frame[u].ptr \in Addr
      BY <1>3 DEF KnownOf, TypeOK
    <2>2. CASE Carried(u) = frame[u].ptr
      BY <1>2, <2>1, <2>2, NullAssumption
    <2>3. CASE Carried(u) # frame[u].ptr
      <3>1. FixUpPending(u, frame[u].ptr)
        BY <1>3, <2>3 DEF FixUpPending, Carried, NewLabels, PtrLabels
      <3>2. frame[u].ptr \notin heap
        BY <2>1, <3>1 DEF PendingAlone
      <3>3. frame[u].ptr # Carried(t)
        BY <2>1, <3>2, NullAssumption DEF Custody
      <3>4. QED
        BY <2>1, <3>1, <3>3, OthersKnown
    <2>4. QED
      BY <2>2, <2>3
  <1>4. QED
    BY <1>1, <1>2, <1>3 DEF KnownOf

\* A block that is newly allocated is not tracked.
LEMMA NewUntracked ==
    ASSUME TypeOK, FramesOK, LocalsOK, NoStaleEntry, NEW t \in Threads,
           Call(t) \/ Step(t), ~reused', NEW a \in heap', a \notin heap
    PROVE  a \notin DOMAIN g_registry
  <1>1. \A u \in Threads : ~FixUpPending(u, a)
    BY ReuseSeen
  <1>2. QED
    BY <1>1 DEF NoStaleEntry

\* A call knows its own block after each of its steps.
LEMMA OwnKnown ==
    ASSUME TypeOK, FramesOK, LocalsOK, Untracked, NoStaleEntry,
           MockBlocksTracked, LibcBlocksUntracked, NEW t \in Threads,
           Call(t) \/ Step(t), ~reused', KnownOf(t)
    PROVE  KnownOf(t)'
  <1>a. \A b \in Addr : held[b] # "none" =>
           (held[b] = "mock" <=> b \in DOMAIN g_registry)
    BY DEF MockBlocksTracked, LibcBlocksUntracked, TypeOK
  <1>b. LocalsOf(t) /\ KnownOf(t)
    BY DEF LocalsOK
  <1> USE NullAssumption DEF KnownOf, Carried, NewLabels, PtrLabels
  <1>1. CASE Stays(t)
    BY <1>1, <1>b DEF Stays, LocalsOf
  <1>2. CASE Blockless(t)
    BY <1>2, <1>b DEF Blockless, LocalsOf
  <1>3. CASE TakesLock(t)
    BY <1>3, <1>b DEF TakesLock, LocalsOf
  <1>4. CASE Answers(t)
    BY <1>4, <1>b DEF Answers, LocalsOf
  <1>5. CASE NewBlock(t)
    BY <1>5, <1>b DEF NewBlock, LocalsOf
  <1>6. CASE TakesBlock(t)
    BY <1>6, <1>a DEF TakesBlock
  <1>7. CASE LooksUp(t)
    BY <1>7, <1>b DEF LooksUp, LocalsOf
  <1>8. CASE Bypasses(t)
    <2>1. PICK b \in Pointers, size \in Nat :
             /\ g_real_realloc(frame[t].ptr, size, b)
             /\ frame'[t].keeps = KeepsOf(frame[t].ptr, size, b)
      BY <1>8 DEF Bypasses
    <2>2. frame[t].ptr \in Addr /\ frame[t].ptr \notin DOMAIN g_registry
      BY <1>8, <1>b DEF Bypasses, Untracked, LocalsOf
    <2>3. frame[t].origin # "mock"
      BY <1>8, <1>b, <2>2 DEF Bypasses
    <2>4. frame'[t].keeps # NULL => frame'[t].keeps \notin DOMAIN g_registry
      <3>1. b # NULL /\ b # frame[t].ptr => b \in heap' /\ b \notin heap
        BY <2>1 DEF g_real_realloc
      <3>2. b # NULL /\ b # frame[t].ptr => b \notin DOMAIN g_registry
        BY <3>1, NewUntracked
      <3>3. QED
        BY <2>1, <2>2, <3>2 DEF KeepsOf
    <2>5. QED
      BY <1>8, <2>3, <2>4 DEF Bypasses
  <1>9. CASE Reallocates(t)
    BY <1>9, <1>b DEF Reallocates, KeepsOf, LocalsOf
  <1>10. CASE EntryChange(t)
    BY <1>10, <1>b DEF EntryChange, LocalsOf
  <1>11. CASE GivesBack(t)
    BY <1>11, <1>b DEF GivesBack, LocalsOf
  <1>12. CASE GetsFromLibc(t)
    BY <1>12, <1>b DEF GetsFromLibc, LocalsOf
  <1>13. CASE Returns(t)
    BY <1>13, <1>b DEF Returns, LocalsOf
  <1>14. QED
    BY <1>1, <1>2, <1>3, <1>4, <1>5, <1>6, <1>7, <1>8, <1>9, <1>10, <1>11,
       <1>12, <1>13, EveryEffect DEF Effect

\* Until an address is reused, realloc finds room.
LEMMA NoExhaustionStep ==
    ASSUME TypeOK, FramesOK, LocalsOK, NoExhaustion, NEW t \in Threads,
           Call(t) \/ Step(t), KnownOf(t)
    PROVE  NoExhaustion'
  <1>a. KnownOf(t)
    OBVIOUS
  <1>b. \A u \in Threads \ {t} : pc'[u] = pc[u]
    BY OthersUntouched
  <1> SUFFICES exited' # "exhausted_realloc" /\ pc'[t] # "exhausted_realloc"
    BY <1>b DEF NoExhaustion
  <1>c. exited # "exhausted_realloc" /\ pc[t] # "exhausted_realloc"
    BY DEF NoExhaustion
  <1>1. CASE Stays(t)
    BY <1>1, <1>c DEF Stays
  <1>2. CASE Blockless(t)
    BY <1>2, <1>c DEF Blockless
  <1>3. CASE TakesLock(t)
    BY <1>3, <1>c DEF TakesLock
  <1>4. CASE Answers(t)
    BY <1>4, <1>c DEF Answers
  <1>5. CASE NewBlock(t)
    BY <1>5, <1>c DEF NewBlock
  <1>6. CASE TakesBlock(t)
    BY <1>6, <1>c DEF TakesBlock
  <1>7. CASE LooksUp(t)
    BY <1>7, <1>c DEF LooksUp
  <1>8. CASE Bypasses(t)
    BY <1>8, <1>c DEF Bypasses
  <1>9. CASE Reallocates(t)
    BY <1>9, <1>c DEF Reallocates
  <1>10. CASE EntryChange(t)
    BY <1>10, <1>a, <1>c DEF EntryChange, KnownOf
  <1>11. CASE GivesBack(t)
    BY <1>11, <1>c DEF GivesBack
  <1>12. CASE GetsFromLibc(t)
    BY <1>12, <1>c DEF GetsFromLibc
  <1>13. CASE Returns(t)
    BY <1>13, <1>c DEF Returns
  <1>14. QED
    BY <1>1, <1>2, <1>3, <1>4, <1>5, <1>6, <1>7, <1>8, <1>9, <1>10, <1>11,
       <1>12, <1>13, EveryEffect DEF Effect

\* What the callers hold changes by one block: taken from a caller, given by
\* libc, or returned by the call that carried it.
LEMMA HeldChange ==
    ASSUME TypeOK, FramesOK, LocalsOK, Custody, NEW t \in Threads,
           Call(t) \/ Step(t), NEW a \in Addr, held'[a] # "none"
    PROVE  \/ held[a] = held'[a]
           \/ held'[a] = "libc" /\ a \in heap' /\ a \notin heap
              /\ UNCHANGED g_registry
           \/ /\ pc[t] = "return" /\ Carried(t) = a /\ held'[a] = frame[t].origin
              /\ UNCHANGED g_registry
  <1>a. held \in [Addr -> {"none", "mock", "libc"}]
    BY DEF TypeOK
  <1>1. CASE Stays(t)
    BY <1>1, <1>a DEF Stays
  <1>2. CASE Blockless(t)
    BY <1>2, <1>a DEF Blockless
  <1>3. CASE TakesLock(t)
    BY <1>3, <1>a DEF TakesLock
  <1>4. CASE Answers(t)
    BY <1>4, <1>a DEF Answers
  <1>5. CASE NewBlock(t)
    BY <1>5, <1>a DEF NewBlock
  <1>6. CASE TakesBlock(t)
    BY <1>6, <1>a DEF TakesBlock
  <1>7. CASE LooksUp(t)
    BY <1>7, <1>a DEF LooksUp
  <1>8. CASE Bypasses(t)
    BY <1>8, <1>a DEF Bypasses
  <1>9. CASE Reallocates(t)
    BY <1>9, <1>a DEF Reallocates
  <1>10. CASE EntryChange(t)
    BY <1>10, <1>a DEF EntryChange
  <1>11. CASE GivesBack(t)
    BY <1>11, <1>a DEF GivesBack
  <1>12. CASE GetsFromLibc(t)
    BY <1>12, <1>a DEF GetsFromLibc
  <1>13. CASE Returns(t)
    BY <1>13, <1>a DEF Returns, Carried, NewLabels, PtrLabels
  <1>14. QED
    BY <1>1, <1>2, <1>3, <1>4, <1>5, <1>6, <1>7, <1>8, <1>9, <1>10, <1>11,
       <1>12, <1>13, EveryEffect DEF Effect

\* Callers' blocks stay known.
LEMMA HeldKnownStep ==
    ASSUME TypeOK, FramesOK, LocalsOK, Custody, NoStaleEntry, PendingAlone,
           MockBlocksTracked, LibcBlocksUntracked, NEW t \in Threads,
           Call(t) \/ Step(t), ~reused', KnownOf(t)
    PROVE  MockBlocksTracked' /\ LibcBlocksUntracked'
  <1> SUFFICES ASSUME NEW a \in Addr, held'[a] # "none"
               PROVE  /\ held'[a] = "mock" => a \in DOMAIN g_registry'
                      /\ held'[a] = "libc" => a \notin DOMAIN g_registry'
    BY DEF MockBlocksTracked, LibcBlocksUntracked
  <1>1. CASE held[a] = held'[a]
    <2>1. a \in heap /\ a # Carried(t)
      BY <1>1, NullAssumption DEF Custody
    <2>2. a \in DOMAIN g_registry' <=> a \in DOMAIN g_registry
      BY <2>1, OthersKnown
    <2>3. QED
      BY <1>1, <2>2 DEF MockBlocksTracked, LibcBlocksUntracked
  <1>2. CASE held'[a] = "libc" /\ a \in heap' /\ a \notin heap /\ UNCHANGED g_registry
    BY <1>2, NewUntracked
  <1>3. CASE /\ pc[t] = "return" /\ Carried(t) = a /\ held'[a] = frame[t].origin
             /\ UNCHANGED g_registry
    <2>1. frame[t].origin = "mock" <=> a \in DOMAIN g_registry
      BY <1>3, NullAssumption DEF KnownOf
    <2>2. QED
      BY <1>3, <2>1
  <1>4. QED
    BY <1>1, <1>2, <1>3, HeldChange

-----------------------------------------------------------------------------
(* The theorems.                                                           *)

\* Each part of Orderly is kept as long as no address is reused.
LEMMA OrderlyStep ==
    ASSUME Inv, NEW t \in Threads, Call(t) \/ Step(t), ~reused'
    PROVE  Orderly'
  <1>1. /\ TypeOK /\ FramesOK /\ LocalsOK /\ Custody /\ Untracked /\ NoStaleEntry
    BY DEF Inv
  <1>2. ~reused
    BY <1>1, ReuseSeen
  <1>3. /\ PendingAlone /\ MockBlocksTracked /\ LibcBlocksUntracked /\ NoExhaustion
        /\ \A u \in Threads : KnownOf(u)
    BY <1>2 DEF Inv, Orderly, CarriedKnown
  <1>4. PendingAlone'
    BY <1>1, <1>3, PendingAloneStep
  <1>5. KnownOf(t)'
    BY <1>1, <1>3, OwnKnown
  <1>6. \A u \in Threads \ {t} : KnownOf(u)'
    BY <1>1, <1>3, OthersStayKnown
  <1>7. MockBlocksTracked' /\ LibcBlocksUntracked'
    BY <1>1, <1>3, HeldKnownStep
  <1>8. NoExhaustion'
    BY <1>1, <1>3, NoExhaustionStep
  <1>9. CarriedKnown'
    BY <1>5, <1>6 DEF CarriedKnown
  <1>10. QED
    BY <1>4, <1>7, <1>8, <1>9 DEF Orderly

\* Every step of a thread keeps the invariant.
LEMMA ThreadStep ==
    ASSUME Inv, NEW t \in Threads, Call(t) \/ Step(t)
    PROVE  Inv'
  <1>1. /\ TypeOK /\ FramesOK /\ LocalsOK /\ Custody /\ Untracked /\ NoStaleEntry
    BY DEF Inv
  <1>2. /\ frame' \in [Threads -> Frames] /\ todo' \in [Threads -> Seq(Accesses)]
    BY <1>1, FrameTypes
  <1>3. IsRegistry(g_registry')
    BY <1>1, RegistryTypes
  <1>4. \A u \in Threads : (g_registry_lock' = u) <=> (pc'[u] \in InLock)
    BY <1>1, LockStep
  <1>5. /\ heap' \subseteq Addr
        /\ g_next_allocation_id' \in Nat \ {0}
        /\ g_stats' \in [Counters -> 0 .. Modulus - 1]
        /\ g_capture_depth' \in Int
        /\ pc' \in [Threads -> Labels]
        /\ held' \in [Addr -> {"none", "mock", "libc"}]
        /\ exited' \in {"no", "exhausted", "exhausted_realloc"}
        /\ reused' \in BOOLEAN
        /\ nest' \in [Threads -> Int]
    BY <1>1, PlainTypes
  <1>6. TypeOK' /\ FramesOK'
    BY <1>2, <1>3, <1>4, <1>5 DEF TypeOK, FramesOK, IsRegistry
  <1>7. LocalsOK' /\ Custody' /\ Untracked' /\ NoStaleEntry'
    BY <1>1, LocalsStep, CustodyStep, UntrackedStep, NoStaleStep
  <1>8. ~reused' => Orderly'
    BY OrderlyStep
  <1>9. QED
    BY <1>6, <1>7, <1>8 DEF Inv

\* The invariant holds at the start.
LEMMA InvInit == Init => Inv
  <1> SUFFICES ASSUME Init PROVE Inv
    OBVIOUS
  <1> USE NullAssumption, BoundsAssumption DEF Init
  <1>1. DOMAIN g_registry = {} /\ IsFiniteSet(DOMAIN g_registry)
        /\ Cardinality(DOMAIN g_registry) = 0
    BY FS_EmptySet
  <1>2. TypeOK
    BY <1>1 DEF TypeOK, InLock, Labels
  <1>3. FramesOK
    <2>1. frame \in [Threads -> Frames] /\ todo \in [Threads -> Seq(Accesses)]
      BY NewFrames, WorkJoins
    <2>2. reused \in BOOLEAN
      <3>1. reused = FALSE
        OBVIOUS
      <3>2. QED
        BY <3>1, Zenon
    <2>3. nest \in [Threads -> Int]
      OBVIOUS
    <2>4. QED
      BY <1>1, <2>1, <2>2, <2>3 DEF FramesOK
  <1>4. \A t \in Threads : Carried(t) = NULL /\ pc[t] = "idle"
    BY DEF Carried, NewLabels, PtrLabels
  <1>5. LocalsOK
    BY <1>4 DEF LocalsOK, LocalsOf, PtrLabels
  <1>6. Custody /\ Untracked /\ NoStaleEntry
    BY <1>1, <1>4 DEF Custody, Untracked, NoStaleEntry
  <1>7. Orderly
    BY <1>1, <1>4 DEF Orderly, PendingAlone, CarriedKnown, KnownOf,
       MockBlocksTracked, LibcBlocksUntracked, FixUpPending, NoExhaustion
  <1>8. QED
    BY <1>2, <1>3, <1>5, <1>6, <1>7 DEF Inv

\* A step that changes nothing keeps it too.
LEMMA InvStutter == Inv /\ UNCHANGED vars => Inv'
  <1> SUFFICES ASSUME Inv, UNCHANGED vars PROVE Inv'
    OBVIOUS
  <1>1. UNCHANGED <<heap, held, reused, g_registry, g_registry_lock,
                    g_next_allocation_id, g_stats, g_capture_depth, nest, calls,
                    exited, torn, pc, frame, todo>>
    BY DEF vars, memory, table, stats, control
  <1>2. \A t \in Threads : Carried(t)' = Carried(t)
    BY <1>1 DEF Carried
  <1>3. TypeOK' /\ FramesOK'
    BY <1>1 DEF Inv, TypeOK, FramesOK
  <1>4. LocalsOK' /\ Custody' /\ Untracked'
    BY <1>1, <1>2 DEF Inv, LocalsOK, LocalsOf, Custody, Untracked
  <1>5. NoStaleEntry'
    BY <1>1 DEF Inv, NoStaleEntry, FixUpPending
  <1>6. ~reused' => Orderly'
    BY <1>1, <1>2 DEF Inv, Orderly, PendingAlone, CarriedKnown, KnownOf,
       MockBlocksTracked, LibcBlocksUntracked, FixUpPending, NoExhaustion
  <1>7. QED
    BY <1>3, <1>4, <1>5, <1>6 DEF Inv

\* The inductive invariant, for any number of threads, addresses and calls.
THEOREM Invariance == Spec => []Inv
  <1>1. Inv /\ [Next]_vars => Inv'
    BY ThreadStep, InvStutter DEF Next, Stopped
  <1>2. QED
    BY InvInit, <1>1, PTL DEF Spec

\* The registry never outgrows its table and its spin lock excludes: it is held
\* by the thread that is in a critical section and by no other.
THEOREM TypesAndMutualExclusion == Spec => []TypeOK
  <1>1. Inv => TypeOK
    BY DEF Inv
  <1>2. QED
    BY Invariance, <1>1, PTL

\* No entry of the registry outlives its block, except under the realloc that is
\* about to remove it, whatever the threads do.
THEOREM EntriesNotStale == Spec => []NoStaleEntry
  <1>1. Inv => NoStaleEntry
    BY DEF Inv
  <1>2. QED
    BY Invariance, <1>1, PTL

\* Until an address is reused under an unfinished realloc, the registry tells the
\* blocks of this library from those of libc.
THEOREM OwnershipIsKnown == Spec => []OwnershipKnown
  <1>1. Inv => OwnershipKnown
    BY DEF Inv, Orderly, OwnershipKnown
  <1>2. QED
    BY Invariance, <1>1, PTL

\* Until then realloc does not end the process for lack of room either.
THEOREM ReallocAlwaysHasRoom == Spec => []ReallocHasRoom
  <1>1. Inv => ReallocHasRoom
    BY DEF Inv, Orderly, NoExhaustion, ReallocHasRoom
  <1>2. QED
    BY Invariance, <1>1, PTL

-----------------------------------------------------------------------------
(* The capture depth.                                                      *)

\* Only the two ends of a capture change the depth, and only ending one passes
\* through end_sub.
LEMMA CaptureChanges ==
    ASSUME TypeOK, NEW t \in Threads, Call(t) \/ Step(t)
    PROVE  \/ ao_mock_begin_capture(t)
           \/ ao_mock_end_capture(t)
           \/ end_capture_sub(t)
           \/ /\ UNCHANGED <<g_capture_depth, nest>>
              /\ pc[t] # "end_sub" /\ pc'[t] # "end_sub"
           \/ UNCHANGED <<g_capture_depth, nest, pc>>
  <1> USE DEF TypeOK
  <1>1. CASE \E size \in Sizes : malloc(t, size)
    BY <1>1 DEF malloc, g_real_malloc, Allocated, Enter, Go, Goto, Idle, At,
       stats
  <1>2. CASE \E nmemb, size \in Sizes : calloc(t, nmemb, size)
    BY <1>2 DEF calloc, g_real_malloc, Allocated, Enter, Go, Goto, Idle, At,
       stats
  <1>3. CASE \E size \in Sizes : realloc_null(t, size)
    BY <1>3 DEF realloc_null, g_real_malloc, Allocated, Enter, Go, Goto,
       Idle, At, stats
  <1>4. CASE \E p \in Addr, size \in Sizes : realloc(t, p, size)
    BY <1>4 DEF realloc, TakeFrom, Enter, Go, Goto, Idle, At, stats
  <1>5. CASE \E p \in Addr : free(t, p)
    BY <1>5 DEF free, TakeFrom, Enter, Go, Goto, Idle, At, stats
  <1>6. CASE libc_allocates(t)
    BY <1>6 DEF libc_allocates, g_real_malloc, Enter, Go, Goto, Idle, At,
       stats
  <1>7. CASE \E p \in Addr : ao_alloc_bridge_owns(t, p)
    BY <1>7 DEF ao_alloc_bridge_owns, TakeFrom, Enter, Go, Goto, Idle, At,
       stats
  <1>8. CASE ao_mock_begin_capture(t)
    BY <1>8
  <1>9. CASE ao_mock_end_capture(t)
    BY <1>9
  <1>10. CASE ao_mock_reset(t)
    BY <1>10 DEF ao_mock_reset, Enter, Go, Goto, Idle, At, stats
  <1>11. CASE CounterStep(t)
    BY <1>11 DEF CounterStep, Enter, Go, Goto, Idle, At, stats
  <1>12. CASE ao_registry_lock(t)
    BY <1>12 DEF ao_registry_lock, Lock, Enter, Go, Goto, Idle, At, stats
  <1>13. CASE ao_track_allocation_or_die(t)
    BY <1>13 DEF ao_track_allocation_or_die, Unlock, Enter, Go, Goto, Idle,
       At, stats
  <1>14. CASE realloc_lookup(t)
    BY <1>14 DEF realloc_lookup, Unlock, Enter, Go, Goto, Idle, At, stats
  <1>15. CASE realloc_bypass(t)
    BY <1>15 DEF realloc_bypass, g_real_realloc, Enter, Go, Goto, Idle, At,
       stats
  <1>16. CASE realloc_tracked(t)
    BY <1>16 DEF realloc_tracked, g_real_realloc, Enter, Go, Goto, Idle, At,
       stats
  <1>17. CASE realloc_fix(t)
    BY <1>17 DEF realloc_fix, Unlock, Enter, Go, Goto, Idle, At, stats
  <1>18. CASE free_remove(t)
    BY <1>18 DEF free_remove, Unlock, Enter, Go, Goto, Idle, At, stats
  <1>19. CASE free_real(t)
    BY <1>19 DEF free_real, g_real_free, Enter, Go, Goto, Idle, At, stats
  <1>20. CASE ao_registry_contains(t)
    BY <1>20 DEF ao_registry_contains, Unlock, Enter, Go, Goto, Idle, At,
       stats
  <1>21. CASE ao_alloc_bridge_libc_free(t)
    BY <1>21 DEF ao_alloc_bridge_libc_free, g_real_free, Enter, Go, Goto,
       Idle, At, stats
  <1>22. CASE \E size \in Sizes : ao_alloc_bridge_libc_realloc(t, size)
    BY <1>22 DEF ao_alloc_bridge_libc_realloc, g_real_realloc, Enter, Go,
       Goto, Idle, At, stats
  <1>23. CASE end_capture_sub(t)
    BY <1>23
  <1>24. CASE ao_fatal(t)
    BY <1>24 DEF ao_fatal, Enter, Go, Goto, Idle, At, stats
  <1>25. CASE Return(t)
    BY <1>25 DEF Return, Enter, Go, Goto, Idle, At, stats
  <1>26. QED
    BY <1>1, <1>2, <1>3, <1>4, <1>5, <1>6, <1>7, <1>8, <1>9, <1>10, <1>11,
       <1>12, <1>13, <1>14, <1>15, <1>16, <1>17, <1>18, <1>19, <1>20, <1>21,
       <1>22, <1>23, <1>24, <1>25 DEF Call, Step

\* The threads that are ending a capture are the same after a step that neither
\* begins nor ends an end.
LEMMA EndingSame ==
    ASSUME TypeOK, FramesOK, NEW t \in Threads, Call(t) \/ Step(t),
           pc'[t] = "end_sub" <=> pc[t] = "end_sub"
    PROVE  Ending' = Ending
  BY OthersUntouched DEF Ending

\* Threads are finitely many, and so are those that are ending a capture.
LEMMA EndingCount ==
    /\ IsFiniteSet(Ending) /\ Cardinality(Ending) \in Nat
    /\ Cardinality(Threads) \in Nat \ {0}
    /\ Cardinality(Ending) <= Cardinality(Threads)
  <1>1. Ending \subseteq Threads
    BY DEF Ending
  <1>2. /\ IsFiniteSet(Ending) /\ Cardinality(Ending) <= Cardinality(Threads)
    BY <1>1, ThreadsAssumption, FS_Subset
  <1>3. Cardinality(Ending) \in Nat /\ Cardinality(Threads) \in Nat
    BY <1>2, ThreadsAssumption, FS_CardinalityType
  <1>4. Cardinality(Threads) # 0
    BY ThreadsAssumption, FS_EmptySet
  <1>5. QED
    BY <1>2, <1>3, <1>4

\* The depth stays above its floor by at least the decrements under way.
LEMMA FloorStep ==
    ASSUME TypeOK, FramesOK, FloorInv, NEW t \in Threads, Call(t) \/ Step(t)
    PROVE  FloorInv'
  <1>1. /\ IsFiniteSet(Ending) /\ Cardinality(Ending) \in Nat
        /\ Cardinality(Threads) \in Nat
        /\ IsFiniteSet(Ending') /\ Cardinality(Ending') \in Nat
        /\ Cardinality(Ending') <= Cardinality(Threads)
    <2>1. Ending' \subseteq Threads
      BY DEF Ending
    <2>2. /\ IsFiniteSet(Ending') /\ Cardinality(Ending') <= Cardinality(Threads)
      BY <2>1, ThreadsAssumption, FS_Subset
    <2>3. Cardinality(Ending') \in Nat
      BY <2>2, FS_CardinalityType
    <2>4. QED
      BY <2>2, <2>3, EndingCount
  <1>2. g_capture_depth \in Int
    BY DEF TypeOK
  <1>3. g_capture_depth - Cardinality(Ending) >= 1 - Cardinality(Threads)
    BY DEF FloorInv
  <1>4. CASE ao_mock_begin_capture(t)
    <2>1. g_capture_depth' = g_capture_depth + 1 /\ pc' = pc
      BY <1>4 DEF ao_mock_begin_capture
    <2>2. Ending' = Ending
      BY <2>1, EndingSame
    <2>3. QED
      BY <1>1, <1>2, <1>3, <2>1, <2>2 DEF FloorInv
  <1>5. CASE ao_mock_end_capture(t)
    <2>1. g_capture_depth' = g_capture_depth /\ (g_capture_depth > 0 \/ pc' = pc)
      BY <1>5 DEF ao_mock_end_capture, capture_to_end
    <2>2. CASE g_capture_depth > 0
      BY <1>1, <1>2, <2>1, <2>2 DEF FloorInv
    <2>3. CASE pc' = pc
      <3>1. Ending' = Ending
        BY <2>3, EndingSame
      <3>2. QED
        BY <1>1, <1>2, <1>3, <2>1, <3>1 DEF FloorInv
    <2>4. QED
      BY <2>1, <2>2, <2>3
  <1>6. CASE end_capture_sub(t)
    <2>1. /\ g_capture_depth' = g_capture_depth - 1
          /\ pc[t] = "end_sub" /\ pc'[t] = "idle"
      BY <1>6 DEF end_capture_sub, At, Goto, TypeOK
    <2>2. t \in Ending /\ Ending' = Ending \ {t}
      BY <2>1, OthersUntouched DEF Ending
    <2>3. Cardinality(Ending') = Cardinality(Ending) - 1
      BY <1>1, <2>2, FS_RemoveElement
    <2>4. QED
      BY <1>1, <1>2, <1>3, <2>1, <2>3 DEF FloorInv
  <1>7. CASE \/ /\ UNCHANGED <<g_capture_depth, nest>>
                /\ pc[t] # "end_sub" /\ pc'[t] # "end_sub"
             \/ UNCHANGED <<g_capture_depth, nest, pc>>
    <2>1. Ending' = Ending
      BY <1>7, EndingSame
    <2>2. QED
      BY <1>1, <1>2, <1>3, <1>7, <2>1 DEF FloorInv
  <1>8. QED
    BY <1>4, <1>5, <1>6, <1>7, CaptureChanges

\* Unmatched ends take the depth below 0 by no more than there are threads that
\* can have read the same positive depth.
THEOREM CaptureHasFloor == Spec => []CaptureFloor
  <1>1. Init => FloorInv
    <2> SUFFICES ASSUME Init PROVE FloorInv
      OBVIOUS
    <2>1. Ending = {} /\ g_capture_depth = 0
      BY DEF Init, Ending
    <2>2. Cardinality(Ending) = 0
      BY <2>1, FS_EmptySet
    <2>3. QED
      BY <2>1, <2>2, EndingCount DEF FloorInv
  <1>2. Inv /\ FloorInv /\ [Next]_vars => FloorInv'
    <2> SUFFICES ASSUME Inv, FloorInv, [Next]_vars PROVE FloorInv'
      OBVIOUS
    <2>1. CASE UNCHANGED vars
      BY <2>1 DEF FloorInv, Ending, vars, stats
    <2>2. CASE \E t \in Threads : Call(t) \/ Step(t)
      BY <2>2, FloorStep DEF Inv
    <2>3. QED
      BY <2>1, <2>2 DEF Next, Stopped
  <1>3. Inv /\ FloorInv => CaptureFloor
    BY EndingCount DEF Inv, TypeOK, FloorInv, CaptureFloor
  <1>4. QED
    BY Invariance, <1>1, <1>2, <1>3, PTL DEF Spec

\* A begin is counted by the depth and by the thread's own count, an end by the
\* depth only if a thread's count goes down too.
LEMMA BracketsStep ==
    ASSUME TypeOK, FramesOK, CaptureCoversBrackets, NEW t \in Threads,
           Call(t) \/ Step(t)
    PROVE  CaptureCoversBrackets'
  <1> DEFINE Sum(f) == SumFunctionOnSet(f, Threads)
  <1>1. nest \in [Threads -> Int] /\ g_capture_depth \in Int
    BY DEF TypeOK, FramesOK
  <1>2. Sum(nest) \in Int /\ g_capture_depth >= Sum(nest)
    BY <1>1, ThreadsAssumption, SumTakes DEF CaptureCoversBrackets, SumFunction
  <1>3. ASSUME NEW d \in {1, -1}, nest' = [nest EXCEPT ![t] = @ + d]
        PROVE  Sum(nest') = Sum(nest) + d /\ DOMAIN nest' = Threads
    <2> DEFINE m == [nest EXCEPT ![t] = @ + d]
    <2>1. /\ m[t] = nest[t] + d /\ nest[t] \in Int /\ DOMAIN m = Threads
          /\ \A u \in Threads \ {t} : m[u] = nest[u]
      BY <1>1
    <2> HIDE DEF m
    <2>2. Sum(m) = Sum(nest) + m[t] - nest[t]
      <3>1. m[t] \in Int /\ \A u \in Threads : nest[u] \in Int
        BY <1>1, <2>1
      <3> QED
        BY <2>1, <3>1, ThreadsAssumption, SumChanges
    <2>3. Sum(m) = Sum(nest) + d
      <3> HIDE DEF Sum
      <3> QED
        BY <1>2, <2>1, <2>2
    <2> QED
      BY <1>3, <2>1, <2>3 DEF m
  <1>4. ASSUME Sum(nest') <= g_capture_depth', DOMAIN nest' = Threads
        PROVE  CaptureCoversBrackets'
    <2>1. SumFunction(nest') = Sum(nest')
      BY <1>4, Zenon DEF SumFunction
    <2> HIDE DEF Sum
    <2> QED
      BY <1>4, <2>1 DEF CaptureCoversBrackets
  <1> HIDE DEF Sum
  <1>5. CASE ao_mock_begin_capture(t)
    <2>1. /\ g_capture_depth' = g_capture_depth + 1
          /\ nest' = [nest EXCEPT ![t] = @ + 1]
      BY <1>5 DEF ao_mock_begin_capture
    <2>2. Sum(nest') = Sum(nest) + 1 /\ DOMAIN nest' = Threads
      BY <1>3, <2>1
    <2>3. Sum(nest') <= g_capture_depth'
      BY <1>1, <1>2, <2>1, <2>2
    <2> QED
      BY <1>4, <2>2, <2>3
  <1>6. CASE ao_mock_end_capture(t)
    <2>1. /\ g_capture_depth' = g_capture_depth
          /\ nest' = nest \/ nest' = [nest EXCEPT ![t] = @ - 1]
      BY <1>6 DEF ao_mock_end_capture
    <2>2. CASE nest' = nest
      BY <1>1, <1>2, <1>4, <2>1, <2>2
    <2>3. CASE nest' = [nest EXCEPT ![t] = @ - 1]
      <3>1. nest' = [nest EXCEPT ![t] = @ + (-1)]
        BY <1>1, <2>3
      <3>2. Sum(nest') = Sum(nest) + (-1) /\ DOMAIN nest' = Threads
        BY <1>3, <3>1
      <3>3. Sum(nest') <= g_capture_depth'
        BY <1>1, <1>2, <2>1, <3>2
      <3> QED
        BY <1>4, <3>2, <3>3
    <2> QED
      BY <2>1, <2>2, <2>3
  <1>7. CASE end_capture_sub(t)
    <2>1. /\ g_capture_depth' = g_capture_depth - 1
          /\ nest' = [nest EXCEPT ![t] = @ - 1]
      BY <1>7 DEF end_capture_sub
    <2>2. nest' = [nest EXCEPT ![t] = @ + (-1)]
      BY <1>1, <2>1
    <2>3. Sum(nest') = Sum(nest) + (-1) /\ DOMAIN nest' = Threads
      BY <1>3, <2>2
    <2>4. Sum(nest') <= g_capture_depth'
      BY <1>1, <1>2, <2>1, <2>3
    <2> QED
      BY <1>4, <2>3, <2>4
  <1>8. CASE UNCHANGED <<g_capture_depth, nest>>
    BY <1>1, <1>2, <1>4, <1>8
  <1> QED
    BY <1>5, <1>6, <1>7, <1>8, CaptureChanges

\* No interleaving of begins and ends loses a begin: capture stays enabled at
\* least as long as the brackets the threads opened and did not close ask for.
THEOREM CaptureCovers == Spec => []CaptureCoversBrackets
  <1>1. Init => CaptureCoversBrackets
    <2> SUFFICES ASSUME Init PROVE CaptureCoversBrackets
      OBVIOUS
    <2>1. /\ DOMAIN nest = Threads /\ g_capture_depth = 0
          /\ \A t \in Threads : nest[t] = 0
      BY DEF Init
    <2>2. SumFunction(nest) = 0
      BY <2>1, ThreadsAssumption, SumZero DEF SumFunction
    <2> QED
      BY <2>1, <2>2 DEF CaptureCoversBrackets
  <1>2. Inv /\ CaptureCoversBrackets /\ [Next]_vars => CaptureCoversBrackets'
    <2> SUFFICES ASSUME Inv, CaptureCoversBrackets, [Next]_vars
                 PROVE  CaptureCoversBrackets'
      OBVIOUS
    <2>1. CASE UNCHANGED vars
      <3>1. nest' = nest /\ g_capture_depth' = g_capture_depth
        BY <2>1 DEF vars, stats
      <3>2. SumFunction(nest') = SumFunction(nest)
        BY <3>1
      <3> QED
        BY <3>1, <3>2 DEF CaptureCoversBrackets
    <2>2. CASE \E t \in Threads : Call(t) \/ Step(t)
      BY <2>2, BracketsStep DEF Inv
    <2> QED
      BY <2>1, <2>2 DEF Next, Stopped
  <1>3. QED
    BY Invariance, <1>1, <1>2, PTL DEF Spec

-----------------------------------------------------------------------------
(* The ledger: what the entries of the registry are.                       *)

\* A new block has no entry until its call makes it, and a realloc remembers
\* the size that the entry of its block has.
EntryOf(t) ==
    /\ pc[t] \in {"track_lock", "track"} => frame[t].new_ptr \notin DOMAIN g_registry
    /\ pc[t] \in {"re_fix_lock", "re_fix"} /\ frame[t].new_ptr \notin {NULL, frame[t].ptr}
          => frame[t].new_ptr \notin DOMAIN g_registry
    /\ pc[t] \in {"re_tracked", "re_fix_lock", "re_fix"} =>
          frame[t].old_size = g_registry[frame[t].ptr].requested_size

\* An entry is changed only by the call that carries its block.
LEMMA EntryKept ==
    ASSUME TypeOK, FramesOK, LocalsOK, NEW t \in Threads, Call(t) \/ Step(t),
           NEW a \in DOMAIN g_registry, a \in DOMAIN g_registry', a # Carried(t)
    PROVE  g_registry'[a] = g_registry[a]
  <1>1. CASE UNCHANGED g_registry
    BY <1>1
  <1>2. CASE ao_track_allocation_or_die(t)
    <2>1. Carried(t) = frame[t].new_ptr
      BY <1>2 DEF ao_track_allocation_or_die, At, Carried, NewLabels
    <2> QED
      BY <1>2, <2>1 DEF ao_track_allocation_or_die, Map!Put
  <1>3. CASE realloc_fix(t)
    <2>1. Carried(t) = frame[t].new_ptr
      BY <1>3 DEF realloc_fix, At, Carried, NewLabels
    <2> DEFINE less == Map!Drop(g_registry, frame[t].ptr)
               entry == [requested_size |-> frame[t].size,
                         allocation_id |-> frame[t].allocation_id]
    <2>2. \/ g_registry' = less
          \/ g_registry' = Map!Put(less, frame[t].new_ptr, entry)
      BY <1>3 DEF realloc_fix, Moved
    <2>3. a \in DOMAIN less => less[a] = g_registry[a]
      BY DEF Map!Drop
    <2> HIDE DEF less, entry
    <2>4. CASE g_registry' = less
      BY <2>3, <2>4
    <2>5. CASE g_registry' = Map!Put(less, frame[t].new_ptr, entry)
      BY <2>1, <2>3, <2>5 DEF Map!Put
    <2> QED
      BY <2>2, <2>4, <2>5
  <1>4. CASE free_remove(t)
    BY <1>4 DEF free_remove, Map!Drop
  <1> QED
    BY <1>1, <1>2, <1>3, <1>4, RegistryChanges

\* A step of thread t leaves the entries of the other threads' blocks.
LEMMA OthersEntry ==
    ASSUME TypeOK, FramesOK, LocalsOK, Custody, PendingAlone, NEW t \in Threads,
           Call(t) \/ Step(t), NEW u \in Threads \ {t}, KnownOf(u), KnownOf(u)', EntryOf(u)
    PROVE  EntryOf(u)'
  <1>1. /\ pc'[u] = pc[u] /\ frame'[u] = frame[u]
        /\ Carried(u)' = Carried(u)
    BY OthersUntouched, OthersCarry
  <1>2. ASSUME Carried(u) # NULL
        PROVE  /\ Carried(u) # Carried(t)
               /\ Carried(u) \in DOMAIN g_registry' <=> Carried(u) \in DOMAIN g_registry
    <2>1. Carried(u) \in Addr /\ Carried(u) \in heap
      BY <1>2, CarriedType DEF Custody, Pointers
    <2>2. Carried(u) # Carried(t)
      BY <1>2 DEF Custody
    <2>3. QED
      BY <2>1, <2>2, OthersKnown
  <1>3. ASSUME pc[u] \in {"track_lock", "track"}
        PROVE  frame[u].new_ptr \notin DOMAIN g_registry'
    <2>1. Carried(u) = frame[u].new_ptr /\ frame[u].new_ptr \in Addr
      BY <1>3 DEF Carried, NewLabels, LocalsOK, LocalsOf
    <2> QED
      BY <1>2, <1>3, <2>1, NullAssumption DEF EntryOf
  <1>4. ASSUME pc[u] \in {"re_fix_lock", "re_fix"},
               frame[u].new_ptr \notin {NULL, frame[u].ptr}
        PROVE  frame[u].new_ptr \notin DOMAIN g_registry'
    <2>1. Carried(u) = frame[u].new_ptr
      BY <1>4 DEF Carried, NewLabels
    <2> QED
      BY <1>2, <1>4, <2>1 DEF EntryOf
  <1>5. ASSUME pc[u] \in {"re_tracked", "re_fix_lock", "re_fix"}
        PROVE  g_registry'[frame[u].ptr] = g_registry[frame[u].ptr]
    <2>1. /\ frame[u].ptr \in DOMAIN g_registry /\ frame[u].ptr \in Addr
          /\ frame[u].ptr \in DOMAIN g_registry'
      BY <1>1, <1>5 DEF KnownOf, TypeOK
    <2>2. frame[u].ptr # Carried(t)
      <3>1. CASE Carried(u) = frame[u].ptr
        BY <1>2, <2>1, <3>1, NullAssumption
      <3>2. CASE Carried(u) # frame[u].ptr
        <4>1. FixUpPending(u, frame[u].ptr)
          BY <1>5, <3>2 DEF FixUpPending, Carried, NewLabels, PtrLabels
        <4>2. frame[u].ptr \notin heap
          BY <2>1, <4>1 DEF PendingAlone
        <4> QED
          BY <2>1, <4>2, NullAssumption DEF Custody
      <3> QED
        BY <3>1, <3>2
    <2> QED
      BY <2>1, <2>2, EntryKept
  <1> QED
    BY <1>1, <1>3, <1>4, <1>5 DEF EntryOf

\* A call knows the entry of its own block after each of its steps.
LEMMA OwnEntry ==
    ASSUME TypeOK, FramesOK, LocalsOK, NoStaleEntry, NEW t \in Threads,
           Call(t) \/ Step(t), ~reused', EntryOf(t)
    PROVE  EntryOf(t)'
  <1>a. \A a \in heap' \ heap : a \notin DOMAIN g_registry
    BY NewUntracked
  <1>1. CASE Stays(t)
    BY <1>1 DEF Stays, EntryOf
  <1>2. CASE Blockless(t)
    BY <1>2 DEF Blockless, EntryOf
  <1>3. CASE TakesLock(t)
    BY <1>3 DEF TakesLock, EntryOf
  <1>4. CASE Answers(t)
    BY <1>4 DEF Answers, EntryOf
  <1>5. CASE NewBlock(t)
    BY <1>5, <1>a DEF NewBlock, EntryOf
  <1>6. CASE TakesBlock(t)
    BY <1>6 DEF TakesBlock, EntryOf
  <1>7. CASE LooksUp(t)
    BY <1>7 DEF LooksUp, EntryOf
  <1>8. CASE Bypasses(t)
    BY <1>8 DEF Bypasses, EntryOf
  <1>9. CASE Reallocates(t)
    <2>1. PICK b \in Pointers :
             /\ g_real_realloc(frame[t].ptr, frame[t].size, b)
             /\ frame'[t].new_ptr = b
             /\ pc'[t] = IF b = NULL /\ frame[t].size # 0
                         THEN "return" ELSE "re_fix_lock"
      BY <1>9 DEF Reallocates
    <2>2. b \notin {NULL, frame[t].ptr} => b \notin DOMAIN g_registry
      BY <1>a, <2>1 DEF g_real_realloc
    <2> QED
      BY <1>9, <2>1, <2>2 DEF Reallocates, EntryOf
  <1>10. CASE EntryChange(t)
    BY <1>10 DEF EntryChange, EntryOf
  <1>11. CASE GivesBack(t)
    BY <1>11 DEF GivesBack, EntryOf
  <1>12. CASE GetsFromLibc(t)
    BY <1>12 DEF GetsFromLibc, EntryOf
  <1>13. CASE Returns(t)
    BY <1>13 DEF Returns, EntryOf
  <1>14. QED
    BY <1>1, <1>2, <1>3, <1>4, <1>5, <1>6, <1>7, <1>8, <1>9, <1>10, <1>11,
       <1>12, <1>13, EveryEffect DEF Effect

-----------------------------------------------------------------------------
(* The ledger: what the counter accesses add.                              *)

\* What an access adds to counter c, and what it adds if that is more than 0.
Net(c)  == [x \in Accesses |-> IF x.op = "add" /\ x.counter = c THEN x.n ELSE 0]
Gain(c) == [x \in Accesses |->
              IF x.op = "add" /\ x.counter = c /\ x.n > 0 THEN x.n ELSE 0]

\* What a block of a size counts for in c, and what all entries of a registry do.
Counted(c, size) == IF c = "live_blocks" THEN 1 ELSE size
CountedIn(m, c)  ==
    SumFunctionOnSet([a \in DOMAIN m |-> Counted(c, m[a].requested_size)], DOMAIN m)

\* Work that adds to no counter.
Plain(work) == \A i \in DOMAIN work : work[i].op # "add"

\* Both are functions from accesses to numbers.
LEMMA ValueTypes ==
    \A c : Net(c) \in [Accesses -> Int] /\ Gain(c) \in [Accesses -> Int]
  BY DEF Net, Gain, Accesses

\* Owed counts what the accesses that are left add.
LEMMA AddedIs ==
    ASSUME NEW work \in Seq(Accesses), NEW c
    PROVE  AddedBy(work, c) = Total(work, Net(c))
  <1>1. \A i \in DOMAIN work : work[i] \in Accesses
    OBVIOUS
  <1>2. \A i \in DOMAIN work :
           Net(c)[work[i]] = IF work[i].op = "add" /\ work[i].counter = c
                             THEN work[i].n ELSE 0
    BY <1>1 DEF Net
  <1>3. [i \in DOMAIN work |-> Net(c)[work[i]]]
          = [i \in DOMAIN work |->
               IF work[i].op = "add" /\ work[i].counter = c THEN work[i].n ELSE 0]
    BY <1>2, Zenon
  <1> QED
    BY <1>3, Zenon DEF AddedBy, Total

\* Plain work adds nothing.
LEMMA PlainAdds ==
    ASSUME NEW work \in Seq(Accesses), Plain(work), NEW c
    PROVE  Total(work, Net(c)) = 0 /\ Total(work, Gain(c)) = 0
  <1>1. \A i \in DOMAIN work : work[i] \in Accesses /\ work[i].op # "add"
    BY DEF Plain
  <1>2. \A i \in DOMAIN work : Net(c)[work[i]] = 0 /\ Gain(c)[work[i]] = 0
    BY <1>1 DEF Net, Gain
  <1>3. Net(c) \in [Accesses -> Int] /\ Gain(c) \in [Accesses -> Int]
    BY ValueTypes
  <1> HIDE DEF Net, Gain
  <1> QED
    BY <1>2, <1>3, TotalZero

\* What records, and what resets, is plain.
LEMMA PlainRecords ==
    /\ Plain(<<>>)
    /\ \A adds : Plain(Record(adds))
    /\ Plain(ao_record_failed_allocation)
    /\ \A kind, size : Plain(ao_record_successful_allocation(kind, size))
    /\ \A bypass : Plain(ao_record_free(bypass)) /\ Plain(ao_record_realloc(bypass))
    /\ Plain(ao_record_realloc(FALSE) \o ao_record_failed_allocation)
    /\ Plain([i \in DOMAIN ResetOrder |-> Store(ResetOrder[i])])
  <1>1. Plain(<<>>)
    BY DEF Plain
  <1>2. \A adds : Plain(Record(adds))
    BY DEF Plain, Record
  <1>3. /\ Plain(ao_record_failed_allocation)
        /\ \A kind, size : Plain(ao_record_successful_allocation(kind, size))
        /\ \A bypass : Plain(ao_record_free(bypass)) /\ Plain(ao_record_realloc(bypass))
    BY <1>2 DEF ao_record_failed_allocation, ao_record_successful_allocation,
          ao_record_free, ao_record_realloc
  <1>4. Plain(ao_record_realloc(FALSE) \o ao_record_failed_allocation)
    <2> DEFINE v == ao_record_realloc(FALSE)
               w == ao_record_failed_allocation
    <2>1. v \in Seq(Accesses) /\ w \in Seq(Accesses) /\ Plain(v) /\ Plain(w)
      BY <1>3, WorkTypes
    <2> HIDE DEF v, w
    <2>2. Plain(v \o w)
      BY <2>1 DEF Plain
    <2> QED
      BY <2>2 DEF v, w
  <1>5. Plain([i \in DOMAIN ResetOrder |-> Store(ResetOrder[i])])
    BY DEF Plain, Store
  <1> QED
    BY <1>1, <1>2, <1>3, <1>4, <1>5

\* What the three functions for the live counters add.
LEMMA LiveAdds ==
    ASSUME NEW c \in Live, NEW size \in Nat, NEW other \in Nat
    PROVE  /\ Total(ao_live_add(size), Net(c)) = Counted(c, size)
           /\ Total(ao_live_add(size), Gain(c)) <= Counted(c, size)
           /\ Total(ao_live_remove(size), Net(c)) = -Counted(c, size)
           /\ Total(ao_live_remove(size), Gain(c)) = 0
           /\ Total(ao_live_update(other, size), Net(c))
                = Counted(c, size) - Counted(c, other)
           /\ Total(ao_live_update(other, size), Gain(c)) <= Counted(c, size)
           /\ Counted(c, size) \in Nat
  <1>1. /\ "live_blocks" \in Counters /\ "live_bytes" \in Counters
        /\ c = "live_blocks" \/ c = "live_bytes"
    BY DEF Counters, Live
  <1>2. \A d \in Counters, n \in Int :
           /\ Add(d, n) \in Accesses
           /\ Net(c)[Add(d, n)] = IF d = c THEN n ELSE 0
           /\ Gain(c)[Add(d, n)] = IF d = c /\ n > 0 THEN n ELSE 0
    <2>1. \A d \in Counters, n \in Int : Add(d, n) \in Accesses
      BY AddTypes
    <2> QED
      BY <2>1 DEF Net, Gain, Add
  <1>3. ASSUME NEW val, val \in [Accesses -> Int], NEW m \in Int, NEW n \in Int
        PROVE  /\ Total(<<Add("live_blocks", m), Add("live_bytes", n)>>, val)
                    = val[Add("live_blocks", m)] + val[Add("live_bytes", n)]
               /\ Total(<<Add("live_bytes", n)>>, val) = val[Add("live_bytes", n)]
    <2> DEFINE x == Add("live_blocks", m)
               y == Add("live_bytes", n)
    <2>1. x \in Accesses /\ y \in Accesses
      BY <1>1, <1>2
    <2> HIDE DEF x, y
    <2>2. Total(<<x>>, val) = val[x] /\ Total(<<y>>, val) = val[y]
      BY <1>3, <2>1, TotalOne
    <2>3. <<x>> \in Seq(Accesses) /\ <<y>> \in Seq(Accesses) /\ <<x, y>> = <<x>> \o <<y>>
      <3>1. <<x>> \in Seq(Accesses) /\ <<y>> \in Seq(Accesses)
        BY <2>1
      <3> DEFINE e == <<x>> \o <<y>>
                 d == <<x, y>>
      <3>2. e \in Seq(Accesses) /\ Len(e) = 2 /\ e[1] = x /\ e[2] = y
        BY <2>1, <3>1
      <3>3. d \in Seq(Accesses) /\ Len(d) = 2 /\ d[1] = x /\ d[2] = y
        BY <2>1
      <3> HIDE DEF d, e
      <3>4. \A i \in 1 .. 2 : d[i] = e[i]
        BY <3>2, <3>3
      <3>5. d = e
        BY <3>2, <3>3, <3>4
      <3> QED
        BY <3>1, <3>5 DEF d, e
    <2>4. Total(<<x>> \o <<y>>, val) = Total(<<x>>, val) + Total(<<y>>, val)
      BY <1>3, <2>3, TotalJoin
    <2>5. Total(<<x, y>>, val) = val[x] + val[y]
      BY <2>2, <2>3, <2>4
    <2> QED
      BY <2>2, <2>5 DEF x, y
  <1>4. Net(c) \in [Accesses -> Int] /\ Gain(c) \in [Accesses -> Int]
    BY ValueTypes
  <1>5. Total(<<>>, Net(c)) = 0 /\ Total(<<>>, Gain(c)) = 0
    BY <1>4, TotalEmpty
  <1> DEFINE N(m) == IF "live_blocks" = c THEN m ELSE 0
             B(n) == IF "live_bytes" = c THEN n ELSE 0
             P(n) == IF n > 0 THEN n ELSE 0
  <1>6. ASSUME NEW m \in Int, NEW n \in Int
        PROVE  /\ Total(<<Add("live_blocks", m), Add("live_bytes", n)>>, Net(c))
                    = N(m) + B(n)
               /\ Total(<<Add("live_blocks", m), Add("live_bytes", n)>>, Gain(c))
                    = N(P(m)) + B(P(n))
               /\ Total(<<Add("live_bytes", n)>>, Net(c)) = B(n)
               /\ Total(<<Add("live_bytes", n)>>, Gain(c)) = B(P(n))
    <2>1. /\ Net(c)[Add("live_blocks", m)] = N(m)
          /\ Net(c)[Add("live_bytes", n)] = B(n)
          /\ Gain(c)[Add("live_blocks", m)] = N(P(m))
          /\ Gain(c)[Add("live_bytes", n)] = B(P(n))
      BY <1>1, <1>2
    <2> HIDE DEF N, B, P, Net, Gain
    <2> QED
      BY <1>3, <1>4, <2>1
  <1> HIDE DEF Net, Gain
  <1>7. /\ Total(ao_live_add(size), Net(c)) = N(1) + B(size)
        /\ Total(ao_live_add(size), Gain(c)) = N(P(1)) + B(P(size))
    <2>1. 1 \in Int /\ size \in Int
      OBVIOUS
    <2> HIDE DEF N, B, P
    <2> QED
      BY <1>6, <2>1 DEF ao_live_add
  <1>8. /\ Total(ao_live_remove(size), Net(c)) = N(-1) + B(-size)
        /\ Total(ao_live_remove(size), Gain(c)) = N(P(-1)) + B(P(-size))
    <2>1. -1 \in Int /\ -size \in Int
      OBVIOUS
    <2> HIDE DEF N, B, P
    <2> QED
      BY <1>6, <2>1 DEF ao_live_remove
  <1>9. /\ Total(ao_live_update(other, size), Net(c)) = B(size - other)
        /\ Total(ao_live_update(other, size), Gain(c)) = B(P(size - other))
    <2>1. CASE size = other
      BY <1>5, <2>1 DEF ao_live_update
    <2>2. CASE size # other
      <3>1. size - other \in Int
        OBVIOUS
      <3> HIDE DEF N, B, P
      <3> QED
        BY <1>6, <2>2, <3>1 DEF ao_live_update
    <2> QED
      BY <2>1, <2>2
  <1> QED
    BY <1>1, <1>7, <1>8, <1>9 DEF Counted

\* The number of entries is a sum of ones.
LEMMA SumOnes ==
    ASSUME NEW f, NEW S, IsFiniteSet(S), \A x \in S : f[x] = 1
    PROVE  SumFunctionOnSet(f, S) = Cardinality(S)
  <1> DEFINE F(u) == SumFunctionOnSet(f, u)
             B == {u \in SUBSET S : F(u) # Cardinality(u)}
  <1>1. B = {}
    <2> SUFFICES ASSUME B # {}  PROVE FALSE
      OBVIOUS
    <2>1. PICK u \in B : \A v \in B : v \subseteq u => v = u
      <3>1. B \in SUBSET SUBSET S
        OBVIOUS
      <3> HIDE DEF B
      <3> QED
        BY <3>1, Minimal
    <2>2. u \in SUBSET S /\ F(u) # Cardinality(u) /\ IsFiniteSet(u)
      BY <2>1, FS_Subset
    <2>3. PICK x \in u : TRUE
      <3>1. F({}) = 0 /\ Cardinality({}) = 0
        BY SumEmpty, FS_EmptySet
      <3> HIDE DEF F
      <3> QED
        BY <2>2, <3>1
    <2>4. F(u) = f[x] + F(u \ {x})
      <3>1. \A y \in u : f[y] \in Int
        BY <2>2
      <3> QED
        BY <2>2, <2>3, <3>1, SumTakes
    <2>5. F(u \ {x}) = Cardinality(u \ {x})
      <3> HIDE DEF F
      <3> QED
        BY <2>1, <2>2, <2>3
    <2>6. Cardinality(u \ {x}) = Cardinality(u) - 1 /\ Cardinality(u) \in Nat
      BY <2>2, <2>3, FS_RemoveElement, FS_CardinalityType
    <2>7. f[x] = 1
      BY <2>2, <2>3
    <2> HIDE DEF F
    <2> QED
      BY <2>2, <2>4, <2>5, <2>6, <2>7
  <1> QED
    BY <1>1

\* The entries' count is a natural number, and grows and shrinks with them.
LEMMA CountedType ==
    ASSUME NEW m, IsRegistry(m), NEW c
    PROVE  /\ IsFiniteSet(DOMAIN m)
           /\ \A a \in DOMAIN m : Counted(c, m[a].requested_size) \in Nat
           /\ CountedIn(m, c) \in Nat
  <1>1. \A a \in DOMAIN m : Counted(c, m[a].requested_size) \in Nat
    BY DEF IsRegistry, Counted
  <1> DEFINE f == [a \in DOMAIN m |-> Counted(c, m[a].requested_size)]
  <1>2. IsFiniteSet(DOMAIN m) /\ \A a \in DOMAIN m : f[a] \in Nat
    BY <1>1 DEF IsRegistry
  <1> HIDE DEF f
  <1>3. SumFunctionOnSet(f, DOMAIN m) \in Nat
    BY <1>2, SumNat
  <1> QED
    BY <1>1, <1>2, <1>3 DEF f, CountedIn

LEMMA DropCounts ==
    ASSUME NEW m, IsRegistry(m), NEW a \in DOMAIN m, NEW c
    PROVE  CountedIn(Map!Drop(m, a), c) = CountedIn(m, c) - Counted(c, m[a].requested_size)
  <1> DEFINE less == Map!Drop(m, a)
             S == DOMAIN m
             f == [x \in DOMAIN m |-> Counted(c, m[x].requested_size)]
             g == [x \in DOMAIN less |-> Counted(c, less[x].requested_size)]
  <1>1. IsFiniteSet(S) /\ \A x \in S : f[x] \in Int
    BY CountedType
  <1>2. DOMAIN less = S \ {a} /\ \A x \in S \ {a} : less[x] = m[x]
    BY DropDomain
  <1>3. \A x \in S \ {a} : g[x] = f[x]
    BY <1>2
  <1>4. f[a] = Counted(c, m[a].requested_size) /\ a \in S
    OBVIOUS
  <1>5. /\ CountedIn(less, c) = SumFunctionOnSet(g, S \ {a})
        /\ CountedIn(m, c) = SumFunctionOnSet(f, S)
    BY <1>2, Zenon DEF CountedIn
  <1> HIDE DEF f, g, S, less
  <1>6. SumFunctionOnSet(f, S) = f[a] + SumFunctionOnSet(f, S \ {a})
    BY <1>1, <1>4, SumTakes
  <1>7. IsFiniteSet(S \ {a}) /\ \A x \in S \ {a} : f[x] \in Int
    BY <1>1, FS_Subset
  <1>8. /\ SumFunctionOnSet(f, S \ {a}) = SumFunctionOnSet(g, S \ {a})
        /\ SumFunctionOnSet(f, S \ {a}) \in Int /\ f[a] \in Int
    BY <1>1, <1>3, <1>4, <1>7, SumSame, SumTakes
  <1>9. CountedIn(less, c) = CountedIn(m, c) - f[a]
    BY <1>5, <1>6, <1>8
  <1> QED
    BY <1>4, <1>9 DEF less

LEMMA PutCounts ==
    ASSUME NEW m, IsRegistry(m), NEW a, a \notin DOMAIN m, NEW e,
           e.requested_size \in Nat, NEW c
    PROVE  CountedIn(Map!Put(m, a, e), c) = CountedIn(m, c) + Counted(c, e.requested_size)
  <1> DEFINE more == Map!Put(m, a, e)
             S == DOMAIN m
             T == DOMAIN more
             f == [x \in DOMAIN m |-> Counted(c, m[x].requested_size)]
             g == [x \in DOMAIN more |-> Counted(c, more[x].requested_size)]
  <1>1. IsFiniteSet(S) /\ \A x \in S : f[x] \in Int
    BY CountedType
  <1>2. T = S \cup {a} /\ more[a] = e /\ \A x \in S : more[x] = m[x]
    BY DEF Map!Put
  <1>3. \A x \in S : g[x] = f[x]
    BY <1>2
  <1>4. g[a] = Counted(c, e.requested_size) /\ g[a] \in Int
    BY <1>2 DEF Counted
  <1>5. /\ CountedIn(more, c) = SumFunctionOnSet(g, T)
        /\ CountedIn(m, c) = SumFunctionOnSet(f, S)
    BY Zenon DEF CountedIn
  <1>6. a \in T /\ T \ {a} = S
    BY <1>2
  <1>7. IsFiniteSet(T)
    BY <1>1, <1>2, FS_AddElement
  <1> HIDE DEF f, g, S, T, more
  <1>8. \A x \in T : g[x] \in Int
    BY <1>1, <1>2, <1>3, <1>4
  <1>9. SumFunctionOnSet(g, T) = g[a] + SumFunctionOnSet(g, S)
    BY <1>6, <1>7, <1>8, SumTakes
  <1>10. SumFunctionOnSet(f, S) = SumFunctionOnSet(g, S) /\ SumFunctionOnSet(f, S) \in Int
    BY <1>1, <1>3, SumSame, SumTakes
  <1>11. CountedIn(more, c) = CountedIn(m, c) + g[a]
    BY <1>4, <1>5, <1>9, <1>10
  <1> QED
    BY <1>4, <1>11 DEF more

\* The two counts are the number and the total size of the entries.
LEMMA CountedIs ==
    ASSUME IsRegistry(g_registry)
    PROVE  /\ CountedIn(g_registry, "live_blocks") = Cardinality(DOMAIN g_registry)
           /\ CountedIn(g_registry, "live_bytes") = TrackedBytes
  <1> DEFINE S == DOMAIN g_registry
             f == [a \in S |-> Counted("live_blocks", g_registry[a].requested_size)]
             g == [a \in S |-> Counted("live_bytes", g_registry[a].requested_size)]
             h == [a \in S |-> g_registry[a].requested_size]
  <1>1. IsFiniteSet(S) /\ \A a \in S : f[a] = 1
    BY DEF IsRegistry, Counted
  <1>2. g = h
    BY DEF Counted
  <1>3. DOMAIN h = S
    OBVIOUS
  <1>4. /\ CountedIn(g_registry, "live_blocks") = SumFunctionOnSet(f, S)
        /\ CountedIn(g_registry, "live_bytes") = SumFunctionOnSet(g, S)
        /\ TrackedBytes = SumFunction(h)
    BY Zenon DEF CountedIn, TrackedBytes
  <1> HIDE DEF f, g, h, S
  <1>5. SumFunctionOnSet(f, S) = Cardinality(S)
    BY <1>1, SumOnes
  <1>6. SumFunction(h) = SumFunctionOnSet(g, S)
    BY <1>2, <1>3, Zenon DEF SumFunction
  <1> QED
    BY <1>4, <1>5, <1>6 DEF S

-----------------------------------------------------------------------------
(* The ledger: every step keeps it.                                        *)

\* A thread between calls has no counter access left to make.
Settled(t) == pc[t] = "idle" => todo[t] = <<>>

\* What a call has still to add to a live counter is part of what the entry of
\* the block it is about to return counts for.
Backed(t) ==
    \A c \in Live :
        \/ Total(todo[t], Gain(c)) <= 0
        \/ /\ pc[t] = "return"
           /\ frame[t].keeps \in DOMAIN g_registry
           /\ Total(todo[t], Gain(c))
                <= Counted(c, g_registry[frame[t].keeps].requested_size)

\* Up to wrapping, a live counter and what is still to be added to it make up
\* what the entries of the registry count for.
Balanced(c) ==
    \E k \in Int : g_stats[c] + Owed(c) = CountedIn(g_registry, c) + k * Modulus

LedgerInv ==
    /\ \A t \in Threads : Settled(t)
    /\ ~reused => /\ \A t \in Threads : EntryOf(t) /\ Backed(t)
                  /\ \A c \in Live : Balanced(c)

\* Only counter accesses change the counters; the three steps that change the
\* registry, and no other, leave accesses to the live counters to be made.
LEMMA WorkChanges ==
    ASSUME TypeOK, FramesOK, NEW t \in Threads, Settled(t), Call(t) \/ Step(t)
    PROVE  \/ CounterStep(t)
           \/ ao_track_allocation_or_die(t)
           \/ realloc_fix(t)
           \/ free_remove(t)
           \/ /\ UNCHANGED <<g_registry, g_stats>>
              /\ todo[t] = <<>> /\ Plain(todo'[t])
              /\ pc'[t] = "idle" => todo'[t] = <<>>
  <1>a. /\ pc \in [Threads -> Labels] /\ frame \in [Threads -> Frames]
        /\ todo \in [Threads -> Seq(Accesses)]
        /\ pc[t] = "idle" => todo[t] = <<>>
    BY DEF TypeOK, FramesOK, Settled
  <1>b. /\ Plain(<<>>) /\ Plain(ao_record_failed_allocation)
        /\ Plain(ao_record_realloc(TRUE))
        /\ Plain(ao_record_realloc(FALSE) \o ao_record_failed_allocation)
        /\ Plain([i \in DOMAIN ResetOrder |-> Store(ResetOrder[i])])
    BY PlainRecords
  <1>1. CASE \E size \in Sizes : malloc(t, size)
    BY <1>1, <1>a, <1>b DEF malloc, Allocated, Enter, Go, Goto, Idle, stats, table
  <1>2. CASE \E nmemb, size \in Sizes : calloc(t, nmemb, size)
    BY <1>2, <1>a, <1>b DEF calloc, Allocated, Enter, Go, Goto, Idle, stats, table
  <1>3. CASE \E size \in Sizes : realloc_null(t, size)
    BY <1>3, <1>a, <1>b DEF realloc_null, Allocated, Enter, Go, Goto, Idle, stats, table
  <1>4. CASE \E p \in Addr, size \in Sizes : realloc(t, p, size)
    BY <1>4, <1>a, <1>b DEF realloc, Enter, Go, Goto, Idle, stats, table
  <1>5. CASE \E p \in Addr : free(t, p)
    BY <1>5, <1>a, <1>b DEF free, Enter, Go, Goto, Idle, stats, table
  <1>6. CASE libc_allocates(t)
    BY <1>6, <1>a, <1>b DEF libc_allocates, Enter, Idle, stats, table
  <1>7. CASE \E p \in Addr : ao_alloc_bridge_owns(t, p)
    BY <1>7, <1>a, <1>b DEF ao_alloc_bridge_owns, Enter, Go, Goto, Idle, stats, table
  <1>8. CASE ao_mock_begin_capture(t)
    BY <1>8, <1>a, <1>b DEF ao_mock_begin_capture, Enter, Idle, stats, table
  <1>9. CASE ao_mock_end_capture(t)
    BY <1>9, <1>a, <1>b DEF ao_mock_end_capture, Enter, Idle, Goto, stats, table
  <1>10. CASE ao_mock_reset(t)
    BY <1>10, <1>a, <1>b DEF ao_mock_reset, Enter, Go, Goto, Idle, stats, table
  <1>11. CASE CounterStep(t)
    BY <1>11
  <1>12. CASE ao_registry_lock(t)
    BY <1>12, <1>a, <1>b DEF ao_registry_lock, Lock, At, Goto, stats
  <1>13. CASE ao_track_allocation_or_die(t)
    BY <1>13
  <1>14. CASE realloc_lookup(t)
    BY <1>14, <1>a, <1>b DEF realloc_lookup, At, Go, Goto, stats
  <1>15. CASE realloc_bypass(t)
    BY <1>15, <1>a, <1>b DEF realloc_bypass, At, Go, Goto, stats, table
  <1>16. CASE realloc_tracked(t)
    BY <1>16, <1>a, <1>b DEF realloc_tracked, At, Go, Goto, stats, table
  <1>17. CASE realloc_fix(t)
    BY <1>17
  <1>18. CASE free_remove(t)
    BY <1>18
  <1>19. CASE free_real(t)
    BY <1>19, <1>a, <1>b DEF free_real, At, Goto, stats, table
  <1>20. CASE ao_registry_contains(t)
    BY <1>20, <1>a, <1>b DEF ao_registry_contains, At, Goto, stats
  <1>21. CASE ao_alloc_bridge_libc_free(t)
    BY <1>21, <1>a, <1>b DEF ao_alloc_bridge_libc_free, At, Go, Goto, stats, table
  <1>22. CASE \E size \in Sizes : ao_alloc_bridge_libc_realloc(t, size)
    BY <1>22, <1>a, <1>b DEF ao_alloc_bridge_libc_realloc, At, Go, Goto, stats, table
  <1>23. CASE end_capture_sub(t)
    BY <1>23, <1>a, <1>b DEF end_capture_sub, At, Goto, table
  <1>24. CASE ao_fatal(t)
    BY <1>24, <1>a, <1>b DEF ao_fatal, At, stats, table
  <1>25. CASE Return(t)
    BY <1>25, <1>a, <1>b DEF Return, At, Go, Goto, stats, table
  <1>26. QED
    BY <1>1, <1>2, <1>3, <1>4, <1>5, <1>6, <1>7, <1>8, <1>9, <1>10, <1>11,
       <1>12, <1>13, <1>14, <1>15, <1>16, <1>17, <1>18, <1>19, <1>20, <1>21,
       <1>22, <1>23, <1>24, <1>25 DEF Call, Step

\* What is owed is the sum of what the threads' accesses add.
LEMMA OwedIs ==
    ASSUME todo \in [Threads -> Seq(Accesses)], NEW c
    PROVE  /\ Owed(c) =
                SumFunctionOnSet([u \in Threads |-> Total(todo[u], Net(c))], Threads)
           /\ \A u \in Threads : Total(todo[u], Net(c)) \in Int
  <1> DEFINE f == [u \in Threads |-> AddedBy(todo[u], c)]
             g == [u \in Threads |-> Total(todo[u], Net(c))]
  <1>1. \A u \in Threads : AddedBy(todo[u], c) = Total(todo[u], Net(c))
    BY AddedIs
  <1>2. \A u \in Threads : Total(todo[u], Net(c)) \in Int
    BY ValueTypes, TotalType
  <1>3. f = g /\ DOMAIN f = Threads
    BY <1>1, Zenon
  <1>4. Owed(c) = SumFunction(f)
    BY Zenon DEF Owed
  <1> HIDE DEF f, g
  <1>5. Owed(c) = SumFunctionOnSet(g, Threads)
    BY <1>3, <1>4, Zenon DEF SumFunction
  <1> QED
    BY <1>2, <1>5 DEF g

\* It changes by what the stepping thread's accesses add less.
LEMMA OwedStep ==
    ASSUME TypeOK, FramesOK, todo' \in [Threads -> Seq(Accesses)],
           NEW t \in Threads, Call(t) \/ Step(t), NEW c
    PROVE  /\ Owed(c) \in Int
           /\ Total(todo'[t], Net(c)) \in Int
           /\ Total(todo[t], Net(c)) \in Int
           /\ Owed(c)' = Owed(c) + Total(todo'[t], Net(c)) - Total(todo[t], Net(c))
  <1> DEFINE f == [u \in Threads |-> Total(todo[u], Net(c))]
             g == [u \in Threads |-> Total(todo'[u], Net(c))]
  <1>1. todo \in [Threads -> Seq(Accesses)]
    BY DEF FramesOK
  <1>2. /\ Owed(c) = SumFunctionOnSet(f, Threads)
        /\ \A u \in Threads : Total(todo[u], Net(c)) \in Int
    BY <1>1, OwedIs
  <1>3. Owed(c)' = SumFunctionOnSet(g, Threads)
    <2> DEFINE p == [u \in Threads |-> AddedBy(todo'[u], c)]
    <2>1. \A u \in Threads : AddedBy(todo'[u], c) = Total(todo'[u], Net(c))
      BY AddedIs
    <2>2. p = g /\ DOMAIN p = Threads
      BY <2>1, Zenon
    <2>3. Owed(c)' = SumFunction(p)
      BY Zenon DEF Owed, AddedBy
    <2> HIDE DEF p, g
    <2> QED
      BY <2>2, <2>3, Zenon DEF SumFunction
  <1>4. Total(todo'[t], Net(c)) \in Int
    BY ValueTypes, TotalType
  <1>5. /\ \A u \in Threads : f[u] \in Int
        /\ g[t] = Total(todo'[t], Net(c)) /\ f[t] = Total(todo[t], Net(c))
    BY <1>2
  <1>6. \A u \in Threads \ {t} : g[u] = f[u]
    BY OthersUntouched
  <1> HIDE DEF f, g
  <1>7. SumFunctionOnSet(g, Threads) = SumFunctionOnSet(f, Threads) + g[t] - f[t]
    BY <1>4, <1>5, <1>6, ThreadsAssumption, SumChanges
  <1>8. SumFunctionOnSet(f, Threads) \in Int
    BY <1>5, ThreadsAssumption, SumTakes
  <1> QED
    BY <1>2, <1>3, <1>4, <1>5, <1>7, <1>8

\* A counter that wraps is off by a multiple of the modulus.
LEMMA Wraps ==
    ASSUME NEW x \in Int, NEW m \in Nat \ {0}
    PROVE  \E k \in Int : x % m = x + k * m
  <1>1. x \div m \in Int /\ x = m * (x \div m) + (x % m)
    BY SMT
  <1> DEFINE k == -(x \div m)
  <1>2. x % m = x + k * m
    BY <1>1, SMT
  <1>3. k \in Int
    BY <1>1, SMT
  <1> HIDE DEF k
  <1> QED
    BY <1>2, <1>3, Zenon

\* Plain work next to other work adds nothing.
LEMMA JoinAdds ==
    ASSUME NEW v \in Seq(Accesses), NEW w \in Seq(Accesses), Plain(v), NEW c
    PROVE  /\ Total(v \o w, Net(c)) = Total(w, Net(c))
           /\ Total(w \o v, Net(c)) = Total(w, Net(c))
           /\ Total(v \o w, Gain(c)) = Total(w, Gain(c))
           /\ Total(w \o v, Gain(c)) = Total(w, Gain(c))
  <1>1. Total(v, Net(c)) = 0 /\ Total(v, Gain(c)) = 0
    BY PlainAdds
  <1>2. Net(c) \in [Accesses -> Int] /\ Gain(c) \in [Accesses -> Int]
    BY ValueTypes
  <1> DEFINE N == Net(c)
             G == Gain(c)
  <1> HIDE DEF N, G
  <1>3. /\ Total(v \o w, N) = Total(v, N) + Total(w, N)
        /\ Total(w \o v, N) = Total(w, N) + Total(v, N)
        /\ Total(v \o w, G) = Total(v, G) + Total(w, G)
        /\ Total(w \o v, G) = Total(w, G) + Total(v, G)
    BY <1>2, TotalJoin DEF N, G
  <1>4. Total(w, N) \in Int /\ Total(w, G) \in Int
    BY <1>2, TotalType DEF N, G
  <1> QED
    BY <1>1, <1>3, <1>4 DEF N, G

\* An access moves what it adds from what is owed to the counter, up to wrapping.
\* Recording adds to no live counter, and no reset clears one.
LEMMA CounterAdds ==
    ASSUME TypeOK, FramesOK, NEW t \in Threads, CounterStep(t), NEW c \in Live
    PROVE  /\ Total(todo'[t], Gain(c)) <= Total(todo[t], Gain(c))
           /\ \E k \in Int :
                 g_stats'[c] = g_stats[c] + Total(todo[t], Net(c))
                                 - Total(todo'[t], Net(c)) + k * Modulus
           /\ UNCHANGED <<g_registry, pc, frame, reused>>
  <1> DEFINE x == Head(todo[t])
             r == Tail(todo[t])
             N == Net(c)
             G == Gain(c)
  <1>1. todo \in [Threads -> Seq(Accesses)] /\ todo[t] # <<>>
    BY DEF FramesOK, CounterStep
  <1>2. x \in Accesses /\ r \in Seq(Accesses)
    BY <1>1
  <1>3. N \in [Accesses -> Int] /\ G \in [Accesses -> Int]
    BY ValueTypes
  <1>4. /\ N[x] = IF x.op = "add" /\ x.counter = c THEN x.n ELSE 0
        /\ G[x] = IF x.op = "add" /\ x.counter = c /\ x.n > 0 THEN x.n ELSE 0
        /\ x.n \in Int /\ x.adds \in Seq(Adds)
        /\ x.op = "store" => x.counter \notin Live
    BY <1>2 DEF Net, Gain, Accesses
  <1>5. UNCHANGED <<g_registry, pc, frame, reused>>
    BY DEF CounterStep, memory, table
  <1>6. g_stats \in [Counters -> 0 .. Modulus - 1] /\ c \in Counters
    BY DEF TypeOK, Live, Counters
  <1>7. \/ /\ x.op = "add"
           /\ g_stats' = [g_stats EXCEPT ![x.counter] = (@ + x.n) % Modulus]
           /\ todo'[t] = r
        \/ /\ x.op = "store"
           /\ g_stats' = [g_stats EXCEPT ![x.counter] = 0]
           /\ todo'[t] = r
        \/ /\ x.op = "record"
           /\ g_stats' = g_stats
           /\ todo'[t] = x.adds \o r \/ todo'[t] = r
    BY <1>1 DEF CounterStep
  <1>8. /\ x.adds \in Seq(Accesses)
        /\ \A i \in DOMAIN x.adds : N[x.adds[i]] = 0 /\ G[x.adds[i]] = 0
    <2>1. \A i \in DOMAIN x.adds : x.adds[i] \in Adds
      BY <1>4
    <2>2. \A i \in DOMAIN x.adds : x.adds[i] \in Accesses /\ x.adds[i].counter # c
      BY <2>1, AddTypes DEF Adds
    <2>3. x.adds \in Seq(Accesses)
      BY <1>4, AddTypes
    <2> QED
      BY <2>2, <2>3 DEF Net, Gain
  <1> HIDE DEF x, r, N, G
  <1>9. /\ Total(todo[t], N) = N[x] + Total(r, N)
        /\ Total(todo[t], G) = G[x] + Total(r, G)
    BY <1>1, <1>3, TotalTail DEF x, r
  <1>10. Total(r, N) \in Int /\ Total(r, G) \in Int
    BY <1>2, <1>3, TotalType
  <1>11. Total(x.adds \o r, N) = Total(r, N) /\ Total(x.adds \o r, G) = Total(r, G)
    <2> DEFINE v == x.adds
    <2>1. v \in Seq(Accesses) /\ \A i \in DOMAIN v : N[v[i]] = 0 /\ G[v[i]] = 0
      BY <1>8
    <2> HIDE DEF v
    <2>2. Total(v, N) = 0 /\ Total(v, G) = 0
      BY <1>3, <2>1, TotalZero
    <2>3. /\ Total(v \o r, N) = Total(v, N) + Total(r, N)
          /\ Total(v \o r, G) = Total(v, G) + Total(r, G)
      BY <1>2, <1>3, <2>1, TotalJoin
    <2>4. Total(v \o r, N) = Total(r, N) /\ Total(v \o r, G) = Total(r, G)
      BY <1>10, <2>2, <2>3
    <2> QED
      BY <2>4 DEF v
  <1>12. Total(todo'[t], N) = Total(r, N) /\ Total(todo'[t], G) = Total(r, G)
    BY <1>7, <1>11
  <1>13. N[x] \in Int /\ G[x] \in Nat
    BY <1>4
  <1>14. Total(todo'[t], G) <= Total(todo[t], G)
    BY <1>9, <1>10, <1>12, <1>13
  <1>15. \E k \in Int : g_stats'[c] = g_stats[c] + N[x] + k * Modulus
    <2>1. CASE x.op = "add" /\ x.counter = c
      <3>1. g_stats'[c] = (g_stats[c] + x.n) % Modulus /\ N[x] = x.n
        BY <1>4, <1>6, <1>7, <2>1
      <3>2. g_stats[c] + x.n \in Int /\ Modulus \in Nat \ {0}
        BY <1>4, <1>6, BoundsAssumption
      <3>3. PICK k \in Int :
               (g_stats[c] + x.n) % Modulus = (g_stats[c] + x.n) + k * Modulus
        BY <3>2, Wraps
      <3> QED
        BY <3>1, <3>3
    <2>2. CASE ~(x.op = "add" /\ x.counter = c)
      <3>1. g_stats'[c] = g_stats[c] /\ N[x] = 0
        BY <1>4, <1>6, <1>7, <2>2
      <3>2. g_stats[c] \in Int /\ Modulus \in Int
        BY <1>6, BoundsAssumption
      <3>3. g_stats'[c] = g_stats[c] + N[x] + 0 * Modulus
        BY <3>1, <3>2
      <3> QED
        BY <3>3
    <2> QED
      BY <2>1, <2>2
  <1>16. PICK k \in Int : g_stats'[c] = g_stats[c] + N[x] + k * Modulus
    BY <1>15
  <1>17. g_stats'[c] = g_stats[c] + Total(todo[t], N) - Total(todo'[t], N) + k * Modulus
    <2>1. N[x] = Total(todo[t], N) - Total(todo'[t], N)
      BY <1>9, <1>10, <1>12, <1>13
    <2>2. g_stats[c] \in Int /\ k * Modulus \in Int
      BY <1>6, BoundsAssumption
    <2>3. Total(todo[t], N) \in Int /\ Total(todo'[t], N) \in Int
      BY <1>9, <1>10, <1>12, <1>13
    <2> DEFINE km == k * Modulus
    <2> HIDE DEF km
    <2>4. g_stats'[c] = g_stats[c] + N[x] + km /\ km \in Int
      BY <1>16, <2>2 DEF km
    <2>5. g_stats'[c] = g_stats[c] + Total(todo[t], N) - Total(todo'[t], N) + km
      BY <2>1, <2>2, <2>3, <2>4
    <2> QED
      BY <2>5 DEF km
  <1> QED
    BY <1>5, <1>14, <1>17 DEF N, G

\* A step that changes the registry leaves the call that takes it to add to the
\* live counters what the entries count for more, and to add at most what the
\* entry of the block that the call returns counts for.
Books(t, c) ==
    /\ CountedIn(g_registry', c) = CountedIn(g_registry, c) + Total(todo'[t], Net(c))
    /\ \/ Total(todo'[t], Gain(c)) <= 0
       \/ /\ pc'[t] = "return"
          /\ frame'[t].keeps \in DOMAIN g_registry'
          /\ Total(todo'[t], Gain(c))
               <= Counted(c, g_registry'[frame'[t].keeps].requested_size)

\* The new block's entry counts for what its call is left to add.
LEMMA TrackBooks ==
    ASSUME TypeOK, FramesOK, LocalsOK, NEW t \in Threads,
           ao_track_allocation_or_die(t), EntryOf(t), NEW c \in Live
    PROVE  Books(t, c)
  <1> DEFINE f == frame[t]
             entry == [requested_size |-> f.size, allocation_id |-> g_next_allocation_id]
             w == ao_live_add(f.size)
             v == ao_record_successful_allocation(f.kind, f.size)
  <1>1. pc[t] = "track" /\ todo[t] = <<>>
    BY DEF ao_track_allocation_or_die, At
  <1>2. f.size \in Nat /\ f.kind \in 0 .. 2
    BY DEF FramesOK, Frames
  <1>3. f.keeps = f.new_ptr /\ f.new_ptr \notin DOMAIN g_registry
    BY <1>1 DEF LocalsOK, LocalsOf, EntryOf
  <1>4. \/ /\ g_registry' = Map!Put(g_registry, f.new_ptr, entry)
           /\ todo'[t] = w \o v /\ pc'[t] = "return" /\ frame'[t] = f
        \/ g_registry' = g_registry /\ todo'[t] = <<>>
    BY <1>1 DEF ao_track_allocation_or_die, Go, Goto, TypeOK, FramesOK
  <1>5. IsRegistry(g_registry)
    BY DEF TypeOK, FramesOK, IsRegistry
  <1>6. CountedIn(g_registry, c) \in Nat
    BY <1>5, CountedType
  <1>7. v \in Seq(Accesses) /\ w \in Seq(Accesses) /\ Plain(v)
    BY <1>2, WorkTypes, PlainRecords
  <1>8. /\ Total(w, Net(c)) = Counted(c, f.size)
        /\ Total(w, Gain(c)) <= Counted(c, f.size)
    BY <1>2, LiveAdds
  <1>9. entry.requested_size = f.size
    OBVIOUS
  <1> HIDE DEF f, v, w, entry
  <1>10. Total(w \o v, Net(c)) = Total(w, Net(c)) /\ Total(w \o v, Gain(c)) = Total(w, Gain(c))
    BY <1>7, JoinAdds
  <1>11. CASE /\ g_registry' = Map!Put(g_registry, f.new_ptr, entry)
              /\ todo'[t] = w \o v /\ pc'[t] = "return" /\ frame'[t] = f
    <2>1. CountedIn(g_registry', c) = CountedIn(g_registry, c) + Counted(c, f.size)
      BY <1>2, <1>3, <1>5, <1>9, <1>11, PutCounts
    <2>2. f.keeps \in DOMAIN g_registry' /\ g_registry'[f.keeps].requested_size = f.size
      <3> DEFINE a == f.new_ptr
                 more == Map!Put(g_registry, a, entry)
      <3> HIDE DEF a
      <3>1. a \in DOMAIN more /\ more[a] = entry
        BY DEF Map!Put
      <3> HIDE DEF more
      <3>2. g_registry' = more
        BY <1>11 DEF more, a
      <3> QED
        BY <1>3, <1>9, <3>1, <3>2 DEF a
    <2> QED
      BY <1>8, <1>10, <1>11, <2>1, <2>2 DEF Books
  <1>12. CASE g_registry' = g_registry /\ todo'[t] = <<>>
    <2>1. Total(<<>>, Net(c)) = 0 /\ Total(<<>>, Gain(c)) = 0
      BY TotalEmpty, ValueTypes
    <2> QED
      BY <1>6, <1>12, <2>1 DEF Books
  <1> QED
    BY <1>4, <1>11, <1>12

\* A realloc is left to add the difference between the new size and the size of
\* the entry it replaces, which it read when it looked the block up.
LEMMA FixBooks ==
    ASSUME TypeOK, FramesOK, LocalsOK, NEW t \in Threads, realloc_fix(t),
           EntryOf(t), KnownOf(t), NEW c \in Live
    PROVE  Books(t, c)
  <1> DEFINE f == frame[t]
             entry == [requested_size |-> f.size, allocation_id |-> f.allocation_id]
             less == Map!Drop(g_registry, f.ptr)
             v == ao_record_realloc(FALSE)
             w == ao_live_remove(f.old_size)
             u == ao_live_update(f.old_size, f.size)
  <1>1. pc[t] = "re_fix"
    BY DEF realloc_fix, At
  <1>2. f.size \in Nat /\ f.old_size \in Nat
    BY DEF FramesOK, Frames
  <1>3. /\ f.keeps = f.new_ptr /\ f.ptr \in DOMAIN g_registry
        /\ f.old_size = g_registry[f.ptr].requested_size
        /\ f.new_ptr # NULL => f.new_ptr \notin DOMAIN g_registry \ {f.ptr}
    BY <1>1 DEF LocalsOK, LocalsOf, EntryOf, KnownOf
  <1>4. Map!CanPut(less, f.new_ptr)
    BY <1>3, DropBound DEF TypeOK, FramesOK
  <1>5. \/ g_registry' = less /\ todo'[t] = v \o w
        \/ /\ f.new_ptr # NULL
           /\ g_registry' = Map!Put(less, f.new_ptr, entry)
           /\ todo'[t] = v \o u /\ pc'[t] = "return" /\ frame'[t] = f
    BY <1>4 DEF realloc_fix, RoomToMove, Moved, Go, Goto, TypeOK, FramesOK
  <1>6. IsRegistry(g_registry)
    BY DEF TypeOK, FramesOK, IsRegistry
  <1>7. IsRegistry(less)
    BY <1>6, DropTypes
  <1>8. /\ CountedIn(less, c) = CountedIn(g_registry, c) - Counted(c, f.old_size)
        /\ DOMAIN less = DOMAIN g_registry \ {f.ptr}
    <2>1. CountedIn(less, c)
            = CountedIn(g_registry, c) - Counted(c, g_registry[f.ptr].requested_size)
      BY <1>3, <1>6, DropCounts
    <2>2. DOMAIN less = DOMAIN g_registry \ {f.ptr}
      BY DropDomain
    <2> HIDE DEF less
    <2> QED
      BY <1>3, <2>1, <2>2
  <1>9. CountedIn(g_registry, c) \in Nat /\ CountedIn(less, c) \in Nat
    BY <1>6, <1>7, CountedType
  <1>10. /\ v \in Seq(Accesses) /\ w \in Seq(Accesses) /\ u \in Seq(Accesses)
         /\ Plain(v)
    BY <1>2, WorkTypes, PlainRecords
  <1>11. /\ Total(w, Net(c)) = -Counted(c, f.old_size)
         /\ Total(w, Gain(c)) = 0
         /\ Total(u, Net(c)) = Counted(c, f.size) - Counted(c, f.old_size)
         /\ Total(u, Gain(c)) <= Counted(c, f.size)
         /\ Counted(c, f.size) \in Nat /\ Counted(c, f.old_size) \in Nat
    BY <1>2, LiveAdds
  <1>12. entry.requested_size = f.size
    OBVIOUS
  <1> HIDE DEF f, u, v, w, entry, less
  <1>13. /\ Total(v \o w, Net(c)) = Total(w, Net(c))
         /\ Total(v \o w, Gain(c)) = Total(w, Gain(c))
         /\ Total(v \o u, Net(c)) = Total(u, Net(c))
         /\ Total(v \o u, Gain(c)) = Total(u, Gain(c))
    BY <1>10, JoinAdds
  <1>14. CASE g_registry' = less /\ todo'[t] = v \o w
    BY <1>8, <1>9, <1>11, <1>13, <1>14 DEF Books
  <1>15. CASE /\ f.new_ptr # NULL
              /\ g_registry' = Map!Put(less, f.new_ptr, entry)
              /\ todo'[t] = v \o u /\ pc'[t] = "return" /\ frame'[t] = f
    <2>1. CountedIn(g_registry', c) = CountedIn(less, c) + Counted(c, f.size)
      <3>1. f.new_ptr \notin DOMAIN less
        BY <1>3, <1>8, <1>15
      <3> QED
        BY <1>2, <1>7, <1>12, <1>15, <3>1, PutCounts
    <2>2. f.keeps \in DOMAIN g_registry' /\ g_registry'[f.keeps].requested_size = f.size
      <3> DEFINE a == f.new_ptr
                 more == Map!Put(less, a, entry)
      <3> HIDE DEF a
      <3>1. a \in DOMAIN more /\ more[a] = entry
        BY DEF Map!Put
      <3> HIDE DEF more
      <3>2. g_registry' = more
        BY <1>15 DEF more, a
      <3> QED
        BY <1>3, <1>12, <3>1, <3>2 DEF a
    <2>3. CountedIn(g_registry', c) = CountedIn(g_registry, c) + Total(todo'[t], Net(c))
      BY <1>8, <1>9, <1>11, <1>13, <1>15, <2>1
    <2> QED
      BY <1>11, <1>13, <1>15, <2>2, <2>3 DEF Books
  <1> QED
    BY <1>5, <1>14, <1>15

\* Dropping an address that has no entry changes no count.
LEMMA DropNothing ==
    ASSUME NEW m, NEW a, a \notin DOMAIN m, NEW c
    PROVE  CountedIn(Map!Drop(m, a), c) = CountedIn(m, c)
  <1> DEFINE less == Map!Drop(m, a)
  <1>1. DOMAIN less = DOMAIN m /\ \A x \in DOMAIN m : less[x] = m[x]
    BY DropDomain, ZenonT(60)
  <1> HIDE DEF less
  <1>2. [x \in DOMAIN less |-> Counted(c, less[x].requested_size)]
          = [x \in DOMAIN m |-> Counted(c, m[x].requested_size)]
    BY <1>1
  <1>3. CountedIn(less, c) = CountedIn(m, c)
    BY <1>1, <1>2 DEF CountedIn
  <1> QED
    BY <1>3 DEF less

\* free is left to take away what the entry it removed counted for.
LEMMA RemoveBooks ==
    ASSUME TypeOK, FramesOK, NEW t \in Threads, free_remove(t), NEW c \in Live
    PROVE  Books(t, c)
  <1> DEFINE p == frame[t].ptr
             n == g_registry[p].requested_size
             v == ao_record_free(FALSE)
             w == ao_live_remove(n)
             b == ao_record_free(TRUE)
  <1>1. /\ g_registry' = Map!Drop(g_registry, p)
        /\ \/ p \in DOMAIN g_registry /\ todo'[t] = v \o w
           \/ p \notin DOMAIN g_registry /\ todo'[t] = b
    BY DEF free_remove, Go, FramesOK
  <1>2. IsRegistry(g_registry)
    BY DEF TypeOK, FramesOK, IsRegistry
  <1>3. CountedIn(g_registry, c) \in Nat
    BY <1>2, CountedType
  <1>4. CASE p \in DOMAIN g_registry /\ todo'[t] = v \o w
    <2>1. n \in Nat
      BY <1>2, <1>4 DEF IsRegistry
    <2>2. v \in Seq(Accesses) /\ w \in Seq(Accesses) /\ Plain(v)
      BY <2>1, WorkTypes, PlainRecords
    <2>3. /\ Total(w, Net(c)) = -Counted(c, n) /\ Total(w, Gain(c)) = 0
          /\ Counted(c, n) \in Nat
      BY <2>1, LiveAdds
    <2>4. CountedIn(g_registry', c) = CountedIn(g_registry, c) - Counted(c, n)
      BY <1>1, <1>2, <1>4, DropCounts
    <2> HIDE DEF v, w, n, p
    <2>5. /\ Total(v \o w, Net(c)) = Total(w, Net(c))
          /\ Total(v \o w, Gain(c)) = Total(w, Gain(c))
      BY <2>2, JoinAdds
    <2> QED
      BY <1>3, <1>4, <2>3, <2>4, <2>5 DEF Books
  <1>5. CASE p \notin DOMAIN g_registry /\ todo'[t] = b
    <2>1. b \in Seq(Accesses) /\ Plain(b)
      BY WorkTypes, PlainRecords
    <2>2. Total(b, Net(c)) = 0 /\ Total(b, Gain(c)) = 0
      BY <2>1, PlainAdds
    <2>3. CountedIn(g_registry', c) = CountedIn(g_registry, c)
      BY <1>1, <1>5, DropNothing
    <2> HIDE DEF b
    <2> QED
      BY <1>3, <1>5, <2>2, <2>3 DEF Books
  <1> QED
    BY <1>1, <1>4, <1>5

\* What the other threads have still to add stays backed: the block such a call
\* returns is with that call alone.
LEMMA OthersBacked ==
    ASSUME TypeOK, FramesOK, LocalsOK, Custody, PendingAlone, NEW t \in Threads,
           Call(t) \/ Step(t), NEW u \in Threads \ {t}, Backed(u)
    PROVE  Backed(u)'
  <1> SUFFICES ASSUME NEW c \in Live, ~(Total(todo'[u], Gain(c)) <= 0)
               PROVE  /\ pc'[u] = "return"
                      /\ frame'[u].keeps \in DOMAIN g_registry'
                      /\ Total(todo'[u], Gain(c))
                           <= Counted(c, g_registry'[frame'[u].keeps].requested_size)
    BY DEF Backed
  <1>1. pc'[u] = pc[u] /\ frame'[u] = frame[u] /\ todo'[u] = todo[u]
    BY OthersUntouched
  <1> DEFINE a == frame[u].keeps
  <1>2. /\ pc[u] = "return" /\ a \in DOMAIN g_registry
        /\ Total(todo[u], Gain(c)) <= Counted(c, g_registry[a].requested_size)
    BY <1>1 DEF Backed
  <1>3. a \in Addr /\ a = Carried(u) /\ a # NULL
    BY <1>2, NullAssumption DEF TypeOK, Carried, NewLabels, PtrLabels
  <1>4. a \in heap /\ a # Carried(t)
    BY <1>3 DEF Custody
  <1>5. a \in DOMAIN g_registry'
    BY <1>2, <1>3, <1>4, OthersKnown
  <1>6. g_registry'[a] = g_registry[a]
    BY <1>2, <1>4, <1>5, EntryKept
  <1> QED
    BY <1>1, <1>2, <1>5, <1>6

\* Every step keeps a live counter balanced and what its thread adds to it backed,
\* until an address is reused.
LEMMA OwnLedger ==
    ASSUME Inv, NEW t \in Threads, Call(t) \/ Step(t), ~reused', Settled(t),
           EntryOf(t), Backed(t), NEW c \in Live, Balanced(c)
    PROVE  /\ Balanced(c)'
           /\ \/ Total(todo'[t], Gain(c)) <= 0
              \/ /\ pc'[t] = "return"
                 /\ frame'[t].keeps \in DOMAIN g_registry'
                 /\ Total(todo'[t], Gain(c))
                      <= Counted(c, g_registry'[frame'[t].keeps].requested_size)
  <1> DEFINE r  == CountedIn(g_registry, c)
             r1 == CountedIn(g_registry', c)
             d  == Total(todo[t], Net(c))
             d1 == Total(todo'[t], Net(c))
             Shifts == \E j \in Int :
                          g_stats'[c] = g_stats[c] + (r1 - r) + d - d1 + j * Modulus
             Covered == \/ Total(todo'[t], Gain(c)) <= 0
                        \/ /\ pc'[t] = "return"
                           /\ frame'[t].keeps \in DOMAIN g_registry'
                           /\ Total(todo'[t], Gain(c))
                                <= Counted(c, g_registry'[frame'[t].keeps].requested_size)
  <1>1. TypeOK /\ FramesOK /\ LocalsOK /\ Custody /\ NoStaleEntry
    BY DEF Inv
  <1>2. Inv'
    BY ThreadStep
  <1>3. KnownOf(t)
    <2>1. ~reused
      BY <1>1, ReuseSeen
    <2> QED
      BY <2>1 DEF Inv, Orderly, CarriedKnown
  <1>4. todo \in [Threads -> Seq(Accesses)] /\ todo' \in [Threads -> Seq(Accesses)]
    BY <1>1, <1>2 DEF Inv, FramesOK
  <1>5. /\ Owed(c) \in Int /\ d \in Int /\ d1 \in Int
        /\ Owed(c)' = Owed(c) + d1 - d
    BY <1>1, <1>4, OwedStep
  <1>6. r \in Int /\ r1 \in Int
    <2>1. IsRegistry(g_registry) /\ IsRegistry(g_registry')
      BY <1>1, RegistryTypes DEF TypeOK, FramesOK, IsRegistry
    <2> QED
      BY <2>1, CountedType
  <1>7. c \in Counters /\ g_stats[c] \in Int /\ g_stats'[c] \in Int /\ Modulus \in Int
    <2>1. c \in Counters
      BY DEF Live, Counters
    <2>2. /\ g_stats \in [Counters -> 0 .. Modulus - 1]
          /\ g_stats' \in [Counters -> 0 .. Modulus - 1] /\ Modulus \in Nat
      BY <1>1, <1>2, BoundsAssumption DEF Inv, TypeOK
    <2> QED
      BY <2>1, <2>2
  <1>8. ASSUME g_stats'[c] = g_stats[c] + (r1 - r) + d - d1
        PROVE  Shifts
    <2>1. g_stats'[c] = g_stats[c] + (r1 - r) + d - d1 + 0 * Modulus
      BY <1>5, <1>6, <1>7, <1>8
    <2> QED
      BY <2>1
  <1>9. ASSUME Books(t, c), todo[t] = <<>>, UNCHANGED g_stats
        PROVE  Shifts /\ Covered
    <2>1. d = 0
      BY <1>9, TotalEmpty, ValueTypes
    <2>2. r1 = r + d1
      BY <1>9 DEF Books
    <2>3. Shifts
      <3> HIDE DEF r, r1, d, d1, Shifts
      <3> QED
        BY <1>5, <1>6, <1>7, <1>8, <1>9, <2>1, <2>2
    <2> QED
      BY <1>9, <2>3 DEF Books
  <1>10. ASSUME CounterStep(t)
         PROVE  Shifts /\ Covered
    <2>1. /\ Total(todo'[t], Gain(c)) <= Total(todo[t], Gain(c))
          /\ \E j \in Int : g_stats'[c] = g_stats[c] + d - d1 + j * Modulus
          /\ UNCHANGED <<g_registry, pc, frame, reused>>
      BY <1>1, <1>10, CounterAdds
    <2>2. Shifts
      <3>1. PICK j \in Int : g_stats'[c] = g_stats[c] + d - d1 + j * Modulus
        BY <2>1
      <3>2. r1 = r
        BY <2>1
      <3> DEFINE jm == j * Modulus
      <3>3. jm \in Int /\ g_stats'[c] = g_stats[c] + d - d1 + jm
        BY <1>7, <3>1
      <3> HIDE DEF r, r1, d, d1, jm
      <3>4. g_stats'[c] = g_stats[c] + (r1 - r) + d - d1 + jm
        BY <1>5, <1>6, <1>7, <3>2, <3>3
      <3> QED
        BY <3>4 DEF jm
    <2>3. Covered
      <3>1. /\ Total(todo[t], Gain(c)) \in Int /\ Total(todo'[t], Gain(c)) \in Int
            /\ \A a \in DOMAIN g_registry :
                  Counted(c, g_registry[a].requested_size) \in Int
        <4>1. IsRegistry(g_registry)
          BY <1>1 DEF TypeOK, FramesOK, IsRegistry
        <4>2. \A a \in DOMAIN g_registry : Counted(c, g_registry[a].requested_size) \in Nat
          BY <4>1, CountedType
        <4>3. Total(todo[t], Gain(c)) \in Int /\ Total(todo'[t], Gain(c)) \in Int
          BY <1>4, TotalType, ValueTypes
        <4> QED
          BY <4>2, <4>3
      <3> QED
        BY <2>1, <3>1 DEF Backed
    <2> QED
      BY <2>2, <2>3
  <1>11. ASSUME ao_track_allocation_or_die(t)
         PROVE  Shifts /\ Covered
    <2>1. Books(t, c)
      BY <1>1, <1>11, TrackBooks
    <2>2. todo[t] = <<>> /\ UNCHANGED g_stats
      BY <1>11 DEF ao_track_allocation_or_die, At, stats
    <2> QED
      BY <1>9, <2>1, <2>2
  <1>12. ASSUME realloc_fix(t)
         PROVE  Shifts /\ Covered
    <2>1. Books(t, c)
      BY <1>1, <1>3, <1>12, FixBooks
    <2>2. todo[t] = <<>> /\ UNCHANGED g_stats
      BY <1>12 DEF realloc_fix, At, stats
    <2> QED
      BY <1>9, <2>1, <2>2
  <1>13. ASSUME free_remove(t)
         PROVE  Shifts /\ Covered
    <2>1. Books(t, c)
      BY <1>1, <1>13, RemoveBooks
    <2>2. todo[t] = <<>> /\ UNCHANGED g_stats
      BY <1>13 DEF free_remove, At, stats
    <2> QED
      BY <1>9, <2>1, <2>2
  <1>14. ASSUME UNCHANGED <<g_registry, g_stats>> /\ todo[t] = <<>> /\ Plain(todo'[t])
         PROVE  Shifts /\ Covered
    <2>1. todo'[t] \in Seq(Accesses)
      BY <1>4
    <2>2. d1 = 0 /\ Total(todo'[t], Gain(c)) = 0
      BY <1>14, <2>1, PlainAdds
    <2>3. r1 = r
      BY <1>14
    <2>4. Books(t, c)
      BY <1>6, <2>2, <2>3 DEF Books
    <2> QED
      BY <1>9, <1>14, <2>4
  <1>15. Shifts /\ Covered
    BY <1>1, <1>10, <1>11, <1>12, <1>13, <1>14, WorkChanges
  <1>16. Balanced(c)'
    <2>1. PICK j \in Int : g_stats'[c] = g_stats[c] + (r1 - r) + d - d1 + j * Modulus
      BY <1>15
    <2>2. PICK k \in Int : g_stats[c] + Owed(c) = r + k * Modulus
      BY DEF Balanced
    <2> HIDE DEF r, r1, d, d1, Shifts, Covered
    <2> DEFINE i  == k + j
               im == i * Modulus
               km == k * Modulus
               jm == j * Modulus
    <2>3. im = km + jm /\ i \in Int /\ im \in Int /\ km \in Int /\ jm \in Int
      BY <1>7
    <2>4. /\ g_stats'[c] = g_stats[c] + (r1 - r) + d - d1 + jm
          /\ g_stats[c] + Owed(c) = r + km
      BY <2>1, <2>2
    <2> HIDE DEF i, im, km, jm
    <2>5. g_stats'[c] + Owed(c)' = r1 + im
      BY <1>5, <1>6, <1>7, <2>3, <2>4
    <2> QED
      BY <2>3, <2>5 DEF Balanced, r1, im
  <1> QED
    BY <1>15, <1>16

\* Every step of a thread keeps the ledger.
LEMMA LedgerStep ==
    ASSUME Inv, LedgerInv, NEW t \in Threads, Call(t) \/ Step(t)
    PROVE  LedgerInv'
  <1>1. TypeOK /\ FramesOK /\ LocalsOK /\ Custody /\ NoStaleEntry
    BY DEF Inv
  <1>2. \A u \in Threads : Settled(u)
    BY DEF LedgerInv
  <1>3. \A u \in Threads : Settled(u)'
    <2>1. \A u \in Threads \ {t} : Settled(u)'
      BY <1>1, <1>2, OthersUntouched DEF Settled
    <2>2. Settled(t)'
      <3>1. CASE CounterStep(t)
        BY <1>2, <3>1 DEF CounterStep, Settled
      <3>2. CASE ao_track_allocation_or_die(t) \/ realloc_fix(t) \/ free_remove(t)
        <4>1. EntryChange(t)
          BY <1>1, <3>2, EntryEffect
        <4> QED
          BY <4>1 DEF EntryChange, Settled
      <3>3. CASE pc'[t] = "idle" => todo'[t] = <<>>
        BY <3>3 DEF Settled
      <3> QED
        BY <1>1, <1>2, <3>1, <3>2, <3>3, WorkChanges
    <2> QED
      BY <2>1, <2>2
  <1>4. ASSUME ~reused'
        PROVE  /\ \A u \in Threads : EntryOf(u)' /\ Backed(u)'
               /\ \A c \in Live : Balanced(c)'
    <2>1. ~reused
      BY <1>1, <1>4, ReuseSeen
    <2>2. /\ \A u \in Threads : EntryOf(u) /\ Backed(u)
          /\ \A c \in Live : Balanced(c)
      BY <2>1 DEF LedgerInv
    <2>3. PendingAlone /\ \A u \in Threads : KnownOf(u)
      BY <2>1 DEF Inv, Orderly, CarriedKnown
    <2>4. \A u \in Threads : KnownOf(u)'
      BY <1>4, OrderlyStep DEF Orderly, CarriedKnown
    <2>5. \A u \in Threads \ {t} : EntryOf(u)'
      BY <1>1, <2>2, <2>3, <2>4, OthersEntry
    <2>6. EntryOf(t)'
      BY <1>1, <1>4, <2>2, OwnEntry
    <2>7. \A u \in Threads \ {t} : Backed(u)'
      BY <1>1, <2>2, <2>3, OthersBacked
    <2>8. ASSUME NEW c \in Live
          PROVE  /\ Balanced(c)'
                 /\ \/ Total(todo'[t], Gain(c)) <= 0
                    \/ /\ pc'[t] = "return"
                       /\ frame'[t].keeps \in DOMAIN g_registry'
                       /\ Total(todo'[t], Gain(c))
                            <= Counted(c, g_registry'[frame'[t].keeps].requested_size)
      BY <1>2, <1>4, <2>2, OwnLedger
    <2>9. Backed(t)'
      BY <2>8 DEF Backed
    <2> QED
      BY <2>5, <2>6, <2>7, <2>8, <2>9
  <1> QED
    BY <1>3, <1>4 DEF LedgerInv

\* The ledger is balanced at the start: nothing is tracked, counted or owed.
LEMMA LedgerInit == Init => LedgerInv
  <1> SUFFICES ASSUME Init PROVE LedgerInv
    OBVIOUS
  <1>1. /\ \A t \in Threads : pc[t] = "idle" /\ todo[t] = <<>>
        /\ todo \in [Threads -> Seq(Accesses)]
        /\ DOMAIN g_registry = {}
    BY DEF Init
  <1>2. \A c : Total(<<>>, Gain(c)) = 0 /\ Total(<<>>, Net(c)) = 0
    BY ValueTypes, TotalEmpty
  <1>3. \A t \in Threads : Settled(t) /\ EntryOf(t) /\ Backed(t)
    BY <1>1, <1>2 DEF Settled, EntryOf, Backed
  <1>4. ASSUME NEW c \in Live  PROVE Balanced(c)
    <2>1. g_stats[c] = 0
      BY DEF Init, Live, Counters
    <2>2. CountedIn(g_registry, c) = 0
      BY <1>1, SumEmpty DEF CountedIn
    <2>3. Owed(c) = 0
      <3> DEFINE f == [u \in Threads |-> Total(todo[u], Net(c))]
      <3>1. Owed(c) = SumFunctionOnSet(f, Threads)
        BY <1>1, OwedIs
      <3>2. \A u \in Threads : f[u] = 0
        BY <1>1, <1>2
      <3> HIDE DEF f
      <3> QED
        BY <3>1, <3>2, ThreadsAssumption, SumZero
    <2>4. g_stats[c] + Owed(c) = CountedIn(g_registry, c) + 0 * Modulus
      BY <2>1, <2>2, <2>3, BoundsAssumption
    <2> QED
      BY <2>4 DEF Balanced
  <1> QED
    BY <1>3, <1>4 DEF LedgerInv

\* A step that changes nothing keeps it too.
LEMMA LedgerStutter == LedgerInv /\ UNCHANGED vars => LedgerInv'
  <1> SUFFICES ASSUME LedgerInv, UNCHANGED vars PROVE LedgerInv'
    OBVIOUS
  <1>1. UNCHANGED <<reused, g_registry, g_stats, pc, frame, todo>>
    BY DEF vars, memory, table, stats
  <1>2. \A t \in Threads :
           /\ Settled(t)' <=> Settled(t)
           /\ EntryOf(t)' <=> EntryOf(t)
           /\ Backed(t)' <=> Backed(t)
    BY <1>1 DEF Settled, EntryOf, Backed
  <1>3. \A c \in Live : Balanced(c)' <=> Balanced(c)
    <2>1. \A c \in Live : Owed(c)' = Owed(c)
      BY <1>1 DEF Owed
    <2> QED
      BY <1>1, <2>1 DEF Balanced
  <1> QED
    BY <1>1, <1>2, <1>3 DEF LedgerInv

\* What work adds on balance is at most what it adds.
LEMMA NetWithinGain ==
    ASSUME NEW work \in Seq(Accesses), NEW c
    PROVE  Total(work, Net(c)) <= Total(work, Gain(c))
  <1> DEFINE S == 1 .. Len(work)
             N == Net(c)
             G == Gain(c)
             b == [i \in S |-> i]
  <1>1. N \in [Accesses -> Int] /\ G \in [Accesses -> Int]
    BY ValueTypes
  <1>2. \A x \in Accesses : N[x] <= G[x] /\ G[x] \in Nat
    BY DEF Net, Gain, Accesses
  <1>3. \A i \in S : work[i] \in Accesses
    OBVIOUS
  <1>4. IsFiniteSet(S)
    BY FS_Interval
  <1> HIDE DEF N, G
  <1>5. PICK f :
           /\ f \in [S -> Int] /\ f = [i \in S |-> N[work[i]]]
           /\ Total(work, N) = SumFunctionOnSet(f, S)
    BY <1>1, TotalIs
  <1>6. PICK g :
           /\ g \in [S -> Int] /\ g = [i \in S |-> G[work[i]]]
           /\ Total(work, G) = SumFunctionOnSet(g, S)
    BY <1>1, TotalIs
  <1>7. \A i \in S : f[i] \in Int /\ g[i] \in Nat /\ f[i] <= g[i]
    BY <1>2, <1>3, <1>5, <1>6
  <1>8. \A i \in S : b[i] = i
    OBVIOUS
  <1> HIDE DEF S, b
  <1>9. SumFunctionOnSet(f, S) <= SumFunctionOnSet(g, S)
    <2>1. /\ \A x \in S : f[x] \in Int
          /\ \A y \in S : g[y] \in Nat
          /\ \A x \in S : b[x] \in S
          /\ \A x, y \in S : b[x] = b[y] => x = y
          /\ \A x \in S \cap S : f[x] <= g[b[x]]
          /\ \A x \in S \ S : f[x] <= 0
      BY <1>7, <1>8
    <2> QED
      BY <1>4, <2>1, SumCovered
  <1> QED
    BY <1>5, <1>6, <1>9 DEF N, G

\* What is owed to a live counter is at most what the entries count for: each
\* call adds for the block it returns, and no two return the same one.
LEMMA OwedCovered ==
    ASSUME TypeOK, FramesOK, Custody, \A t \in Threads : Backed(t), NEW c \in Live
    PROVE  Owed(c) <= CountedIn(g_registry, c)
  <1> DEFINE f == [u \in Threads |-> Total(todo[u], Net(c))]
             T == DOMAIN g_registry
             g == [a \in DOMAIN g_registry |-> Counted(c, g_registry[a].requested_size)]
             P == {u \in Threads : ~(Total(todo[u], Gain(c)) <= 0)}
             b == [u \in Threads |-> frame[u].keeps]
  <1>1. todo \in [Threads -> Seq(Accesses)] /\ IsRegistry(g_registry)
    BY DEF TypeOK, FramesOK, IsRegistry
  <1>2. Owed(c) = SumFunctionOnSet(f, Threads) /\ \A u \in Threads : f[u] \in Int
    BY <1>1, OwedIs
  <1>3. CountedIn(g_registry, c) = SumFunctionOnSet(g, T)
    BY DEF CountedIn
  <1>4. IsFiniteSet(T) /\ \A a \in T : g[a] \in Nat
    BY <1>1, CountedType
  <1>5. \A u \in Threads :
           /\ f[u] <= Total(todo[u], Gain(c))
           /\ Total(todo[u], Gain(c)) \in Int
    BY <1>1, NetWithinGain, TotalType, ValueTypes
  <1>6. \A u \in P :
           /\ pc[u] = "return" /\ frame[u].keeps \in T
           /\ Total(todo[u], Gain(c)) <= g[frame[u].keeps]
    BY DEF Backed
  <1>7. ASSUME NEW u \in P, NEW v \in P, b[u] = b[v]  PROVE u = v
    <2>1. Carried(u) = frame[u].keeps /\ Carried(v) = frame[v].keeps
      BY <1>6 DEF Carried, NewLabels, PtrLabels
    <2>2. frame[u].keeps = frame[v].keeps /\ frame[u].keeps # NULL
      BY <1>6, <1>7, NullAssumption DEF TypeOK
    <2> QED
      BY <2>1, <2>2 DEF Custody
  <1>8. /\ \A u \in P : b[u] \in T
        /\ \A u \in Threads \cap P : f[u] <= g[b[u]]
        /\ \A u \in Threads \ P : f[u] <= 0
    <2>1. ASSUME NEW u \in P  PROVE b[u] \in T /\ f[u] <= g[b[u]]
      <3>1. b[u] = frame[u].keeps /\ g[b[u]] \in Nat /\ f[u] \in Int
        BY <1>2, <1>4, <1>6
      <3> HIDE DEF f, g, b
      <3> QED
        BY <1>5, <1>6, <3>1
    <2>2. ASSUME NEW u \in Threads \ P  PROVE f[u] <= 0
      <3>1. f[u] \in Int /\ Total(todo[u], Gain(c)) <= 0
        BY <1>2
      <3> HIDE DEF f
      <3> QED
        BY <1>5, <3>1
    <2> QED
      BY <2>1, <2>2
  <1>9. SumFunctionOnSet(f, Threads) <= SumFunctionOnSet(g, T)
    <2> HIDE DEF f, g, T, P, b
    <2>1. \A u, v \in P : b[u] = b[v] => u = v
      BY <1>7
    <2> QED
      BY <1>2, <1>4, <1>8, <2>1, ThreadsAssumption, SumCovered
  <1> QED
    BY <1>2, <1>3, <1>9

\* What the live counters stand for, once the accesses in progress are made, is
\* below the modulus of their type.
LedgerFits ==
    /\ Cardinality(DOMAIN g_registry) - Owed("live_blocks") < Modulus
    /\ TrackedBytes - Owed("live_bytes") < Modulus

\* Two numbers below the modulus that differ by a multiple of it are equal.
LEMMA SameResidue ==
    ASSUME NEW m \in Nat \ {0}, NEW x \in 0 .. m - 1, NEW y \in 0 .. m - 1,
           NEW k \in Int, x = y + k * m
    PROVE  x = y
  <1> DEFINE d == k * m
  <1>1. d \in Int /\ d < m /\ -m < d
    BY SMT
  <1>2. k >= 1 => d >= m
    BY SMT
  <1>3. k <= -1 => d <= -m
    BY SMT
  <1>4. k = 0
    BY <1>1, <1>2, <1>3
  <1> QED
    BY <1>4

\* A balanced counter that does not wrap is exact.
LEMMA BalancedExact ==
    ASSUME TypeOK, FramesOK, Custody, \A t \in Threads : Backed(t), NEW c \in Live,
           Balanced(c), CountedIn(g_registry, c) - Owed(c) < Modulus
    PROVE  g_stats[c] + Owed(c) = CountedIn(g_registry, c)
  <1> DEFINE r == CountedIn(g_registry, c)
             o == Owed(c)
             x == g_stats[c]
             y == r - o
  <1>1. o \in Int
    <2> DEFINE f == [u \in Threads |-> Total(todo[u], Net(c))]
    <2>1. o = SumFunctionOnSet(f, Threads) /\ \A u \in Threads : f[u] \in Int
      BY OwedIs DEF FramesOK
    <2> HIDE DEF f, o
    <2> QED
      BY <2>1, ThreadsAssumption, SumTakes
  <1>2. r \in Nat
    BY CountedType DEF TypeOK, FramesOK, IsRegistry
  <1>3. Modulus \in Nat \ {0} /\ x \in 0 .. Modulus - 1
    BY BoundsAssumption DEF TypeOK, Live, Counters
  <1>4. o <= r
    BY OwedCovered
  <1>5. PICK k \in Int : x + o = r + k * Modulus
    BY DEF Balanced
  <1>6. y < Modulus
    OBVIOUS
  <1> HIDE DEF r, o, x
  <1>7. y \in 0 .. Modulus - 1
    BY <1>1, <1>2, <1>3, <1>4, <1>6
  <1>8. x = y + k * Modulus
    <2> DEFINE km == k * Modulus
    <2>1. km \in Int /\ x + o = r + km
      BY <1>3, <1>5
    <2> HIDE DEF km
    <2>2. x = y + km
      BY <1>1, <1>2, <1>3, <2>1
    <2> QED
      BY <2>2 DEF km
  <1> HIDE DEF y
  <1>9. x = y
    BY <1>3, <1>7, <1>8, SameResidue
  <1>10. x + o = r
    BY <1>1, <1>2, <1>3, <1>9 DEF y
  <1> QED
    BY <1>10 DEF x, o, r

\* live_blocks and live_bytes never lose, repeat or misjudge an update: with the
\* accesses that calls in progress have still to make, they are the number and the
\* total size of the registry's entries, for any number of threads and whatever
\* ao_mock_reset clears, as long as no address is reused under an unfinished
\* realloc and the two numbers fit in the counters.
THEOREM LedgerBalances == Spec => [](LedgerFits => LiveLedger)
  <1>1. Inv /\ LedgerInv /\ [Next]_vars => LedgerInv'
    BY LedgerStep, LedgerStutter DEF Next, Stopped
  <1>2. ASSUME Inv, LedgerInv, LedgerFits, ~reused
        PROVE  /\ g_stats["live_blocks"] + Owed("live_blocks")
                    = Cardinality(DOMAIN g_registry)
               /\ g_stats["live_bytes"] + Owed("live_bytes") = TrackedBytes
    <2>1. TypeOK /\ FramesOK /\ Custody
      BY <1>2 DEF Inv
    <2>2. (\A t \in Threads : Backed(t)) /\ \A c \in Live : Balanced(c)
      BY <1>2 DEF LedgerInv
    <2>3. /\ CountedIn(g_registry, "live_blocks") = Cardinality(DOMAIN g_registry)
          /\ CountedIn(g_registry, "live_bytes") = TrackedBytes
      BY <2>1, CountedIs DEF TypeOK, FramesOK, IsRegistry
    <2>4. /\ CountedIn(g_registry, "live_blocks") - Owed("live_blocks") < Modulus
          /\ CountedIn(g_registry, "live_bytes") - Owed("live_bytes") < Modulus
      BY <1>2, <2>3 DEF LedgerFits
    <2>5. "live_blocks" \in Live /\ "live_bytes" \in Live
      BY DEF Live
    <2>6. \A c \in Live : CountedIn(g_registry, c) - Owed(c) < Modulus
             => g_stats[c] + Owed(c) = CountedIn(g_registry, c)
      BY <2>1, <2>2, BalancedExact
    <2> QED
      BY <2>3, <2>4, <2>5, <2>6
  <1>3. Inv /\ LedgerInv => (LedgerFits => LiveLedger)
    BY <1>2 DEF LiveLedger
  <1>4. QED
    BY Invariance, LedgerInit, <1>1, <1>3, PTL DEF Spec

-----------------------------------------------------------------------------
(* The captured counters: what the calls record.                           *)

\* The counters that ao_record_* functions add to and ao_mock_reset clears, and
\* those among them that count calls.
Captured == Counters \ Live
Tallies  == Captured \ {"successful_allocation_bytes"}

\* What CountersAgree says of the counters.
Agree(v) ==
    /\ v["successful_allocations"] <=
          v["malloc_calls"] + v["calloc_calls"] + v["realloc_calls"]
    /\ v["malloc_calls"] + v["calloc_calls"] <= v["successful_allocations"]
    /\ v["bypass_realloc_calls"] <= v["realloc_calls"]
    /\ v["bypass_free_calls"] <= v["free_calls"]
    /\ v["successful_allocations"] = 0 => v["successful_allocation_bytes"] = 0

\* What the adds of one record come to keeps the counters in agreement, and adds
\* at most 1 to a tally.
Recorded(adds) == [c \in Counters |-> Total(adds, Net(c))]
Fair(adds) ==
    /\ Recorded(adds) \in [Counters -> Nat]
    /\ Agree(Recorded(adds))
    /\ \A c \in Tallies : Recorded(adds)[c] <= 1

\* The records of work, counted.
Records == [x \in Accesses |-> IF x.op = "record" THEN 1 ELSE 0]

\* Work with at most n records, all of them fair, that clears no counter and adds
\* to no captured one outside its records.
Quiet(work, n) ==
    /\ work \in Seq(Accesses)
    /\ \A i \in DOMAIN work :
          /\ work[i].op # "store"
          /\ work[i].op = "record" => Fair(work[i].adds)
    /\ Total(work, Records) <= n
    /\ \A c \in Captured : Total(work, Net(c)) = 0

LEMMA RecordsType == Records \in [Accesses -> Int]
  BY DEF Records

\* What one, two and three accesses come to.
LEMMA TotalFew ==
    ASSUME NEW val, val \in [Accesses -> Int],
           NEW x \in Accesses, NEW y \in Accesses, NEW z \in Accesses
    PROVE  /\ Total(<<x>>, val) = val[x]
           /\ Total(<<x>> \o <<>>, val) = val[x]
           /\ Total(<<x>> \o <<y>>, val) = val[x] + val[y]
           /\ Total(<<x, y>>, val) = val[x] + val[y]
           /\ Total(<<x, y, z>>, val) = val[x] + val[y] + val[z]
  <1>1. /\ Total(<<x>>, val) = val[x] /\ Total(<<y>>, val) = val[y]
        /\ Total(<<z>>, val) = val[z] /\ Total(<<>>, val) = 0
    BY TotalOne, TotalEmpty
  <1>2. /\ <<x>> \in Seq(Accesses) /\ <<y>> \in Seq(Accesses)
        /\ <<z>> \in Seq(Accesses) /\ <<>> \in Seq(Accesses)
        /\ val[x] \in Int /\ val[y] \in Int /\ val[z] \in Int
    OBVIOUS
  <1>3. Total(<<x>> \o <<>>, val) = val[x]
    <2>1. Total(<<x>> \o <<>>, val) = Total(<<x>>, val) + Total(<<>>, val)
      BY <1>2, TotalJoin
    <2> QED
      BY <1>1, <1>2, <2>1
  <1>4. Total(<<x>> \o <<y>>, val) = val[x] + val[y]
    <2>1. Total(<<x>> \o <<y>>, val) = Total(<<x>>, val) + Total(<<y>>, val)
      BY <1>2, TotalJoin
    <2> QED
      BY <1>1, <2>1
  <1> DEFINE e == <<x>> \o <<y>>
             d == <<x, y>>
             h == <<z>>
             f == d \o h
             g == <<x, y, z>>
  <1>5. e = d
    <2>1. e \in Seq(Accesses) /\ Len(e) = 2 /\ e[1] = x /\ e[2] = y
      OBVIOUS
    <2>2. d \in Seq(Accesses) /\ Len(d) = 2 /\ d[1] = x /\ d[2] = y
      OBVIOUS
    <2> HIDE DEF d, e
    <2>3. \A i \in 1 .. 2 : d[i] = e[i]
      BY <2>1, <2>2
    <2> QED
      BY <2>1, <2>2, <2>3
  <1>6. d \in Seq(Accesses) /\ Total(d, val) = val[x] + val[y]
    <2>1. d \in Seq(Accesses)
      OBVIOUS
    <2>2. Total(e, val) = val[x] + val[y]
      BY <1>4
    <2> HIDE DEF d, e
    <2> QED
      BY <1>5, <2>1, <2>2
  <1>7. f = g
    <2>1. d \in Seq(Accesses) /\ Len(d) = 2 /\ d[1] = x /\ d[2] = y
      OBVIOUS
    <2>2. g \in Seq(Accesses) /\ Len(g) = 3 /\ g[1] = x /\ g[2] = y /\ g[3] = z
      OBVIOUS
    <2>3. h \in Seq(Accesses) /\ Len(h) = 1 /\ h[1] = z
      OBVIOUS
    <2> HIDE DEF d, g, h
    <2>4. f \in Seq(Accesses) /\ Len(f) = 3 /\ f[1] = x /\ f[2] = y /\ f[3] = z
      <3>1. f \in Seq(Accesses) /\ Len(f) = Len(d) + Len(h)
        <4>1. d \in Seq(Accesses) /\ h \in Seq(Accesses)
          BY <2>1, <2>3
        <4> QED
          BY ONLY <4>1
      <3>a. \A i \in 1 .. Len(d) + Len(h) :
               f[i] = IF i <= Len(d) THEN d[i] ELSE h[i - Len(d)]
        <4>1. d \in Seq(Accesses) /\ h \in Seq(Accesses)
          BY <2>1, <2>3
        <4> QED
          BY ONLY <4>1
      <3>2. /\ Len(f) = 3
            /\ \A i \in 1 .. 3 : f[i] = IF i <= 2 THEN d[i] ELSE h[i - 2]
        BY <2>1, <2>3, <3>1, <3>a
      <3> HIDE DEF f
      <3>3. f[1] = d[1] /\ f[2] = d[2] /\ f[3] = h[1]
        BY <3>2
      <3> QED
        BY <2>1, <2>3, <3>1, <3>2, <3>3
    <2> HIDE DEF f
    <2>5. \A i \in 1 .. 3 : f[i] = g[i]
      BY <2>2, <2>4
    <2> QED
      BY <2>2, <2>4, <2>5, SMTT(30)
  <1>8. Total(g, val) = val[x] + val[y] + val[z]
    <2>1. h \in Seq(Accesses) /\ Total(h, val) = val[z]
      BY <1>1, <1>2
    <2> HIDE DEF d, h
    <2>2. Total(f, val) = Total(d, val) + Total(h, val)
      BY <1>6, <2>1, TotalJoin
    <2> HIDE DEF f, g
    <2> QED
      BY <1>6, <1>7, <2>1, <2>2
  <1> QED
    BY <1>1, <1>3, <1>4, <1>5, <1>6, <1>8

\* The adds of every ao_record_* function are fair.
LEMMA RecordsFair ==
    /\ Fair(<<Add("failed_allocations", 1)>>)
    /\ \A kind \in 0 .. 2, size \in Nat :
          Fair(<<Add(<<"malloc_calls", "calloc_calls", "realloc_calls">>[kind + 1], 1),
                 Add("successful_allocations", 1),
                 Add("successful_allocation_bytes", size)>>)
    /\ Fair(<<Add("free_calls", 1)>> \o <<>>)
    /\ Fair(<<Add("free_calls", 1)>> \o <<Add("bypass_free_calls", 1)>>)
    /\ Fair(<<Add("realloc_calls", 1)>> \o <<>>)
    /\ Fair(<<Add("realloc_calls", 1)>> \o <<Add("bypass_realloc_calls", 1)>>)
  <1>1. \A d \in Counters, n \in Int :
           /\ Add(d, n) \in Accesses
           /\ \A c : Net(c)[Add(d, n)] = IF d = c THEN n ELSE 0
    <2>1. \A d \in Counters, n \in Int : Add(d, n) \in Accesses
      BY AddTypes
    <2> QED
      BY <2>1 DEF Net, Add
  <1>2. \A c : Net(c) \in [Accesses -> Int]
    BY ValueTypes
  <1> DEFINE Part(d, n, c) == IF d = c THEN n ELSE 0
  <1>3. ASSUME NEW d \in Counters, NEW m \in Int
        PROVE  /\ Recorded(<<Add(d, m)>>) = [c \in Counters |-> Part(d, m, c)]
               /\ Recorded(<<Add(d, m)>> \o <<>>) = [c \in Counters |-> Part(d, m, c)]
    <2> DEFINE x == Add(d, m)
    <2>1. x \in Accesses /\ \A c : Net(c)[x] = Part(d, m, c)
      BY <1>1
    <2> HIDE DEF x, Part
    <2>2. ASSUME NEW c
          PROVE  /\ Total(<<x>>, Net(c)) = Part(d, m, c)
                 /\ Total(<<x>> \o <<>>, Net(c)) = Part(d, m, c)
      <3> DEFINE N == Net(c)
      <3>1. N[x] = Part(d, m, c) /\ N \in [Accesses -> Int]
        BY <1>2, <2>1
      <3> HIDE DEF N
      <3>2. Total(<<x>>, N) = N[x] /\ Total(<<x>> \o <<>>, N) = N[x]
        BY <2>1, <3>1, TotalFew
      <3> QED
        BY <3>1, <3>2 DEF N
    <2>3. /\ Recorded(<<x>>) = [c \in Counters |-> Part(d, m, c)]
          /\ Recorded(<<x>> \o <<>>) = [c \in Counters |-> Part(d, m, c)]
      BY <2>2 DEF Recorded
    <2> QED
      BY <2>3 DEF x
  <1>4. ASSUME NEW d \in Counters, NEW e \in Counters, NEW m \in Int, NEW n \in Int
        PROVE  Recorded(<<Add(d, m)>> \o <<Add(e, n)>>)
                 = [c \in Counters |-> Part(d, m, c) + Part(e, n, c)]
    <2> DEFINE x == Add(d, m)
               y == Add(e, n)
    <2>1. /\ x \in Accesses /\ y \in Accesses
          /\ \A c : Net(c)[x] = Part(d, m, c) /\ Net(c)[y] = Part(e, n, c)
      BY <1>1
    <2> HIDE DEF x, y, Part
    <2>2. ASSUME NEW c
          PROVE  Total(<<x>> \o <<y>>, Net(c)) = Part(d, m, c) + Part(e, n, c)
      <3> DEFINE N == Net(c)
      <3>1. /\ N[x] = Part(d, m, c) /\ N[y] = Part(e, n, c)
            /\ N \in [Accesses -> Int]
        BY <1>2, <2>1
      <3> HIDE DEF N
      <3>2. Total(<<x>> \o <<y>>, N) = N[x] + N[y]
        BY <2>1, <3>1, TotalFew
      <3> QED
        BY <3>1, <3>2 DEF N
    <2>3. Recorded(<<x>> \o <<y>>)
            = [c \in Counters |-> Part(d, m, c) + Part(e, n, c)]
      BY <2>2 DEF Recorded
    <2> QED
      BY <2>3 DEF x, y
  <1>5. ASSUME NEW d \in Counters, NEW e \in Counters, NEW g \in Counters,
               NEW m \in Int, NEW n \in Int, NEW k \in Int
        PROVE  Recorded(<<Add(d, m), Add(e, n), Add(g, k)>>)
                 = [c \in Counters |-> Part(d, m, c) + Part(e, n, c) + Part(g, k, c)]
    <2> DEFINE x == Add(d, m)
               y == Add(e, n)
               z == Add(g, k)
    <2>1. /\ x \in Accesses /\ y \in Accesses /\ z \in Accesses
          /\ \A c : /\ Net(c)[x] = Part(d, m, c) /\ Net(c)[y] = Part(e, n, c)
                    /\ Net(c)[z] = Part(g, k, c)
      BY <1>1
    <2> HIDE DEF x, y, z, Part
    <2>2. ASSUME NEW c
          PROVE  Total(<<x, y, z>>, Net(c))
                   = Part(d, m, c) + Part(e, n, c) + Part(g, k, c)
      <3> DEFINE N == Net(c)
      <3>1. /\ N[x] = Part(d, m, c) /\ N[y] = Part(e, n, c) /\ N[z] = Part(g, k, c)
            /\ N \in [Accesses -> Int]
        BY <1>2, <2>1
      <3> HIDE DEF N
      <3>2. Total(<<x, y, z>>, N) = N[x] + N[y] + N[z]
        BY <2>1, <3>1, TotalFew
      <3> QED
        BY <3>1, <3>2 DEF N
    <2>3. Recorded(<<x, y, z>>)
            = [c \in Counters |-> Part(d, m, c) + Part(e, n, c) + Part(g, k, c)]
      BY <2>2 DEF Recorded
    <2> QED
      BY <2>3 DEF x, y, z
  <1> HIDE DEF Part
  <1>6. Fair(<<Add("failed_allocations", 1)>>)
    <2>1. Recorded(<<Add("failed_allocations", 1)>>)
            = [c \in Counters |-> Part("failed_allocations", 1, c)]
      BY <1>3 DEF Counters
    <2> QED
      BY <2>1 DEF Part, Fair, Agree, Tallies, Captured, Live, Counters
  <1>7. ASSUME NEW kind \in 0 .. 2, NEW size \in Nat
        PROVE  Fair(<<Add(<<"malloc_calls", "calloc_calls", "realloc_calls">>[kind + 1], 1),
                      Add("successful_allocations", 1),
                      Add("successful_allocation_bytes", size)>>)
    <2> DEFINE d == <<"malloc_calls", "calloc_calls", "realloc_calls">>[kind + 1]
    <2>1. d \in {"malloc_calls", "calloc_calls", "realloc_calls"}
      OBVIOUS
    <2> HIDE DEF d
    <2>2. d \in Counters /\ "successful_allocations" \in Counters
          /\ "successful_allocation_bytes" \in Counters
      BY <2>1 DEF Counters
    <2> DEFINE a == <<Add(d, 1), Add("successful_allocations", 1),
                      Add("successful_allocation_bytes", size)>>
    <2>3. Recorded(a) = [c \in Counters |->
             Part(d, 1, c) + Part("successful_allocations", 1, c)
               + Part("successful_allocation_bytes", size, c)]
      BY <1>5, <2>2
    <2> HIDE DEF a
    <2>4. Fair(a)
      BY <2>1, <2>3 DEF Part, Fair, Agree, Tallies, Captured, Live, Counters
    <2> QED
      BY <2>4 DEF a, d
  <1>8. ASSUME NEW d \in {"free_calls", "realloc_calls"}
        PROVE  Fair(<<Add(d, 1)>> \o <<>>)
    <2>1. Recorded(<<Add(d, 1)>> \o <<>>) = [c \in Counters |-> Part(d, 1, c)]
      BY <1>3 DEF Counters
    <2> DEFINE a == <<Add(d, 1)>> \o <<>>
    <2> HIDE DEF a
    <2>2. Recorded(a) = [c \in Counters |-> Part(d, 1, c)]
      BY <2>1 DEF a
    <2>3. Fair(a)
      BY <2>2 DEF Part, Fair, Agree, Tallies, Captured, Live, Counters
    <2> QED
      BY <2>3 DEF a
  <1>9. ASSUME NEW d, NEW e,
               \/ d = "free_calls" /\ e = "bypass_free_calls"
               \/ d = "realloc_calls" /\ e = "bypass_realloc_calls"
        PROVE  Fair(<<Add(d, 1)>> \o <<Add(e, 1)>>)
    <2> DEFINE a == <<Add(d, 1)>> \o <<Add(e, 1)>>
    <2>1. d \in Counters /\ e \in Counters
      BY <1>9 DEF Counters
    <2>2. Recorded(a) = [c \in Counters |-> Part(d, 1, c) + Part(e, 1, c)]
      BY <1>4, <2>1
    <2> HIDE DEF a
    <2>3. Fair(a)
      BY <1>9, <2>2 DEF Part, Fair, Agree, Tallies, Captured, Live, Counters
    <2> QED
      BY <2>3 DEF a
  <1> QED
    BY <1>6, <1>7, <1>8, <1>9

\* A record is quiet, one piece of work after another is quiet, and so is all
\* the work that the calls leave to be done, but for a reset.
LEMMA QuietJoin ==
    ASSUME NEW v, NEW w, NEW m \in Nat, NEW n \in Nat, Quiet(v, m), Quiet(w, n)
    PROVE  Quiet(v \o w, m + n)
  <1>1. v \in Seq(Accesses) /\ w \in Seq(Accesses)
    BY DEF Quiet
  <1>2. v \o w \in Seq(Accesses) /\ Len(v \o w) = Len(v) + Len(w)
    BY <1>1
  <1>3. \A i \in DOMAIN (v \o w) :
           (\E j \in DOMAIN v : (v \o w)[i] = v[j]) \/ (\E j \in DOMAIN w : (v \o w)[i] = w[j])
    BY <1>1
  <1>4. \A i \in DOMAIN (v \o w) :
           /\ (v \o w)[i].op # "store"
           /\ (v \o w)[i].op = "record" => Fair((v \o w)[i].adds)
    BY <1>3 DEF Quiet
  <1>5. Total(v \o w, Records) <= m + n
    <2>1. Total(v \o w, Records) = Total(v, Records) + Total(w, Records)
      BY <1>1, RecordsType, TotalJoin
    <2>2. Total(v, Records) \in Int /\ Total(w, Records) \in Int
      BY <1>1, RecordsType, TotalType
    <2>3. Total(v, Records) <= m /\ Total(w, Records) <= n
      BY DEF Quiet
    <2> QED
      BY <2>1, <2>2, <2>3
  <1>6. ASSUME NEW c \in Captured  PROVE Total(v \o w, Net(c)) = 0
    <2>1. Net(c) \in [Accesses -> Int]
      BY ValueTypes
    <2> DEFINE N == Net(c)
    <2>2. Total(v, N) = 0 /\ Total(w, N) = 0
      BY DEF Quiet
    <2> HIDE DEF N
    <2>3. Total(v \o w, N) = Total(v, N) + Total(w, N)
      BY <1>1, <2>1, TotalJoin DEF N
    <2>4. Total(v \o w, N) = 0
      BY <2>2, <2>3
    <2> QED
      BY <2>4 DEF N
  <1> QED
    BY <1>2, <1>4, <1>5, <1>6 DEF Quiet

LEMMA QuietRecord ==
    ASSUME NEW adds \in Seq(Adds), Fair(adds)
    PROVE  Quiet(Record(adds), 1)
  <1> DEFINE x == [op |-> "record", counter |-> "none", n |-> 0, adds |-> adds]
  <1>1. x \in Accesses /\ x.op = "record" /\ x.adds = adds
    BY DEF Accesses
  <1>2. Records[x] = 1 /\ \A c : Net(c)[x] = 0
    BY <1>1 DEF Records, Net
  <1>3. Record(adds) = <<x>>
    BY DEF Record
  <1> HIDE DEF x
  <1>4. /\ <<x>> \in Seq(Accesses) /\ DOMAIN <<x>> = {1} /\ <<x>>[1] = x
    BY <1>1
  <1>5. Total(<<x>>, Records) = 1
    BY <1>1, <1>2, RecordsType, TotalOne
  <1>6. ASSUME NEW c \in Captured  PROVE Total(<<x>>, Net(c)) = 0
    <2> DEFINE N == Net(c)
    <2>1. N \in [Accesses -> Int] /\ N[x] = 0
      BY <1>2, ValueTypes
    <2> HIDE DEF N
    <2>2. Total(<<x>>, N) = 0
      BY <1>1, <2>1, TotalOne
    <2> QED
      BY <2>2 DEF N
  <1>7. Quiet(<<x>>, 1)
    BY <1>1, <1>4, <1>5, <1>6 DEF Quiet
  <1> QED
    BY <1>3, <1>7

\* The accesses to the live counters have no record and touch no captured one.
LEMMA QuietLive ==
    ASSUME NEW work \in Seq(Accesses),
           \A i \in DOMAIN work : work[i].op = "add" /\ work[i].counter \in Live
    PROVE  Quiet(work, 0)
  <1>1. \A i \in DOMAIN work : work[i] \in Accesses
    OBVIOUS
  <1>2. Total(work, Records) = 0
    <2>1. \A i \in DOMAIN work : Records[work[i]] = 0
      BY <1>1 DEF Records
    <2> QED
      BY <2>1, RecordsType, TotalZero
  <1>3. ASSUME NEW c \in Captured  PROVE Total(work, Net(c)) = 0
    <2> DEFINE N == Net(c)
    <2>1. N \in [Accesses -> Int] /\ \A i \in DOMAIN work : N[work[i]] = 0
      BY <1>1, ValueTypes DEF Net, Captured
    <2> HIDE DEF N
    <2>2. Total(work, N) = 0
      BY <2>1, TotalZero
    <2> QED
      BY <2>2 DEF N
  <1> QED
    BY <1>2, <1>3 DEF Quiet

LEMMA QuietPieces ==
    /\ Quiet(<<>>, 0)
    /\ Quiet(ao_record_failed_allocation, 1)
    /\ \A kind \in 0 .. 2, size \in Nat :
          Quiet(ao_record_successful_allocation(kind, size), 1)
    /\ Quiet(ao_record_free(TRUE), 1) /\ Quiet(ao_record_free(FALSE), 1)
    /\ Quiet(ao_record_realloc(TRUE), 1) /\ Quiet(ao_record_realloc(FALSE), 1)
    /\ \A size \in Nat : Quiet(ao_live_add(size), 0) /\ Quiet(ao_live_remove(size), 0)
    /\ \A size, other \in Nat : Quiet(ao_live_update(other, size), 0)
  <1>1. /\ \A c \in Captured, n \in Int : Add(c, n) \in Adds
        /\ {"malloc_calls", "calloc_calls", "realloc_calls", "failed_allocations",
            "successful_allocations", "successful_allocation_bytes", "free_calls",
            "bypass_free_calls", "bypass_realloc_calls"} \subseteq Captured
    BY AddTypes DEF Captured, Counters, Live
  <1>2. Quiet(ao_record_failed_allocation, 1)
    <2>1. <<Add("failed_allocations", 1)>> \in Seq(Adds)
      BY <1>1
    <2> QED
      BY <2>1, RecordsFair, QuietRecord DEF ao_record_failed_allocation
  <1>3. ASSUME NEW kind \in 0 .. 2, NEW size \in Nat
        PROVE  Quiet(ao_record_successful_allocation(kind, size), 1)
    <2> DEFINE d == <<"malloc_calls", "calloc_calls", "realloc_calls">>[kind + 1]
               a == <<Add(d, 1), Add("successful_allocations", 1),
                      Add("successful_allocation_bytes", size)>>
    <2>1. d \in {"malloc_calls", "calloc_calls", "realloc_calls"}
      OBVIOUS
    <2>2. Fair(a)
      BY RecordsFair
    <2>3. a \in Seq(Adds)
      <3> HIDE DEF d
      <3> QED
        BY <1>1, <2>1
    <2> HIDE DEF a
    <2>4. Quiet(Record(a), 1)
      BY <2>2, <2>3, QuietRecord
    <2> QED
      BY <2>4 DEF ao_record_successful_allocation, a
  <1>4. ASSUME NEW d \in Captured, NEW e \in Captured
        PROVE  /\ Fair(<<Add(d, 1)>> \o <<>>) => Quiet(Record(<<Add(d, 1)>> \o <<>>), 1)
               /\ Fair(<<Add(d, 1)>> \o <<Add(e, 1)>>)
                    => Quiet(Record(<<Add(d, 1)>> \o <<Add(e, 1)>>), 1)
    <2> DEFINE a == <<Add(d, 1)>> \o <<>>
               b == <<Add(d, 1)>> \o <<Add(e, 1)>>
    <2>1. a \in Seq(Adds) /\ b \in Seq(Adds)
      BY <1>1
    <2> HIDE DEF a, b
    <2>2. (Fair(a) => Quiet(Record(a), 1)) /\ (Fair(b) => Quiet(Record(b), 1))
      BY <2>1, QuietRecord
    <2> QED
      BY <2>2 DEF a, b
  <1>5. Quiet(ao_record_free(TRUE), 1) /\ Quiet(ao_record_free(FALSE), 1)
    BY <1>1, <1>4, RecordsFair DEF ao_record_free
  <1>6. Quiet(ao_record_realloc(TRUE), 1) /\ Quiet(ao_record_realloc(FALSE), 1)
    BY <1>1, <1>4, RecordsFair DEF ao_record_realloc
  <1>7. \A size \in Nat : Quiet(ao_live_add(size), 0) /\ Quiet(ao_live_remove(size), 0)
    <2> SUFFICES ASSUME NEW size \in Nat
                 PROVE  Quiet(ao_live_add(size), 0) /\ Quiet(ao_live_remove(size), 0)
      OBVIOUS
    <2> DEFINE v == ao_live_add(size)
               w == ao_live_remove(size)
    <2>1. /\ v \in Seq(Accesses) /\ w \in Seq(Accesses)
          /\ \A i \in DOMAIN v : v[i].op = "add" /\ v[i].counter \in Live
          /\ \A i \in DOMAIN w : w[i].op = "add" /\ w[i].counter \in Live
      <3>1. v \in Seq(Accesses) /\ w \in Seq(Accesses)
        BY WorkTypes
      <3>2. \A i \in DOMAIN v : v[i].op = "add" /\ v[i].counter \in Live
        BY DEF ao_live_add, Add, Live
      <3>3. \A i \in DOMAIN w : w[i].op = "add" /\ w[i].counter \in Live
        BY DEF ao_live_remove, Add, Live
      <3> QED
        BY <3>1, <3>2, <3>3
    <2> HIDE DEF v, w
    <2>2. Quiet(v, 0) /\ Quiet(w, 0)
      BY <2>1, QuietLive
    <2> QED
      BY <2>2 DEF v, w
  <1>8. \A size, other \in Nat : Quiet(ao_live_update(other, size), 0)
    <2> SUFFICES ASSUME NEW size \in Nat, NEW other \in Nat
                 PROVE  Quiet(ao_live_update(other, size), 0)
      OBVIOUS
    <2> DEFINE v == ao_live_update(other, size)
    <2>1. /\ v \in Seq(Accesses)
          /\ \A i \in DOMAIN v : v[i].op = "add" /\ v[i].counter \in Live
      <3>1. v \in Seq(Accesses)
        BY WorkTypes
      <3>2. \A i \in DOMAIN v : v[i].op = "add" /\ v[i].counter \in Live
        BY DEF ao_live_update, Add, Live
      <3> QED
        BY <3>1, <3>2
    <2> HIDE DEF v
    <2>2. Quiet(v, 0)
      BY <2>1, QuietLive
    <2> QED
      BY <2>2 DEF v
  <1>9. Quiet(<<>>, 0)
    <2> DEFINE v == <<>>
    <2>1. v \in Seq(Accesses) /\ DOMAIN v = {}
      OBVIOUS
    <2> HIDE DEF v
    <2>2. Quiet(v, 0)
      BY <2>1, QuietLive
    <2> QED
      BY <2>2 DEF v
  <1> QED
    BY <1>2, <1>3, <1>5, <1>6, <1>7, <1>8, <1>9

LEMMA QuietWork ==
    /\ \A kind \in 0 .. 2, size \in Nat :
          Quiet(ao_live_add(size) \o ao_record_successful_allocation(kind, size), 1)
    /\ Quiet(ao_record_realloc(FALSE) \o ao_record_failed_allocation, 2)
    /\ \A size \in Nat : Quiet(ao_record_realloc(FALSE) \o ao_live_remove(size), 1)
    /\ \A size, other \in Nat :
          Quiet(ao_record_realloc(FALSE) \o ao_live_update(other, size), 1)
    /\ \A size \in Nat : Quiet(ao_record_free(FALSE) \o ao_live_remove(size), 1)
  <1>1. \A v, w : Quiet(v, 0) /\ Quiet(w, 1) => Quiet(v \o w, 1)
    <2> SUFFICES ASSUME NEW v, NEW w, Quiet(v, 0), Quiet(w, 1)  PROVE Quiet(v \o w, 1)
      OBVIOUS
    <2>1. Quiet(v \o w, 0 + 1)
      BY QuietJoin
    <2> QED
      BY <2>1
  <1>2. \A v, w : Quiet(v, 1) /\ Quiet(w, 0) => Quiet(v \o w, 1)
    <2> SUFFICES ASSUME NEW v, NEW w, Quiet(v, 1), Quiet(w, 0)  PROVE Quiet(v \o w, 1)
      OBVIOUS
    <2>1. Quiet(v \o w, 1 + 0)
      BY QuietJoin
    <2> QED
      BY <2>1
  <1>3. \A v, w : Quiet(v, 1) /\ Quiet(w, 1) => Quiet(v \o w, 2)
    <2> SUFFICES ASSUME NEW v, NEW w, Quiet(v, 1), Quiet(w, 1)  PROVE Quiet(v \o w, 2)
      OBVIOUS
    <2>1. Quiet(v \o w, 1 + 1)
      BY QuietJoin
    <2> QED
      BY <2>1
  <1> QED
    BY <1>1, <1>2, <1>3, QuietPieces, Zenon

\* The records that a call at label l may still leave to be made.
Left(l) ==
    IF l \in {"re_lookup_lock", "re_lookup", "re_tracked"} THEN 2
    ELSE IF l \in {"track_lock", "track", "re_bypass", "re_fix_lock", "re_fix",
                   "fr_lock", "fr_remove"} THEN 1
    ELSE 0

\* A step of a call: it begins here, or it was under way.
Begins(t, n) ==
    /\ pc[t] = "idle" /\ calls' = calls + 1
    /\ \E c : c # "reset" /\ Overlap(t, c)
    /\ n + Left(pc'[t]) <= 2
Proceeds(t, n) ==
    /\ pc[t] # "idle" /\ UNCHANGED <<calls, torn>>
    /\ n + Left(pc'[t]) <= Left(pc[t])

\* What every step but an access to a counter and the start of a reset leaves to
\* be done is quiet, and a call has at most two records made.
LEMMA WorkDone ==
    ASSUME TypeOK, FramesOK, NEW t \in Threads, Settled(t), Call(t) \/ Step(t)
    PROVE  \/ CounterStep(t)
           \/ ao_mock_reset(t)
           \/ /\ todo[t] = <<>> /\ UNCHANGED g_stats
              /\ pc'[t] # "resetting"
              /\ \E n \in 0 .. 2 :
                    Quiet(todo'[t], n) /\ (Begins(t, n) \/ Proceeds(t, n))
  <1>a. /\ pc \in [Threads -> Labels] /\ frame \in [Threads -> Frames]
        /\ todo \in [Threads -> Seq(Accesses)]
        /\ pc[t] = "idle" => todo[t] = <<>>
    BY DEF TypeOK, FramesOK, Settled
  <1>b. /\ Quiet(<<>>, 0) /\ Quiet(ao_record_failed_allocation, 1)
        /\ Quiet(ao_record_realloc(TRUE), 1) /\ Quiet(ao_record_free(TRUE), 1)
        /\ Quiet(ao_record_realloc(FALSE) \o ao_record_failed_allocation, 2)
    BY QuietPieces, QuietWork
  <1>c. frame[t].size \in Nat /\ frame[t].kind \in 0 .. 2 /\ frame[t].old_size \in Nat
    BY <1>a DEF Frames
  <1>d. 0 \in 0 .. 2 /\ 1 \in 0 .. 2 /\ 2 \in 0 .. 2
    OBVIOUS
  <1> DEFINE Rest == /\ todo[t] = <<>> /\ UNCHANGED g_stats
                     /\ pc'[t] # "resetting"
                     /\ \E n \in 0 .. 2 :
                           Quiet(todo'[t], n) /\ (Begins(t, n) \/ Proceeds(t, n))
  <1>e. ASSUME NEW c, c # "reset", Enter(t, c), UNCHANGED g_stats, NEW n \in 0 .. 2,
               Quiet(todo'[t], n), n + Left(pc'[t]) <= 2, pc'[t] # "resetting"
        PROVE  Rest
    BY <1>a, <1>e DEF Enter, Idle, Begins
  <1>f. ASSUME todo[t] = <<>>, pc[t] # "idle", UNCHANGED <<g_stats, calls, torn>>,
               NEW n \in 0 .. 2, Quiet(todo'[t], n), n + Left(pc'[t]) <= Left(pc[t]),
               pc'[t] # "resetting"
        PROVE  Rest
    BY <1>f DEF Proceeds
  <1>g. ASSUME NEW c, c # "reset", Enter(t, c), UNCHANGED g_stats,
               NEW kind, NEW size, NEW a, Allocated(t, kind, size, a)
        PROVE  Rest
    <2>1. CASE todo'[t] = ao_record_failed_allocation /\ pc'[t] = "return"
      <3>1. 1 + Left(pc'[t]) <= 2 /\ Quiet(todo'[t], 1) /\ pc'[t] # "resetting"
        BY <1>b, <2>1 DEF Left
      <3> QED
        BY <1>d, <1>e, <1>g, <3>1
    <2>2. CASE todo'[t] = <<>> /\ pc'[t] = "track_lock"
      <3>1. 0 + Left(pc'[t]) <= 2 /\ Quiet(todo'[t], 0) /\ pc'[t] # "resetting"
        BY <1>b, <2>2 DEF Left
      <3> QED
        BY <1>d, <1>e, <1>g, <3>1
    <2> QED
      BY <1>a, <1>g, <2>1, <2>2 DEF Allocated, Go, Goto
  <1>1. CASE \E size \in Sizes : malloc(t, size)
    <2>1. PICK size, a : Enter(t, "malloc") /\ Allocated(t, 0, size, a) /\ UNCHANGED g_stats
      BY <1>1 DEF malloc, stats
    <2> QED
      BY <1>g, <2>1
  <1>2. CASE \E nmemb, size \in Sizes : calloc(t, nmemb, size)
    <2>1. /\ Enter(t, "calloc") /\ UNCHANGED g_stats
          /\ \/ Go(t, "return", NoFrame, ao_record_failed_allocation)
             \/ \E size, a : Allocated(t, 1, size, a)
      BY <1>2 DEF calloc, stats
    <2>2. CASE Go(t, "return", NoFrame, ao_record_failed_allocation)
      <3>1. 1 + Left(pc'[t]) <= 2 /\ Quiet(todo'[t], 1) /\ pc'[t] # "resetting"
        BY <1>a, <1>b, <2>2 DEF Left, Go, Goto
      <3> QED
        BY <1>d, <1>e, <2>1, <3>1
    <2> QED
      BY <1>g, <2>1, <2>2
  <1>3. CASE \E size \in Sizes : realloc_null(t, size)
    <2>1. PICK size, a :
             Enter(t, "realloc_null") /\ Allocated(t, 2, size, a) /\ UNCHANGED g_stats
      BY <1>3 DEF realloc_null, stats
    <2> QED
      BY <1>g, <2>1
  <1>4. CASE \E p \in Addr, size \in Sizes : realloc(t, p, size)
    <2>1. Enter(t, "realloc") /\ UNCHANGED g_stats
      BY <1>4 DEF realloc, stats
    <2>2. 0 + Left(pc'[t]) <= 2 /\ Quiet(todo'[t], 0) /\ pc'[t] # "resetting"
      BY <1>4, <1>a, <1>b DEF realloc, Go, Goto, Left
    <2> QED
      BY <1>d, <1>e, <2>1, <2>2
  <1>5. CASE \E p \in Addr : free(t, p)
    <2>1. Enter(t, "free") /\ UNCHANGED g_stats
      BY <1>5 DEF free, stats
    <2>2. 0 + Left(pc'[t]) <= 2 /\ Quiet(todo'[t], 0) /\ pc'[t] # "resetting"
      BY <1>5, <1>a, <1>b DEF free, Go, Goto, Left
    <2> QED
      BY <1>d, <1>e, <2>1, <2>2
  <1>6. CASE libc_allocates(t)
    <2>1. Enter(t, "libc") /\ UNCHANGED g_stats
      BY <1>6 DEF libc_allocates, stats
    <2>2. 0 + Left(pc'[t]) <= 2 /\ Quiet(todo'[t], 0) /\ pc'[t] # "resetting"
      BY <1>6, <1>a, <1>b DEF libc_allocates, Enter, Idle, Left
    <2> QED
      BY <1>d, <1>e, <2>1, <2>2
  <1>7. CASE \E p \in Addr : ao_alloc_bridge_owns(t, p)
    <2>1. Enter(t, "bridge") /\ UNCHANGED g_stats
      BY <1>7 DEF ao_alloc_bridge_owns, stats
    <2>2. 0 + Left(pc'[t]) <= 2 /\ Quiet(todo'[t], 0) /\ pc'[t] # "resetting"
      BY <1>7, <1>a, <1>b DEF ao_alloc_bridge_owns, Go, Goto, Left
    <2> QED
      BY <1>d, <1>e, <2>1, <2>2
  <1>8. CASE ao_mock_begin_capture(t)
    <2>1. Enter(t, "begin") /\ UNCHANGED g_stats
      BY <1>8 DEF ao_mock_begin_capture
    <2>2. 0 + Left(pc'[t]) <= 2 /\ Quiet(todo'[t], 0) /\ pc'[t] # "resetting"
      BY <1>8, <1>a, <1>b DEF ao_mock_begin_capture, Enter, Idle, Left
    <2> QED
      BY <1>d, <1>e, <2>1, <2>2
  <1>9. CASE ao_mock_end_capture(t)
    <2>1. Enter(t, "end") /\ UNCHANGED g_stats
      BY <1>9 DEF ao_mock_end_capture
    <2>2. 0 + Left(pc'[t]) <= 2 /\ Quiet(todo'[t], 0) /\ pc'[t] # "resetting"
      BY <1>9, <1>a, <1>b DEF ao_mock_end_capture, Enter, Idle, Goto, Left
    <2> QED
      BY <1>d, <1>e, <2>1, <2>2
  <1>10. CASE ao_mock_reset(t) \/ CounterStep(t)
    BY <1>10
  <1>12. CASE ao_registry_lock(t)
    <2>1. /\ todo[t] = <<>> /\ pc[t] # "idle" /\ UNCHANGED <<g_stats, calls, torn, todo>>
          /\ pc'[t] # "resetting" /\ Left(pc'[t]) = Left(pc[t])
      BY <1>12, <1>a DEF ao_registry_lock, Lock, At, Goto, stats, control, Left
    <2>2. 0 + Left(pc'[t]) <= Left(pc[t]) /\ Quiet(todo'[t], 0)
      BY <1>b, <2>1 DEF Left
    <2> QED
      BY <1>d, <1>f, <2>1, <2>2
  <1>13. CASE ao_track_allocation_or_die(t)
    <2>1. /\ todo[t] = <<>> /\ pc[t] = "track" /\ UNCHANGED <<g_stats, calls, torn>>
          /\ \/ /\ pc'[t] = "return"
                /\ todo'[t] = ao_live_add(frame[t].size)
                     \o ao_record_successful_allocation(frame[t].kind, frame[t].size)
             \/ pc'[t] = "exhausted" /\ todo'[t] = <<>>
      BY <1>13, <1>a DEF ao_track_allocation_or_die, At, Go, Goto, stats, control
    <2>2. CASE pc'[t] = "return"
      <3>1. 1 + Left(pc'[t]) <= Left(pc[t])
        BY <2>1, <2>2 DEF Left
      <3>2. Quiet(todo'[t], 1)
        BY <1>c, <2>1, <2>2, QuietWork
      <3> QED
        BY <1>d, <1>f, <2>1, <2>2, <3>1, <3>2
    <2>3. CASE pc'[t] = "exhausted"
      <3>1. 0 + Left(pc'[t]) <= Left(pc[t])
        BY <2>1, <2>3 DEF Left
      <3>2. Quiet(todo'[t], 0)
        BY <1>b, <2>1, <2>3
      <3> QED
        BY <1>d, <1>f, <2>1, <2>3, <3>1, <3>2
    <2> QED
      BY <2>1, <2>2, <2>3
  <1>14. CASE realloc_lookup(t)
    <2>1. /\ todo[t] = <<>> /\ pc[t] = "re_lookup" /\ UNCHANGED <<g_stats, calls, torn>>
          /\ \/ pc'[t] = "re_tracked" /\ todo'[t] = <<>>
             \/ pc'[t] = "re_bypass" /\ todo'[t] = ao_record_realloc(TRUE)
      BY <1>14, <1>a DEF realloc_lookup, At, Go, Goto, stats, control
    <2>2. CASE pc'[t] = "re_tracked"
      <3>1. 0 + Left(pc'[t]) <= Left(pc[t])
        BY <2>1, <2>2 DEF Left
      <3>2. Quiet(todo'[t], 0)
        BY <1>b, <2>1, <2>2
      <3> QED
        BY <1>d, <1>f, <2>1, <2>2, <3>1, <3>2
    <2>3. CASE pc'[t] = "re_bypass"
      <3>1. 1 + Left(pc'[t]) <= Left(pc[t])
        BY <2>1, <2>3 DEF Left
      <3>2. Quiet(todo'[t], 1)
        BY <1>b, <2>1, <2>3
      <3> QED
        BY <1>d, <1>f, <2>1, <2>3, <3>1, <3>2
    <2> QED
      BY <2>1, <2>2, <2>3
  <1>15. CASE realloc_bypass(t)
    <2>1. /\ todo[t] = <<>> /\ pc[t] = "re_bypass" /\ UNCHANGED <<g_stats, calls, torn>>
          /\ pc'[t] = "return"
          /\ todo'[t] = ao_record_failed_allocation \/ todo'[t] = <<>>
      BY <1>15, <1>a DEF realloc_bypass, At, Go, Goto, stats, control
    <2>2. Quiet(todo'[t], 0) \/ Quiet(todo'[t], 1)
      BY <1>b, <2>1
    <2>3. 0 + Left(pc'[t]) <= Left(pc[t]) /\ 1 + Left(pc'[t]) <= Left(pc[t])
      BY <2>1 DEF Left
    <2> QED
      BY <1>d, <1>f, <2>1, <2>2, <2>3
  <1>16. CASE realloc_tracked(t)
    <2>1. /\ todo[t] = <<>> /\ pc[t] = "re_tracked" /\ UNCHANGED <<g_stats, calls, torn>>
          /\ \/ /\ pc'[t] = "return"
                /\ todo'[t] = ao_record_realloc(FALSE) \o ao_record_failed_allocation
             \/ pc'[t] = "re_fix_lock" /\ todo'[t] = <<>>
      BY <1>16, <1>a DEF realloc_tracked, At, Go, Goto, stats, control
    <2>2. CASE pc'[t] = "return"
      <3>1. 2 + Left(pc'[t]) <= Left(pc[t])
        BY <2>1, <2>2 DEF Left
      <3>2. Quiet(todo'[t], 2)
        BY <1>b, <2>1, <2>2
      <3> QED
        BY <1>d, <1>f, <2>1, <2>2, <3>1, <3>2
    <2>3. CASE pc'[t] = "re_fix_lock"
      <3>1. 0 + Left(pc'[t]) <= Left(pc[t])
        BY <2>1, <2>3 DEF Left
      <3>2. Quiet(todo'[t], 0)
        BY <1>b, <2>1, <2>3
      <3> QED
        BY <1>d, <1>f, <2>1, <2>3, <3>1, <3>2
    <2> QED
      BY <2>1, <2>2, <2>3
  <1>17. CASE realloc_fix(t)
    <2>1. /\ todo[t] = <<>> /\ pc[t] = "re_fix" /\ UNCHANGED <<g_stats, calls, torn>>
          /\ \/ /\ pc'[t] = "return"
                /\ todo'[t] = ao_record_realloc(FALSE) \o ao_live_remove(frame[t].old_size)
             \/ /\ pc'[t] = "return"
                /\ todo'[t] = ao_record_realloc(FALSE)
                                \o ao_live_update(frame[t].old_size, frame[t].size)
             \/ pc'[t] = "exhausted_realloc" /\ todo'[t] = <<>>
      BY <1>17, <1>a DEF realloc_fix, At, Go, Goto, stats, control
    <2>2. CASE pc'[t] = "return"
      <3>1. 1 + Left(pc'[t]) <= Left(pc[t])
        BY <2>1, <2>2 DEF Left
      <3>2. Quiet(todo'[t], 1)
        BY <1>c, <2>1, <2>2, QuietWork
      <3> QED
        BY <1>d, <1>f, <2>1, <2>2, <3>1, <3>2
    <2>3. CASE pc'[t] = "exhausted_realloc"
      <3>1. 0 + Left(pc'[t]) <= Left(pc[t])
        BY <2>1, <2>3 DEF Left
      <3>2. Quiet(todo'[t], 0)
        BY <1>b, <2>1, <2>3
      <3> QED
        BY <1>d, <1>f, <2>1, <2>3, <3>1, <3>2
    <2> QED
      BY <2>1, <2>2, <2>3
  <1>18. CASE free_remove(t)
    <2> DEFINE n == g_registry[frame[t].ptr].requested_size
    <2>1. /\ todo[t] = <<>> /\ pc[t] = "fr_remove" /\ UNCHANGED <<g_stats, calls, torn>>
          /\ pc'[t] = "fr_real"
          /\ \/ /\ frame[t].ptr \in DOMAIN g_registry
                /\ todo'[t] = ao_record_free(FALSE) \o ao_live_remove(n)
             \/ todo'[t] = ao_record_free(TRUE)
      BY <1>18, <1>a DEF free_remove, At, Go, Goto, stats, control
    <2>2. frame[t].ptr \in DOMAIN g_registry => n \in Nat
      BY DEF TypeOK
    <2> HIDE DEF n
    <2>3. Quiet(todo'[t], 1)
      BY <1>b, <2>1, <2>2, QuietWork
    <2>4. 1 + Left(pc'[t]) <= Left(pc[t])
      BY <2>1 DEF Left
    <2> QED
      BY <1>d, <1>f, <2>1, <2>3, <2>4
  <1>19. CASE \/ free_real(t) \/ ao_registry_contains(t) \/ ao_alloc_bridge_libc_free(t)
              \/ (\E size \in Sizes : ao_alloc_bridge_libc_realloc(t, size))
              \/ end_capture_sub(t) \/ ao_fatal(t) \/ Return(t)
    <2>1. /\ todo[t] = <<>> /\ pc[t] # "idle" /\ UNCHANGED <<g_stats, calls, torn>>
          /\ todo'[t] = <<>> /\ pc'[t] # "resetting" /\ Left(pc'[t]) = 0
      <3>1. CASE free_real(t)
        BY <3>1, <1>a DEF free_real, At, Goto, stats, control, Left
      <3>2. CASE ao_registry_contains(t)
        BY <3>2, <1>a DEF ao_registry_contains, At, Goto, stats, control, Left
      <3>3. CASE ao_alloc_bridge_libc_free(t)
        BY <3>3, <1>a DEF ao_alloc_bridge_libc_free, At, Go, Goto, stats, control, Left
      <3>4. CASE \E size \in Sizes : ao_alloc_bridge_libc_realloc(t, size)
        BY <3>4, <1>a DEF ao_alloc_bridge_libc_realloc, At, Go, Goto, stats, control, Left
      <3>5. CASE end_capture_sub(t)
        BY <3>5, <1>a DEF end_capture_sub, At, Goto, control, Left
      <3>6. CASE ao_fatal(t)
        BY <3>6, <1>a DEF ao_fatal, At, stats, Left
      <3>7. CASE Return(t)
        BY <3>7, <1>a DEF Return, At, Go, Goto, stats, control, Left
      <3> QED
        BY <1>19, <3>1, <3>2, <3>3, <3>4, <3>5, <3>6, <3>7
    <2>2. 0 + Left(pc'[t]) <= Left(pc[t]) /\ Quiet(todo'[t], 0)
      BY <1>b, <2>1 DEF Left
    <2> QED
      BY <1>d, <1>f, <2>1, <2>2
  <1> QED
    BY <1>1, <1>2, <1>3, <1>4, <1>5, <1>6, <1>7, <1>8, <1>9, <1>10, <1>12, <1>13,
       <1>14, <1>15, <1>16, <1>17, <1>18, <1>19 DEF Call, Step

-----------------------------------------------------------------------------
(* The captured counters: every step keeps them in agreement.              *)

\* The records that thread t has still to make or may still come to, and those of
\* all threads.
Pending(t) == Total(todo[t], Records) + Left(pc[t])
Due == SumFunctionOnSet([t \in Threads |-> Total(todo[t], Records) + Left(pc[t])], Threads)

\* A reset has only counters left to clear; any other call clears none, and all
\* its records are fair.
WorkOf(t) ==
    \A i \in DOMAIN todo[t] :
        IF pc[t] = "resetting" THEN todo[t][i].op = "store"
        ELSE /\ todo[t][i].op # "store"
             /\ todo[t][i].op = "record" => Fair(todo[t][i].adds)

\* Up to wrapping, the captured counters with what is owed to them are numbers
\* that agree, and no tally can exceed two for each call.
Tallied ==
    \E v \in [Counters -> Nat] :
        /\ Agree(v)
        /\ \A c \in Captured :
              \E k \in Int : g_stats[c] + Owed(c) = v[c] + k * Modulus
        /\ \A c \in Tallies : v[c] + Due <= 2 * calls

\* Thread r is in ao_mock_reset and no other in a call: the counters that it has
\* not left to clear are 0.
Clearing(r) ==
    /\ Resetting(r)
    /\ \A u \in Threads \ {r} : Idle(u)
    /\ \A c \in Captured :
          g_stats[c] = 0 \/ \E i \in DOMAIN todo[r] : todo[r][i].counter = c

AgreeInv ==
    /\ calls \in Nat
    /\ \A t \in Threads : WorkOf(t)
    /\ ~torn => \/ Tallied /\ \A t \in Threads : ~Resetting(t)
                \/ \E r \in Threads : Clearing(r)

\* What is due is a number, and changes by what the stepping thread has pending.
LEMMA LeftType == \A l : Left(l) \in 0 .. 2
  BY DEF Left

LEMMA DueStep ==
    ASSUME TypeOK, FramesOK, todo' \in [Threads -> Seq(Accesses)],
           NEW t \in Threads, Call(t) \/ Step(t)
    PROVE  /\ Due \in Int /\ Pending(t) \in Int /\ Pending(t)' \in Int
           /\ Due' = Due + Pending(t)' - Pending(t)
  <1> DEFINE f == [u \in Threads |-> Total(todo[u], Records) + Left(pc[u])]
             g == [u \in Threads |-> Total(todo'[u], Records) + Left(pc'[u])]
  <1>1. todo \in [Threads -> Seq(Accesses)]
    BY DEF FramesOK
  <1>2. \A u \in Threads :
           Total(todo[u], Records) \in Int /\ Total(todo'[u], Records) \in Int
    BY <1>1, RecordsType, TotalType
  <1>3. \A u \in Threads : f[u] \in Int /\ g[u] \in Int
    <2>1. \A l : Left(l) \in Int
      BY LeftType
    <2>2. ASSUME NEW u \in Threads  PROVE f[u] \in Int /\ g[u] \in Int
      <3> DEFINE a == Total(todo[u], Records)
                 b == Total(todo'[u], Records)
                 k == Left(pc[u])
                 l == Left(pc'[u])
      <3>1. a \in Int /\ b \in Int /\ k \in Int /\ l \in Int
        BY <1>2, <2>1
      <3>2. f[u] = a + k /\ g[u] = b + l
        OBVIOUS
      <3> HIDE DEF a, b, k, l, f, g
      <3> QED
        BY <3>1, <3>2
    <2> QED
      BY <2>2
  <1>4. Pending(t) = f[t] /\ Pending(t)' = g[t]
    BY DEF Pending
  <1>5. Due = SumFunctionOnSet(f, Threads) /\ Due' = SumFunctionOnSet(g, Threads)
    BY DEF Due
  <1>6. \A u \in Threads \ {t} : g[u] = f[u]
    BY OthersUntouched
  <1> HIDE DEF f, g
  <1>7. SumFunctionOnSet(g, Threads) = SumFunctionOnSet(f, Threads) + g[t] - f[t]
    BY <1>3, <1>6, ThreadsAssumption, SumChanges
  <1>8. SumFunctionOnSet(f, Threads) \in Int
    BY <1>3, ThreadsAssumption, SumTakes
  <1> QED
    BY <1>3, <1>4, <1>5, <1>7, <1>8

\* A step of thread t records d: the counters and what is owed to them grow by it,
\* up to wrapping, and the tallies by no more than what was pending.
Moves(t, d) ==
    /\ d \in [Counters -> Nat] /\ Agree(d)
    /\ \A c \in Captured : \E k \in Int :
          g_stats'[c] = g_stats[c] + d[c] + Total(todo[t], Net(c))
                          - Total(todo'[t], Net(c)) + k * Modulus
    /\ \A c \in Tallies : d[c] + Pending(t)' - Pending(t) <= 2 * (calls' - calls)

LEMMA TalliedStep ==
    ASSUME TypeOK, FramesOK, todo' \in [Threads -> Seq(Accesses)],
           g_stats' \in [Counters -> 0 .. Modulus - 1], calls \in Nat, calls' \in Nat,
           NEW t \in Threads, Call(t) \/ Step(t), NEW d, Moves(t, d), Tallied
    PROVE  Tallied'
  <1>1. PICK v \in [Counters -> Nat] :
           /\ Agree(v)
           /\ \A c \in Captured :
                 \E k \in Int : g_stats[c] + Owed(c) = v[c] + k * Modulus
           /\ \A c \in Tallies : v[c] + Due <= 2 * calls
    BY DEF Tallied
  <1>2. d \in [Counters -> Nat] /\ Agree(d)
    BY DEF Moves
  <1> DEFINE w == [c \in Counters |-> v[c] + d[c]]
  <1>3. Captured \subseteq Counters /\ Tallies \subseteq Captured
    BY DEF Captured, Tallies
  <1>4. w \in [Counters -> Nat] /\ \A c \in Counters : w[c] = v[c] + d[c]
    BY <1>2
  <1>5. Agree(w)
    <2>1. {"malloc_calls", "calloc_calls", "realloc_calls", "free_calls",
           "successful_allocations", "successful_allocation_bytes",
           "bypass_realloc_calls", "bypass_free_calls"} \subseteq Counters
      BY DEF Counters
    <2> HIDE DEF w
    <2>2. \A c \in Counters : v[c] \in Nat /\ d[c] \in Nat /\ w[c] = v[c] + d[c]
      BY <1>1, <1>2, <1>4
    <2> DEFINE Sum(n) == v[n] \in Nat /\ d[n] \in Nat /\ w[n] = v[n] + d[n]
    <2>3. /\ Sum("malloc_calls") /\ Sum("calloc_calls") /\ Sum("realloc_calls")
          /\ Sum("free_calls") /\ Sum("successful_allocations")
          /\ Sum("successful_allocation_bytes") /\ Sum("bypass_realloc_calls")
          /\ Sum("bypass_free_calls")
      BY <2>1, <2>2
    <2>4. Agree(v) /\ Agree(d)
      BY <1>1, <1>2
    <2> QED
      BY ONLY <2>3, <2>4 DEF Agree
  <1> HIDE DEF w
  <1>6. ASSUME NEW c \in Captured
        PROVE  \E k \in Int : g_stats'[c] + Owed(c)' = w[c] + k * Modulus
    <2>1. PICK k \in Int : g_stats[c] + Owed(c) = v[c] + k * Modulus
      BY <1>1
    <2>2. PICK j \in Int :
             g_stats'[c] = g_stats[c] + d[c] + Total(todo[t], Net(c))
                             - Total(todo'[t], Net(c)) + j * Modulus
      BY DEF Moves
    <2>3. /\ Owed(c) \in Int /\ Total(todo'[t], Net(c)) \in Int
          /\ Total(todo[t], Net(c)) \in Int
          /\ Owed(c)' = Owed(c) + Total(todo'[t], Net(c)) - Total(todo[t], Net(c))
      BY OwedStep
    <2>4. /\ g_stats[c] \in Int /\ g_stats'[c] \in Int
          /\ Modulus \in Int /\ v[c] \in Int /\ d[c] \in Int /\ w[c] = v[c] + d[c]
      BY <1>2, <1>3, <1>4, BoundsAssumption DEF TypeOK
    <2> DEFINE i  == k + j
               im == i * Modulus
               km == k * Modulus
               jm == j * Modulus
               n  == Total(todo[t], Net(c))
               m  == Total(todo'[t], Net(c))
    <2>5. im = km + jm /\ i \in Int /\ im \in Int /\ km \in Int /\ jm \in Int
      BY <2>4
    <2>6. /\ g_stats'[c] = g_stats[c] + d[c] + n - m + jm
          /\ g_stats[c] + Owed(c) = v[c] + km
          /\ Owed(c)' = Owed(c) + m - n /\ n \in Int /\ m \in Int
      BY <2>1, <2>2, <2>3
    <2> DEFINE x  == g_stats[c]
               xp == g_stats'[c]
               o  == Owed(c)
               op == Owed(c)'
               p  == v[c]
               q  == d[c]
               s  == w[c]
    <2>a. /\ xp = x + q + n - m + jm /\ x + o = p + km /\ op = o + m - n
          /\ s = p + q /\ im = km + jm
      BY <2>4, <2>5, <2>6
    <2>b. /\ n \in Int /\ m \in Int /\ x \in Int /\ o \in Int /\ p \in Int /\ q \in Int
          /\ km \in Int /\ jm \in Int
      BY <2>3, <2>4, <2>5
    <2> HIDE DEF i, im, km, jm, n, m, x, xp, o, op, p, q, s
    <2>c. xp + op = s + im
      BY ONLY <2>a, <2>b
    <2>7. g_stats'[c] + Owed(c)' = w[c] + im
      BY <2>c DEF xp, op, s
    <2> QED
      BY <2>5, <2>7 DEF im
  <1>7. ASSUME NEW c \in Tallies  PROVE w[c] + Due' <= 2 * calls'
    <2>1. v[c] + Due <= 2 * calls /\ d[c] + Pending(t)' - Pending(t) <= 2 * (calls' - calls)
      BY <1>1 DEF Moves
    <2>2. /\ Due \in Int /\ Pending(t) \in Int /\ Pending(t)' \in Int
          /\ Due' = Due + Pending(t)' - Pending(t)
      BY DueStep
    <2>3. v[c] \in Int /\ d[c] \in Int /\ w[c] = v[c] + d[c]
      BY <1>2, <1>3, <1>4
    <2> DEFINE a == Pending(t)
               b == Pending(t)'
               e == Due
               f == Due'
               p == v[c]
               q == d[c]
               s == w[c]
               k == 2 * calls
               l == 2 * calls'
    <2>4. /\ p + e <= k /\ q + b - a <= l - k
          /\ f = e + b - a /\ s = p + q
      BY <2>1, <2>2, <2>3
    <2>5. /\ a \in Int /\ b \in Int /\ e \in Int /\ p \in Int /\ q \in Int
          /\ k \in Int /\ l \in Int
      BY <2>2, <2>3
    <2> HIDE DEF a, b, e, f, p, q, s, k, l
    <2>6. s + f <= l
      BY ONLY <2>4, <2>5
    <2> QED
      BY <2>6 DEF s, f, l
  <1> QED
    BY <1>4, <1>5, <1>6, <1>7 DEF Tallied


\* Recording nothing keeps the counters in agreement.
LEMMA NothingRecorded ==
    LET d == [c \in Counters |-> 0]
    IN  d \in [Counters -> Nat] /\ Agree(d) /\ \A c \in Captured : d[c] = 0
  BY DEF Agree, Counters, Captured

\* A step that leaves quiet work to be done records nothing.
LEMMA QuietMoves ==
    ASSUME TypeOK, FramesOK, calls \in Nat, NEW t \in Threads, todo[t] = <<>>,
           UNCHANGED g_stats, NEW n \in 0 .. 2, Quiet(todo'[t], n),
           Begins(t, n) \/ Proceeds(t, n)
    PROVE  \E d : Moves(t, d)
  <1> DEFINE d == [c \in Counters |-> 0]
  <1>1. d \in [Counters -> Nat] /\ Agree(d) /\ \A c \in Captured : d[c] = 0
    BY NothingRecorded
  <1>2. Tallies \subseteq Captured /\ Captured \subseteq Counters
    BY DEF Tallies, Captured
  <1> HIDE DEF d
  <1>3. ASSUME NEW c \in Captured
        PROVE  \E k \in Int :
                  g_stats'[c] = g_stats[c] + d[c] + Total(todo[t], Net(c))
                                  - Total(todo'[t], Net(c)) + k * Modulus
    <2>1. Total(todo[t], Net(c)) = 0
      BY ValueTypes, TotalEmpty
    <2>2. Total(todo'[t], Net(c)) = 0
      BY DEF Quiet
    <2>3. g_stats[c] \in Int /\ g_stats'[c] = g_stats[c] /\ d[c] = 0 /\ 0 * Modulus = 0
      BY <1>1, <1>2, BoundsAssumption DEF TypeOK
    <2>4. g_stats'[c] = g_stats[c] + d[c] + Total(todo[t], Net(c))
                          - Total(todo'[t], Net(c)) + 0 * Modulus
      BY <2>1, <2>2, <2>3
    <2> QED
      BY <2>4
  <1> DEFINE a == Total(todo'[t], Records)
             l == Left(pc[t])
             m == Left(pc'[t])
  <1>4. /\ a \in Int /\ a <= n /\ l \in 0 .. 2 /\ m \in 0 .. 2
    <2>1. todo'[t] \in Seq(Accesses)
      BY DEF Quiet
    <2> QED
      BY <2>1, RecordsType, TotalType, LeftType DEF Quiet
  <1>5. Pending(t) = l /\ Pending(t)' = a + m
    <2>1. Total(todo[t], Records) = 0
      BY RecordsType, TotalEmpty
    <2>2. Pending(t) = 0 + l /\ Pending(t)' = a + m
      BY <2>1 DEF Pending
    <2> QED
      BY <1>4, <2>2
  <1>6. \/ l = 0 /\ calls' = calls + 1 /\ n + m <= 2
        \/ calls' = calls /\ n + m <= l
    BY DEF Begins, Proceeds, Left
  <1> HIDE DEF a, l, m
  <1>7. ASSUME NEW c \in Tallies
        PROVE  d[c] + Pending(t)' - Pending(t) <= 2 * (calls' - calls)
    <2>1. d[c] = 0
      BY <1>1, <1>2
    <2>2. 0 + (a + m) - l <= 2 * (calls' - calls)
      BY <1>4, <1>6
    <2> QED
      BY <1>5, <2>1, <2>2
  <1>8. Moves(t, d)
    BY <1>1, <1>3, <1>7 DEF Moves
  <1> QED
    BY <1>8

\* What an access of a call that clears nothing does to one counter.
LEMMA CounterMoves ==
    ASSUME TypeOK, FramesOK, calls \in Nat, NEW t \in Threads, CounterStep(t),
           pc[t] # "resetting", WorkOf(t)
    PROVE  \E d : Moves(t, d)
  <1> DEFINE x == Head(todo[t])
             r == Tail(todo[t])
             zero == [c \in Counters |-> 0]
  <1>1. todo \in [Threads -> Seq(Accesses)] /\ todo[t] # <<>>
    BY DEF FramesOK, CounterStep
  <1>2. x \in Accesses /\ r \in Seq(Accesses) /\ x = todo[t][1] /\ 1 \in DOMAIN todo[t]
    BY <1>1
  <1>3. /\ x.n \in Int /\ x.adds \in Seq(Adds) /\ x.counter \in Counters \cup {"none"}
        /\ \A c : Net(c)[x] = IF x.op = "add" /\ x.counter = c THEN x.n ELSE 0
        /\ Records[x] = IF x.op = "record" THEN 1 ELSE 0
    BY <1>2 DEF Net, Accesses, Records
  <1>4. x.op # "store" /\ (x.op = "record" => Fair(x.adds))
    BY <1>2 DEF WorkOf
  <1>5. UNCHANGED <<pc, calls>>
    BY DEF CounterStep, control
  <1>6. \/ /\ x.op = "add"
           /\ g_stats' = [g_stats EXCEPT ![x.counter] = (@ + x.n) % Modulus]
           /\ todo'[t] = r
        \/ /\ x.op = "record"
           /\ g_stats' = g_stats
           /\ todo'[t] = x.adds \o r \/ todo'[t] = r
    BY <1>1, <1>4 DEF CounterStep
  <1>7. /\ x.adds \in Seq(Accesses)
        /\ Total(x.adds, Records) = 0
    <2> DEFINE v == x.adds
    <2>1. \A i \in DOMAIN v : v[i] \in Adds
      BY <1>3
    <2>2. v \in Seq(Accesses)
      BY <1>3, AddTypes
    <2>3. \A i \in DOMAIN v : v[i] \in Accesses /\ v[i].op = "add"
      BY <2>1, <2>2 DEF Adds
    <2> HIDE DEF v
    <2>4. \A i \in DOMAIN v : Records[v[i]] = 0
      BY <2>3 DEF Records
    <2>5. Total(v, Records) = 0
      BY <2>2, <2>4, RecordsType, TotalZero
    <2> QED
      BY <2>2, <2>5 DEF v
  <1>8. g_stats \in [Counters -> 0 .. Modulus - 1] /\ Modulus \in Nat \ {0}
    BY BoundsAssumption DEF TypeOK
  <1>9. Tallies \subseteq Captured /\ Captured \subseteq Counters
    BY DEF Tallies, Captured
  <1>10. zero \in [Counters -> Nat] /\ Agree(zero) /\ \A c \in Captured : zero[c] = 0
    BY NothingRecorded
  <1> HIDE DEF x, r, zero
  <1>11. /\ Total(todo[t], Records) = Records[x] + Total(r, Records)
         /\ Total(r, Records) \in Int /\ Records[x] \in {0, 1}
    BY <1>1, <1>2, <1>3, RecordsType, TotalTail, TotalType DEF x, r
  <1>12. Total(todo'[t], Records) = Total(r, Records)
    <2>1. Total(x.adds \o r, Records) = Total(x.adds, Records) + Total(r, Records)
      BY <1>2, <1>7, RecordsType, TotalJoin
    <2>2. Total(x.adds \o r, Records) = Total(r, Records)
      BY <1>7, <1>11, <2>1
    <2> QED
      BY <1>6, <2>2
  <1>13. ASSUME NEW c
         PROVE  /\ Total(todo[t], Net(c)) = Net(c)[x] + Total(r, Net(c))
                /\ Total(r, Net(c)) \in Int /\ Net(c)[x] \in Int
                /\ Total(x.adds, Net(c)) \in Int
                /\ Total(x.adds \o r, Net(c)) = Total(x.adds, Net(c)) + Total(r, Net(c))
    <2> DEFINE N == Net(c)
    <2>1. N \in [Accesses -> Int]
      BY ValueTypes
    <2> HIDE DEF N
    <2>2. Total(todo[t], N) = N[x] + Total(r, N)
      BY <1>1, <2>1, TotalTail DEF x, r
    <2>3. Total(r, N) \in Int /\ N[x] \in Int /\ Total(x.adds, N) \in Int
      BY <1>2, <1>7, <2>1, TotalType
    <2>4. Total(x.adds \o r, N) = Total(x.adds, N) + Total(r, N)
      BY <1>2, <1>7, <2>1, TotalJoin
    <2> QED
      BY <2>2, <2>3, <2>4 DEF N
  <1>14. ASSUME NEW d \in [Counters -> Nat], Agree(d),
                \A c \in Tallies : d[c] <= Records[x],
                \A c \in Captured : \E k \in Int :
                   g_stats'[c] = g_stats[c] + d[c] + Total(todo[t], Net(c))
                                   - Total(todo'[t], Net(c)) + k * Modulus
         PROVE  Moves(t, d)
    <2> DEFINE l == Left(pc[t])
               e == Total(r, Records)
               y == Records[x]
    <2>1. /\ Pending(t) = (y + e) + l /\ Pending(t)' = e + l /\ calls' = calls
      BY <1>5, <1>11, <1>12 DEF Pending
    <2>2. l \in Int /\ e \in Int /\ y \in Int
      BY <1>11, LeftType
    <2> HIDE DEF l, e, y
    <2>3. ASSUME NEW c \in Tallies
          PROVE  d[c] + Pending(t)' - Pending(t) <= 2 * (calls' - calls)
      <3> DEFINE p == d[c]
      <3>1. p \in Int /\ p <= y
        BY <1>9, <1>14 DEF y
      <3> HIDE DEF p
      <3>2. p + (e + l) - ((y + e) + l) <= 0
        BY <2>2, <3>1
      <3>3. 2 * (calls' - calls) = 0
        BY <2>1
      <3>4. p + Pending(t)' - Pending(t) <= 2 * (calls' - calls)
        BY <2>1, <3>2, <3>3
      <3> QED
        BY <3>4 DEF p
    <2> QED
      BY <1>14, <2>3 DEF Moves
  <1>15. CASE x.op = "add"
    <2>1. ASSUME NEW c \in Captured
          PROVE  \E k \in Int :
                   g_stats'[c] = g_stats[c] + zero[c] + Total(todo[t], Net(c))
                                   - Total(todo'[t], Net(c)) + k * Modulus
      <3> DEFINE y == Net(c)[x]
                 e == Total(r, Net(c))
                 a == g_stats[c]
                 b == g_stats'[c]
      <3>1. /\ Total(todo[t], Net(c)) = y + e /\ Total(todo'[t], Net(c)) = e
            /\ y \in Int /\ e \in Int
        BY <1>6, <1>13, <1>15
      <3>2. a \in Int /\ zero[c] = 0
        BY <1>8, <1>9, <1>10
      <3>3. \E k \in Int : b = (a + y) + k * Modulus
        <4>1. CASE x.counter = c
          <5>1. b = (a + x.n) % Modulus /\ y = x.n
            BY <1>3, <1>6, <1>8, <1>9, <1>15, <4>1
          <5>2. a + x.n \in Int
            BY <1>3, <3>2
          <5>3. \E k \in Int : (a + x.n) % Modulus = (a + x.n) + k * Modulus
            BY <1>8, <5>2, Wraps
          <5> QED
            BY <5>1, <5>3
        <4>2. CASE x.counter # c
          <5>1. b = a /\ y = 0
            BY <1>3, <1>6, <1>8, <1>9, <1>15, <4>2
          <5>2. b = (a + y) + 0 * Modulus
            BY <1>8, <3>2, <5>1
          <5> QED
            BY <5>2
        <4> QED
          BY <4>1, <4>2
      <3>4. PICK k \in Int : b = (a + y) + k * Modulus
        BY <3>3
      <3> DEFINE km == k * Modulus
      <3>5. km \in Int /\ b = (a + y) + km
        BY <1>8, <3>4
      <3> HIDE DEF km, y, e, a, b
      <3>6. b = a + 0 + (y + e) - e + km
        BY <3>1, <3>2, <3>5
      <3> QED
        BY <3>1, <3>2, <3>6 DEF a, b, km
    <2>2. \A c \in Tallies : zero[c] <= Records[x]
      BY <1>3, <1>9, <1>10, <1>15
    <2>3. Moves(t, zero)
      BY <1>10, <1>14, <2>1, <2>2
    <2> QED
      BY <2>3
  <1>16. CASE x.op = "record"
    <2>0. g_stats' = g_stats /\ \A c : Net(c)[x] = 0
      BY <1>3, <1>6, <1>16
    <2>a. Records[x] = 1
      BY <1>3, <1>16
    <2>1. CASE todo'[t] = r
      <3>1. ASSUME NEW c \in Captured
            PROVE  \E k \in Int :
                     g_stats'[c] = g_stats[c] + zero[c] + Total(todo[t], Net(c))
                                     - Total(todo'[t], Net(c)) + k * Modulus
        <4> DEFINE e == Total(r, Net(c))
                   a == g_stats[c]
        <4>1. /\ Total(todo[t], Net(c)) = 0 + e /\ Total(todo'[t], Net(c)) = e
              /\ e \in Int /\ a \in Int /\ zero[c] = 0 /\ g_stats'[c] = a
              /\ 0 * Modulus = 0
          BY <1>8, <1>9, <1>10, <1>13, <2>0, <2>1
        <4> HIDE DEF e, a
        <4>2. a = a + 0 + (0 + e) - e + 0
          BY <4>1
        <4>3. g_stats'[c] = g_stats[c] + zero[c] + Total(todo[t], Net(c))
                              - Total(todo'[t], Net(c)) + 0 * Modulus
          BY <4>1, <4>2 DEF a
        <4> QED
          BY <4>3
      <3>2. \A c \in Tallies : zero[c] <= Records[x]
        BY <1>9, <1>10, <2>a
      <3>3. Moves(t, zero)
        BY <1>10, <1>14, <3>1, <3>2
      <3> QED
        BY <3>3
    <2>2. CASE todo'[t] = x.adds \o r
      <3> DEFINE d == Recorded(x.adds)
      <3>1. d \in [Counters -> Nat] /\ Agree(d) /\ \A c \in Tallies : d[c] <= 1
        BY <1>4, <1>16 DEF Fair
      <3>2. \A c \in Captured : d[c] = Total(x.adds, Net(c))
        BY <1>9 DEF Recorded
      <3> HIDE DEF d
      <3>3. ASSUME NEW c \in Captured
            PROVE  \E k \in Int :
                     g_stats'[c] = g_stats[c] + d[c] + Total(todo[t], Net(c))
                                     - Total(todo'[t], Net(c)) + k * Modulus
        <4> DEFINE e == Total(r, Net(c))
                   a == g_stats[c]
                   s == Total(x.adds, Net(c))
        <4>1. /\ Total(todo[t], Net(c)) = 0 + e /\ Total(todo'[t], Net(c)) = s + e
              /\ e \in Int /\ a \in Int /\ s \in Int /\ d[c] = s /\ g_stats'[c] = a
              /\ 0 * Modulus = 0
          BY <1>8, <1>9, <1>13, <2>0, <2>2, <3>2
        <4> HIDE DEF e, a, s
        <4>2. a = a + s + (0 + e) - (s + e) + 0
          BY <4>1
        <4>3. g_stats'[c] = g_stats[c] + d[c] + Total(todo[t], Net(c))
                              - Total(todo'[t], Net(c)) + 0 * Modulus
          BY <4>1, <4>2 DEF a
        <4> QED
          BY <4>3
      <3>4. \A c \in Tallies : d[c] <= Records[x]
        BY <2>a, <3>1
      <3>5. Moves(t, d)
        BY <1>14, <3>1, <3>3, <3>4
      <3> QED
        BY <3>5
    <2> QED
      BY <1>6, <1>16, <2>1, <2>2
  <1> QED
    BY <1>6, <1>15, <1>16


\* When no thread has an access left to make or a record to come to, nothing is
\* due and nothing is owed.
LEMMA NothingDue ==
    ASSUME todo \in [Threads -> Seq(Accesses)],
           \A u \in Threads : todo[u] = <<>> /\ Left(pc[u]) = 0
    PROVE  Due = 0 /\ \A c : Owed(c) = 0
  <1>1. Due = 0
    <2> DEFINE f == [u \in Threads |-> Total(todo[u], Records) + Left(pc[u])]
    <2>1. Due = SumFunctionOnSet(f, Threads)
      BY DEF Due
    <2>2. Total(<<>>, Records) = 0
      BY RecordsType, TotalEmpty
    <2>3. \A u \in Threads : f[u] = 0
      BY <2>2
    <2> HIDE DEF f
    <2> QED
      BY <2>1, <2>3, ThreadsAssumption, SumZero
  <1>2. ASSUME NEW c  PROVE Owed(c) = 0
    <2> DEFINE f == [u \in Threads |-> Total(todo[u], Net(c))]
    <2>1. Owed(c) = SumFunctionOnSet(f, Threads)
      BY OwedIs
    <2>2. Total(<<>>, Net(c)) = 0
      BY ValueTypes, TotalEmpty
    <2>3. \A u \in Threads : f[u] = 0
      BY <2>2
    <2> HIDE DEF f
    <2> QED
      BY <2>1, <2>3, ThreadsAssumption, SumZero
  <1> QED
    BY <1>1, <1>2

\* A step leaves a call fair records only, and a reset only counters to clear.
LEMMA WorkStep ==
    ASSUME TypeOK, FramesOK, NEW t \in Threads, Settled(t), WorkOf(t), Call(t) \/ Step(t)
    PROVE  WorkOf(t)'
  <1>1. todo \in [Threads -> Seq(Accesses)] /\ pc \in [Threads -> Labels]
    BY DEF TypeOK, FramesOK
  <1>2. CASE CounterStep(t)
    <2> DEFINE w == todo[t]
               x == Head(w)
               r == Tail(w)
               v == todo'[t]
    <2>1. w \in Seq(Accesses) /\ w # <<>>
      BY <1>1, <1>2 DEF CounterStep
    <2>2. x = w[1] /\ 1 \in DOMAIN w /\ x \in Accesses
      BY <2>1
    <2>3. r \in Seq(Accesses) /\ \A i \in DOMAIN r : r[i] = w[i + 1] /\ i + 1 \in DOMAIN w
      BY <2>1
    <2>4. pc' = pc /\ (v = r \/ (x.op = "record" /\ v = x.adds \o r))
      BY <1>1, <1>2 DEF CounterStep
    <2>5. x.adds \in Seq(Adds)
      BY <2>2 DEF Accesses
    <2> HIDE DEF w, x, r, v
    <2>6. CASE v = r
      <3>1. \A i \in DOMAIN w :
               IF pc[t] = "resetting" THEN w[i].op = "store"
               ELSE w[i].op # "store" /\ (w[i].op = "record" => Fair(w[i].adds))
        BY DEF WorkOf, w
      <3>2. \A i \in DOMAIN v :
               IF pc'[t] = "resetting" THEN v[i].op = "store"
               ELSE v[i].op # "store" /\ (v[i].op = "record" => Fair(v[i].adds))
        BY <2>3, <2>4, <2>6, <3>1
      <3> QED
        BY <3>2 DEF WorkOf, v
    <2>7. CASE x.op = "record" /\ v = x.adds \o r
      <3> DEFINE y == x.adds
      <3>1. \A i \in DOMAIN w :
               IF pc[t] = "resetting" THEN w[i].op = "store"
               ELSE w[i].op # "store" /\ (w[i].op = "record" => Fair(w[i].adds))
        BY DEF WorkOf, w
      <3>2. pc[t] # "resetting"
        BY <2>2, <2>7, <3>1
      <3>3. y \in Seq(Adds) /\ v = y \o r
        BY <2>5, <2>7
      <3> HIDE DEF y
      <3>4. \A i \in DOMAIN y : y[i].op = "add"
        <4>1. \A i \in DOMAIN y : y[i] \in Adds
          BY <3>3
        <4> QED
          BY <4>1 DEF Adds
      <3>5. \A i \in DOMAIN v :
               (\E j \in DOMAIN y : v[i] = y[j]) \/ (\E j \in DOMAIN r : v[i] = r[j])
        BY <2>3, <3>3
      <3>6. \A i \in DOMAIN v : v[i].op # "store" /\ (v[i].op = "record" => Fair(v[i].adds))
        BY <2>3, <3>1, <3>2, <3>4, <3>5
      <3> QED
        BY <2>4, <3>2, <3>6 DEF WorkOf, v
    <2> QED
      BY <2>4, <2>6, <2>7
  <1>3. CASE ao_mock_reset(t)
    <2>1. /\ pc'[t] = "resetting"
          /\ todo'[t] = [i \in DOMAIN ResetOrder |-> Store(ResetOrder[i])]
      BY <1>1, <1>3 DEF ao_mock_reset, Go, Goto
    <2>2. \A i \in DOMAIN todo'[t] : todo'[t][i].op = "store"
      BY <2>1 DEF Store
    <2> QED
      BY <2>1, <2>2 DEF WorkOf
  <1>4. CASE pc'[t] # "resetting" /\ \E n : Quiet(todo'[t], n)
    BY <1>4 DEF WorkOf, Quiet
  <1> QED
    BY <1>2, <1>3, <1>4, WorkDone

\* What torn tells of the other threads when a call begins.
LEMMA UntornBegins ==
    ASSUME NEW t \in Threads, NEW c, Overlap(t, c), ~torn'
    PROVE  /\ c # "reset" => ~torn /\ \A u \in Threads \ {t} : ~Resetting(u)
           /\ c = "reset" => \A u \in Threads \ {t} : Idle(u)
  <1>1. CASE c = "reset"
    <2>1. torn' = \E u \in Threads \ {t} : ~Idle(u)
      BY <1>1, Zenon DEF Overlap
    <2> QED
      BY <1>1, <2>1, Zenon
  <1>2. CASE c # "reset"
    <2>1. torn' = (torn \/ \E u \in Threads \ {t} : Resetting(u))
      BY <1>2, Zenon DEF Overlap
    <2> QED
      BY <1>2, <2>1, Zenon
  <1> QED
    BY <1>1, <1>2

\* A reset that no call overlaps has every captured counter to clear, clears them
\* one by one, and leaves them all at 0.
LEMMA ResetBegins ==
    ASSUME TypeOK, FramesOK, NEW t \in Threads, ao_mock_reset(t), ~torn'
    PROVE  Clearing(t)'
  <1>1. todo \in [Threads -> Seq(Accesses)] /\ pc \in [Threads -> Labels]
    BY DEF TypeOK, FramesOK
  <1>2. /\ pc'[t] = "resetting" /\ \A u \in Threads \ {t} : pc'[u] = pc[u]
        /\ todo'[t] = [i \in DOMAIN ResetOrder |-> Store(ResetOrder[i])]
    BY <1>1 DEF ao_mock_reset, Go, Goto
  <1>3. \A u \in Threads \ {t} : Idle(u)
    BY UntornBegins DEF ao_mock_reset, Enter
  <1>4. \A c \in Captured : \E i \in DOMAIN ResetOrder : ResetOrder[i] = c
    <2>1. ResetOrder = <<"malloc_calls", "calloc_calls", "realloc_calls", "free_calls",
                         "successful_allocations", "successful_allocation_bytes",
                         "failed_allocations", "bypass_realloc_calls", "bypass_free_calls">>
      BY DEF ResetOrder
    <2>2. /\ DOMAIN ResetOrder = 1 .. 9
          /\ ResetOrder[1] = "malloc_calls" /\ ResetOrder[2] = "calloc_calls"
          /\ ResetOrder[3] = "realloc_calls" /\ ResetOrder[4] = "free_calls"
          /\ ResetOrder[5] = "successful_allocations"
          /\ ResetOrder[6] = "successful_allocation_bytes"
          /\ ResetOrder[7] = "failed_allocations"
          /\ ResetOrder[8] = "bypass_realloc_calls"
          /\ ResetOrder[9] = "bypass_free_calls"
      BY <2>1
    <2>3. Captured = {"malloc_calls", "calloc_calls", "realloc_calls", "free_calls",
                      "successful_allocations", "successful_allocation_bytes",
                      "failed_allocations", "bypass_realloc_calls", "bypass_free_calls"}
      BY DEF Captured, Counters, Live
    <2>4. /\ 1 \in 1 .. 9 /\ 2 \in 1 .. 9 /\ 3 \in 1 .. 9 /\ 4 \in 1 .. 9 /\ 5 \in 1 .. 9
          /\ 6 \in 1 .. 9 /\ 7 \in 1 .. 9 /\ 8 \in 1 .. 9 /\ 9 \in 1 .. 9
      OBVIOUS
    <2> QED
      BY ONLY <2>2, <2>3, <2>4, Zenon
  <1>5. \A c \in Captured : \E i \in DOMAIN todo'[t] : todo'[t][i].counter = c
    BY <1>2, <1>4 DEF Store
  <1> QED
    BY <1>2, <1>3, <1>5 DEF Clearing, Resetting, Idle

LEMMA ResetClears ==
    ASSUME TypeOK, FramesOK, NEW t \in Threads, Clearing(t), WorkOf(t), CounterStep(t)
    PROVE  Clearing(t)'
  <1> DEFINE w == todo[t]
             x == Head(w)
             r == Tail(w)
  <1>1. /\ w \in Seq(Accesses) /\ w # <<>> /\ g_stats \in [Counters -> 0 .. Modulus - 1]
        /\ todo \in [Threads -> Seq(Accesses)]
    BY DEF TypeOK, FramesOK, CounterStep
  <1>2. x = w[1] /\ 1 \in DOMAIN w
    BY <1>1
  <1>3. \A i \in DOMAIN w : i = 1 \/ (i - 1 \in DOMAIN r /\ r[i - 1] = w[i])
    BY <1>1
  <1>4. x.op = "store"
    BY <1>2 DEF Clearing, Resetting, WorkOf
  <1>5. /\ g_stats' = [g_stats EXCEPT ![x.counter] = 0]
        /\ todo'[t] = r /\ pc' = pc
    BY <1>1, <1>4 DEF CounterStep
  <1>6. \A c \in Captured : g_stats[c] = 0 \/ \E i \in DOMAIN w : w[i].counter = c
    BY DEF Clearing
  <1>7. Captured \subseteq Counters
    BY DEF Captured
  <1> HIDE DEF w, x, r
  <1>8. ASSUME NEW c \in Captured
        PROVE  g_stats'[c] = 0 \/ \E i \in DOMAIN r : r[i].counter = c
    <2>1. CASE g_stats[c] = 0 \/ x.counter = c
      BY <1>1, <1>5, <1>7, <2>1
    <2>2. CASE \E i \in DOMAIN w : i # 1 /\ w[i].counter = c
      BY <1>3, <2>2
    <2> QED
      BY <1>2, <1>6, <2>1, <2>2
  <1> QED
    BY <1>5, <1>8 DEF Clearing, Resetting, Idle

LEMMA ResetEnds ==
    ASSUME TypeOK, FramesOK, todo' \in [Threads -> Seq(Accesses)], calls \in Nat,
           NEW t \in Threads, Clearing(t), \A u \in Threads : Settled(u),
           Call(t) \/ Step(t), todo[t] = <<>>, UNCHANGED g_stats,
           NEW n \in 0 .. 2, Quiet(todo'[t], n), Proceeds(t, n)
    PROVE  Tallied'
  <1> DEFINE v == [c \in Counters |-> 0]
  <1>1. v \in [Counters -> Nat] /\ Agree(v) /\ \A c \in Captured : v[c] = 0
    BY NothingRecorded
  <1>2. Tallies \subseteq Captured
    BY DEF Tallies
  <1> HIDE DEF v
  <1>3. \A u \in Threads : todo[u] = <<>> /\ Left(pc[u]) = 0
    BY DEF Clearing, Settled, Idle, Resetting, Left
  <1>4. Due = 0 /\ \A c : Owed(c) = 0
    BY <1>3, NothingDue DEF FramesOK
  <1>5. ASSUME NEW c \in Captured
        PROVE  \E k \in Int : g_stats'[c] + Owed(c)' = v[c] + k * Modulus
    <2>1. g_stats'[c] = 0
      BY DEF Clearing
    <2>2. Owed(c)' = Owed(c) + Total(todo'[t], Net(c)) - Total(todo[t], Net(c))
      BY OwedStep
    <2>3. Total(todo[t], Net(c)) = 0
      BY ValueTypes, TotalEmpty
    <2>4. Total(todo'[t], Net(c)) = 0
      BY DEF Quiet
    <2>5. Owed(c)' = 0
      BY <1>4, <2>2, <2>3, <2>4
    <2>6. g_stats'[c] + Owed(c)' = v[c] + 0 * Modulus
      BY <1>1, <2>1, <2>5, BoundsAssumption
    <2> QED
      BY <2>6
  <1>6. Due' <= 0 /\ Due' \in Int
    <2> DEFINE a == Total(todo'[t], Records)
               b == Left(pc'[t])
               p == Pending(t)
               q == Pending(t)'
    <2>1. Due' = Due + q - p
      BY DueStep
    <2>2. Total(<<>>, Records) = 0
      BY RecordsType, TotalEmpty
    <2>3. p = 0 + 0 /\ q = a + b
      BY <1>3, <2>2 DEF Pending
    <2>4. b \in 0 .. 2 /\ a \in Int /\ a <= n
      BY LeftType, RecordsType, TotalType DEF Quiet
    <2>5. n + b <= 0
      BY <1>3 DEF Proceeds
    <2> HIDE DEF a, b, p, q
    <2>6. q <= 0 /\ q \in Int /\ p = 0
      BY <2>3, <2>4, <2>5
    <2> QED
      BY <1>4, <2>1, <2>6
  <1>7. ASSUME NEW c \in Tallies  PROVE v[c] + Due' <= 2 * calls'
    <2>1. v[c] = 0 /\ 2 * calls' \in Nat
      BY <1>1, <1>2 DEF Proceeds
    <2> DEFINE e == Due'
               k == 2 * calls'
    <2>2. e \in Int /\ e <= 0 /\ k \in Nat
      BY <1>6, <2>1
    <2> HIDE DEF e, k
    <2>3. 0 + e <= k
      BY <2>2
    <2> QED
      BY <2>1, <2>3 DEF e, k
  <1> QED
    BY <1>1, <1>5, <1>7 DEF Tallied


\* Every step keeps the agreement.
LEMMA AgreeStep ==
    ASSUME TypeOK, FramesOK, TypeOK', FramesOK', LedgerInv, AgreeInv,
           NEW t \in Threads, Call(t) \/ Step(t)
    PROVE  AgreeInv'
  <1>1. /\ todo' \in [Threads -> Seq(Accesses)]
        /\ g_stats' \in [Counters -> 0 .. Modulus - 1]
    BY DEF TypeOK, FramesOK
  <1>2. /\ calls \in Nat /\ \A u \in Threads : Settled(u) /\ WorkOf(u)
        /\ ~torn => \/ Tallied /\ \A u \in Threads : ~Resetting(u)
                    \/ \E r \in Threads : Clearing(r)
    BY DEF AgreeInv, LedgerInv
  <1>3. \A u \in Threads \ {t} : pc'[u] = pc[u] /\ todo'[u] = todo[u]
    BY OthersUntouched
  <1>4. \A u \in Threads : WorkOf(u)'
    <2>1. WorkOf(t)'
      BY <1>2, WorkStep
    <2>2. \A u \in Threads \ {t} : WorkOf(u)'
      BY <1>2, <1>3 DEF WorkOf
    <2> QED
      BY <2>1, <2>2
  <1> DEFINE Good == \/ Tallied' /\ \A u \in Threads : ~Resetting(u)'
                     \/ \E r \in Threads : Clearing(r)'
  <1>5. ASSUME NEW r \in Threads, Clearing(r), pc[t] # "idle"  PROVE r = t
    BY <1>5 DEF Clearing, Idle
  <1>6. CASE CounterStep(t)
    <2>1. /\ pc' = pc /\ calls' = calls /\ torn' = torn /\ todo[t] # <<>>
      BY <1>6 DEF CounterStep, control
    <2>2. pc[t] # "idle"
      BY <1>2, <2>1 DEF Settled
    <2>3. ASSUME Tallied, \A u \in Threads : ~Resetting(u)  PROVE Good
      <3>1. pc[t] # "resetting"
        BY <2>3 DEF Resetting
      <3>2. PICK d : Moves(t, d)
        BY <1>2, <1>6, <3>1, CounterMoves
      <3>3. Tallied'
        BY <1>1, <1>2, <2>1, <2>3, <3>2, TalliedStep
      <3> QED
        BY <2>1, <2>3, <3>3 DEF Resetting
    <2>4. ASSUME NEW r \in Threads, Clearing(r)  PROVE Good
      <3>1. Clearing(t)
        BY <1>5, <2>2, <2>4
      <3>2. Clearing(t)'
        BY <1>2, <1>6, <3>1, ResetClears
      <3> QED
        BY <3>2
    <2>5. ~torn' => Good
      BY <1>2, <2>1, <2>3, <2>4
    <2> QED
      BY <1>2, <1>4, <2>1, <2>5 DEF AgreeInv
  <1>7. CASE ao_mock_reset(t)
    <2>1. calls' \in Nat
      BY <1>2, <1>7 DEF ao_mock_reset, Enter
    <2>2. ~torn' => Clearing(t)'
      BY <1>7, ResetBegins
    <2> QED
      BY <1>4, <2>1, <2>2 DEF AgreeInv
  <1>8. ASSUME todo[t] = <<>>, UNCHANGED g_stats, pc'[t] # "resetting",
               NEW n \in 0 .. 2, Quiet(todo'[t], n), Begins(t, n) \/ Proceeds(t, n)
        PROVE  AgreeInv'
    <2>1. calls' \in Nat
      BY <1>2, <1>8 DEF Begins, Proceeds
    <2>2. PICK d : Moves(t, d)
      BY <1>2, <1>8, QuietMoves
    <2>3. ASSUME Tallied, \A u \in Threads : ~Resetting(u)  PROVE Good
      <3>1. Tallied'
        BY <1>1, <1>2, <2>1, <2>2, <2>3, TalliedStep
      <3>2. \A u \in Threads : ~Resetting(u)'
        BY <1>3, <1>8, <2>3 DEF Resetting
      <3> QED
        BY <3>1, <3>2
    <2>4. ASSUME Begins(t, n), ~torn'  PROVE Good
      <3>1. ~torn /\ \A u \in Threads \ {t} : ~Resetting(u)
        BY <2>4, UntornBegins, Zenon DEF Begins
      <3>2. ~Resetting(t)
        BY <2>4 DEF Begins, Resetting
      <3>3. \A u \in Threads : ~Resetting(u)
        BY <3>1, <3>2
      <3>4. \A r \in Threads : ~Clearing(r)
        BY <3>3 DEF Clearing
      <3> QED
        BY <1>2, <2>3, <3>1, <3>3, <3>4
    <2>5. ASSUME Proceeds(t, n), ~torn'  PROVE Good
      <3>1. ~torn /\ pc[t] # "idle"
        BY <2>5 DEF Proceeds
      <3>2. ASSUME NEW r \in Threads, Clearing(r)  PROVE Good
        <4>1. Clearing(t) /\ r = t
          BY <1>5, <3>1, <3>2
        <4>2. Tallied'
          BY <1>1, <1>2, <1>8, <2>5, <4>1, ResetEnds
        <4>3. \A u \in Threads : ~Resetting(u)'
          BY <1>3, <1>8, <4>1 DEF Clearing, Resetting, Idle
        <4> QED
          BY <4>2, <4>3
      <3> QED
        BY <1>2, <2>3, <3>1, <3>2
    <2>6. ~torn' => Good
      BY <1>8, <2>4, <2>5
    <2> QED
      BY <1>4, <2>1, <2>6 DEF AgreeInv
  <1> QED
    BY <1>2, <1>6, <1>7, <1>8, WorkDone

\* The counters agree at the start: all of them are 0.
LEMMA AgreeInit == Init => AgreeInv
  <1> SUFFICES ASSUME Init PROVE AgreeInv
    OBVIOUS
  <1> DEFINE v == [c \in Counters |-> 0]
  <1>1. v \in [Counters -> Nat] /\ Agree(v) /\ \A c \in Captured : v[c] = 0
    BY NothingRecorded
  <1>2. Tallies \subseteq Captured /\ Captured \subseteq Counters
    BY DEF Tallies, Captured
  <1> HIDE DEF v
  <1>3. /\ \A t \in Threads : pc[t] = "idle" /\ todo[t] = <<>>
        /\ todo \in [Threads -> Seq(Accesses)] /\ calls = 0
        /\ \A c \in Counters : g_stats[c] = 0
    BY DEF Init
  <1>4. Due = 0 /\ \A c : Owed(c) = 0
    <2>1. \A t \in Threads : todo[t] = <<>> /\ Left(pc[t]) = 0
      BY <1>3 DEF Left
    <2> QED
      BY <1>3, <2>1, NothingDue
  <1>5. ASSUME NEW c \in Captured
        PROVE  \E k \in Int : g_stats[c] + Owed(c) = v[c] + k * Modulus
    <2>1. g_stats[c] = 0 /\ Owed(c) = 0 /\ v[c] = 0
      BY <1>1, <1>2, <1>3, <1>4
    <2>2. g_stats[c] + Owed(c) = v[c] + 0 * Modulus
      BY <2>1, BoundsAssumption
    <2> QED
      BY <2>2
  <1>6. \A c \in Tallies : v[c] + Due <= 2 * calls
    BY <1>1, <1>2, <1>3, <1>4
  <1>7. Tallied
    BY <1>1, <1>5, <1>6 DEF Tallied
  <1>8. \A t \in Threads : WorkOf(t) /\ ~Resetting(t)
    BY <1>3 DEF WorkOf, Resetting
  <1> QED
    BY <1>3, <1>7, <1>8 DEF AgreeInv

\* A step that changes nothing keeps it too.
LEMMA AgreeStutter == AgreeInv /\ UNCHANGED vars => AgreeInv'
  <1> SUFFICES ASSUME AgreeInv, UNCHANGED vars PROVE AgreeInv'
    OBVIOUS
  <1>1. /\ g_stats' = g_stats /\ pc' = pc /\ todo' = todo /\ calls' = calls /\ torn' = torn
    BY DEF vars, stats, control
  <1>2. \A t \in Threads :
           /\ WorkOf(t)' <=> WorkOf(t)
           /\ Resetting(t)' <=> Resetting(t)
           /\ Clearing(t)' <=> Clearing(t)
    BY <1>1 DEF WorkOf, Resetting, Clearing, Idle
  <1>3. Due' = Due /\ \A c : Owed(c)' = Owed(c)
    BY <1>1 DEF Due, Owed
  <1>4. Tallied' <=> Tallied
    BY <1>1, <1>3 DEF Tallied
  <1> QED
    BY <1>1, <1>2, <1>4 DEF AgreeInv

\* Counters in agreement that have not wrapped agree as they stand.
LEMMA TalliedAgree ==
    ASSUME TypeOK, FramesOK, calls \in Nat, \A t \in Threads : Settled(t) /\ Idle(t),
           Tallied, 2 * calls < Modulus
    PROVE  Agree(g_stats)
  <1>1. PICK v \in [Counters -> Nat] :
           /\ Agree(v)
           /\ \A c \in Captured :
                 \E k \in Int : g_stats[c] + Owed(c) = v[c] + k * Modulus
           /\ \A c \in Tallies : v[c] + Due <= 2 * calls
    BY DEF Tallied
  <1>2. Due = 0 /\ \A c : Owed(c) = 0
    <2>1. \A t \in Threads : todo[t] = <<>> /\ Left(pc[t]) = 0
      BY DEF Settled, Idle, Left
    <2> QED
      BY <2>1, NothingDue DEF FramesOK
  <1>3. Captured \subseteq Counters /\ Tallies \subseteq Captured
    BY DEF Captured, Tallies
  <1>4. g_stats \in [Counters -> 0 .. Modulus - 1] /\ Modulus \in Nat \ {0}
    BY BoundsAssumption DEF TypeOK
  <1>5. ASSUME NEW c \in Captured, v[c] < Modulus  PROVE g_stats[c] = v[c]
    <2> DEFINE x == g_stats[c]
               y == v[c]
    <2>1. x \in 0 .. Modulus - 1 /\ y \in Nat
      BY <1>1, <1>3, <1>4
    <2>2. PICK k \in Int : x + 0 = y + k * Modulus
      BY <1>1, <1>2
    <2>3. y < Modulus
      BY <1>5
    <2> HIDE DEF x, y
    <2>4. x = y + k * Modulus
      BY <2>1, <2>2
    <2>5. y \in 0 .. Modulus - 1
      BY <1>4, <2>1, <2>3
    <2>6. x = y
      BY <1>4, <2>1, <2>4, <2>5, SameResidue
    <2> QED
      BY <2>6 DEF x, y
  <1>6. ASSUME NEW c \in Tallies  PROVE g_stats[c] = v[c]
    <2>1. v[c] \in Nat /\ v[c] + 0 <= 2 * calls
      BY <1>1, <1>2, <1>3
    <2>2. v[c] < Modulus
      BY <1>4, <2>1
    <2> QED
      BY <1>3, <1>5, <2>2
  <1>7. v["successful_allocation_bytes"] = 0 => g_stats["successful_allocation_bytes"] = 0
    <2>1. "successful_allocation_bytes" \in Captured /\ 0 < Modulus
      BY <1>4 DEF Captured, Counters, Live
    <2> QED
      BY <1>5, <2>1
  <1>8. {"malloc_calls", "calloc_calls", "realloc_calls", "free_calls",
         "successful_allocations", "bypass_realloc_calls", "bypass_free_calls"}
           \subseteq Tallies
    BY DEF Tallies, Captured, Counters, Live
  <1>9. /\ g_stats["malloc_calls"] = v["malloc_calls"]
        /\ g_stats["calloc_calls"] = v["calloc_calls"]
        /\ g_stats["realloc_calls"] = v["realloc_calls"]
        /\ g_stats["free_calls"] = v["free_calls"]
        /\ g_stats["successful_allocations"] = v["successful_allocations"]
        /\ g_stats["bypass_realloc_calls"] = v["bypass_realloc_calls"]
        /\ g_stats["bypass_free_calls"] = v["bypass_free_calls"]
    BY <1>6, <1>8
  <1>10. Agree(v)
    BY <1>1
  <1> QED
    BY ONLY <1>7, <1>9, <1>10 DEF Agree

\* The captured counters agree with one another whenever no thread is in a call
\* and no reset overlapped one, for any number of threads, whatever sizes are asked
\* for and however captures begin and end meanwhile: each ao_record_* function
\* asks ao_capture_enabled() once.  A call records at most two events, so while
\* twice the number of calls is below the modulus no tally wraps.
THEOREM CountersStayInAgreement == Spec => [](2 * calls < Modulus => CountersAgree)
  <1>1. Inv /\ LedgerInv /\ [Next]_vars => LedgerInv'
    BY LedgerStep, LedgerStutter DEF Next, Stopped
  <1>2. Inv /\ Inv' /\ LedgerInv /\ AgreeInv /\ [Next]_vars => AgreeInv'
    BY AgreeStep, AgreeStutter DEF Next, Stopped, Inv
  <1>3. ASSUME Inv, LedgerInv, AgreeInv, 2 * calls < Modulus
        PROVE  CountersAgree
    <2>1. SUFFICES ASSUME ~torn, \A t \in Threads : Idle(t)  PROVE Agree(g_stats)
      BY DEF CountersAgree, Agree
    <2>2. TypeOK /\ FramesOK /\ calls \in Nat /\ \A t \in Threads : Settled(t)
      BY <1>3 DEF Inv, LedgerInv, AgreeInv
    <2>3. Tallied
      BY <1>3, <2>1 DEF AgreeInv, Clearing, Resetting, Idle
    <2> QED
      BY <1>3, <2>1, <2>2, <2>3, TalliedAgree
  <1>4. Inv /\ LedgerInv /\ AgreeInv => (2 * calls < Modulus => CountersAgree)
    BY <1>3
  <1>5. QED
    BY Invariance, LedgerInit, AgreeInit, <1>1, <1>2, <1>4, PTL DEF Spec

=============================================================================
