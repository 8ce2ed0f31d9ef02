------------------------------- MODULE Startup -------------------------------
(***************************************************************************)
(* Start-up of libmock_allocator.so: the first calls of several threads    *)
(* race through pthread_once to resolve the real functions; dlsym may      *)
(* itself allocate while it resolves, which the resolving thread serves    *)
(* from the bootstrap heap; and a bootstrap block may be reallocated or    *)
(* freed later, by any thread.  What a call does once the real functions   *)
(* are known is module MockAllocator's subject.                            *)
(***************************************************************************)
EXTENDS Naturals, Sequences, FiniteSets

CONSTANTS
    Threads,
    Sizes,        \* the sizes callers ask for
    HeapSize,     \* AO_BOOTSTRAP_HEAP_SIZE
    HeaderSize,   \* sizeof(ao_bootstrap_header)
    Alignment,    \* sizeof(max_align_t)
    Modulus,      \* SIZE_MAX + 1: sizes wrap
    MaxCalls      \* bound on the number of calls of a behaviour

ASSUME StartupAssumption ==
    /\ Sizes \subseteq 0 .. Modulus - 1
    /\ {HeapSize, HeaderSize, Alignment, Modulus} \subseteq Nat \ {0}
    /\ HeapSize < Modulus

Functions == {"malloc", "calloc", "realloc", "free"}
Order     == <<"malloc", "calloc", "realloc", "free">>

VARIABLES
    g_resolve_once,      \* "init", "running" or "done"
    g_in_resolver,       \* thread-local
    g_real,              \* which g_real_* pointers are not NULL
    looked_up,           \* how many symbols the resolver has looked up
    pc,                  \* "idle", "once", "resolving" or "real"
    call,                \* the function a thread is in, and its argument
    boot,                \* the bootstrap request a thread is serving
    g_bootstrap_offset,
    blocks,              \* the bootstrap blocks, in the order made: [nr, at, size]
    held,                \* the blocks callers hold
    calls,               \* the number of calls made
    exited               \* ao_fatal has ended the process

vars == <<g_resolve_once, g_in_resolver, g_real, looked_up, pc, call, boot,
          g_bootstrap_offset, blocks, held, calls, exited>>

\* Pointers: into the bootstrap heap, or to a block of the real allocator.
NULL     == <<"null", 0>>
InBoot(n) == <<"boot", n>>
Real(n)   == <<"real", n>>

NoCall    == [fn |-> "none", ptr |-> NULL]
NoRequest == [at |-> "none", size |-> 0, old |-> NULL, current |-> 0]

-----------------------------------------------------------------------------
(* The bootstrap heap.                                                     *)

\* The sum of the remainder may wrap as well.
ao_align_up(value) ==
    LET remainder == value % Alignment
    IN  IF remainder = 0 THEN value
        ELSE (value + (Alignment - remainder)) % Modulus

Total(size) == ao_align_up((HeaderSize + size) % Modulus)

\* The request is one whose total does not wrap.
Reasonable(size) == size + HeaderSize + Alignment <= Modulus

ao_bootstrap_contains(p) == p[1] = "boot"

\* A thread starts to serve a request from the bootstrap heap; old is the block
\* it reallocates, or NULL.
Request(t, size, old) ==
    boot' = [boot EXCEPT ![t] =
                [at |-> "load", size |-> size, old |-> old, current |-> 0]]

\* Mutant: the room left is not compared with what is asked.
Mutant_NoRoom(current, total) == current > HeapSize

NoRoom(current, total) == current > HeapSize \/ total > HeapSize - current

\* The offset is loaded; without room the request fails, and a realloc's caller
\* keeps its block.
bootstrap_load(t) ==
    LET r == boot[t]
    IN  /\ ~exited
        /\ r.at = "load"
        /\ \/ /\ NoRoom(g_bootstrap_offset, Total(r.size))
              /\ boot' = [boot EXCEPT ![t] = NoRequest]
              /\ held' = held \cup ({r.old} \ {NULL})
           \/ /\ ~NoRoom(g_bootstrap_offset, Total(r.size))
              /\ boot' = [boot EXCEPT ![t] =
                            [r EXCEPT !.at = "cas",
                                      !.current = g_bootstrap_offset]]
              /\ UNCHANGED held
        /\ UNCHANGED <<g_resolve_once, g_in_resolver, g_real, looked_up, pc,
                       call, g_bootstrap_offset, blocks, calls, exited>>

\* Mutant: the offset is stored without comparing it with the one loaded.
Mutant_Unchanged(r) == TRUE

Unchanged(r) == g_bootstrap_offset = r.current

\* The compare-and-exchange succeeds: the bytes from current to next are the
\* thread's, and the header records the size.
bootstrap_cas(t) ==
    LET r == boot[t]
    IN  /\ ~exited
        /\ r.at = "cas"
        /\ Unchanged(r)
        /\ g_bootstrap_offset' = r.current + Total(r.size)
        /\ blocks' = blocks \cup {[nr |-> Cardinality(blocks), at |-> r.current,
                                   size |-> r.size]}
        /\ held' = held \cup {InBoot(r.current + HeaderSize)}
        /\ boot' = [boot EXCEPT ![t] = NoRequest]
        /\ UNCHANGED <<g_resolve_once, g_in_resolver, g_real, looked_up, pc,
                       call, calls, exited>>

\* It fails, because another thread was faster or, being weak, for no reason.
bootstrap_cas_fails(t) ==
    /\ ~exited
    /\ boot[t].at = "cas"
    /\ boot' = [boot EXCEPT ![t].at = "load"]
    /\ UNCHANGED <<g_resolve_once, g_in_resolver, g_real, looked_up, pc, call,
                   g_bootstrap_offset, blocks, held, calls, exited>>

-----------------------------------------------------------------------------
(* The interposed functions, up to the real call.                          *)

\* A thread makes a call of its own, or dlsym makes one on the thread that
\* resolves.
Enter(t) ==
    /\ ~exited
    /\ calls < MaxCalls
    /\ calls' = calls + 1
    /\ boot[t] = NoRequest
    /\ pc[t] \in {"idle", "resolving"}
    /\ UNCHANGED <<g_resolve_once, g_in_resolver, g_real, looked_up,
                   g_bootstrap_offset, blocks, exited>>

\* ao_ensure_real_functions is called, then the real function.
Ensure(t, fn, p) ==
    /\ pc' = [pc EXCEPT ![t] = "once"]
    /\ call' = [call EXCEPT ![t] = [fn |-> fn, ptr |-> p]]
    /\ UNCHANGED boot

\* Mutant: calls that dlsym makes are not told from others.
Mutant_InResolver(t) == FALSE

InResolver(t) == g_in_resolver[t]

malloc(t, size) ==
    /\ Enter(t)
    /\ \/ InResolver(t) /\ Request(t, size, NULL) /\ UNCHANGED <<pc, call>>
       \/ ~InResolver(t) /\ Ensure(t, "malloc", NULL)
    /\ UNCHANGED held

\* In the resolver the product is taken without a check.
calloc(t, nmemb, size) ==
    /\ Enter(t)
    /\ \/ /\ InResolver(t)
          /\ Request(t, (nmemb * size) % Modulus, NULL)
          /\ UNCHANGED <<pc, call>>
       \/ /\ ~InResolver(t)
          /\ nmemb # 0 /\ size > (Modulus - 1) \div nmemb
          /\ UNCHANGED <<pc, call, boot>>
       \/ /\ ~InResolver(t)
          /\ ~(nmemb # 0 /\ size > (Modulus - 1) \div nmemb)
          /\ Ensure(t, "calloc", NULL)
    /\ UNCHANGED held

\* A block of the bootstrap heap is replaced by a new one, a block of the real
\* allocator is refused.
ao_bootstrap_realloc(t, p, size) ==
    /\ \/ /\ p = NULL \/ ao_bootstrap_contains(p)
          /\ held' = held \ {p}
          /\ Request(t, size, p)
       \/ /\ ~(p = NULL \/ ao_bootstrap_contains(p))
          /\ UNCHANGED <<held, boot>>
    /\ UNCHANGED <<pc, call>>

realloc(t, p, size) ==
    /\ Enter(t)
    /\ p \in held \cup {NULL}
    /\ \/ /\ InResolver(t) \/ ao_bootstrap_contains(p)
          /\ ao_bootstrap_realloc(t, p, size)
       \/ /\ ~(InResolver(t) \/ ao_bootstrap_contains(p))
          /\ held' = held \ {p}
          /\ Ensure(t, "realloc", p)

\* A bootstrap block is not reclaimed, and in the resolver no block is.
free(t, p) ==
    /\ Enter(t)
    /\ p \in held
    /\ held' = held \ {p}
    /\ \/ /\ ao_bootstrap_contains(p) \/ InResolver(t)
          /\ UNCHANGED <<pc, call, boot>>
       \/ /\ ~ao_bootstrap_contains(p) /\ ~InResolver(t)
          /\ Ensure(t, "free", p)

-----------------------------------------------------------------------------
(* pthread_once and the resolver.                                          *)

\* Mutant: the flag is raised when the resolver starts, and nobody waits.
Mutant_MayPass == g_resolve_once # "init"
\* Mutant: a thread that finds the resolver running runs it as well.
Mutant_MayRun == g_resolve_once # "done"

\* pthread_once (external) lets a thread pass when the routine has returned,
\* and has one thread run it.
MayPass == g_resolve_once = "done"
MayRun == g_resolve_once = "init"

pthread_once_pass(t) ==
    /\ ~exited
    /\ pc[t] = "once"
    /\ MayPass
    /\ pc' = [pc EXCEPT ![t] = "real"]
    /\ UNCHANGED <<g_resolve_once, g_in_resolver, g_real, looked_up, call, boot,
                   g_bootstrap_offset, blocks, held, calls, exited>>

pthread_once_run(t) ==
    /\ ~exited
    /\ pc[t] = "once"
    /\ MayRun
    /\ g_resolve_once' = "running"
    /\ g_in_resolver' = [g_in_resolver EXCEPT ![t] = TRUE]
    /\ pc' = [pc EXCEPT ![t] = "resolving"]
    /\ UNCHANGED <<g_real, looked_up, call, boot, g_bootstrap_offset, blocks,
                   held, calls, exited>>

\* dlsym (external) finds the next symbol or returns NULL.
resolve_symbol(t) ==
    /\ ~exited
    /\ pc[t] = "resolving"
    /\ boot[t] = NoRequest
    /\ looked_up < Len(Order)
    /\ looked_up' = looked_up + 1
    /\ \E found \in SUBSET {Order[looked_up + 1]} : g_real' = g_real \cup found
    /\ UNCHANGED <<g_resolve_once, g_in_resolver, pc, call, boot,
                   g_bootstrap_offset, blocks, held, calls, exited>>

resolve_done(t) ==
    /\ ~exited
    /\ pc[t] = "resolving"
    /\ boot[t] = NoRequest
    /\ looked_up = Len(Order)
    /\ g_in_resolver' = [g_in_resolver EXCEPT ![t] = FALSE]
    /\ \/ /\ g_real # Functions
          /\ exited' = TRUE
          /\ UNCHANGED <<g_resolve_once, pc>>
       \/ /\ g_real = Functions
          /\ g_resolve_once' = "done"
          /\ pc' = [pc EXCEPT ![t] = "real"]
          /\ UNCHANGED exited
    /\ UNCHANGED <<g_real, looked_up, call, boot, g_bootstrap_offset, blocks,
                   held, calls>>

\* The addresses the real allocator does not have in use.
Unused == {Real(n) : n \in 1 .. MaxCalls} \ (held \cup {call[u].ptr : u \in Threads})

\* The real function (external) returns: a new block, or NULL, and then a
\* realloc leaves its caller the old one.
real_call(t) ==
    /\ ~exited
    /\ pc[t] = "real"
    /\ pc' = [pc EXCEPT ![t] = "idle"]
    /\ call' = [call EXCEPT ![t] = NoCall]
    /\ \/ /\ call[t].fn # "free"
          /\ \E p \in Unused : held' = held \cup {p}
       \/ /\ call[t].fn = "realloc"
          /\ held' = held \cup ({call[t].ptr} \ {NULL})
       \/ /\ call[t].fn # "realloc"
          /\ UNCHANGED held
    /\ UNCHANGED <<g_resolve_once, g_in_resolver, g_real, looked_up, boot,
                   g_bootstrap_offset, blocks, calls, exited>>

-----------------------------------------------------------------------------
Init ==
    /\ g_resolve_once = "init"
    /\ g_in_resolver = [t \in Threads |-> FALSE]
    /\ g_real = {}
    /\ looked_up = 0
    /\ pc = [t \in Threads |-> "idle"]
    /\ call = [t \in Threads |-> NoCall]
    /\ boot = [t \in Threads |-> NoRequest]
    /\ g_bootstrap_offset = 0
    /\ blocks = {}
    /\ held = {}
    /\ calls = 0
    /\ exited = FALSE

Call(t) ==
    \/ \E size \in Sizes : malloc(t, size)
    \/ \E nmemb, size \in Sizes : calloc(t, nmemb, size)
    \/ \E p \in held \cup {NULL}, size \in Sizes : realloc(t, p, size)
    \/ \E p \in held : free(t, p)

Progress(t) ==
    \/ bootstrap_load(t)
    \/ bootstrap_cas(t)
    \/ bootstrap_cas_fails(t)
    \/ pthread_once_pass(t)
    \/ pthread_once_run(t)
    \/ resolve_symbol(t)
    \/ resolve_done(t)
    \/ real_call(t)

Next == \E t \in Threads : Call(t) \/ Progress(t)

\* A thread that can go on does; a weak compare-and-exchange that can succeed
\* again and again does not fail for ever.
Fairness ==
    \A t \in Threads : WF_vars(Progress(t)) /\ SF_vars(bootstrap_cas(t))

Spec == Init /\ [][Next]_vars /\ Fairness

-----------------------------------------------------------------------------
\* The state has its shape, and the bump pointer never leaves the heap.
TypeOK ==
    /\ g_resolve_once \in {"init", "running", "done"}
    /\ g_in_resolver \in [Threads -> BOOLEAN]
    /\ g_real \subseteq Functions
    /\ looked_up \in 0 .. Len(Order)
    /\ pc \in [Threads -> {"idle", "once", "resolving", "real"}]
    /\ g_bootstrap_offset \in 0 .. HeapSize
    /\ blocks \subseteq [nr : Nat, at : 0 .. HeapSize, size : 0 .. Modulus - 1]
    /\ exited \in BOOLEAN

Ends(b) == b.at + HeaderSize + b.size

\* Threads that bump the pointer at the same time get blocks that do not
\* overlap and that lie in the heap, header and all.  Requests whose total wraps
\* (line 105, or the product of line 524) are left out: their block is smaller
\* than its header says, and its place may be given away again.
BlocksDisjoint ==
    LET sound == {b \in blocks : Reasonable(b.size)}
    IN  \A b \in sound :
            /\ Ends(b) <= HeapSize
            /\ \A c \in sound \ {b} : Ends(b) <= c.at \/ Ends(c) <= b.at

\* No thread calls through a g_real_* pointer before it is resolved: the threads
\* that arrive while the resolver runs wait for it (line 318).
RealCallsResolved ==
    \A t \in Threads : pc[t] = "real" => g_real = Functions

\* While the resolver runs no block of the real allocator is held: free and
\* realloc, which in the resolver would drop one or refuse it (lines 146 and
\* 634), never see one.
ResolverSeesNoRealBlock ==
    (\E t \in Threads : g_in_resolver[t]) => \A p \in held : p[1] = "boot"

\* Every call returns, unless the process ends: the calls dlsym makes on the
\* resolving thread do not wait for the resolver (lines 502, 523 and 558), and
\* no thread is stuck behind it.
EveryCallReturns ==
    \A t \in Threads :
        (pc[t] # "idle" \/ boot[t] # NoRequest)
            ~> (exited \/ (pc[t] = "idle" /\ boot[t] = NoRequest))

=============================================================================
