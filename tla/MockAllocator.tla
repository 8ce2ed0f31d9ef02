---------------------------- MODULE MockAllocator ----------------------------
(***************************************************************************)
(* libmock_allocator.so after start-up: the interposed malloc, calloc,     *)
(* realloc and free, the bridge that hands blocks back to libc, and the    *)
(* capture and statistics calls the test programs make, run by several     *)
(* threads.  Module Startup models the resolver and the bootstrap heap;    *)
(* here the g_real_* pointers are resolved.                                *)
(*                                                                         *)
(* A step is one access to shared memory: taking the registry spin lock,   *)
(* what is done under it up to its release, one call of the real           *)
(* allocator, one atomic counter access.  The counter accesses a call has  *)
(* still to make are the thread's todo sequence.                           *)
(*                                                                         *)
(* The registry is the map of module AllocationMap, which module Registry  *)
(* is shown to implement.  The real allocator and the code that uses the   *)
(* library (which frees or reallocates only blocks it holds) are external. *)
(***************************************************************************)
EXTENDS Integers, Sequences, FiniteSets, Functions

CONSTANTS
    Threads,
    Addr,       \* the addresses the real allocator hands out
    Sizes,      \* the sizes callers ask for
    SizeMax,    \* SIZE_MAX
    Capacity,   \* AO_REGISTRY_CAPACITY
    Modulus,    \* 2^64: the counters are unsigned and wrap
    NULL,
    Calls,      \* the entry points the threads use
    MaxCalls    \* bound on the number of calls of a behaviour

ASSUME ThreadsAssumption == IsFiniteSet(Threads) /\ Threads # {}
ASSUME NullAssumption == NULL \notin Addr /\ NULL \notin Threads
ASSUME SizesAssumption == Sizes \subseteq Nat /\ SizeMax \in Nat
ASSUME BoundsAssumption == Capacity \in Nat \ {0} /\ Modulus \in Nat \ {0}

Counters ==
    {"malloc_calls", "calloc_calls", "realloc_calls", "free_calls",
     "successful_allocations", "successful_allocation_bytes",
     "failed_allocations", "bypass_realloc_calls", "bypass_free_calls",
     "live_blocks", "live_bytes"}

VARIABLES
    heap,                  \* the addresses of allocated blocks
    g_registry,            \* the tracked addresses: size and id of each
    g_registry_lock,       \* the thread that holds the spin lock, or NULL
    g_next_allocation_id,
    g_stats,               \* the counters
    g_capture_depth,
    pc,                    \* where each thread is in the call it makes
    frame,                 \* the locals of that call
    todo,                  \* the counter accesses it makes next
    held,                  \* who obtained each block the callers hold
    calls,                 \* the number of calls made
    exited,                \* the message ao_fatal ended the process with
    nest,                  \* history: captures begun minus captures ended
    reused,                \* history: see Reuse
    torn                   \* history: see Overlap

memory  == <<heap, held, reused>>
table   == <<g_registry, g_registry_lock, g_next_allocation_id>>
stats   == <<g_stats, g_capture_depth, nest>>
control == <<calls, exited, torn>>
vars    == <<memory, table, stats, control, pc, frame, todo>>

Map == INSTANCE AllocationMap
          WITH Keys <- Addr, Ids <- Nat, map <- g_registry, ret <- NULL

\* The locals of a call: the arguments ptr and size, the results of the lookup
\* and of the real allocator, and the block its caller holds once it returns.
NoFrame ==
    [ptr |-> NULL, size |-> 0, kind |-> 0, old_size |-> 0, allocation_id |-> 0,
     new_ptr |-> NULL, keeps |-> NULL, origin |-> "none"]

Idle(t)    == pc[t] = "idle"
At(t, l)   == exited = "no" /\ pc[t] = l /\ todo[t] = <<>>
Goto(t, l) == pc' = [pc EXCEPT ![t] = l]

-----------------------------------------------------------------------------
(* Counter accesses.                                                       *)

Add(c, n)   == [op |-> "add", counter |-> c, n |-> n, adds |-> <<>>]
Store(c)    == [op |-> "store", counter |-> c, n |-> 0, adds |-> <<>>]

ao_capture_enabled == g_capture_depth > 0

\* ao_capture_enabled() is asked once, then the adds are made or not.
Record(adds) == <<[op |-> "record", counter |-> "none", n |-> 0, adds |-> adds]>>

ao_record_failed_allocation == Record(<<Add("failed_allocations", 1)>>)

\* Mutant: each counter asks anew whether capture is enabled.
Mutant_record_successful(kind, size) ==
    Record(<<Add(<<"malloc_calls", "calloc_calls", "realloc_calls">>[kind + 1], 1)>>)
    \o Record(<<Add("successful_allocations", 1)>>)
    \o Record(<<Add("successful_allocation_bytes", size)>>)

ao_record_successful_allocation(kind, size) ==
    Record(<<Add(<<"malloc_calls", "calloc_calls", "realloc_calls">>[kind + 1], 1),
             Add("successful_allocations", 1),
             Add("successful_allocation_bytes", size)>>)

ao_record_free(bypass) ==
    Record(<<Add("free_calls", 1)>>
           \o IF bypass THEN <<Add("bypass_free_calls", 1)>> ELSE <<>>)

ao_record_realloc(bypass) ==
    Record(<<Add("realloc_calls", 1)>>
           \o IF bypass THEN <<Add("bypass_realloc_calls", 1)>> ELSE <<>>)

ao_live_add(size) == <<Add("live_blocks", 1), Add("live_bytes", size)>>

\* Mutant: a block that shrinks is not counted.
Mutant_live_update(old_size, new_size) ==
    IF new_size > old_size THEN <<Add("live_bytes", new_size - old_size)>>
    ELSE <<>>

ao_live_update(old_size, new_size) ==
    IF new_size # old_size THEN <<Add("live_bytes", new_size - old_size)>>
    ELSE <<>>

ao_live_remove(size) == <<Add("live_blocks", -1), Add("live_bytes", -size)>>

ResetOrder ==
    <<"malloc_calls", "calloc_calls", "realloc_calls", "free_calls",
      "successful_allocations", "successful_allocation_bytes",
      "failed_allocations", "bypass_realloc_calls", "bypass_free_calls">>

\* Thread t makes the next access of its todo sequence.
CounterStep(t) ==
    /\ exited = "no"
    /\ todo[t] # <<>>
    /\ LET next == Head(todo[t])
           rest == Tail(todo[t])
       IN  \/ /\ next.op = "add"
              /\ g_stats' = [g_stats EXCEPT ![next.counter] = (@ + next.n) % Modulus]
              /\ todo' = [todo EXCEPT ![t] = rest]
           \/ /\ next.op = "store"
              /\ g_stats' = [g_stats EXCEPT ![next.counter] = 0]
              /\ todo' = [todo EXCEPT ![t] = rest]
           \/ /\ next.op = "record"
              /\ todo' = [todo EXCEPT ![t] =
                    IF ao_capture_enabled THEN next.adds \o rest ELSE rest]
              /\ UNCHANGED g_stats
    /\ UNCHANGED <<memory, table, g_capture_depth, nest, control, pc, frame>>

-----------------------------------------------------------------------------
(* The real allocator (external).                                          *)

\* A realloc that has let go of address a and not yet taken it out of the
\* registry.
FixUpPending(u, a) ==
    /\ pc[u] \in {"re_fix_lock", "re_fix"}
    /\ frame[u].ptr = a
    /\ frame[u].new_ptr # a

\* Address a is handed out anew; reused remembers that this was ever done while
\* another thread's realloc had the registry entry of a still to remove.
Reuse(a) == reused' = (reused \/ \E u \in Threads : FixUpPending(u, a))

g_real_malloc(a) ==
    \/ /\ a = NULL
       /\ UNCHANGED <<heap, reused>>
    \/ /\ a \in Addr \ heap
       /\ heap' = heap \cup {a}
       /\ Reuse(a)

g_real_free(p) ==
    /\ heap' = heap \ {p}
    /\ UNCHANGED reused

\* In place, moved, or refused, which leaves the block alone; a size of 0 may
\* release the block and return NULL.
g_real_realloc(p, size, a) ==
    \/ /\ a = p
       /\ UNCHANGED <<heap, reused>>
    \/ /\ a \in Addr \ heap
       /\ heap' = (heap \ {p}) \cup {a}
       /\ Reuse(a)
    \/ /\ a = NULL
       /\ heap' = IF size = 0 THEN heap \ {p} ELSE heap
       /\ UNCHANGED reused

-----------------------------------------------------------------------------
(* Entry to a call and return from it.                                     *)

Resetting(u) == pc[u] = "resetting"

\* torn remembers that a reset ran while another thread was inside a call; a
\* reset that starts with no other thread in a call clears it.
Overlap(t, c) ==
    torn' = IF c = "reset"
            THEN \E u \in Threads \ {t} : ~Idle(u)
            ELSE torn \/ \E u \in Threads \ {t} : Resetting(u)

Enter(t, c) ==
    /\ exited = "no"
    /\ Idle(t)
    /\ c \in Calls
    /\ calls < MaxCalls
    /\ calls' = calls + 1
    /\ Overlap(t, c)
    /\ UNCHANGED exited

\* The rest of a call: f holds its locals, work its counter accesses, and l is
\* what it does after them.
Go(t, l, f, work) ==
    /\ Goto(t, l)
    /\ frame' = [frame EXCEPT ![t] = f]
    /\ todo' = [todo EXCEPT ![t] = work]

\* The caller holds the block the call gave it, or gave it back.
Return(t) ==
    /\ At(t, "return") \/ At(t, "resetting")
    /\ Go(t, "idle", NoFrame, <<>>)
    /\ held' = IF frame[t].keeps = NULL THEN held
               ELSE [held EXCEPT ![frame[t].keeps] = frame[t].origin]
    /\ UNCHANGED <<heap, reused, table, stats, control>>

Lock(t, from, to) ==
    /\ At(t, from)
    /\ g_registry_lock = NULL
    /\ g_registry_lock' = t
    /\ Goto(t, to)
    /\ UNCHANGED <<memory, g_registry, g_next_allocation_id, stats, control,
                   frame, todo>>

\* Mutant: the lock is left taken.
Mutant_Unlock(t) == g_registry_lock = t /\ UNCHANGED g_registry_lock

Unlock(t) == g_registry_lock = t /\ g_registry_lock' = NULL

\* ao_fatal: the process ends and no thread takes another step.
ao_fatal(t) ==
    /\ \/ /\ At(t, "exhausted")
          /\ exited' = "exhausted"
       \/ /\ At(t, "exhausted_realloc")
          /\ exited' = "exhausted_realloc"
    /\ UNCHANGED <<memory, table, stats, calls, torn, pc, frame, todo>>

-----------------------------------------------------------------------------
(* malloc, calloc and realloc of NULL.                                     *)

\* What follows the call of the real allocator: the failure is recorded, or
\* the new block is tracked.
Allocated(t, kind, size, a) ==
    \/ /\ a = NULL
       /\ Go(t, "return", NoFrame, ao_record_failed_allocation)
    \/ /\ a # NULL
       /\ Go(t, "track_lock",
             [NoFrame EXCEPT !.kind = kind, !.size = size, !.new_ptr = a,
                             !.keeps = a, !.origin = "mock"],
             <<>>)

malloc(t, size) ==
    /\ Enter(t, "malloc")
    /\ \E a \in Addr \cup {NULL} :
          g_real_malloc(a) /\ Allocated(t, 0, size, a)
    /\ UNCHANGED <<held, table, stats>>

calloc(t, nmemb, size) ==
    /\ Enter(t, "calloc")
    /\ \/ /\ nmemb # 0 /\ size > SizeMax \div nmemb
          /\ Go(t, "return", NoFrame, ao_record_failed_allocation)
          /\ UNCHANGED <<heap, reused>>
       \/ /\ ~(nmemb # 0 /\ size > SizeMax \div nmemb)
          /\ \E a \in Addr \cup {NULL} :
                g_real_malloc(a) /\ Allocated(t, 1, nmemb * size, a)
    /\ UNCHANGED <<held, table, stats>>

realloc_null(t, size) ==
    /\ Enter(t, "realloc_null")
    /\ \E a \in Addr \cup {NULL} :
          g_real_malloc(a) /\ Allocated(t, 2, size, a)
    /\ UNCHANGED <<held, table, stats>>

\* The id is drawn inside the critical section whether or not there is room.
ao_track_allocation_or_die(t) ==
    LET f     == frame[t]
        entry == [requested_size |-> f.size,
                  allocation_id  |-> g_next_allocation_id]
    IN  /\ At(t, "track")
        /\ Unlock(t)
        /\ g_next_allocation_id' = g_next_allocation_id + 1
        /\ \/ /\ Map!CanPut(g_registry, f.new_ptr)
              /\ g_registry' = Map!Put(g_registry, f.new_ptr, entry)
              /\ Go(t, "return", f,
                    ao_live_add(f.size)
                    \o ao_record_successful_allocation(f.kind, f.size))
           \/ /\ ~Map!CanPut(g_registry, f.new_ptr)
              /\ UNCHANGED <<g_registry, frame, todo>>
              /\ Goto(t, "exhausted")
        /\ UNCHANGED <<memory, stats, control>>

-----------------------------------------------------------------------------
(* realloc of a block, and free.                                           *)

\* The caller hands block p over to the call.
TakeFrom(p) ==
    /\ held[p] # "none"
    /\ held' = [held EXCEPT ![p] = "none"]

realloc(t, p, size) ==
    /\ Enter(t, "realloc")
    /\ TakeFrom(p)
    /\ Go(t, "re_lookup_lock",
          [NoFrame EXCEPT !.ptr = p, !.size = size, !.origin = held[p]], <<>>)
    /\ UNCHANGED <<heap, reused, table, stats>>

realloc_lookup(t) ==
    LET f == frame[t]
    IN  /\ At(t, "re_lookup")
        /\ Unlock(t)
        /\ \/ /\ f.ptr \in DOMAIN g_registry
              /\ Go(t, "re_tracked",
                    [f EXCEPT !.old_size = g_registry[f.ptr].requested_size,
                              !.allocation_id = g_registry[f.ptr].allocation_id],
                    <<>>)
           \/ /\ f.ptr \notin DOMAIN g_registry
              /\ Go(t, "re_bypass", f, ao_record_realloc(TRUE))
        /\ UNCHANGED <<memory, g_registry, g_next_allocation_id, stats, control>>

\* The block the caller of realloc(p, size) holds when the real realloc
\* returned a: p itself when the call failed, nothing when p was released.
KeepsOf(p, size, a) == IF a = NULL /\ size # 0 THEN p ELSE a

realloc_bypass(t) ==
    LET f == frame[t]
    IN  /\ At(t, "re_bypass")
        /\ \E a \in Addr \cup {NULL} :
              /\ g_real_realloc(f.ptr, f.size, a)
              /\ Go(t, "return", [f EXCEPT !.keeps = KeepsOf(f.ptr, f.size, a)],
                    IF a = NULL /\ f.size # 0
                    THEN ao_record_failed_allocation ELSE <<>>)
        /\ UNCHANGED <<held, table, stats, control>>

realloc_tracked(t) ==
    LET f == frame[t]
    IN  /\ At(t, "re_tracked")
        /\ \E a \in Addr \cup {NULL} :
              LET g == [f EXCEPT !.new_ptr = a,
                                 !.keeps = KeepsOf(f.ptr, f.size, a)]
              IN  /\ g_real_realloc(f.ptr, f.size, a)
                  /\ \/ /\ a = NULL /\ f.size # 0
                        /\ Go(t, "return", g,
                              ao_record_realloc(FALSE)
                              \o ao_record_failed_allocation)
                     \/ /\ ~(a = NULL /\ f.size # 0)
                        /\ Go(t, "re_fix_lock", g, <<>>)
        /\ UNCHANGED <<held, table, stats, control>>

\* Mutant: the new address is inserted before the old one is removed.
Mutant_Moved(p, a, e) == Map!Drop(Map!Put(g_registry, a, e), p)
Mutant_RoomToMove(p, a) == Map!CanPut(g_registry, a)

\* Under the lock the old address leaves the registry, then the new one enters.
Moved(p, a, e) == Map!Put(Map!Drop(g_registry, p), a, e)
RoomToMove(p, a) == Map!CanPut(Map!Drop(g_registry, p), a)

\* The new address, if there is one, inherits the id of the old.
realloc_fix(t) ==
    LET f     == frame[t]
        entry == [requested_size |-> f.size, allocation_id |-> f.allocation_id]
    IN  /\ At(t, "re_fix")
        /\ Unlock(t)
        /\ \/ /\ f.new_ptr = NULL
              /\ g_registry' = Map!Drop(g_registry, f.ptr)
              /\ Go(t, "return", f,
                    ao_record_realloc(FALSE) \o ao_live_remove(f.old_size))
           \/ /\ f.new_ptr # NULL /\ RoomToMove(f.ptr, f.new_ptr)
              /\ g_registry' = Moved(f.ptr, f.new_ptr, entry)
              /\ Go(t, "return", f,
                    ao_record_realloc(FALSE)
                    \o ao_live_update(f.old_size, f.size))
           \/ /\ f.new_ptr # NULL /\ ~RoomToMove(f.ptr, f.new_ptr)
              /\ g_registry' = Map!Drop(g_registry, f.ptr)
              /\ Goto(t, "exhausted_realloc")
              /\ UNCHANGED <<frame, todo>>
        /\ UNCHANGED <<memory, g_next_allocation_id, stats, control>>

free(t, p) ==
    /\ Enter(t, "free")
    /\ TakeFrom(p)
    /\ Go(t, "fr_lock", [NoFrame EXCEPT !.ptr = p], <<>>)
    /\ UNCHANGED <<heap, reused, table, stats>>

free_remove(t) ==
    LET f == frame[t]
    IN  /\ At(t, "fr_remove")
        /\ Unlock(t)
        /\ g_registry' = Map!Drop(g_registry, f.ptr)
        /\ \/ /\ f.ptr \in DOMAIN g_registry
              /\ Go(t, "fr_real", f,
                    ao_record_free(FALSE)
                    \o ao_live_remove(g_registry[f.ptr].requested_size))
           \/ /\ f.ptr \notin DOMAIN g_registry
              /\ Go(t, "fr_real", f, ao_record_free(TRUE))
        /\ UNCHANGED <<memory, g_next_allocation_id, stats, control>>

free_real(t) ==
    /\ At(t, "fr_real")
    /\ g_real_free(frame[t].ptr)
    /\ Goto(t, "return")
    /\ UNCHANGED <<held, table, stats, control, frame, todo>>

-----------------------------------------------------------------------------
(* The bridge, and blocks that do not come from this library.              *)

\* libc obtains a block without the interposed malloc and hands it to a caller
\* (external; what the scanner does for %m).
libc_allocates(t) ==
    /\ Enter(t, "libc")
    /\ \E a \in Addr \ heap :
          /\ g_real_malloc(a)
          /\ held' = [held EXCEPT ![a] = "libc"]
    /\ UNCHANGED <<table, stats, pc, frame, todo>>

\* Callers of the bridge ask ao_alloc_bridge_owns first, and hand a block to
\* libc only when the answer is no.
ao_alloc_bridge_owns(t, p) ==
    /\ Enter(t, "bridge")
    /\ TakeFrom(p)
    /\ Go(t, "ow_lock",
          [NoFrame EXCEPT !.ptr = p, !.keeps = p, !.origin = held[p]], <<>>)
    /\ UNCHANGED <<heap, reused, table, stats>>

\* Mutant: the block goes to libc whatever the answer.
Mutant_Owned(p) == FALSE

Owned(p) == p \in DOMAIN g_registry

ao_registry_contains(t) ==
    /\ At(t, "ow_lookup")
    /\ Unlock(t)
    /\ Goto(t, IF Owned(frame[t].ptr) THEN "return" ELSE "bridge")
    /\ UNCHANGED <<memory, g_registry, g_next_allocation_id, stats, control,
                   frame, todo>>

ao_alloc_bridge_libc_free(t) ==
    /\ At(t, "bridge")
    /\ g_real_free(frame[t].ptr)
    /\ Go(t, "return", NoFrame, <<>>)
    /\ UNCHANGED <<held, table, stats, control>>

ao_alloc_bridge_libc_realloc(t, size) ==
    LET f == frame[t]
    IN  /\ At(t, "bridge")
        /\ \E a \in Addr \cup {NULL} :
              /\ g_real_realloc(f.ptr, size, a)
              /\ Go(t, "return", [f EXCEPT !.keeps = KeepsOf(f.ptr, size, a)],
                    <<>>)
        /\ UNCHANGED <<held, table, stats, control>>

-----------------------------------------------------------------------------
(* Capture and statistics.                                                 *)

ao_mock_begin_capture(t) ==
    /\ Enter(t, "begin")
    /\ g_capture_depth' = g_capture_depth + 1
    /\ nest' = [nest EXCEPT ![t] = @ + 1]
    /\ UNCHANGED <<memory, table, g_stats, pc, frame, todo>>

\* Mutant: the depth is decremented whatever it is.
Mutant_capture_to_end == TRUE

capture_to_end == g_capture_depth > 0

\* The depth is loaded here and decremented by a second access.
ao_mock_end_capture(t) ==
    /\ Enter(t, "end")
    /\ \/ /\ capture_to_end
          /\ Goto(t, "end_sub")
          /\ UNCHANGED nest
       \/ /\ ~capture_to_end
          /\ nest' = [nest EXCEPT ![t] = @ - 1]
          /\ UNCHANGED pc
    /\ UNCHANGED <<memory, table, g_stats, g_capture_depth, frame, todo>>

\* Mutant: captures do not nest, the first end turns capture off.
Mutant_end_capture_sub(t) ==
    /\ At(t, "end_sub")
    /\ g_capture_depth' = 0
    /\ nest' = [nest EXCEPT ![t] = @ - 1]
    /\ Goto(t, "idle")
    /\ UNCHANGED <<memory, table, g_stats, control, frame, todo>>

end_capture_sub(t) ==
    /\ At(t, "end_sub")
    /\ g_capture_depth' = g_capture_depth - 1
    /\ nest' = [nest EXCEPT ![t] = @ - 1]
    /\ Goto(t, "idle")
    /\ UNCHANGED <<memory, table, g_stats, control, frame, todo>>

ao_mock_reset(t) ==
    /\ Enter(t, "reset")
    /\ Go(t, "resetting", NoFrame,
          [i \in DOMAIN ResetOrder |-> Store(ResetOrder[i])])
    /\ UNCHANGED <<memory, table, stats>>

-----------------------------------------------------------------------------
Init ==
    /\ heap = {}
    /\ g_registry = [a \in {} |-> 0]
    /\ g_registry_lock = NULL
    /\ g_next_allocation_id = 1
    /\ g_stats = [c \in Counters |-> 0]
    /\ g_capture_depth = 0
    /\ pc = [t \in Threads |-> "idle"]
    /\ frame = [t \in Threads |-> NoFrame]
    /\ todo = [t \in Threads |-> <<>>]
    /\ held = [a \in Addr |-> "none"]
    /\ calls = 0
    /\ exited = "no"
    /\ nest = [t \in Threads |-> 0]
    /\ reused = FALSE
    /\ torn = FALSE

Call(t) ==
    \/ \E size \in Sizes : malloc(t, size)
    \/ \E nmemb, size \in Sizes : calloc(t, nmemb, size)
    \/ \E size \in Sizes : realloc_null(t, size)
    \/ \E p \in Addr, size \in Sizes : realloc(t, p, size)
    \/ \E p \in Addr : free(t, p)
    \/ libc_allocates(t)
    \/ \E p \in Addr : ao_alloc_bridge_owns(t, p)
    \/ ao_mock_begin_capture(t)
    \/ ao_mock_end_capture(t)
    \/ ao_mock_reset(t)

ao_registry_lock(t) ==
    \/ Lock(t, "track_lock", "track")
    \/ Lock(t, "re_lookup_lock", "re_lookup")
    \/ Lock(t, "re_fix_lock", "re_fix")
    \/ Lock(t, "fr_lock", "fr_remove")
    \/ Lock(t, "ow_lock", "ow_lookup")

Step(t) ==
    \/ CounterStep(t)
    \/ ao_registry_lock(t)
    \/ ao_track_allocation_or_die(t)
    \/ realloc_lookup(t)
    \/ realloc_bypass(t)
    \/ realloc_tracked(t)
    \/ realloc_fix(t)
    \/ free_remove(t)
    \/ free_real(t)
    \/ ao_registry_contains(t)
    \/ ao_alloc_bridge_libc_free(t)
    \/ \E size \in Sizes : ao_alloc_bridge_libc_realloc(t, size)
    \/ end_capture_sub(t)
    \/ ao_fatal(t)
    \/ Return(t)

\* The process has ended, or no thread is in a call: it may stop there.
Stopped ==
    /\ exited # "no" \/ \A t \in Threads : Idle(t)
    /\ UNCHANGED vars

Next ==
    \/ \E t \in Threads : Call(t) \/ Step(t)
    \/ Stopped

Spec == Init /\ [][Next]_vars

-----------------------------------------------------------------------------
(* Properties.                                                             *)

Labels ==
    {"idle", "track_lock", "track", "exhausted", "re_lookup_lock", "re_lookup",
     "re_bypass", "re_tracked", "re_fix_lock", "re_fix", "exhausted_realloc",
     "fr_lock", "fr_remove", "fr_real", "ow_lock", "ow_lookup", "bridge",
     "end_sub", "resetting", "return"}

InLock == {"track", "re_lookup", "re_fix", "fr_remove", "ow_lookup"}

\* The state has its shape, the registry never outgrows its table, and the lock
\* is held by the thread in a critical section and by no other.
TypeOK ==
    /\ heap \subseteq Addr
    /\ DOMAIN g_registry \subseteq Addr
    /\ Cardinality(DOMAIN g_registry) <= Capacity
    /\ \A a \in DOMAIN g_registry :
          g_registry[a] \in [requested_size : Nat, allocation_id : Nat]
    /\ g_next_allocation_id \in Nat \ {0}
    /\ g_stats \in [Counters -> 0 .. Modulus - 1]
    /\ g_capture_depth \in Int
    /\ pc \in [Threads -> Labels]
    /\ held \in [Addr -> {"none", "mock", "libc"}]
    /\ exited \in {"no", "exhausted", "exhausted_realloc"}
    /\ \A t \in Threads : (g_registry_lock = t) <=> (pc[t] \in InLock)

\* An address in the registry is that of an allocated block, except while the
\* realloc that released it is about to take it out.  free takes the address
\* out before it gives the block back (lines 641 and 650), and the bridge gives
\* back only blocks that are not in the registry: an entry that outlived its
\* block would make ao_alloc_bridge_owns claim a later block of libc.
NoStaleEntry ==
    \A a \in DOMAIN g_registry :
        a \in heap \/ \E t \in Threads : FixUpPending(t, a)

\* Every block a caller holds and obtained from this library is tracked: what
\* the validation program asks of ao_mock_is_tracked_allocation after each call
\* (tests/phase1a_validation.c:159).  It fails when a realloc on one thread
\* removes the entry that another thread has meanwhile made at the old address.
MockBlocksTracked == \A a \in Addr : held[a] = "mock" => a \in DOMAIN g_registry

\* No block a caller obtained from libc is tracked, so that the bridge hands it
\* back to libc.
LibcBlocksUntracked == \A a \in Addr : held[a] = "libc" => a \notin DOMAIN g_registry

\* The registry tells the two kinds apart in every behaviour in which no block
\* is handed out at an address that an unfinished realloc has released and not
\* yet removed (lines 593-601).
OwnershipKnown == ~reused => MockBlocksTracked /\ LibcBlocksUntracked

\* In those behaviours realloc never ends the process for lack of room: it
\* removes an entry before it inserts one (lines 601-606).
ReallocHasRoom ==
    ~reused => /\ exited # "exhausted_realloc"
               /\ \A t \in Threads : pc[t] # "exhausted_realloc"

\* What the counter accesses of work add to counter c, and what those still to be
\* made will add.
AddedBy(work, c) ==
    SumFunction([i \in DOMAIN work |->
                   IF work[i].op = "add" /\ work[i].counter = c THEN work[i].n ELSE 0])
Owed(c) == SumFunction([t \in Threads |-> AddedBy(todo[t], c)])

TrackedBytes == SumFunction([a \in DOMAIN g_registry |-> g_registry[a].requested_size])

\* live_blocks and live_bytes are the number and the total size of the
\* registry's entries, once the accesses that calls in progress have still to
\* make are counted in: no interleaving loses or repeats one, whether or not
\* capture is on and whatever ao_mock_reset clears.  Neither ever wraps below 0.
\* Both claims need that no address is reused as in OwnershipKnown.
LiveLedger ==
    ~reused =>
        /\ g_stats["live_blocks"] + Owed("live_blocks")
              = Cardinality(DOMAIN g_registry)
        /\ g_stats["live_bytes"] + Owed("live_bytes")
              = TrackedBytes

\* Between calls the captured counters agree with one another, provided that no
\* reset overlapped a call: each ao_record_* function asks ao_capture_enabled()
\* once and makes all of its adds or none, even when capture begins or ends
\* meanwhile.
CountersAgree ==
    (~torn /\ \A t \in Threads : Idle(t)) =>
        /\ g_stats["successful_allocations"] <=
              g_stats["malloc_calls"] + g_stats["calloc_calls"]
                 + g_stats["realloc_calls"]
        /\ g_stats["malloc_calls"] + g_stats["calloc_calls"] <=
              g_stats["successful_allocations"]
        /\ g_stats["bypass_realloc_calls"] <= g_stats["realloc_calls"]
        /\ g_stats["bypass_free_calls"] <= g_stats["free_calls"]
        /\ g_stats["successful_allocations"] = 0
              => g_stats["successful_allocation_bytes"] = 0

\* The depth covers every capture that was begun and not ended: a thread's begin
\* is never lost, so while each thread ends only what it began, capture is
\* enabled as long as one of them is inside a bracket.
CaptureCoversBrackets ==
    g_capture_depth >= SumFunction(nest)

\* Ends without a begin race the load of line 442 against the decrement of line
\* 445 and can take the depth below 0, but by no more than the threads that read
\* the same positive depth: one less than there are threads.
CaptureFloor == g_capture_depth >= 1 - Cardinality(Threads)

=============================================================================
