-------------------------------- MODULE Scanf --------------------------------
(***************************************************************************)
(* scanf_overrides.c: a call parses its format for %m conversions, lets    *)
(* the scanner of libc do the work, and then moves the blocks that libc    *)
(* allocated for the caller into the preloaded allocator.  The eight       *)
(* families of entry points (plain or __isoc99_, from a FILE or a string,  *)
(* narrow or wide) run the same code on their own g_real_* pointer; one    *)
(* plain and one __isoc99_ pointer stand for them here.                    *)
(*                                                                         *)
(* A format is the sequence of its directives and a result is a block and  *)
(* its owner; characters and the contents of blocks are left out.  The     *)
(* scanner, dlsym, pthread_once and the callers are external.              *)
(***************************************************************************)
EXTENDS Integers, Sequences, FiniteSets, FiniteSetsExt

CONSTANTS
    Threads,
    Formats,        \* the formats callers pass
    InitialCapacity,\* records the first allocation of a plan has room for: 8
    MaxCalls        \* bound on the number of calls of a behaviour

ASSUME CapacityAssumption == InitialCapacity \in Nat \ {0}

\* A directive: its conversion ("lit" for %%), the flags * and m, whether
\* AO_SIZE_L applies, and the number of the argument it stores through.
Directives ==
    [spec : {"s", "c", "[", "d", "n", "lit"}, suppressed : BOOLEAN,
     alloc : BOOLEAN, long : BOOLEAN, arg : Nat]

ASSUME FormatsAssumption == Formats \subseteq Seq(Directives)

VARIABLES
    g_ao_scanf_once,   \* "init", "running" or "done"
    g_real,            \* the entry points whose g_real_* pointer is not NULL
    g_bridge_ready,
    symbols,          \* what dlsym finds (external); it does not change
    pc,
    frame,             \* the locals of the call a thread is in
    slot,              \* what each thread's arguments point at
    heap,              \* the live blocks and their owners
    calls              \* the number of calls made

shared == <<g_ao_scanf_once, g_real, g_bridge_ready>>
vars   == <<shared, symbols, pc, frame, slot, heap, calls>>

NULL    == 0     \* no block
GARBAGE == -1    \* an argument nobody has stored through

NoFrame ==
    [real_fn |-> FALSE, format |-> <<>>, wide |-> FALSE,
     plan |-> <<>>, records |-> NULL, parse_ok |-> FALSE, ret |-> 0, i |-> 1,
     kept |-> {}]

Goto(t, l)   == pc' = [pc EXCEPT ![t] = l]
SetFrame(t, f) == frame' = [frame EXCEPT ![t] = f]

\* A block that is not live, and the heap with block b owned by who.
Fresh         == Max(DOMAIN heap \cup {NULL}) + 1
With(h, b, who) == [x \in DOMAIN h \cup {b} |-> IF x = b THEN who ELSE h[x]]
Without(h, B) == [x \in DOMAIN h \ B |-> h[x]]

Args(format) == {format[i].arg : i \in DOMAIN format}

-----------------------------------------------------------------------------
(* The parser.                                                             *)

\* Mutant: a suppressed conversion is numbered like the others.
Mutant_Numbered(d) == d.spec \notin {"lit", "n"}

\* The directives the parser numbers.
Numbered(d) == d.spec \notin {"lit", "n"} /\ ~d.suppressed

ordinal(format, i) ==
    Cardinality({j \in 1 .. i - 1 : Numbered(format[j])}) + 1

\* The directives the parser records.
Recorded(d) == d.alloc /\ ~d.suppressed /\ d.spec \in {"s", "c", "["}

ao_parse_scanf_format(format) ==
    LET recorded == {i \in DOMAIN format : Recorded(format[i])}
        nth(n)   == CHOOSE i \in recorded :
                       Cardinality({j \in recorded : j <= i}) = n
    IN  [n \in 1 .. Cardinality(recorded) |->
            [slot |-> format[nth(n)].arg, ordinal |-> ordinal(format, nth(n)),
             spec |-> format[nth(n)].spec, long |-> format[nth(n)].long]]

\* AO_REHOME_UNSUPPORTED_WIDE_CHAR_COUNT
Unsupported(wide, record) == wide /\ record.spec = "c" /\ ~record.long

\* The pushes that grow the plan: when count reaches 0, 8, 16, 32...
Grows(count) ==
    count = 0 \/ \E n \in 0 .. count : count = InitialCapacity * 2 ^ n

-----------------------------------------------------------------------------
(* A call.                                                                 *)

\* The caller has released what its last call gave it, and calls entry point e.
\* The pointer is read here, before the wrapper resolves it.
enter(t, e, format, wide) ==
    /\ pc[t] = "idle"
    /\ calls < MaxCalls
    /\ calls' = calls + 1
    /\ heap' = Without(heap, {slot[t][a] : a \in DOMAIN slot[t]})
    /\ slot' = [slot EXCEPT ![t] = [a \in Args(format) |-> GARBAGE]]
    /\ SetFrame(t, [NoFrame EXCEPT !.real_fn = (e \in g_real), !.format = format,
                                   !.wide = wide])
    /\ Goto(t, "ensure")
    /\ UNCHANGED <<shared, symbols>>

\* pthread_once: a thread runs the resolver, or waits until it has returned.
ao_ensure_scanf_symbols(t) ==
    /\ pc[t] = "ensure"
    /\ \/ /\ g_ao_scanf_once = "init"
          /\ g_ao_scanf_once' = "running"
          /\ Goto(t, "resolve_plain")
       \/ /\ g_ao_scanf_once = "done"
          /\ Goto(t, "wrap")
          /\ UNCHANGED g_ao_scanf_once
    /\ UNCHANGED <<g_real, g_bridge_ready, symbols, frame, slot, heap, calls>>

resolve_plain(t) ==
    /\ pc[t] = "resolve_plain"
    /\ g_real' = g_real \cup (symbols \cap {"plain"})
    /\ Goto(t, "resolve_isoc99")
    /\ UNCHANGED <<g_ao_scanf_once, g_bridge_ready, symbols, frame, slot, heap,
                   calls>>

\* A libc without the __isoc99_ name has its plain function called instead.
Fallback == IF "plain" \in g_real THEN {"isoc99"} ELSE {}

resolve_isoc99(t) ==
    /\ pc[t] = "resolve_isoc99"
    /\ g_real' = g_real \cup (symbols \cap {"isoc99"}) \cup Fallback
    /\ Goto(t, "resolve_bridge")
    /\ UNCHANGED <<g_ao_scanf_once, g_bridge_ready, symbols, frame, slot, heap,
                   calls>>

resolve_bridge(t) ==
    /\ pc[t] = "resolve_bridge"
    /\ g_bridge_ready' = ("bridge" \in symbols)
    /\ g_ao_scanf_once' = "done"
    /\ Goto(t, "wrap")
    /\ UNCHANGED <<g_real, symbols, frame, slot, heap, calls>>

\* Without a pointer the call fails with ENOSYS.  Otherwise the format is
\* parsed; the plan's records are allocated, which may fail at any growth.
ao_wrap_common(t) ==
    LET f       == frame[t]
        plan    == ao_parse_scanf_format(f.format)
        grows   == {n \in 1 .. Len(plan) : Grows(n - 1)}
        full    == [f EXCEPT !.plan = plan, !.parse_ok = TRUE]
        cut(n)  == [f EXCEPT !.plan = SubSeq(plan, 1, n - 1)]
        has(g)  == IF Len(g.plan) = 0 THEN g ELSE [g EXCEPT !.records = Fresh]
    IN  /\ pc[t] = "wrap"
        /\ \/ /\ ~f.real_fn
              /\ SetFrame(t, [f EXCEPT !.ret = -1])
              /\ Goto(t, "enosys")
              /\ UNCHANGED heap
           \/ /\ f.real_fn
              /\ \E g \in {full} \cup {cut(n) : n \in grows} :
                    /\ SetFrame(t, has(g))
                    /\ heap' = IF Len(g.plan) = 0 THEN heap
                               ELSE With(heap, Fresh, "mock")
              /\ Goto(t, "scan")
        /\ UNCHANGED <<shared, symbols, slot, calls>>

-----------------------------------------------------------------------------
(* The scanner of libc (external).                                         *)

Assigned(d)  == d.spec \notin {"lit", "n"} /\ ~d.suppressed
Allocates(d) == d.alloc /\ ~d.suppressed /\ d.spec \in {"s", "c", "["}

\* The first n directives match and the next one does not.  Each %m conversion
\* among them stores a new block, of libc's own or, where libc's malloc is
\* interposed, of the preloaded allocator; a second one through the same
\* argument makes the first block unreachable.
scan_matches(t, n, who) ==
    LET f     == frame[t]
        made  == {i \in 1 .. n : Allocates(f.format[i])}
        last(a) == Max({i \in made : f.format[i].arg = a})
        b(i)  == Fresh + i
    IN  /\ slot' = [slot EXCEPT ![t] =
              [a \in DOMAIN @ |->
                  IF \E i \in made : f.format[i].arg = a THEN b(last(a)) ELSE @[a]]]
        /\ heap' = [x \in DOMAIN heap \cup {b(i) : i \in made} |->
              IF x \in DOMAIN heap THEN heap[x]
              ELSE IF \E i \in made : x = b(i) /\ i = last(f.format[i].arg)
                   THEN who ELSE "lost"]
        /\ SetFrame(t, [f EXCEPT !.ret =
              Cardinality({i \in 1 .. n : Assigned(f.format[i])})])

\* Input ends before the first conversion (n = 0), or memory runs out after n
\* directives: libc releases what it allocated and returns EOF.
scan_fails(t, n) ==
    /\ slot' = [slot EXCEPT ![t] =
          [a \in DOMAIN @ |->
              IF \E i \in 1 .. n :
                    Allocates(frame[t].format[i]) /\ frame[t].format[i].arg = a
              THEN NULL ELSE @[a]]]
    /\ SetFrame(t, [frame[t] EXCEPT !.ret = -1])
    /\ UNCHANGED heap

real_fn(t) ==
    /\ pc[t] = "scan"
    /\ \E n \in 0 .. Len(frame[t].format) :
          \/ \E who \in {"libc", "mock"} : scan_matches(t, n, who)
          \/ scan_fails(t, n)
    /\ Goto(t, "rehome")
    /\ UNCHANGED <<shared, symbols, calls>>

-----------------------------------------------------------------------------
(* Rehoming.                                                               *)

\* Mutant: the loop does not look at how far libc came.
Mutant_More(f) ==
    f.parse_ok /\ g_bridge_ready /\ f.ret > 0 /\ f.i <= Len(f.plan)

\* Mutant: what the parser recorded is used even if a growth of the plan failed.
Mutant_AnyPlan(f) ==
    /\ g_bridge_ready /\ f.ret > 0
    /\ f.i <= Len(f.plan)
    /\ f.plan[f.i].ordinal <= f.ret

\* The loop goes on: the plan is used at all, and its next record is of a
\* conversion that was made.
More(f) ==
    /\ f.parse_ok /\ g_bridge_ready /\ f.ret > 0
    /\ f.i <= Len(f.plan)
    /\ f.plan[f.i].ordinal <= f.ret

\* ao_alloc_bridge_owns: a live block of the preloaded allocator.  The answer is
\* taken as exact here. Module MockAllocator has the race of a realloc with a
\* malloc in which the registry loses a live block; rehoming would take such a
\* block for libc's.
Owned(b) == b \in DOMAIN heap /\ heap[b] = "mock"

\* Mutant: the bridge is not asked who owns the block.
Mutant_LeftAlone(original) == original = NULL

LeftAlone(original) == original = NULL \/ Owned(original)

\* Mutant: the original is released but the argument still points at it.
Mutant_StoreSlot(t, a, replacement) == UNCHANGED slot

StoreSlot(t, a, replacement) == slot' = [slot EXCEPT ![t][a] = replacement]

\* One record: a block that is there and not yet the allocator's own is cloned
\* and released, unless it cannot be or the clone's malloc fails.
ao_rehome_scanf_record(t) ==
    LET f        == frame[t]
        record   == f.plan[f.i]
        original == slot[t][record.slot]
        next     == [f EXCEPT !.i = @ + 1]
        keep     == SetFrame(t, [next EXCEPT !.kept = @ \cup {record.slot}])
    IN  /\ pc[t] = "rehome"
        /\ More(f)
        /\ original # GARBAGE
        /\ \/ /\ LeftAlone(original)
              /\ SetFrame(t, next)
              /\ UNCHANGED <<slot, heap>>
           \/ /\ ~LeftAlone(original) /\ Unsupported(f.wide, record)
              /\ keep
              /\ UNCHANGED <<slot, heap>>
           \/ /\ ~LeftAlone(original) /\ ~Unsupported(f.wide, record)
              /\ \/ /\ keep
                    /\ UNCHANGED <<slot, heap>>
                 \/ /\ SetFrame(t, next)
                    /\ StoreSlot(t, record.slot, Fresh)
                    /\ heap' = Without(With(heap, Fresh, "mock"), {original})
        /\ UNCHANGED <<shared, symbols, pc, calls>>

ResetPlan(f) == [f EXCEPT !.plan = <<>>, !.records = NULL]

\* Mutant: only a plan that was parsed to its end is released.
Mutant_Released(f) == IF f.parse_ok THEN {f.records} ELSE {}

\* The block every path out of the wrapper releases.
Released(f) == {f.records}

ao_scanf_plan_reset(t) ==
    LET f == frame[t]
    IN  /\ pc[t] = "rehome"
        /\ ~More(f)
        /\ heap' = Without(heap, Released(f))
        /\ SetFrame(t, ResetPlan(f))
        /\ Goto(t, "idle")
        /\ UNCHANGED <<shared, symbols, slot, calls>>

return_enosys(t) ==
    /\ pc[t] = "enosys"
    /\ Goto(t, "idle")
    /\ UNCHANGED <<shared, symbols, frame, slot, heap, calls>>

-----------------------------------------------------------------------------
Init ==
    /\ g_ao_scanf_once = "init"
    /\ g_real = {}
    /\ g_bridge_ready = FALSE
    /\ symbols \in SUBSET {"plain", "isoc99", "bridge"}
    /\ pc = [t \in Threads |-> "idle"]
    /\ frame = [t \in Threads |-> NoFrame]
    /\ slot = [t \in Threads |-> [a \in {} |-> NULL]]
    /\ heap = [b \in {} |-> "libc"]
    /\ calls = 0

Next ==
    \E t \in Threads :
        \/ \E e \in {"plain", "isoc99"}, format \in Formats, wide \in BOOLEAN :
              enter(t, e, format, wide)
        \/ ao_ensure_scanf_symbols(t)
        \/ resolve_plain(t)
        \/ resolve_isoc99(t)
        \/ resolve_bridge(t)
        \/ ao_wrap_common(t)
        \/ real_fn(t)
        \/ ao_rehome_scanf_record(t)
        \/ ao_scanf_plan_reset(t)
        \/ return_enosys(t)

Spec == Init /\ [][Next]_vars

-----------------------------------------------------------------------------
\* The state has its shape; the rehoming loop stays within the plan, and runs at
\* all only on a plan parsed to its end, with the bridge there and a conversion
\* made: nothing is rehomed from a plan whose growth failed (lines 656-658).  A
\* plan that has records has a live block of the preloaded allocator to hold them.
TypeOK ==
    /\ g_ao_scanf_once \in {"init", "running", "done"}
    /\ g_real \subseteq {"plain", "isoc99"}
    /\ g_bridge_ready \in BOOLEAN
    /\ pc \in [Threads -> {"idle", "ensure", "resolve_plain", "resolve_isoc99",
                           "resolve_bridge", "wrap", "enosys", "scan", "rehome"}]
    /\ \A b \in DOMAIN heap : heap[b] \in {"libc", "mock", "lost"}
    /\ \A t \in Threads :
          /\ frame[t].i \in Nat \ {0}
          /\ pc[t] # "idle" => frame[t].i <= Len(frame[t].plan) + 1
          /\ frame[t].i > 1 => frame[t].parse_ok /\ g_bridge_ready /\ frame[t].ret > 0
          /\ frame[t].records # NULL => Owned(frame[t].records)

\* Rehoming reads only arguments that libc stored through: the parser and libc
\* number the conversions alike, whatever is suppressed, literal or %n, and the
\* loop stops at the first record libc did not reach (line 627).
RehomesOnlyAssigned ==
    \A t \in Threads :
        pc[t] = "rehome" /\ More(frame[t]) =>
            slot[t][frame[t].plan[frame[t].i].slot] # GARBAGE

\* What an argument points at is live: no original that rehoming released is
\* still reachable by the caller, even when two records share an argument.
SlotsLive ==
    \A t \in Threads : \A a \in DOMAIN slot[t] :
        slot[t][a] \notin {NULL, GARBAGE} => slot[t][a] \in DOMAIN heap

\* Between calls every live block is one a caller was given, or one that libc
\* itself lost: neither plans nor originals leak, on any path through a failed
\* parse, scan or clone.
NothingLeaks ==
    (\A t \in Threads : pc[t] = "idle") =>
        \A b \in DOMAIN heap :
            \/ heap[b] = "lost"
            \/ \E t \in Threads : \E a \in DOMAIN slot[t] : slot[t][a] = b

\* After a call that returned a positive count, all its %m results belong to the
\* preloaded allocator, except those the documentation lists: wide %mc, and a
\* clone that could not be allocated (or a plan that could not, or no bridge).
ResultsRehomed ==
    \A t \in Threads :
        LET f == frame[t]
        IN  (pc[t] = "idle" /\ f.ret > 0 /\ f.parse_ok /\ g_bridge_ready) =>
               \A a \in DOMAIN slot[t] :
                   \/ slot[t][a] \in {NULL, GARBAGE}
                   \/ Owned(slot[t][a])
                   \/ a \in f.kept

\* Rehoming gives back to libc only what libc owns: a block of the preloaded
\* allocator that went straight to libc's free would stay in the registry.
OnlyLibcGoesToLibc ==
    [][\A t \in Threads :
          pc[t] = "rehome" /\ pc'[t] = "rehome" /\ frame'[t] # frame[t] =>
             \A b \in DOMAIN heap \ DOMAIN heap' : heap[b] = "libc"]_vars

\* Every call reaches the scanner of a libc that has one.  It fails for the
\* first call of a process, whose pointer is read before it is resolved.
EveryCallScans ==
    \A t \in Threads : pc[t] = "enosys" => "plain" \notin symbols

=============================================================================
