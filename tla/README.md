# A TLA+ verification project for libc_override

The repository builds two preload libraries. `liballoc_return_override.so` replaces libc
functions that return heap memory to their caller, so that the memory comes from whatever
`malloc` is preloaded; `libmock_allocator.so` is the allocator shim that the tests preload: it
forwards to the real allocator and keeps a registry of the blocks it handed out, so that a test
can ask whether a block went through it. This directory models both, checks the models with TLC
and proves theorems about them with TLAPS.

Paths below are relative to the repository's root (`src/mock_allocator.c` etc.); `PROJECT.json`
names the lines each definition stands for.

## 1. The system

| component | state | operations | module |
|---|---|---|---|
| allocation registry (`mock_allocator.c` 176-278) | `g_registry`, an open-addressing table of 65536 slots | insert, lookup, remove, under `g_registry_lock` | `Registry`, `AllocationMap` |
| interposition and bridge (`mock_allocator.c` 280-289, 407-420, 468-651) | registry, spin lock, allocation ids | `malloc`, `calloc`, `realloc`, `free`, `ao_alloc_bridge_*` | `MockAllocator` |
| capture and statistics (`mock_allocator.c` 321-466) | `g_stats` (11 atomics), `g_capture_depth` | `ao_record_*`, `ao_live_*`, `ao_mock_begin/end_capture`, `ao_mock_reset` | `MockAllocator` |
| start-up and bootstrap heap (`mock_allocator.c` 92-163, 291-319) | `g_resolve_once`, thread-local `g_in_resolver`, `g_real_*`, `g_bootstrap_offset` | the resolver, bump allocation | `Startup` |
| scanf `%m` overrides (`scanf_overrides.c`) | `g_ao_scanf_once`, `g_real_*`, `g_bridge_ready`, a plan per call | 24 entry points around four identical wrappers | `Scanf` |
| memory streams (`memstream_overrides.c`) | a cookie per stream: buffer, `pos`, `len`, `space` | grow, write, seek, close, narrow and wide | `MemStream`, `OutputStream` |
| line input (`line_overrides.c`) | the caller's buffer and its size | `getdelim`, `getline` | `LineReader` |
| directory scanning (`dirent_overrides.c`) | the list being built, `errno` | `scandir`, `scandir64` | `Scandir` |
| paths (`path_overrides.c`, `helpers.c`) | two path buffers | `realpath`, `getcwd`, `get_current_dir_name`, `tempnam` | `Paths`, `PathLookup` |
| copies (`string_overrides.c`, `stdio_overrides.c`, `sched_overrides.c`) | none | `strdup`, `asprintf`, `__sched_cpualloc` ... | `Copies` (sizes only) |
| tests, CMake files, version scripts | none | | not modelled |

How they interact. The override library calls `malloc`, `realloc` and `free` through the dynamic
linker and so reaches the mock allocator. The scanf overrides also find the bridge with `dlsym`:
`ao_alloc_bridge_owns` asks the registry, `ao_alloc_bridge_libc_free` goes to libc past the
registry. Everything the mock allocator does is called by any thread of the process, also before
the library is initialised and from inside `dlsym`.

What is hard. (1) The registry is a hash table with tombstones: its errors need a particular
sequence of colliding operations. (2) `realloc` and `free` call the real allocator outside the
lock, so the registry and the heap disagree for a while, and other threads run meanwhile.
(3) The counters are updated one at a time and outside the lock, and capture and reset change
under the calls they count. (4) Start-up is reentrant: the resolver is waited for by all and
itself calls the functions that wait for it. (5) scanf's plan is built from one reading of the
format and used according to another, libc's, and each step can fail after earlier ones have
taken effect. (6) `scandir` learns of every failure through `errno` alone, which each function it
calls may set and which it reads late. (7) `realpath` rewrites a text while it asks the kernel about
parts of it, in fixed buffers, and the file system may change between two questions. The `hazards`
of `PROJECT.json` list these with their lines.

What makes the components correct: the registry is a map that refuses an address only when it is
full of others; a block is in the registry exactly when its owner obtained it from this library;
the live counters are the registry's totals; the real functions are never called unresolved and
every call returns; after a scan every `%m` result belongs to the preloaded allocator or to one
of the documented exceptions, and nothing is lost or released twice; a memory stream holds what
was written where it was written, terminated; a line is returned whole, once, inside its buffer;
a directory is listed completely or not at all; `realpath` finds the file that the kernel finds.

## 2. Modules

| module | what it is |
|---|---|
| `AllocationMap` | abstract specification: a map from addresses to size and id with at most `Capacity` bindings |
| `Registry` | the table: hash, probe sequence, tombstones; `ImplementsMap` is the refinement |
| `RegistryProofs`, `MockAllocatorProofs`, `StartupProofs`, `ScanfProofs`, `MemStreamProofs`, `LineReaderProofs`, `ScandirProofs`, `PathsProofs` | theorems about the module each is named after, and about `Copies` in the last (section 4) |
| `MockAllocator` | threads in `malloc`, `calloc`, `realloc`, `free`, the bridge, capture and reset; written against `AllocationMap` |
| `Startup` | threads in `pthread_once`, the resolver and the bootstrap heap |
| `Scanf` | threads in calls of the scanf family |
| `OutputStream` | abstract specification: data, a position, the published size |
| `MemStream` | the cookie of `open_memstream` and `open_wmemstream`; `ImplementsStream` is the refinement |
| `LineReader` | threads in `getdelim` on one stream |
| `Scandir` | one call of `scandir`, with every failure and the `errno` it leaves |
| `Paths` | one call of a path function, while others change the file system |
| `PathLookup` | the kernel's path lookup, and what `realpath` must return by it |
| `Copies` | the sizes of the stateless copies |
| `MCRegistry`, `MCMockAllocator`, `MCStartup`, `MCScanf`, `MCMemStream`, `MCLineReader`, `MCScandir`, `MCPaths` | small instances for TLC |

`Registry`. A loop of the code visits a probe sequence and leaves at the first slot that meets a
condition; the model takes the least offset that meets it (`First(Stops(k))`). `Targets(k)` is
where insert writes. The mask `& (AO_REGISTRY_CAPACITY - 1)` is a remainder because the capacity
is a power of two. Each operation is one step, since all of them hold the lock.

`MockAllocator`. A step is one access to shared memory: taking the lock, the critical section up
to the release, a call of the real allocator, one atomic counter access. The counter accesses a
call has still to make are its thread's `todo` sequence; `ao_capture_enabled()` is an access of
its own, as in the code. Counters are unsigned and wrap at `Modulus`. The real allocator
(external) hands out any address it has not handed out, moves or keeps a block at `realloc`, may
fail, and may return `NULL` for `realloc(p, 0)`. The callers (external) release only blocks they
hold. A call of `ao_fatal` stops every thread, but only after other threads had time to run.
Three history variables serve the properties: `reused` (an address was handed out while a
`realloc` had its old entry still to remove), `torn` (a reset overlapped a call) and `nest`
(captures each thread has begun and not ended). No action reads them.

`Startup`. `pthread_once` is external: one thread runs the routine, the others wait. `dlsym`
may allocate, reallocate and free while it resolves; those calls run on the resolving thread.
The bump allocation is a load and a weak compare-and-exchange, which may also fail for no reason.
A call of the real allocator, once resolved, gives any pointer that is not in use. Sizes wrap at
`Modulus`.

`Scanf`. A format is the sequence of its directives: conversion, `*`, `m`, `l`, argument number.
That is what the parser (355-529 and its helpers) extracts from the characters; the reading of
single characters is left out. The eight `g_real_*` pointers are two here, a plain one and an
`__isoc99_` one that falls back on it. The scanner is external: it matches any number of
directives, allocates a block for each `%m` conversion among them, from libc or from the
preloaded allocator, or fails and releases what it allocated. `heap` records the owner of every
live block, `slot` what the caller's arguments point at. Whom the bridge names as a block's owner is
taken as exact (`Owned`); finding 1 below is a race in which the registry loses a live block, and
what rehoming would do to such a block is not part of this model.

`MemStream`. The stdio layer (external) calls the cookie's functions one at a time. `buf` is the
whole block, `space` what the cookie believes of it: they differ at first, where a one-unit block
is recorded as 0. Units that `realloc` adds are junk until `memset` clears them. The operator `|`
is a constant (`BitOr`) of which the module assumes only that it is no smaller than either
operand; the MC module gives it the real one. `failed` is history: a wide conversion has failed.

`LineReader`. The stream's lock is taken for a whole call, each character is a step. `cap` is the
capacity of the block as `realloc` knows it, `n` what the caller's `*n` says. The error indicator
is sticky, as in stdio. The texts are sequences over the constant `Chars`. `lines` and `lost` are
history: the stretches of the text returned, and the number of characters that failing calls
consumed.

`Scandir`. One call on one thread, a step per function it calls. `sel` and `cmp` are the caller's:
`sel` accepts a fixed set of entries and may leave anything but 0 in `errno`, and so may `cmp`.
`closedir` sets `errno` when it fails and never clears it. `room` is what the array really has room
for, `capacity` the local variable, which is already doubled when `realloc` fails. `qsort`
(external) leaves any rearrangement that is sorted: it is not stable. `cause` is history:
which steps failed. `scandir64` has the same text and is the same model.

`Paths`. A text is a sequence of tokens (a name, `.`, `..`, `/`); names have one character, so a
text's `strlen` is its length plus one for each `..`. `rest` is the text from `stack + p` on and
`output` the first `q` characters of `output`; `p` and `q` are derived from them. One iteration of
the loop is one step, with at most one `readlink`; `others` may change the file system or the
working directory between any two. What the kernel answers is a parameter of the module
(`ReadLink`, `Identity`, `CwdText`).

`PathLookup` (external) says what those answers are: the usual lookup, component by component, with
links followed and the special root `//`. It has its own limit of links, `MaxSymlinks`: Linux
follows 40 and refuses the next, while line 199 refuses the link number `SYMLOOP_MAX`, 40, itself. A
working directory may have been removed, or lie outside the root, where `getcwd` gives a text that
does not begin with a slash. `Resolves` compares `realpath` with it, and allows `ELOOP` only where
the kernel follows `SYMLOOP_MAX` links or more.

## 3. Runs

| run | bounds | shows |
|---|---|---|
| `registry` | 4 slots, 5 addresses in two collision classes, one of which wraps round | `NoDuplicateKeys`, `ChainUnbroken`, refinement of the map |
| `ownership` | 2 threads, 4 addresses, 2 registry slots, 6 calls | `NoStaleEntry`, `OwnershipKnown`, `ReallocHasRoom` |
| `counting` | 2 threads, 2 addresses, 4 calls | `LiveLedger`, `CountersAgree`, `CaptureCoversBrackets`, `CaptureFloor` |
| `realloc_race` | 2 threads, 2 addresses, 3 calls | finding 1 below |
| `startup` | 2 threads, 10-byte heap, 3-byte headers, sizes modulo 32, 4 calls | `BlocksDisjoint`, `RealCallsResolved`, `ResolverSeesNoRealBlock`, `EveryCallReturns` |
| `scanf` | 2 threads, 5 formats, plans that start with room for 1 record, 2 calls | `RehomesOnlyAssigned`, `SlotsLive`, `NothingLeaks`, `ResultsRehomed`, `OnlyLibcGoesToLibc` |
| `memstream` | 5-bit sizes, 6 calls | `TailIsZero`, `CallerHasBuffer`, refinement of the stream |
| `wide_memstream` | 5-bit sizes, 2-byte characters, 6 calls | `TailIsZero` unless a conversion failed |
| `lines` | 2 threads, texts of up to 6 characters, blocks of 0, 1 and 3, 4 calls | `StaysInBlock`, `LinesWhole`, `CallsReturn` |
| `scandir` | up to 4 entries, an array that stops at 3, an `int` that counts to 2 | `AllOrNothing`, `FailuresTold`, `NothingMissing` |
| `paths` | every path of up to 5 tokens and some longer ones, 3 file systems, 4 working directories, `PATH_MAX` 11, 4 links for the code and for the kernel, 1 change | `BuffersHold`, `Canonical`, `Resolves`, `NamesCwd`, `Terminates` |
| `scanf_first_call` | as `scanf` | finding 2 below |

Why the bounds are enough to be interesting. In `registry` every slot can become a tombstone, chains
of three collide and run from the last slot into the first, and five addresses do not fit four
slots, so refusals and the scan that meets no empty slot both happen. `ownership` has more addresses
than registry slots, so the registry overflows in `malloc` and is at its limit in `realloc`; six
calls let one thread's `realloc` overlap a `malloc`, a `realloc` or a bridge call of the other after
both slots are taken. In `counting` four calls are enough for begin, an allocation, a reset or an
end and a second allocation to overlap. In `startup` the sizes are one that fits twice and one whose
total wraps. `scanf` has formats with suppressed, literal and `%n` directives, two conversions
through one argument, and plans that grow twice; two calls let the second thread enter while the
first one resolves. The streams have 5-bit sizes, so that a few writes and seeks meet every limit
(`max_chars` is 7, the largest object 15), and six calls grow a buffer three times with seeks in
between. In `lines` a text has a line that outgrows every buffer twice, an empty line and a last
line without delimiter. In `scandir` the array grows twice and then meets its limit, and every call
can fail with either of two errors. `paths` has links down, up, through other links (chains of
three, which `realpath` follows, and of four, which it refuses and the kernel does not), to the root
with one slash and with two, with a slash at the end, to themselves and empty ones, a file where a
directory is needed, and directories deep enough that `PATH_MAX` is met at all four places that
check it. `MaxCalls` bounds calls, never steps. Threads and addresses are interchangeable and
declared symmetric where no liveness is checked. `startup`, `scanf`, `memstream`, `wide_memstream`,
`lines`, `scandir` and `paths` turn the deadlock check off: there a behaviour ends when the calls
are used up or over, or the process has exited. In the other runs that end is an explicit step
(`Stopped`), so a thread stuck behind the spin lock would be reported.

Fairness. In `Startup`, `WF_vars(Progress(t))`: the scheduler lets every thread run, and a
thread inside a call goes on. `SF_vars(bootstrap_cas(t))`: the compare-and-exchange is weak and
may fail spuriously, and other threads may win; the C standard wants a loop around it to succeed
eventually, and each of the finitely many calls wins at most once. Nothing is assumed about
threads making calls. `EveryCallReturns` covers the whole of a call except what `MockAllocator`
models; there the spin lock gives no fairness between threads, and no liveness is claimed.
In `LineReader`, `WF_vars(Proceed(t))`: a thread inside `getdelim` goes on, and gets the stream's
lock once it stays free; the number of calls is bounded, so no thread can be passed over for ever,
and input is assumed to arrive. In `Paths`, `WF_vars(Step)`: the call's own thread runs; `others`
need do nothing and may act at any time.

### Findings

1. `realloc_race`. `realloc` lets the real allocator release the old address (line 593) and
   removes it from the registry later (601). A `malloc` on another thread may be given the address
   and track it in between; the removal then takes the new entry away. The block is live and the
   library says it does not own it, against what `README.md` and `tests/phase1a_validation.c`
   state. `OwnershipKnown`, `ReallocHasRoom` and `LiveLedger` show that this reuse is the only way
   to get there: they hold in every behaviour without it.
2. `scanf_first_call`. Each entry point passes `g_real_...` by value to a wrapper that only then
   resolves the pointers, so the first call of a process fails with `ENOSYS`, as does any call that
   enters before the resolver has stored its pointer.

Facts worth knowing that contradict no document: two unmatched `ao_mock_end_capture` calls can take
the depth below 0 (`CaptureFloor` bounds how far); `ao_mock_reset` that overlaps a call leaves
counters that do not agree; bootstrap requests near `SIZE_MAX` wrap and get a block that is too
small; a wide stream reports a write with an embedded NUL as complete and drops what follows the
NUL; a conversion that fails half way leaves characters behind the data; `getdelim` drops a last
line without delimiter when the error indicator is still set from an earlier call; `scandir` at the
limit of its array returns a truncated list as a success, fails when only `closedir` did, and turns
a count above `INT_MAX` into a negative number; `realpath`'s test for `p == 0` (line 139) can never
succeed, as `BuffersHold` shows, and a relative path whose result has `PATH_MAX - 1` characters is
refused although an absolute one is not; `realpath` refuses a path with exactly `SYMLOOP_MAX` links,
which Linux, with the same number, still follows; `get_current_dir_name` returns a relative `$PWD`
such as `.`; `tempnam` gives up without setting `errno`.

## 4. Proofs

Every theorem below holds for every value of the constants that the named `ASSUME`s of its module
allow; TLC evaluates those in the runs. They say no more than what the code or its platform gives:
a capacity is positive, `NULL` is no address, sizes are naturals, the set of threads is finite.
`PROJECT.json` lists the theorem that goes with each property of a run. Each proof has the same
frame: an inductive invariant (`IInv` in `RegistryProofs`, `Inv` elsewhere) that holds initially,
that every action preserves (a lemma per action), and that implies the properties. TLC checked each
invariant on the module's small instance before it was proved; where one says that two numbers are
equal up to wrapping, TLC checked that they are equal, which they are on an instance where nothing
wraps.

### Registry

`RegistryProofs` proves, for every capacity above 0, every set of addresses that contains neither
mark (0 and 1), and all sizes and ids that include 0:

* `TypeCorrect`, `NeverTwice`, `ChainsHold`: `TypeOK`, `NoDuplicateKeys` and `ChainUnbroken` are
  invariants of `Registry`;
* `TableImplementsMap`: `Registry` implements `AllocationMap`.

The inductive invariant is the conjunction `IInv` of the three. None is inductive alone. An
insert that takes a tombstone or an empty slot must know that the address is nowhere else: the
scan did not meet it, and since its chain is unbroken (`ChainUnbroken`) it is not there at all
(`HitIffPresent`). Conversely an insert keeps chains unbroken because every slot before its
target is taken (`TargetIsSafe`), and a remove because it leaves a mark that is not empty. Below
that lie facts about the probe sequence: it stays in the table, visits no slot twice and visits
every slot (`ProbeInRange`, `ProbeInjective`, `ProbeOnto`), and a scan that can end has a first
place to end at (`FirstIsLeast`, from the well-foundedness of the naturals).

The refinement maps the table to the function from the addresses present to their entries. One
insert binds one address and one remove drops one (`StoreBinds`, `ClearDrops`, which need
`NoDuplicateKeys`); lookup finds what is bound (`HitFinds`). That an insert is refused exactly
when `Capacity` other addresses are bound (`TargetIffRoom`) counts slots: the addresses present
and the slots that hold one are in bijection (`TrackedCount`), so a scan that meets neither the
address nor a mark has seen `Capacity` addresses.

### Mock allocator

`MockAllocatorProofs`, for any number of threads, addresses and calls, any capacity and modulus:

* `TypesAndMutualExclusion`: the registry lock has one holder, the thread in a critical section;
* `EntriesNotStale`: an entry whose block is gone is one that a `realloc` in progress will remove;
* `OwnershipIsKnown`, `ReallocAlwaysHasRoom`: while no address is reused under an unfinished
  `realloc` (finding 1), the registry has every block of this library that a caller holds and no
  block of libc, and a `realloc` finds room however full the registry is;
* `CaptureHasFloor`: unmatched ends take the depth below 0 by fewer than there are threads;
* `CaptureCovers`: the depth is never below the number of captures begun and not ended;
* `LedgerBalances`: while no address is reused as above, the live counters with what the calls in
  progress have still to add are the number and the total size of the registry's entries, whatever
  capture and reset do;
* `CountersStayInAgreement`: between calls the captured counters agree with one another, unless a
  reset overlapped a call.

The last two have a hypothesis on numbers, since the counters are unsigned and wrap. `LedgerFits`
asks that the number and the size of the entries, less what is still to be added, are below
`Modulus`; the other theorem asks that twice the number of calls is, as a call records at most two
events. With 64 bits neither can fail in practice. The theorems say that nothing else is needed, and
`successful_allocation_bytes`, which may wrap, needs nothing.

The argument for the registry is custody. `Carried(t)` is the block that the call of thread `t`
answers for, which depends on where the call is; `Custody` says that each allocated block that
anybody can still use is with exactly one caller or one call. So the entry that a thread adds or
removes belongs to nobody else, and what a call knows of its block when it takes the lock
(`KnownOf`) is still true after others have run. `Untracked` covers the window in which a block has
left the registry and not yet the heap, `PendingAlone` the one in which it has left the heap and not
yet the registry: that is the window of finding 1, hence `~reused` as a hypothesis. Room for
`realloc` follows: the old address's entry is still there when `realloc` comes to remove it, so the
entry it adds next finds room. The floor of the depth counts the threads between the load and the
subtraction of `ao_mock_end_capture` (`FloorInv`), each of which has seen a positive depth.

The other counters are sums over threads, accesses or entries. `SumFunctionOnSet` is a fold, and
what a fold computes is usually shown by induction over the set; the lemmas here (`SumTakes`,
`SumChanges`, `SumUnion`, `SumCovered`...) get it from the least cardinality of a set for which it
would fail, and are all that the rest uses. `Total(work, val)` is such a sum over a sequence of
accesses.

The ledger's invariant is `LedgerInv`. `Balanced` says that a live counter and what is owed to it
are what the entries count for, up to a multiple of `Modulus`: a step either moves an amount from
what is owed to the counter (`CounterAdds`) or changes an entry and owes the difference
(`TrackBooks`, `FixBooks`, `RemoveBooks`). For the last, `EntryOf` says that what a `realloc`
remembers of the old entry is still what the registry holds. To drop the multiple, the counter must
also not have gone below 0: `Backed` says that what a call has still to add is covered by the entry
of the block it is about to return, and by custody no two calls return the same block
(`OwedCovered`).

The agreement's invariant is `AgreeInv`. `Tallied` says that the counters, with what is owed to
them, are up to wrapping numbers that agree, and that each tally, with the records still to come
(`Due`), is at most twice the number of calls. The records of every call are `Fair`: their adds
agree among themselves, and agreement is kept by addition, so it does not matter which records find
capture enabled, only that the adds of a record are made together or not at all. A reset that
overlaps nothing is described by `Clearing` instead: the counters that it has not left to clear are
0, and when it ends all are.

### Start-up

`StartupProofs`, for every number of threads, every heap, header, alignment and width of `size_t`:
`TypeCorrect` (the offset never leaves the heap), `BootstrapBlocksDisjoint`, `RealCallsAreResolved`,
`ResolverIsFirst`. `Heap` says that a thread about to exchange the offset has room behind the value
it has read, and that all blocks end at or before the offset; the exchange succeeds only when the
two are the same value, so a block begins where all others have ended. `TotalHolds` is the
arithmetic of the rounding. `Resolution` says that one thread resolves, that nobody is past it
before it has finished, and that until then nobody holds a block of the real allocator.

### scanf

`ScanfProofs`, for every number of threads, every set of formats and every first capacity of a plan:

* `OnlyAssignedIsRead`: rehoming reads no argument that libc has not stored through;
* `ArgumentsAreLive`: no argument points at a block that rehoming has released;
* `NoLeaks`: no plan and no original is lost on any path;
* `ResultsAreRehomed`: after a positive result every `%m` result belongs to the preloaded
  allocator, but for the documented exceptions;
* `OnlyLibcIsReleased`, an action property: what rehoming gives to libc's `free` is libc's;
* `TypeCorrect`: the loop stays in the plan and runs only on one that was parsed to its end, with
  the bridge there and a conversion made, so nothing is rehomed from a plan whose growth failed; and
  a plan with records has a live block (`InLoop`, carried along with the other invariant).

Two arguments meet. The first is about the parser: the ordinals it gives to `%m` records are the
counts at which libc stores them, so "ordinal at most the result" and "libc stored through it" are
the same (`Ordinals`, `Plans`, over the number `Rank` of counted directives up to a place). The
second is about memory: a thread reaches the blocks in its arguments and its plan, each in one way
(`Separate`), and no block is reached by two threads (`Reachable`). A step changes only what its
thread reaches or what is new (`Footprint`), so each action is proved for its own thread and the
lemma `ReachablePreserved` does the rest. `Pending` is what connects them: an argument that is
not yet settled has a record ahead of the loop, and at the end there is none ahead.

### Streams, lines and directories

`MemStreamProofs`, for every width of `size_t` and `wchar_t`, all writes and seeks, narrow and wide:
`TypeCorrect`, `TailStaysZero`, `CallerKeepsBuffer`. They are inductive together with `Bounds`: that
the block never outgrows what a seek can reach keeps the additions of grow from wrapping, and the
unit that grow adds beyond the data is what the terminator needs. `NarrowImplementsStream`: the
narrow stream implements `OutputStream`; a seek past the end and a write there reveal the units in
between, which `TailIsZero` says are zero. Of `BitOr` only `OrAssumption` is used.

`LineReaderProofs`, for every number of threads, text and buffer: `MutualExclusion`,
`StoresStayInBlock`, `LinesAreWhole`. `CallOK` says that the call that has the stream has the last
`length` characters consumed in its buffer, without a delimiter, which makes a line whole when it is
returned; `LinesOK` says that the lines returned lie before the one being read, and adjoin while
nothing is lost. `BufferOK` says that `*n` is the block's capacity, which the bounds check needs.

`ScandirProofs`, for directories, arrays and sets of errors of every size: `MemoryAllOrNothing`,
`FailuresAreTold`, `NothingIsMissing`. `Blocks` accounts for the array and its entries at each step;
`Reasons` says that once the loop is over `errno` is not 0 exactly when a step failed, but for the
limit of the array (where it may be what `sel` left), and `ENOMEM` when no more than memory ran out;
`Complete` gives a bijection between the list and the entries accepted so far,
which the sorting composes with its own.

### Paths and copies

`PathsProofs`, for every `PATH_MAX` and `SYMLOOP_MAX`, every path and every kernel: what `readlink`
returns is arbitrary and may change between any two steps, so nothing is assumed of the file system.
The one assumption on the kernel is `CwdAssumption`: a working directory's text that begins
with a slash is in canonical form.

* `BuffersAlwaysHold`: neither path buffer overflows, and the test of line 139 never succeeds;
* `AlwaysCanonical`: what `realpath` returns is absolute, fits `PATH_MAX` and has no `.`, no `..`
  and no empty component.

`Shape` is the form of the output at every step: the slashes of the root, then the `pending_up`
leading `..`s, then names, with a single slash between components. `Grows` and `Shrinks` say that
appending a component and cancelling one keep it; `SizeConcat` and `SizeSuffix` that lengths in
characters add up, which the comparisons of lines 152, 210 and 215 need (`Room`). At the end the
pending `..`s are cancelled against the working directory's text: `AncestorText` says that each
parent of a canonical text is one of its prefixes, `JoinedText` that what is put together is
canonical. That names have one character is an abstraction of the model and remains one here.

The module also proves `CpuSetFits`: for every count up to `SIZE_MAX`, and every width of `size_t`
from 7 bits on, `__sched_cpualloc` asks for whole words, with a bit for each cpu and less than a
word to spare, and no intermediate result wraps; and `CopyFits`, that the size of a copied string
does not wrap. Both are plain arithmetic on the quotient and the remainder.

### Only model-checked

* `EveryCallReturns`, `CallsReturn` and `Terminates`: liveness under fairness is beyond the proof
  system.
* `Resolves` and `NamesCwd`: they compare with the kernel's lookup, a recursive function on the
  text and the links that are left, and what it computes needs induction over that data.
* The wide stream is not claimed to implement `OutputStream`: it does not, since it drops what
  follows an embedded NUL.
* The two findings are counterexamples, found by TLC.

## 5. Not modelled

* Relaxed memory orders: every atomic access of `MockAllocator` is one step on a single memory.
  The counters are independent atomics that no control decision reads except the capture depth.
* `ao_mock_get_stats`: reads only; the record it fills may mix moments, and nothing in the code or
  its documents promises a relation between its fields.
* Copying itself (`strdup` and the like), and `vasprintf`, which formats twice and leaves a block
  behind when the second time fails: calls of external functions without state in between.
* What becomes of a path after the call: a name from `tempnam` may be taken by the time it is used,
  and a path from `realpath` may name another file.
* Contents and sizes of directory entries, and the letters that `ao_randname` makes.
* Arguments that are null pointers, where the code only returns early or takes a default: `getdelim`
  without `s` or `n` (`EINVAL`), `tempnam` without `dir` or `pfx`, and a `%m` conversion without a
  destination, for which the parser makes no record (311, 338).
* The state of a multibyte conversion: a wide character is one byte, so none is split over two
  writes, and the `memset` of that state in the wide seek (206) has nothing to clear.
* A change of the file system within `get_current_dir_name`: its two `stat` calls and `getcwd` are
  one step. `NamesCwd` is claimed for a world that does not change.
* Contents and lengths of blocks: copying in bootstrap `realloc`, clones of `%m` results (with the
  truncation at embedded NULs that `scanf_percent_m_hybrid.md` documents), and `errno` values that
  no property needs.
* Bridge calls with `NULL`, which return at once or are `realloc(NULL, n)` of libc.
* Signals, thread exit, and `fork`: the registry's spin lock has no fork handler, so a child forked
  while another thread holds it waits for ever.

## 6. What is left

All components with state are modelled, and every safety property that a run checks is proved except
`Resolves` and `NamesCwd`. What could be added:

* `Resolves` for every file system: an invariant that relates the output and the rest of the path to
  a state of the kernel's walk, and induction on the links left and the length of the text.
* Names of more than one character in `Paths`, which would change `Size` and nothing else.
* `vasprintf`, once something is said about the arguments that it formats twice.
