------------------------------- MODULE Registry -------------------------------
(***************************************************************************)
(* The allocation registry of mock_allocator.c: an open-addressing hash    *)
(* table with linear probing and tombstones, g_registry.  Every access is  *)
(* made with g_registry_lock held (module MockAllocator models the lock),  *)
(* so an operation of the table is one step here.                          *)
(*                                                                         *)
(* A loop of the code visits the slots of a probe sequence in order and    *)
(* leaves at the first one that meets its condition; here that is the      *)
(* least offset that meets it.                                             *)
(***************************************************************************)
EXTENDS Naturals, FiniteSets

CONSTANTS
    Keys,      \* the addresses that can be inserted
    Sizes,     \* requested sizes
    Ids,       \* allocation ids
    Capacity   \* AO_REGISTRY_CAPACITY, the number of slots

AO_REGISTRY_EMPTY     == 0
AO_REGISTRY_TOMBSTONE == 1

\* malloc returns neither NULL, which callers keep out of the registry, nor
\* the address 1, so no key is one of the two marks.
ASSUME KeysAssumption ==
    Keys \subseteq Nat \ {AO_REGISTRY_EMPTY, AO_REGISTRY_TOMBSTONE}

ASSUME CapacityAssumption == Capacity \in Nat \ {0}

\* A removed entry has its size and its id cleared to 0.
ASSUME ZeroAssumption == 0 \in Sizes /\ 0 \in Ids

VARIABLES
    g_registry,   \* the table
    ret           \* the last call and its result

vars == <<g_registry, ret>>

Slots   == 0 .. Capacity - 1
Offsets == 0 .. Capacity - 1

Entries == [requested_size : Sizes, allocation_id : Ids]

SlotOf(k, e) ==
    [key |-> k, requested_size |-> e.requested_size,
     allocation_id |-> e.allocation_id]

Cleared(mark) == [key |-> mark, requested_size |-> 0, allocation_id |-> 0]

EntryOf(slot) ==
    [requested_size |-> slot.requested_size,
     allocation_id  |-> slot.allocation_id]

Done(op)     == [op |-> op, ok |-> 1, entry |-> {}]
Failed(op)   == [op |-> op, ok |-> 0, entry |-> {}]
Found(op, e) == [op |-> op, ok |-> 1, entry |-> {e}]

-----------------------------------------------------------------------------
\* Blocks are 16-byte aligned, so the four low bits are dropped.  The mask
\* & (AO_REGISTRY_CAPACITY - 1) is a remainder: the capacity is a power of 2.
ao_registry_index_for(k) == (k \div 16) % Capacity

\* The slot at offset i of k's probe sequence, (index + i) & (CAPACITY - 1):
\* index + i is below 2 * Capacity, so the mask takes one Capacity away or none.
Probe(k, i) ==
    LET at == ao_registry_index_for(k) + i
    IN  IF at < Capacity THEN at ELSE at - Capacity

KeyAt(k, i) == g_registry[Probe(k, i)].key

First(S) == CHOOSE i \in S : \A j \in S : i <= j

\* The offsets at which a scan for k ends: at k itself or at an empty slot.
Stops(k) == {i \in Offsets : KeyAt(k, i) \in {k, AO_REGISTRY_EMPTY}}

\* The tombstones a scan for k passes before it ends.
Passed(k) ==
    {i \in Offsets : /\ KeyAt(k, i) = AO_REGISTRY_TOMBSTONE
                     /\ \A j \in Stops(k) : i < j}

\* A scan for k ends at k.
Hit(k) == Stops(k) # {} /\ KeyAt(k, First(Stops(k))) = k

\* Mutant: insert takes the first tombstone it meets without looking further
\* along the chain for the address itself.
Mutant_Targets_eager(k) ==
    IF Passed(k) # {} THEN {First(Passed(k))}
    ELSE IF Stops(k) # {} THEN {First(Stops(k))}
    ELSE {}

\* Mutant: a scan that ends without meeting an empty slot gives up, though it
\* passed a tombstone.
Mutant_Targets_no_reuse(k) ==
    IF Hit(k) THEN {First(Stops(k))}
    ELSE IF Stops(k) = {} THEN {}
    ELSE IF Passed(k) # {} THEN {First(Passed(k))}
    ELSE {First(Stops(k))}

\* Where insert puts k: over k itself, else in the first tombstone passed,
\* else in the empty slot; nowhere when the table is full of other keys.
Targets(k) ==
    IF Hit(k) THEN {First(Stops(k))}
    ELSE IF Passed(k) # {} THEN {First(Passed(k))}
    ELSE IF Stops(k) # {} THEN {First(Stops(k))}
    ELSE {}

-----------------------------------------------------------------------------
Init ==
    /\ g_registry = [s \in Slots |-> Cleared(AO_REGISTRY_EMPTY)]
    /\ ret = Failed("none")

ao_registry_insert_locked(k, e) ==
    \/ \E i \in Targets(k) :
          /\ g_registry' = [g_registry EXCEPT ![Probe(k, i)] = SlotOf(k, e)]
          /\ ret' = Done("insert")
    \/ /\ Targets(k) = {}
       /\ ret' = Failed("insert")
       /\ UNCHANGED g_registry

ao_registry_lookup_locked(k) ==
    /\ ret' = IF Hit(k)
              THEN Found("lookup", EntryOf(g_registry[Probe(k, First(Stops(k)))]))
              ELSE Failed("lookup")
    /\ UNCHANGED g_registry

\* Mutant: a removed entry keeps its size and its id.
Mutant_remove_keeps_entry(k) ==
    \/ /\ Hit(k)
       /\ LET s == Probe(k, First(Stops(k)))
          IN  /\ ret' = Found("remove", EntryOf(g_registry[s]))
              /\ g_registry' =
                    [g_registry EXCEPT ![s].key = AO_REGISTRY_TOMBSTONE]
    \/ /\ ~Hit(k)
       /\ ret' = Failed("remove")
       /\ UNCHANGED g_registry

\* Mutant: remove empties the slot instead of leaving a tombstone.
Mutant_remove_empties(k) ==
    \/ /\ Hit(k)
       /\ LET s == Probe(k, First(Stops(k)))
          IN  /\ ret' = Found("remove", EntryOf(g_registry[s]))
              /\ g_registry' =
                    [g_registry EXCEPT ![s] = Cleared(AO_REGISTRY_EMPTY)]
    \/ /\ ~Hit(k)
       /\ ret' = Failed("remove")
       /\ UNCHANGED g_registry

ao_registry_remove_locked(k) ==
    \/ /\ Hit(k)
       /\ LET s == Probe(k, First(Stops(k)))
          IN  /\ ret' = Found("remove", EntryOf(g_registry[s]))
              /\ g_registry' =
                    [g_registry EXCEPT ![s] = Cleared(AO_REGISTRY_TOMBSTONE)]
    \/ /\ ~Hit(k)
       /\ ret' = Failed("remove")
       /\ UNCHANGED g_registry

Next ==
    \E k \in Keys :
        \/ \E e \in Entries : ao_registry_insert_locked(k, e)
        \/ ao_registry_lookup_locked(k)
        \/ ao_registry_remove_locked(k)

Spec == Init /\ [][Next]_vars

-----------------------------------------------------------------------------
Marks == {AO_REGISTRY_EMPTY, AO_REGISTRY_TOMBSTONE}

\* The table holds keys and marks, and a slot without a key is cleared.
TypeOK ==
    /\ g_registry \in [Slots -> [key : Keys \cup Marks,
                                 requested_size : Sizes,
                                 allocation_id : Ids]]
    /\ ret \in [op : {"none", "insert", "lookup", "remove"},
               ok : {0, 1}, entry : SUBSET Entries]
    /\ \A s \in Slots :
          g_registry[s].key \in Marks
             => g_registry[s] = Cleared(g_registry[s].key)

\* No address is in two slots: insert looks past the tombstone it could reuse
\* before it decides that the address is new (lines 191-211).
NoDuplicateKeys ==
    \A s, t \in Slots :
        g_registry[s].key \in Keys /\ g_registry[s].key = g_registry[t].key
            => s = t

\* No empty slot lies between the place where a key hashes to and the place
\* where it is: a scan for a key that is present never ends before it.  This is
\* why remove leaves a tombstone and not an empty slot (line 270).
ChainUnbroken ==
    \A k \in Keys : \A i \in Offsets :
        KeyAt(k, i) = k => \A j \in 0 .. i - 1 : KeyAt(k, j) # AO_REGISTRY_EMPTY

-----------------------------------------------------------------------------
LiveSlots == {s \in Slots : g_registry[s].key \in Keys}
Tracked   == {g_registry[s].key : s \in LiveSlots}
Contents  ==
    [k \in Tracked |->
        EntryOf(g_registry[CHOOSE s \in LiveSlots : g_registry[s].key = k])]

Abstract == INSTANCE AllocationMap WITH map <- Contents

\* The table implements the map: an insert binds its key and disturbs no other,
\* and is refused only when Capacity addresses are live, however many
\* tombstones the table has gathered; lookup and remove find exactly the
\* addresses that are live, with the size and the id last inserted for them.
ImplementsMap == Abstract!Spec

=============================================================================
