---------------------------- MODULE AllocationMap ----------------------------
(***************************************************************************)
(* What the registry of libmock_allocator.so promises to the rest of the   *)
(* library: a finite map from the address of a block to what was requested *)
(* for it, holding at most Capacity addresses.  It is the interface the    *)
(* three *_locked functions of mock_allocator.c offer, free of hashing,    *)
(* probing and tombstones.  Module Registry implements it; module          *)
(* MockAllocator is written against it.                                    *)
(***************************************************************************)
EXTENDS Naturals, FiniteSets

CONSTANTS
    Keys,      \* the addresses a block can have
    Sizes,     \* the sizes a caller can request
    Ids,       \* the allocation ids
    Capacity   \* AO_REGISTRY_CAPACITY

VARIABLES
    map,       \* the tracked addresses and what is known of each
    ret        \* the last call and its result

vars == <<map, ret>>

Entries == [requested_size : Sizes, allocation_id : Ids]

\* A call's result: the int it returns and the entry it stores through its
\* out-parameters, which a caller reads only when the int is 1.
Done(op)     == [op |-> op, ok |-> 1, entry |-> {}]
Failed(op)   == [op |-> op, ok |-> 0, entry |-> {}]
Found(op, e) == [op |-> op, ok |-> 1, entry |-> {e}]

-----------------------------------------------------------------------------
\* The map with k bound to e, whether or not it was bound before.
Put(m, k, e) == [x \in DOMAIN m \cup {k} |-> IF x = k THEN e ELSE m[x]]

\* The map without k.
Drop(m, k) == [x \in DOMAIN m \ {k} |-> m[x]]

\* There is room to bind k.
CanPut(m, k) == k \in DOMAIN m \/ Cardinality(DOMAIN m) < Capacity

-----------------------------------------------------------------------------
Init ==
    /\ map = [k \in {} |-> {}]
    /\ ret = Failed("none")

Insert(k, e) ==
    \/ /\ CanPut(map, k)
       /\ map' = Put(map, k, e)
       /\ ret' = Done("insert")
    \/ /\ ~CanPut(map, k)
       /\ map' = map
       /\ ret' = Failed("insert")

Lookup(k) ==
    /\ map' = map
    /\ ret' = IF k \in DOMAIN map THEN Found("lookup", map[k]) ELSE Failed("lookup")

Remove(k) ==
    \/ /\ k \in DOMAIN map
       /\ map' = Drop(map, k)
       /\ ret' = Found("remove", map[k])
    \/ /\ k \notin DOMAIN map
       /\ map' = map
       /\ ret' = Failed("remove")

Next ==
    \E k \in Keys :
        \/ \E e \in Entries : Insert(k, e)
        \/ Lookup(k)
        \/ Remove(k)

Spec == Init /\ [][Next]_vars

=============================================================================
