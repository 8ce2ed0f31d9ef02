---------------------------- MODULE RegistryProofs ----------------------------
(***************************************************************************)
(* For every number of slots and every set of addresses: the registry's    *)
(* table keeps its invariants and implements the map.                      *)
(***************************************************************************)
EXTENDS Registry, FiniteSetTheorems, WellFoundedInduction, TLAPS

-----------------------------------------------------------------------------
(* Probe sequences.                                                        *)

\* An address hashes to a slot of the table (line 178).
LEMMA IndexInRange ==
    ASSUME NEW k \in Keys
    PROVE  ao_registry_index_for(k) \in Slots
<1>1. k \in Nat /\ Capacity \in Nat \ {0}
  BY KeysAssumption, CapacityAssumption
<1>2. k \div 16 \in Nat
  BY <1>1
<1>3. (k \div 16) % Capacity \in 0 .. Capacity - 1
  BY <1>1, <1>2
<1> QED
  BY <1>3 DEF ao_registry_index_for, Slots

\* Every offset of a probe sequence is a slot (line 189).
LEMMA ProbeInRange ==
    ASSUME NEW k \in Keys, NEW i \in Offsets
    PROVE  Probe(k, i) \in Slots
BY IndexInRange, CapacityAssumption DEF Probe, Slots, Offsets

\* A probe sequence visits no slot twice.
LEMMA ProbeInjective ==
    ASSUME NEW k \in Keys, NEW i \in Offsets, NEW j \in Offsets,
           Probe(k, i) = Probe(k, j)
    PROVE  i = j
BY IndexInRange, CapacityAssumption DEF Probe, Slots, Offsets

\* A probe sequence visits every slot.
LEMMA ProbeOnto ==
    ASSUME NEW k \in Keys, NEW s \in Slots
    PROVE  \E i \in Offsets : Probe(k, i) = s
<1> DEFINE h == ao_registry_index_for(k)
           i == IF s >= h THEN s - h ELSE s + Capacity - h
<1>1. h \in 0 .. Capacity - 1 /\ s \in 0 .. Capacity - 1
  BY IndexInRange DEF Slots
<1>2. i \in Offsets
  BY <1>1, CapacityAssumption DEF Offsets
<1>3. Probe(k, i) = s
  BY <1>1, CapacityAssumption DEF Probe
<1> QED
  BY <1>2, <1>3

-----------------------------------------------------------------------------
(* Scans.                                                                  *)

\* A scan that can end has a first place to end at.
LEMMA FirstIsLeast ==
    ASSUME NEW S \in SUBSET Offsets, S # {}
    PROVE  /\ First(S) \in S
           /\ \A j \in S : First(S) <= j
<1> DEFINE R == OpToRel(<, Nat)
<1>1. Offsets \subseteq Nat
  BY CapacityAssumption DEF Offsets
<1>2. \E i \in S : \A j \in S : ~(<<j, i>> \in R)
  <2>1. IsWellFoundedOn(R, Nat)
    BY NatLessThanWellFounded
  <2> HIDE DEF R
  <2> QED
    BY <1>1, <2>1, WFMin
<1>3. \E i \in S : \A j \in S : i <= j
  <2>1. \A i, j \in Nat : <<j, i>> \in R <=> j < i
    BY DEF OpToRel
  <2>2. PICK i \in S : \A j \in S : ~(<<j, i>> \in R)
    BY <1>2
  <2>3. \A j \in S : ~(j < i)
    BY <1>1, <2>1, <2>2
  <2> QED
    BY <1>1, <2>3
<1> QED
  BY <1>3 DEF First

\* The inductive invariant.  None of its parts is inductive alone: an insert
\* adds no duplicate because the chain to the address is unbroken, and it keeps
\* chains unbroken because it fills marks and never makes an empty slot.
IInv == TypeOK /\ NoDuplicateKeys /\ ChainUnbroken

\* k is in the table.
Present(k) == \E s \in Slots : g_registry[s].key = k

\* An address is neither of the two marks (lines 18-19).
LEMMA KeysAreNotMarks ==
    Keys \cap Marks = {} /\ AO_REGISTRY_EMPTY # AO_REGISTRY_TOMBSTONE
BY KeysAssumption DEF Marks, AO_REGISTRY_EMPTY, AO_REGISTRY_TOMBSTONE

\* The scan of lookup and of remove meets an address exactly when it is there.
LEMMA HitIffPresent ==
    ASSUME IInv, NEW k \in Keys
    PROVE  /\ Hit(k) <=> Present(k)
           /\ Hit(k) => /\ First(Stops(k)) \in Offsets
                        /\ KeyAt(k, First(Stops(k))) = k
<1>1. Stops(k) \in SUBSET Offsets
  BY DEF Stops
<1>2. Stops(k) # {} => First(Stops(k)) \in Offsets
  BY <1>1, FirstIsLeast
<1>3. Hit(k) => Present(k)
  BY <1>2, ProbeInRange DEF Hit, Present, KeyAt
<1>4. ASSUME Present(k)
      PROVE  Hit(k)
  <2>1. PICK s \in Slots : g_registry[s].key = k
    BY <1>4 DEF Present
  <2>2. PICK i \in Offsets : Probe(k, i) = s
    BY ProbeOnto
  <2>3. KeyAt(k, i) = k /\ i \in Stops(k)
    BY <2>1, <2>2 DEF KeyAt, Stops
  <2> DEFINE f == First(Stops(k))
  <2>4. f \in Stops(k) /\ f <= i
    BY <1>1, <2>3, FirstIsLeast
  <2>5. KeyAt(k, f) # AO_REGISTRY_EMPTY
    <3>1. CASE f = i
      BY <2>3, <3>1, KeysAreNotMarks DEF Marks
    <3>2. CASE f # i
      <4>1. f \in 0 .. i - 1
        BY <1>1, <2>4, <3>2, CapacityAssumption DEF Offsets
      <4> QED
        BY <2>3, <4>1 DEF IInv, ChainUnbroken
    <3> QED
      BY <3>1, <3>2
  <2> QED
    BY <2>4, <2>5 DEF Hit, Stops
<1> QED
  BY <1>2, <1>3, <1>4 DEF Hit

\* Where insert puts an address: nothing before the place is empty, and the
\* place holds no other address; it holds the address itself if that is present.
LEMMA TargetIsSafe ==
    ASSUME IInv, NEW k \in Keys, NEW i \in Targets(k)
    PROVE  /\ i \in Offsets
           /\ KeyAt(k, i) \in Marks \cup {k}
           /\ Present(k) => KeyAt(k, i) = k
           /\ \A j \in 0 .. i - 1 : KeyAt(k, j) # AO_REGISTRY_EMPTY
<1>1. /\ Stops(k) \in SUBSET Offsets
      /\ Passed(k) \in SUBSET Offsets
      /\ Offsets \subseteq Nat
  BY CapacityAssumption DEF Stops, Passed, Offsets
<1>2. CASE Hit(k)
  <2>1. i = First(Stops(k)) /\ Stops(k) # {}
    BY <1>2 DEF Targets, Hit
  <2>2. i \in Stops(k) /\ \A j \in Stops(k) : i <= j
    BY <1>1, <2>1, FirstIsLeast
  <2>3. \A j \in 0 .. i - 1 : j \in Offsets /\ j \notin Stops(k)
    BY <1>1, <2>2, CapacityAssumption DEF Offsets
  <2> QED
    BY <1>1, <1>2, <2>1, <2>2, <2>3 DEF Stops, Hit
<1>3. CASE ~Hit(k) /\ Passed(k) # {}
  <2>1. i \in Passed(k)
    BY <1>1, <1>3, FirstIsLeast DEF Targets
  <2>2. \A j \in 0 .. i - 1 : j \in Offsets /\ j \notin Stops(k)
    BY <1>1, <2>1, CapacityAssumption DEF Offsets, Passed
  <2> QED
    BY <1>1, <1>3, <2>1, <2>2, HitIffPresent DEF Stops, Passed, Marks
<1>4. CASE ~Hit(k) /\ Passed(k) = {}
  <2>1. i = First(Stops(k)) /\ Stops(k) # {}
    BY <1>4 DEF Targets
  <2>2. i \in Stops(k) /\ \A j \in Stops(k) : i <= j
    BY <1>1, <2>1, FirstIsLeast
  <2>3. \A j \in 0 .. i - 1 : j \in Offsets /\ j \notin Stops(k)
    BY <1>1, <2>2, CapacityAssumption DEF Offsets
  <2> QED
    BY <1>1, <1>4, <2>1, <2>2, <2>3, HitIffPresent DEF Stops, Marks
<1> QED
  BY <1>2, <1>3, <1>4

-----------------------------------------------------------------------------
(* The table's invariant.                                                  *)

\* The zeroed table satisfies the invariant (line 60).
LEMMA InitEstablishes ==
    Init => IInv
<1> SUFFICES ASSUME Init
             PROVE  IInv
  OBVIOUS
<1>1. \A s \in Slots : g_registry[s].key = AO_REGISTRY_EMPTY
  BY DEF Init, Cleared
<1>2. TypeOK
  BY <1>1, ZeroAssumption DEF Init, TypeOK, Cleared, Marks, Failed
<1>3. NoDuplicateKeys
  BY <1>1, KeysAreNotMarks DEF NoDuplicateKeys, Marks
<1>4. ChainUnbroken
  BY <1>1, ProbeInRange, KeysAreNotMarks DEF ChainUnbroken, KeyAt, Marks
<1> QED
  BY <1>2, <1>3, <1>4 DEF IInv

\* insert keeps the invariant: over the address itself, in a tombstone, in the
\* empty slot, or nowhere (lines 181-221).
LEMMA InsertPreserves ==
    ASSUME IInv, NEW k \in Keys, NEW e \in Entries,
           ao_registry_insert_locked(k, e)
    PROVE  IInv'
<1>1. CASE Targets(k) = {} /\ ret' = Failed("insert") /\ UNCHANGED g_registry
  <2>1. TypeOK'
    BY <1>1 DEF IInv, TypeOK, Failed, Cleared
  <2>2. NoDuplicateKeys' /\ ChainUnbroken'
    BY <1>1 DEF IInv, NoDuplicateKeys, ChainUnbroken, KeyAt
  <2> QED
    BY <2>1, <2>2 DEF IInv
<1>2. ASSUME NEW i \in Targets(k),
             g_registry' = [g_registry EXCEPT ![Probe(k, i)] = SlotOf(k, e)],
             ret' = Done("insert")
      PROVE  IInv'
  <2> DEFINE s == Probe(k, i)
  <2>1. /\ i \in Offsets
        /\ s \in Slots
        /\ g_registry[s].key \in Marks \cup {k}
        /\ Present(k) => g_registry[s].key = k
        /\ \A j \in 0 .. i - 1 : KeyAt(k, j) # AO_REGISTRY_EMPTY
    BY TargetIsSafe, ProbeInRange DEF KeyAt
  <2>2. /\ g_registry'[s] = SlotOf(k, e)
        /\ \A t \in Slots : t # s => g_registry'[t] = g_registry[t]
        /\ g_registry'[s].key = k
    BY <1>2, <2>1 DEF IInv, TypeOK, SlotOf
  <2>3. TypeOK'
    <3>1. SlotOf(k, e) \in [key : Keys \cup Marks, requested_size : Sizes,
                            allocation_id : Ids]
      BY DEF SlotOf, Entries
    <3>2. g_registry' \in [Slots -> [key : Keys \cup Marks,
                                     requested_size : Sizes,
                                     allocation_id : Ids]]
      BY <1>2, <2>1, <3>1 DEF IInv, TypeOK
    <3>3. ret' \in [op : {"none", "insert", "lookup", "remove"},
                    ok : {0, 1}, entry : SUBSET Entries]
      BY <1>2 DEF Done
    <3>4. \A t \in Slots :
             g_registry'[t].key \in Marks
                => g_registry'[t] = Cleared(g_registry'[t].key)
      BY <2>2, KeysAreNotMarks DEF IInv, TypeOK
    <3> QED
      BY <3>2, <3>3, <3>4 DEF TypeOK, Cleared
  <2>4. \A t \in Slots : t # s => g_registry[t].key # k
    BY <2>1 DEF IInv, NoDuplicateKeys, Present
  <2>5. NoDuplicateKeys'
    BY <2>2, <2>4 DEF IInv, NoDuplicateKeys
  <2>6. ChainUnbroken'
    <3> SUFFICES ASSUME NEW q \in Keys, NEW p \in Offsets,
                        g_registry'[Probe(q, p)].key = q,
                        NEW j \in 0 .. p - 1
                 PROVE  g_registry'[Probe(q, j)].key # AO_REGISTRY_EMPTY
      BY DEF ChainUnbroken, KeyAt
    <3>1. j \in Offsets /\ Probe(q, j) \in Slots /\ Probe(q, p) \in Slots
      BY ProbeInRange, CapacityAssumption DEF Offsets
    <3>2. k # AO_REGISTRY_EMPTY
      BY KeysAreNotMarks DEF Marks
    <3>3. CASE q = k
      <4>1. Probe(q, p) = s
        BY <2>2, <2>4, <3>1, <3>3
      <4>2. p = i
        BY <2>1, <3>3, <4>1, ProbeInjective
      <4>3. g_registry[Probe(q, j)].key # AO_REGISTRY_EMPTY
        BY <2>1, <3>3, <4>2 DEF KeyAt
      <4> QED
        BY <2>2, <3>1, <3>2, <4>3
    <3>4. CASE q # k
      <4>1. Probe(q, p) # s
        BY <2>2, <3>4
      <4>2. g_registry[Probe(q, p)].key = q
        BY <2>2, <3>1, <4>1
      <4>3. g_registry[Probe(q, j)].key # AO_REGISTRY_EMPTY
        BY <4>2 DEF IInv, ChainUnbroken, KeyAt
      <4> QED
        BY <2>2, <3>1, <3>2, <4>3
    <3> QED
      BY <3>3, <3>4
  <2> QED
    BY <2>3, <2>5, <2>6 DEF IInv
<1> QED
  BY <1>1, <1>2 DEF ao_registry_insert_locked

\* lookup keeps the invariant: it writes nothing but its result (lines 223-248).
LEMMA LookupPreserves ==
    ASSUME IInv, NEW k \in Keys, ao_registry_lookup_locked(k)
    PROVE  IInv'
<1>1. CASE Hit(k)
  <2> DEFINE s == Probe(k, First(Stops(k)))
  <2>1. s \in Slots
    BY <1>1, HitIffPresent, ProbeInRange
  <2>2. EntryOf(g_registry[s]) \in Entries
    BY <2>1 DEF IInv, TypeOK, EntryOf, Entries
  <2> QED
    BY <1>1, <2>2
    DEF ao_registry_lookup_locked, IInv, TypeOK, NoDuplicateKeys, ChainUnbroken,
        KeyAt, Found, Cleared
<1>2. CASE ~Hit(k)
  BY <1>2
  DEF ao_registry_lookup_locked, IInv, TypeOK, NoDuplicateKeys, ChainUnbroken,
      KeyAt, Failed, Cleared
<1> QED
  BY <1>1, <1>2

\* remove keeps the invariant: the slot it clears becomes a tombstone, so no
\* chain through it breaks (lines 250-278).
LEMMA RemovePreserves ==
    ASSUME IInv, NEW k \in Keys, ao_registry_remove_locked(k)
    PROVE  IInv'
<1>1. CASE ~Hit(k)
  BY <1>1
  DEF ao_registry_remove_locked, IInv, TypeOK, NoDuplicateKeys, ChainUnbroken,
      KeyAt, Failed, Cleared
<1>2. CASE Hit(k)
  <2> DEFINE s == Probe(k, First(Stops(k)))
             gone == Cleared(AO_REGISTRY_TOMBSTONE)
  <2>1. s \in Slots
    BY <1>2, HitIffPresent, ProbeInRange
  <2>2. /\ g_registry' = [g_registry EXCEPT ![s] = gone]
        /\ ret' = Found("remove", EntryOf(g_registry[s]))
    BY <1>2 DEF ao_registry_remove_locked
  <2>3. /\ g_registry'[s] = gone
        /\ g_registry'[s].key = AO_REGISTRY_TOMBSTONE
        /\ \A t \in Slots : t # s => g_registry'[t] = g_registry[t]
    BY <2>1, <2>2 DEF IInv, TypeOK, Cleared
  <2>4. TypeOK'
    <3>1. g_registry' \in [Slots -> [key : Keys \cup Marks,
                                     requested_size : Sizes,
                                     allocation_id : Ids]]
      BY <2>1, <2>2, ZeroAssumption DEF IInv, TypeOK, Cleared, Marks
    <3>2. EntryOf(g_registry[s]) \in Entries
      BY <2>1 DEF IInv, TypeOK, EntryOf, Entries
    <3>3. ret' \in [op : {"none", "insert", "lookup", "remove"},
                    ok : {0, 1}, entry : SUBSET Entries]
      BY <2>2, <3>2 DEF Found
    <3>4. \A t \in Slots :
             g_registry'[t].key \in Marks
                => g_registry'[t] = Cleared(g_registry'[t].key)
      BY <2>3 DEF IInv, TypeOK
    <3> QED
      BY <3>1, <3>3, <3>4 DEF TypeOK, Cleared
  <2>5. NoDuplicateKeys'
    BY <2>1, <2>3, KeysAreNotMarks DEF IInv, NoDuplicateKeys, Marks
  <2>6. ChainUnbroken'
    <3> SUFFICES ASSUME NEW q \in Keys, NEW p \in Offsets,
                        g_registry'[Probe(q, p)].key = q,
                        NEW j \in 0 .. p - 1
                 PROVE  g_registry'[Probe(q, j)].key # AO_REGISTRY_EMPTY
      BY DEF ChainUnbroken, KeyAt
    <3>1. j \in Offsets /\ Probe(q, j) \in Slots /\ Probe(q, p) \in Slots
      BY ProbeInRange, CapacityAssumption DEF Offsets
    <3>2. Probe(q, p) # s
      BY <2>3, KeysAreNotMarks DEF Marks
    <3>3. g_registry[Probe(q, j)].key # AO_REGISTRY_EMPTY
      BY <2>3, <3>1, <3>2 DEF IInv, ChainUnbroken, KeyAt
    <3> QED
      BY <2>3, <3>1, <3>3, KeysAreNotMarks
  <2> QED
    BY <2>4, <2>5, <2>6 DEF IInv
<1> QED
  BY <1>1, <1>2

\* A step that changes nothing keeps the invariant.
LEMMA StutterPreserves ==
    ASSUME IInv, UNCHANGED vars
    PROVE  IInv'
BY DEF vars, IInv, TypeOK, NoDuplicateKeys, ChainUnbroken, KeyAt, Cleared

\* Every step of the table keeps the invariant.
LEMMA NextPreserves ==
    IInv /\ [Next]_vars => IInv'
BY InsertPreserves, LookupPreserves, RemovePreserves, StutterPreserves DEF Next

\* The invariant holds for ever.
LEMMA Invariance ==
    Spec => []IInv
<1>1. Init => IInv
  BY InitEstablishes
<1>2. IInv /\ [Next]_vars => IInv'
  BY NextPreserves
<1> QED
  BY <1>1, <1>2, PTL DEF Spec

\* The table always holds addresses and marks, and a slot without an address is
\* cleared (lines 181-278).
THEOREM TypeCorrect == Spec => []TypeOK
<1>1. IInv => TypeOK
  BY DEF IInv
<1> QED
  BY <1>1, Invariance, PTL

\* No address is ever in two slots.
THEOREM NeverTwice == Spec => []NoDuplicateKeys
<1>1. IInv => NoDuplicateKeys
  BY DEF IInv
<1> QED
  BY <1>1, Invariance, PTL

\* A scan for an address that is present never meets an empty slot before it.
THEOREM ChainsHold == Spec => []ChainUnbroken
<1>1. IInv => ChainUnbroken
  BY DEF IInv
<1> QED
  BY <1>1, Invariance, PTL

-----------------------------------------------------------------------------
(* The table implements the map.                                           *)

\* The tables, and the map a table stands for.
Tables == [Slots -> [key : Keys \cup Marks, requested_size : Sizes,
                     allocation_id : Ids]]

LiveIn(g) == {s \in Slots : g[s].key \in Keys}
KeysIn(g) == {g[s].key : s \in LiveIn(g)}
MapOf(g)  ==
    [k \in KeysIn(g) |-> EntryOf(g[CHOOSE s \in LiveIn(g) : g[s].key = k])]

\* No address is in two slots of table g.
Distinct(g) ==
    \A s, t \in Slots : g[s].key \in Keys /\ g[s].key = g[t].key => s = t

\* The refinement mapping is the map of the current table.
LEMMA ContentsIsMapOf ==
    /\ Contents = MapOf(g_registry)
    /\ Tracked = KeysIn(g_registry)
    /\ Contents' = MapOf(g_registry')
BY DEF Contents, Tracked, LiveSlots, MapOf, KeysIn, LiveIn

\* With no address in two slots, the map binds an address to what its slot holds.
LEMMA MapOfSlot ==
    ASSUME NEW g \in Tables, Distinct(g), NEW s \in LiveIn(g)
    PROVE  /\ g[s].key \in KeysIn(g)
           /\ MapOf(g)[g[s].key] = EntryOf(g[s])
<1> DEFINE c == CHOOSE t \in LiveIn(g) : g[t].key = g[s].key
<1>1. c \in LiveIn(g) /\ g[c].key = g[s].key
  OBVIOUS
<1>2. c = s
  BY <1>1 DEF Distinct, LiveIn
<1> QED
  BY <1>2 DEF MapOf, KeysIn

\* Storing k at a slot that holds no other address binds k and nothing else.
LEMMA StoreBinds ==
    ASSUME NEW g \in Tables, NEW h \in Tables, Distinct(g), Distinct(h),
           NEW k \in Keys, NEW e \in Entries, NEW s \in Slots,
           h = [g EXCEPT ![s] = SlotOf(k, e)],
           g[s].key \in Marks \cup {k}
    PROVE  MapOf(h) = Abstract!Put(MapOf(g), k, e)
<1>1. /\ h[s] = SlotOf(k, e) /\ h[s].key = k /\ EntryOf(h[s]) = e
      /\ \A t \in Slots : t # s => h[t] = g[t]
  BY DEF Tables, SlotOf, EntryOf, Entries
<1>2. LiveIn(h) = LiveIn(g) \cup {s}
  BY <1>1 DEF LiveIn
<1>3. KeysIn(h) = KeysIn(g) \cup {k}
  <2>1. ASSUME NEW t \in LiveIn(h)
        PROVE  h[t].key \in KeysIn(g) \cup {k}
    BY <1>1, <1>2 DEF KeysIn, LiveIn
  <2>2. ASSUME NEW t \in LiveIn(g)
        PROVE  g[t].key \in KeysIn(h)
    <3>1. CASE t = s
      BY <1>1, <1>2, <3>1, KeysAreNotMarks DEF KeysIn, LiveIn
    <3>2. CASE t # s
      BY <1>1, <1>2, <3>2 DEF KeysIn, LiveIn
    <3> QED
      BY <3>1, <3>2
  <2>3. k \in KeysIn(h)
    BY <1>1, <1>2 DEF KeysIn
  <2>4. KeysIn(h) \subseteq KeysIn(g) \cup {k}
    BY <2>1 DEF KeysIn
  <2>5. KeysIn(g) \subseteq KeysIn(h)
    BY <2>2 DEF KeysIn
  <2> QED
    BY <2>3, <2>4, <2>5
<1>4. ASSUME NEW q \in KeysIn(h)
      PROVE  MapOf(h)[q] = IF q = k THEN e ELSE MapOf(g)[q]
  <2>1. PICK t \in LiveIn(h) : h[t].key = q
    BY DEF KeysIn
  <2>2. MapOf(h)[q] = EntryOf(h[t])
    BY <2>1, MapOfSlot
  <2>3. CASE q = k
    <3>1. t = s
      BY <1>1, <2>1, <2>3 DEF Distinct, LiveIn
    <3> QED
      BY <1>1, <2>2, <2>3, <3>1
  <2>4. CASE q # k
    <3>1. t # s /\ t \in LiveIn(g) /\ h[t] = g[t]
      BY <1>1, <1>2, <2>1, <2>4 DEF LiveIn
    <3> QED
      BY <2>1, <2>2, <2>4, <3>1, MapOfSlot
  <2> QED
    BY <2>3, <2>4
<1>5. DOMAIN MapOf(g) = KeysIn(g) /\ DOMAIN MapOf(h) = KeysIn(h)
  BY DEF MapOf
<1>6. MapOf(h) = [q \in KeysIn(h) |-> MapOf(h)[q]]
  BY DEF MapOf
<1> QED
  BY <1>3, <1>4, <1>5, <1>6 DEF Abstract!Put

\* Clearing the slot of k drops k and nothing else.
LEMMA ClearDrops ==
    ASSUME NEW g \in Tables, NEW h \in Tables, Distinct(g), Distinct(h),
           NEW k \in Keys, NEW s \in Slots, g[s].key = k,
           h = [g EXCEPT ![s] = Cleared(AO_REGISTRY_TOMBSTONE)]
    PROVE  MapOf(h) = Abstract!Drop(MapOf(g), k)
<1>1. /\ h[s].key = AO_REGISTRY_TOMBSTONE
      /\ \A t \in Slots : t # s => h[t] = g[t]
  BY DEF Tables, Cleared
<1>2. LiveIn(h) = LiveIn(g) \ {s}
  BY <1>1, KeysAreNotMarks DEF LiveIn, Marks
<1>3. KeysIn(h) = KeysIn(g) \ {k}
  BY <1>1, <1>2 DEF KeysIn, LiveIn, Distinct
<1>4. ASSUME NEW q \in KeysIn(h)
      PROVE  MapOf(h)[q] = MapOf(g)[q]
  <2>1. PICK t \in LiveIn(h) : h[t].key = q
    BY DEF KeysIn
  <2>2. t \in LiveIn(g) /\ h[t] = g[t]
    BY <1>1, <1>2 DEF LiveIn
  <2>3. MapOf(h)[q] = EntryOf(h[t])
    BY <2>1, MapOfSlot
  <2>4. MapOf(g)[q] = EntryOf(g[t])
    BY <2>1, <2>2, MapOfSlot
  <2> QED
    BY <2>2, <2>3, <2>4
<1>5. DOMAIN MapOf(g) = KeysIn(g) /\ DOMAIN MapOf(h) = KeysIn(h)
  BY DEF MapOf
<1>6. MapOf(h) = [q \in KeysIn(h) |-> MapOf(h)[q]]
  BY DEF MapOf
<1> QED
  BY <1>3, <1>4, <1>5, <1>6 DEF Abstract!Drop

\* A table that satisfies the invariant is one to which the lemmas above apply.
LEMMA TableIsDistinct ==
    ASSUME IInv
    PROVE  g_registry \in Tables /\ Distinct(g_registry)
BY DEF IInv, TypeOK, NoDuplicateKeys, Tables, Distinct

\* The addresses the map binds are those in the table.
LEMMA PresentIsTracked ==
    ASSUME NEW k \in Keys
    PROVE  Present(k) <=> k \in DOMAIN Contents
BY ContentsIsMapOf DEF Present, MapOf, KeysIn, LiveIn

\* There are Capacity slots.
LEMMA SlotCount ==
    IsFiniteSet(Slots) /\ Cardinality(Slots) = Capacity
<1>1. 0 \in Int /\ Capacity - 1 \in Int /\ ~(0 > Capacity - 1)
  BY CapacityAssumption
<1>2. IsFiniteSet(0 .. Capacity - 1)
      /\ Cardinality(0 .. Capacity - 1) = (Capacity - 1) - 0 + 1
  BY <1>1, FS_Interval
<1> QED
  BY <1>2, CapacityAssumption DEF Slots

\* As many addresses are tracked as slots hold one; so there are at most
\* Capacity, and fewer when a slot holds a mark.
LEMMA TrackedCount ==
    ASSUME IInv
    PROVE  /\ Cardinality(DOMAIN Contents) = Cardinality(LiveSlots)
           /\ Cardinality(LiveSlots) \in Nat
           /\ LiveSlots = Slots => Cardinality(LiveSlots) = Capacity
           /\ LiveSlots # Slots => Cardinality(LiveSlots) < Capacity
<1> DEFINE f == [s \in LiveSlots |-> g_registry[s].key]
<1>1. LiveSlots \in SUBSET Slots
  BY DEF LiveSlots
<1>2. IsFiniteSet(LiveSlots) /\ Cardinality(LiveSlots) \in Nat
  BY <1>1, SlotCount, FS_Subset, FS_CardinalityType
<1>3. DOMAIN Contents = Tracked
  BY DEF Contents
<1>4. f \in Bijection(LiveSlots, Tracked)
  <2>1. f \in [LiveSlots -> Tracked]
    BY DEF Tracked
  <2>2. \A s, t \in LiveSlots : f[s] = f[t] => s = t
    BY DEF IInv, NoDuplicateKeys, LiveSlots
  <2>3. \A k \in Tracked : \E s \in LiveSlots : f[s] = k
    BY DEF Tracked
  <2> QED
    BY <2>1, <2>2, <2>3 DEF Bijection, Injection, IsInjective, Surjection
<1>5. Cardinality(Tracked) = Cardinality(LiveSlots)
  <2>1. ExistsBijection(LiveSlots, Tracked)
    BY <1>4 DEF ExistsBijection
  <2> QED
    BY <1>2, <2>1, FS_Bijection
<1>6. LiveSlots # Slots => Cardinality(LiveSlots) < Capacity
  <2>1. /\ Cardinality(LiveSlots) <= Cardinality(Slots)
        /\ Cardinality(Slots) = Cardinality(LiveSlots) => Slots = LiveSlots
    BY <1>1, SlotCount, FS_Subset
  <2> QED
    BY <1>2, <2>1, SlotCount, CapacityAssumption
<1> QED
  BY <1>2, <1>3, <1>5, <1>6, SlotCount

\* The two modules count alike.
LEMMA SameCardinality ==
    \A S : Abstract!Cardinality(S) = Cardinality(S)
BY DEF Abstract!Cardinality, Cardinality

\* Insert finds a place exactly when the map has room for the address.
LEMMA TargetIffRoom ==
    ASSUME IInv, NEW k \in Keys
    PROVE  Targets(k) # {} <=> Abstract!CanPut(Contents, k)
<1>1. ASSUME NEW i \in Targets(k)
      PROVE  Abstract!CanPut(Contents, k)
  <2>1. i \in Offsets /\ KeyAt(k, i) \in Marks \cup {k}
    BY <1>1, TargetIsSafe
  <2>2. Probe(k, i) \in Slots
    BY <2>1, ProbeInRange
  <2>3. CASE KeyAt(k, i) = k
    BY <2>2, <2>3, PresentIsTracked DEF Present, KeyAt, Abstract!CanPut
  <2>4. CASE KeyAt(k, i) \in Marks
    <3>1. Probe(k, i) \notin LiveSlots
      BY <2>4, KeysAreNotMarks DEF LiveSlots, KeyAt
    <3> QED
      BY <2>2, <3>1, TrackedCount, SameCardinality DEF Abstract!CanPut
  <2> QED
    BY <2>1, <2>3, <2>4
<1>2. ASSUME Targets(k) = {}
      PROVE  ~Abstract!CanPut(Contents, k)
  <2>1. ~Hit(k) /\ Passed(k) = {} /\ Stops(k) = {}
    BY <1>2 DEF Targets
  <2>2. k \notin DOMAIN Contents
    BY <2>1, HitIffPresent, PresentIsTracked
  <2>3. \A i \in Offsets : KeyAt(k, i) \notin Marks
    BY <2>1 DEF Stops, Passed, Marks
  <2>4. ASSUME NEW s \in Slots
        PROVE  g_registry[s].key \in Keys
    <3>1. PICK i \in Offsets : Probe(k, i) = s
      BY ProbeOnto
    <3> QED
      BY <2>3, <3>1 DEF KeyAt, IInv, TypeOK
  <2>5. LiveSlots = Slots
    BY <2>4 DEF LiveSlots
  <2> QED
    BY <2>2, <2>5, TrackedCount, SameCardinality, CapacityAssumption
    DEF Abstract!CanPut
<1> QED
  BY <1>1, <1>2

\* The zeroed table stands for the empty map.
LEMMA InitRefines ==
    Init => Abstract!Init
<1> SUFFICES ASSUME Init
             PROVE  Abstract!Init
  OBVIOUS
<1>1. \A s \in Slots : g_registry[s].key = AO_REGISTRY_EMPTY
  BY DEF Init, Cleared
<1>2. Tracked = {}
  BY <1>1, KeysAreNotMarks DEF Tracked, LiveSlots, Marks
<1>3. Contents = [k \in {} |-> {}]
  BY <1>2 DEF Contents
<1> QED
  BY <1>3 DEF Init, Abstract!Init, Failed, Abstract!Failed

\* insert binds the address, or is refused where the map refuses it.
LEMMA InsertRefines ==
    ASSUME IInv, IInv', NEW k \in Keys, NEW e \in Entries,
           ao_registry_insert_locked(k, e)
    PROVE  Abstract!Insert(k, e)
<1>1. ASSUME NEW i \in Targets(k),
             g_registry' = [g_registry EXCEPT ![Probe(k, i)] = SlotOf(k, e)],
             ret' = Done("insert")
      PROVE  Abstract!Insert(k, e)
  <2>1. i \in Offsets /\ KeyAt(k, i) \in Marks \cup {k}
    BY TargetIsSafe
  <2>2. Probe(k, i) \in Slots /\ g_registry[Probe(k, i)].key \in Marks \cup {k}
    BY <2>1, ProbeInRange DEF KeyAt
  <2>3. g_registry' \in Tables /\ Distinct(g_registry')
    BY DEF IInv, TypeOK, NoDuplicateKeys, Tables, Distinct
  <2>4. Contents' = Abstract!Put(Contents, k, e)
    BY <1>1, <2>2, <2>3, TableIsDistinct, StoreBinds, ContentsIsMapOf
  <2>5. Abstract!CanPut(Contents, k)
    BY TargetIffRoom
  <2> QED
    BY <1>1, <2>4, <2>5 DEF Abstract!Insert, Done, Abstract!Done
<1>2. CASE Targets(k) = {} /\ ret' = Failed("insert") /\ UNCHANGED g_registry
  <2>1. Contents' = Contents
    BY <1>2, ContentsIsMapOf
  <2> QED
    BY <1>2, <2>1, TargetIffRoom DEF Abstract!Insert, Failed, Abstract!Failed
<1> QED
  BY <1>1, <1>2 DEF ao_registry_insert_locked

\* What the scan for an address that is there finds.
LEMMA HitFinds ==
    ASSUME IInv, NEW k \in Keys, Hit(k)
    PROVE  LET s == Probe(k, First(Stops(k)))
           IN  /\ s \in Slots
               /\ g_registry[s].key = k
               /\ Contents[k] = EntryOf(g_registry[s])
<1> DEFINE s == Probe(k, First(Stops(k)))
<1>1. s \in Slots /\ g_registry[s].key = k
  BY HitIffPresent, ProbeInRange DEF KeyAt
<1>2. s \in LiveIn(g_registry)
  BY <1>1 DEF LiveIn
<1> QED
  BY <1>1, <1>2, TableIsDistinct, MapOfSlot, ContentsIsMapOf

\* lookup finds what the map binds, and nothing else.
LEMMA LookupRefines ==
    ASSUME IInv, NEW k \in Keys, ao_registry_lookup_locked(k)
    PROVE  Abstract!Lookup(k)
<1>1. Contents' = Contents
  BY ContentsIsMapOf DEF ao_registry_lookup_locked
<1>2. Hit(k) <=> k \in DOMAIN Contents
  BY HitIffPresent, PresentIsTracked
<1>3. CASE Hit(k)
  BY <1>1, <1>2, <1>3, HitFinds
  DEF ao_registry_lookup_locked, Abstract!Lookup, Found, Abstract!Found
<1>4. CASE ~Hit(k)
  BY <1>1, <1>2, <1>4
  DEF ao_registry_lookup_locked, Abstract!Lookup, Failed, Abstract!Failed
<1> QED
  BY <1>3, <1>4

\* remove returns what the map binds and drops it.
LEMMA RemoveRefines ==
    ASSUME IInv, IInv', NEW k \in Keys, ao_registry_remove_locked(k)
    PROVE  Abstract!Remove(k)
<1>1. Hit(k) <=> k \in DOMAIN Contents
  BY HitIffPresent, PresentIsTracked
<1>2. CASE Hit(k)
  <2> DEFINE s == Probe(k, First(Stops(k)))
  <2>1. /\ g_registry' = [g_registry EXCEPT ![s] = Cleared(AO_REGISTRY_TOMBSTONE)]
        /\ ret' = Found("remove", EntryOf(g_registry[s]))
    BY <1>2 DEF ao_registry_remove_locked
  <2>2. s \in Slots /\ g_registry[s].key = k /\ Contents[k] = EntryOf(g_registry[s])
    BY <1>2, HitFinds
  <2>3. g_registry' \in Tables /\ Distinct(g_registry')
    BY DEF IInv, TypeOK, NoDuplicateKeys, Tables, Distinct
  <2> HIDE DEF s
  <2>4. Contents' = Abstract!Drop(Contents, k)
    BY <2>1, <2>2, <2>3, TableIsDistinct, ClearDrops, ContentsIsMapOf
  <2> QED
    BY <1>1, <1>2, <2>1, <2>2, <2>4 DEF Abstract!Remove, Found, Abstract!Found
<1>3. CASE ~Hit(k)
  <2>1. Contents' = Contents
    BY <1>3, ContentsIsMapOf DEF ao_registry_remove_locked
  <2> QED
    BY <1>1, <1>3, <2>1
    DEF ao_registry_remove_locked, Abstract!Remove, Failed, Abstract!Failed
<1> QED
  BY <1>2, <1>3

\* Every step of the table is a step of the map.
LEMMA StepRefines ==
    IInv /\ IInv' /\ [Next]_vars => [Abstract!Next]_(Abstract!vars)
<1> SUFFICES ASSUME IInv, IInv', [Next]_vars
             PROVE  [Abstract!Next]_(Abstract!vars)
  OBVIOUS
<1>1. ASSUME NEW k \in Keys, NEW e \in Entries, ao_registry_insert_locked(k, e)
      PROVE  Abstract!Next
  BY <1>1, InsertRefines DEF Abstract!Next, Abstract!Entries, Entries
<1>2. ASSUME NEW k \in Keys, ao_registry_lookup_locked(k)
      PROVE  Abstract!Next
  BY <1>2, LookupRefines DEF Abstract!Next
<1>3. ASSUME NEW k \in Keys, ao_registry_remove_locked(k)
      PROVE  Abstract!Next
  BY <1>3, RemoveRefines DEF Abstract!Next
<1>4. CASE UNCHANGED vars
  BY <1>4, ContentsIsMapOf DEF vars, Abstract!vars
<1> QED
  BY <1>1, <1>2, <1>3, <1>4 DEF Next

\* The open-addressing table, with its probing and its tombstones, is a map from
\* addresses to entries that refuses an address only when Capacity others are
\* live (lines 181-278).
THEOREM TableImplementsMap == Spec => ImplementsMap
<1>1. Init => Abstract!Init
  BY InitRefines
<1>2. IInv /\ IInv' /\ [Next]_vars => [Abstract!Next]_(Abstract!vars)
  BY StepRefines
<1> QED
  BY <1>1, <1>2, Invariance, PTL DEF Spec, ImplementsMap, Abstract!Spec

=============================================================================
