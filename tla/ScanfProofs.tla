----------------------------- MODULE ScanfProofs -----------------------------
(***************************************************************************)
(* The scanf wrappers of module Scanf, for every number of threads, every  *)
(* set of formats and every first capacity of a plan: what rehoming reads, *)
(* whose the results are, and that no block is lost or reached after it    *)
(* was released.                                                           *)
(***************************************************************************)
EXTENDS Scanf, FiniteSetTheorems, WellFoundedInduction, TLAPS

-----------------------------------------------------------------------------
(* Numbers and sets of numbers.                                            *)

\* Every non-empty set of numbers has a least one.
LEMMA Least ==
    ASSUME NEW S \in SUBSET Nat, S # {}
    PROVE  \E m \in S : \A k \in S : m <= k
  <1> DEFINE R == OpToRel(<, Nat)
  <1>1. IsWellFoundedOn(R, Nat)
    BY NatLessThanWellFounded
  <1> HIDE DEF R
  <1>2. PICK m \in S : \A k \in S : ~(<<k, m>> \in R)
    BY <1>1, WFMin
  <1>3. \A k \in S : k < m => <<k, m>> \in R
    BY DEF R, OpToRel
  <1>4. \A k \in S : ~(k < m)
    BY <1>2, <1>3
  <1>5. m \in Nat /\ \A k \in S : k \in Nat
    OBVIOUS
  <1>6. QED
    BY <1>4, <1>5

\* A bounded set of numbers has a greatest one, and Max chooses it.
LEMMA Greatest ==
    ASSUME NEW S \in SUBSET Nat, S # {}, NEW n \in Nat, \A s \in S : s <= n
    PROVE  Max(S) \in S /\ \A s \in S : s <= Max(S)
  <1> DEFINE Bounds == {m \in Nat : \A s \in S : s <= m}
  <1>1. Bounds \in SUBSET Nat /\ n \in Bounds
    OBVIOUS
  <1>2. PICK m \in Bounds : \A k \in Bounds : m <= k
    <2> HIDE DEF Bounds
    <2>1. QED
      BY <1>1, Least
  <1>3. m \in Nat /\ \A s \in S : s <= m
    BY <1>2
  <1>4. m \in S
    <2> SUFFICES ASSUME m \notin S PROVE FALSE
      OBVIOUS
    <2>1. \A s \in S : s \in Nat /\ s < m
      BY <1>3
    <2>2. m - 1 \in Nat
      <3>1. PICK s \in S : TRUE
        OBVIOUS
      <3>2. QED
        BY <1>3, <2>1, <3>1
    <2>3. \A s \in S : s <= m - 1
      BY <1>3, <2>1
    <2>4. m - 1 \in Bounds
      BY <2>2, <2>3
    <2> HIDE DEF Bounds
    <2>5. QED
      BY <1>2, <1>3, <2>4
  <1>5. \E x \in S : \A y \in S : x >= y
    BY <1>3, <1>4
  <1>6. Max(S) \in S /\ \A y \in S : Max(S) >= y
    BY <1>5, Zenon DEF Max
  <1>7. QED
    BY <1>6

\* The members of R that are at most i; their number is the rank of i.
UpTo(R, i) == {j \in R : j <= i}
Rank(R, i) == Cardinality(UpTo(R, i))

LEMMA RankIsNumber ==
    ASSUME NEW N \in Nat, NEW R \in SUBSET (1 .. N)
    PROVE  /\ IsFiniteSet(R) /\ Cardinality(R) \in Nat /\ Cardinality(R) <= N
           /\ \A i \in Int : IsFiniteSet(UpTo(R, i)) /\ Rank(R, i) \in Nat
  <1>1. IsFiniteSet(1 .. N) /\ Cardinality(1 .. N) = N
    BY FS_Interval
  <1>2. \A T \in SUBSET (1 .. N) :
            IsFiniteSet(T) /\ Cardinality(T) \in Nat /\ Cardinality(T) <= N
    BY <1>1, FS_Subset, FS_CardinalityType
  <1>3. \A i \in Int : UpTo(R, i) \in SUBSET (1 .. N)
    BY DEF UpTo
  <1>4. QED
    BY <1>2, <1>3 DEF Rank

\* Ranks grow, and grow at every member.
LEMMA RankGrows ==
    ASSUME NEW N \in Nat, NEW R \in SUBSET (1 .. N)
    PROVE  /\ \A i, k \in Int : i <= k => Rank(R, i) <= Rank(R, k)
           /\ \A i \in Int, k \in R : i < k => Rank(R, i) < Rank(R, k)
  <1>1. \A i \in Int : IsFiniteSet(UpTo(R, i)) /\ Rank(R, i) \in Nat
    BY RankIsNumber
  <1>2. ASSUME NEW i \in Int, NEW k \in Int, i <= k
        PROVE  /\ UpTo(R, i) \in SUBSET UpTo(R, k)
               /\ Rank(R, i) <= Rank(R, k)
               /\ Rank(R, i) = Rank(R, k) => UpTo(R, i) = UpTo(R, k)
    <2>1. UpTo(R, i) \in SUBSET UpTo(R, k)
      <3>1. \A j \in R : j \in Int
        OBVIOUS
      <3>2. \A j \in R : j <= i => j <= k
        BY <1>2, <3>1
      <3>3. QED
        BY <3>2, Zenon DEF UpTo
    <2>2. QED
      BY <1>1, <2>1, FS_Subset DEF Rank
  <1>3. ASSUME NEW i \in Int, NEW k \in R, i < k
        PROVE  Rank(R, i) < Rank(R, k)
    <2>1. k \in Int
      OBVIOUS
    <2>2. k \in UpTo(R, k) /\ k \notin UpTo(R, i)
      BY <1>3, <2>1 DEF UpTo
    <2>3. Rank(R, i) # Rank(R, k) /\ Rank(R, i) <= Rank(R, k)
      BY <1>2, <1>3, <2>1, <2>2
    <2>4. QED
      BY <1>1, <2>1, <2>3
  <1>4. QED
    BY <1>2, <1>3

\* Every number up to the size of R is the rank of one of its members.
LEMMA RankIsOnto ==
    ASSUME NEW N \in Nat, NEW R \in SUBSET (1 .. N)
    PROVE  /\ \A i \in R : Rank(R, i) \in 1 .. Cardinality(R)
           /\ \A n \in 1 .. Cardinality(R) : \E i \in R : Rank(R, i) = n
  <1>1. /\ IsFiniteSet(R) /\ Cardinality(R) \in Nat
        /\ \A i \in Int : IsFiniteSet(UpTo(R, i)) /\ Rank(R, i) \in Nat
    BY RankIsNumber
  <1>2. Rank(R, 0) = 0 /\ Rank(R, N) = Cardinality(R)
    <2>1. \A j \in R : ~(j <= 0) /\ j <= N
      OBVIOUS
    <2>2. UpTo(R, 0) = {} /\ UpTo(R, N) = R
      BY <2>1, Zenon DEF UpTo
    <2>3. QED
      BY <2>2, FS_EmptySet DEF Rank
  <1>3. \A i \in R : Rank(R, i) \in 1 .. Cardinality(R)
    <2> SUFFICES ASSUME NEW i \in R PROVE Rank(R, i) \in 1 .. Cardinality(R)
      OBVIOUS
    <2>1. i \in Int /\ 0 < i /\ i <= N
      OBVIOUS
    <2>2. Rank(R, 0) < Rank(R, i) /\ Rank(R, i) <= Rank(R, N)
      BY <2>1, RankGrows
    <2>3. QED
      BY <1>1, <1>2, <2>1, <2>2
  <1>4. ASSUME NEW n \in 1 .. Cardinality(R)
        PROVE  \E i \in R : Rank(R, i) = n
    <2> DEFINE S == {m \in Nat : n <= Rank(R, m)}
    <2>1. S \in SUBSET Nat /\ N \in S
      BY <1>1, <1>2
    <2>2. PICK m \in S : \A k \in S : m <= k
      <3> HIDE DEF S
      <3>1. QED
        BY <2>1, Least
    <2>3. m \in Nat /\ n <= Rank(R, m) /\ n \in Nat /\ n > 0
      BY <1>1, <2>2
    <2>4. m # 0
      BY <1>2, <2>3
    <2>5. m - 1 \in Nat /\ ~(n <= Rank(R, m - 1))
      <3>1. m - 1 \in Nat
        BY <2>3, <2>4
      <3>2. m - 1 \notin S
        <4> HIDE DEF S
        <4>1. QED
          BY <2>2, <2>3, <3>1
      <3>3. QED
        BY <3>1, <3>2
    <2> HIDE DEF S
    <2>6. \A j \in R : j <= m <=> j <= m - 1 \/ j = m
      <3>1. \A j \in R : j \in Int
        OBVIOUS
      <3>2. QED
        BY <2>3, <2>5, <3>1
    <2>7. UpTo(R, m) \subseteq UpTo(R, m - 1) \cup {m}
      BY <2>6, Zenon DEF UpTo
    <2>8. UpTo(R, m - 1) \subseteq UpTo(R, m)
      BY <2>6, Zenon DEF UpTo
    <2>9. m \in R
      <3> SUFFICES ASSUME m \notin R PROVE FALSE
        OBVIOUS
      <3>1. UpTo(R, m) = UpTo(R, m - 1)
        BY <2>7, <2>8 DEF UpTo
      <3>2. QED
        BY <2>3, <2>5, <3>1 DEF Rank
    <2>10. UpTo(R, m) = UpTo(R, m - 1) \cup {m} /\ m \notin UpTo(R, m - 1)
      BY <2>3, <2>7, <2>8, <2>9 DEF UpTo
    <2>11. Rank(R, m) = Rank(R, m - 1) + 1
      <3>1. IsFiniteSet(UpTo(R, m - 1))
        BY <1>1, <2>5
      <3>2. QED
        BY <2>10, <3>1, FS_AddElement DEF Rank
    <2>12. Rank(R, m - 1) \in Nat
      BY <1>1, <2>5
    <2>13. QED
      BY <2>3, <2>5, <2>9, <2>11, <2>12
  <1>5. QED
    BY <1>3, <1>4

-----------------------------------------------------------------------------
(* The parser.                                                             *)

\* The records of a plan.
Records == [slot : Nat, ordinal : Nat, spec : {"s", "c", "[", "d", "n", "lit"},
            long : BOOLEAN]

\* The directives of a format that the parser numbers, and those it records.
NumberedIn(format) == {i \in DOMAIN format : Numbered(format[i])}
RecordedIn(format) == {i \in DOMAIN format : Recorded(format[i])}

\* The parser and libc number alike: a conversion's number is at most the count
\* that libc returns after n directives exactly when it is one of the n.
LEMMA Ordinals ==
    ASSUME NEW format \in Seq(Directives)
    PROVE  /\ \A i \in DOMAIN format : ordinal(format, i) \in Nat
           /\ \A i, k \in DOMAIN format : i <= k => ordinal(format, i) <= ordinal(format, k)
           /\ \A n \in 0 .. Len(format), i \in DOMAIN format : Recorded(format[i]) =>
                (ordinal(format, i) <= Cardinality({j \in 1 .. n : Assigned(format[j])})
                   <=> i <= n)
  <1> DEFINE N == Len(format)
             R == NumberedIn(format)
  <1>1. N \in Nat /\ DOMAIN format = 1 .. N
    OBVIOUS
  <1>2. R \in SUBSET (1 .. N)
    BY <1>1 DEF NumberedIn
  <1>3. \A n \in 0 .. N : {j \in 1 .. n : Assigned(format[j])} = UpTo(R, n)
    <2> SUFFICES ASSUME NEW n \in 0 .. N
                 PROVE  {j \in 1 .. n : Assigned(format[j])} = UpTo(R, n)
      OBVIOUS
    <2>1. \A j : j \in 1 .. n <=> j \in 1 .. N /\ j <= n
      BY <1>1
    <2>2. QED
      BY <1>1, <2>1, Zenon DEF UpTo, NumberedIn, Assigned, Numbered
  <1>4. \A i \in DOMAIN format : ordinal(format, i) = Rank(R, i - 1) + 1
    <2> SUFFICES ASSUME NEW i \in DOMAIN format
                 PROVE  ordinal(format, i) = Rank(R, i - 1) + 1
      OBVIOUS
    <2>1. i - 1 \in 0 .. N
      BY <1>1
    <2>2. {j \in 1 .. i - 1 : Numbered(format[j])} = UpTo(R, i - 1)
      BY <1>3, <2>1, Zenon DEF Assigned, Numbered
    <2>3. QED
      BY <2>2, Zenon DEF ordinal, Rank
  <1>5. \A i \in DOMAIN format : i \in Int /\ Recorded(format[i]) => i \in R
    BY <1>1 DEF NumberedIn, Recorded, Numbered
  <1> HIDE DEF N, R
  <1>6. /\ \A i \in Int : Rank(R, i) \in Nat
        /\ \A i, k \in Int : i <= k => Rank(R, i) <= Rank(R, k)
        /\ \A i \in Int, k \in R : i < k => Rank(R, i) < Rank(R, k)
    BY <1>1, <1>2, RankIsNumber, RankGrows
  <1>7. \A i \in DOMAIN format : ordinal(format, i) \in Nat
    <2> SUFFICES ASSUME NEW i \in DOMAIN format PROVE ordinal(format, i) \in Nat
      OBVIOUS
    <2>1. i - 1 \in Int
      BY <1>1
    <2>2. Rank(R, i - 1) \in Nat
      BY <1>6, <2>1
    <2>3. QED
      BY <1>4, <2>2
  <1>8. ASSUME NEW i \in DOMAIN format, NEW k \in DOMAIN format, i <= k
        PROVE  ordinal(format, i) <= ordinal(format, k)
    <2>1. i - 1 \in Int /\ k - 1 \in Int /\ i - 1 <= k - 1
      BY <1>1, <1>8
    <2>2. Rank(R, i - 1) <= Rank(R, k - 1) /\ Rank(R, i - 1) \in Nat /\ Rank(R, k - 1) \in Nat
      BY <1>6, <2>1
    <2>3. QED
      BY <1>4, <2>2
  <1>9. ASSUME NEW n \in 0 .. Len(format), NEW i \in DOMAIN format, Recorded(format[i])
        PROVE  ordinal(format, i) <= Cardinality({j \in 1 .. n : Assigned(format[j])})
                 <=> i <= n
    <2>1. n \in 0 .. N /\ n \in Int /\ i \in Int /\ i - 1 \in Int /\ i - 1 < i
      BY <1>1 DEF N
    <2>2. Cardinality({j \in 1 .. n : Assigned(format[j])}) = Rank(R, n)
      BY <1>3, <2>1, Zenon DEF Rank
    <2>3. i \in R
      BY <1>5, <1>9
    <2>4. /\ Rank(R, n) \in Nat /\ Rank(R, i) \in Nat /\ Rank(R, i - 1) \in Nat
          /\ Rank(R, i - 1) < Rank(R, i)
      BY <1>6, <2>1, <2>3
    <2>5. ASSUME i <= n PROVE ordinal(format, i) <= Rank(R, n)
      <3>1. Rank(R, i) <= Rank(R, n)
        BY <1>6, <2>1, <2>5
      <3>2. QED
        BY <1>4, <2>4, <3>1
    <2>6. ASSUME ~(i <= n) PROVE ~(ordinal(format, i) <= Rank(R, n))
      <3>1. n <= i - 1
        BY <2>1, <2>6
      <3>2. Rank(R, n) <= Rank(R, i - 1)
        BY <1>6, <2>1, <3>1
      <3>3. QED
        BY <1>4, <2>4, <3>2
    <2>7. QED
      BY <2>2, <2>5, <2>6
  <1>10. QED
    BY <1>7, <1>8, <1>9

\* The plan of a format: one record for each %m conversion, in their order.
LEMMA Plans ==
    ASSUME NEW format \in Seq(Directives)
    PROVE  LET P == ao_parse_scanf_format(format)
           IN  /\ P \in Seq(Records) /\ Len(P) <= Len(format)
               /\ \A k \in DOMAIN P : \E i \in DOMAIN format :
                     /\ Recorded(format[i]) /\ P[k].slot = format[i].arg
                     /\ P[k].ordinal = ordinal(format, i)
               /\ \A i \in DOMAIN format : Recorded(format[i]) =>
                     \E k \in DOMAIN P : /\ P[k].slot = format[i].arg
                                         /\ P[k].ordinal = ordinal(format, i)
               /\ \A j, k \in DOMAIN P : j <= k => P[j].ordinal <= P[k].ordinal
  <1> DEFINE N == Len(format)
             R == RecordedIn(format)
             nth(n) == CHOOSE i \in R : Cardinality({j \in R : j <= i}) = n
             P == ao_parse_scanf_format(format)
  <1>1. N \in Nat /\ DOMAIN format = 1 .. N
    OBVIOUS
  <1>2. R \in SUBSET (1 .. N) /\ R \subseteq DOMAIN format
    BY <1>1 DEF RecordedIn
  <1>3. P = [n \in 1 .. Cardinality(R) |->
               [slot |-> format[nth(n)].arg, ordinal |-> ordinal(format, nth(n)),
                spec |-> format[nth(n)].spec, long |-> format[nth(n)].long]]
    BY Zenon DEF ao_parse_scanf_format, RecordedIn
  <1>4. \A i \in R : i \in DOMAIN format /\ Recorded(format[i])
    BY DEF RecordedIn
  <1>5. \A i \in DOMAIN format : Recorded(format[i]) => i \in R
    BY DEF RecordedIn
  <1> HIDE DEF R
  <1>6. /\ Cardinality(R) \in Nat /\ Cardinality(R) <= N
        /\ \A i \in R : Rank(R, i) \in 1 .. Cardinality(R)
        /\ \A n \in 1 .. Cardinality(R) : \E i \in R : Rank(R, i) = n
        /\ \A i \in Int, k \in R : i < k => Rank(R, i) < Rank(R, k)
        /\ \A i, k \in Int : i <= k => Rank(R, i) <= Rank(R, k)
    BY <1>1, <1>2, RankIsNumber, RankIsOnto, RankGrows
  <1>7. \A n \in 1 .. Cardinality(R) : nth(n) \in R /\ Rank(R, nth(n)) = n
    BY <1>6, Zenon DEF Rank, UpTo
  <1> HIDE DEF nth
  <1>8. \A i \in R : i \in Int
    BY <1>2
  <1>9. \A i \in R : nth(Rank(R, i)) = i
    <2> SUFFICES ASSUME NEW i \in R PROVE nth(Rank(R, i)) = i
      OBVIOUS
    <2>1. nth(Rank(R, i)) \in R /\ Rank(R, nth(Rank(R, i))) = Rank(R, i)
      BY <1>6, <1>7
    <2>2. ~(i < nth(Rank(R, i))) /\ ~(nth(Rank(R, i)) < i)
      <3>1. Rank(R, i) \in Int
        BY <1>6
      <3>2. ~(Rank(R, i) < Rank(R, i))
        BY <3>1
      <3>3. QED
        BY <1>6, <1>8, <2>1, <3>2
    <2>3. QED
      BY <1>8, <2>1, <2>2
  <1>10. \A j, k \in 1 .. Cardinality(R) : j <= k => nth(j) <= nth(k)
    <2> SUFFICES ASSUME NEW j \in 1 .. Cardinality(R), NEW k \in 1 .. Cardinality(R), j <= k
                 PROVE  nth(j) <= nth(k)
      OBVIOUS
    <2>1. /\ nth(j) \in R /\ nth(k) \in R /\ nth(j) \in Int /\ nth(k) \in Int
          /\ Rank(R, nth(j)) = j /\ Rank(R, nth(k)) = k
      BY <1>7, <1>8
    <2>2. nth(k) < nth(j) => k < j
      BY <1>6, <2>1
    <2>3. j \in Int /\ k \in Int
      BY <1>6
    <2>4. QED
      BY <2>1, <2>2, <2>3
  <1>11. \A i \in DOMAIN format : format[i] \in Directives
    OBVIOUS
  <1>12. \A i \in DOMAIN format : ordinal(format, i) \in Nat
    BY Ordinals
  <1>13. ASSUME NEW n \in 1 .. Cardinality(R)
         PROVE  /\ n \in DOMAIN P /\ P[n] \in Records
                /\ P[n].slot = format[nth(n)].arg
                /\ P[n].ordinal = ordinal(format, nth(n))
    <2>1. nth(n) \in DOMAIN format
      BY <1>4, <1>7
    <2>2. n \in DOMAIN P /\ P[n] =
            [slot |-> format[nth(n)].arg, ordinal |-> ordinal(format, nth(n)),
             spec |-> format[nth(n)].spec, long |-> format[nth(n)].long]
      BY <1>3, Zenon
    <2> HIDE DEF P
    <2>3. /\ format[nth(n)].arg \in Nat /\ format[nth(n)].long \in BOOLEAN
          /\ format[nth(n)].spec \in {"s", "c", "[", "d", "n", "lit"}
      BY <1>11, <2>1 DEF Directives
    <2>4. ordinal(format, nth(n)) \in Nat
      BY <1>12, <2>1
    <2>5. QED
      BY <2>2, <2>3, <2>4 DEF Records
  <1>14. DOMAIN P = 1 .. Cardinality(R)
    BY <1>3, Zenon
  <1>15. P \in Seq(Records) /\ Len(P) <= Len(format)
    <2>1. P \in [1 .. Cardinality(R) -> Records]
      <3>1. P = [n \in 1 .. Cardinality(R) |-> P[n]]
        BY <1>3, Zenon
      <3> HIDE DEF P
      <3>2. QED
        BY <1>13, <3>1, Zenon
    <2> HIDE DEF P
    <2>2. P \in Seq(Records) /\ Len(P) = Cardinality(R)
      BY <1>6, <2>1
    <2>3. QED
      BY <1>6, <2>2
  <1> HIDE DEF P
  <1>16. \A k \in DOMAIN P : \E i \in DOMAIN format :
            /\ Recorded(format[i]) /\ P[k].slot = format[i].arg
            /\ P[k].ordinal = ordinal(format, i)
    BY <1>4, <1>7, <1>13, <1>14
  <1>17. \A i \in DOMAIN format : Recorded(format[i]) =>
            \E k \in DOMAIN P : /\ P[k].slot = format[i].arg
                                /\ P[k].ordinal = ordinal(format, i)
    BY <1>5, <1>6, <1>9, <1>13, <1>14
  <1>18. \A j, k \in DOMAIN P : j <= k => P[j].ordinal <= P[k].ordinal
    <2> SUFFICES ASSUME NEW j \in DOMAIN P, NEW k \in DOMAIN P, j <= k
                 PROVE  P[j].ordinal <= P[k].ordinal
      OBVIOUS
    <2>1. nth(j) \in DOMAIN format /\ nth(k) \in DOMAIN format /\ nth(j) <= nth(k)
      BY <1>4, <1>7, <1>10, <1>14
    <2>2. ordinal(format, nth(j)) <= ordinal(format, nth(k))
      BY <2>1, Ordinals
    <2>3. QED
      BY <1>13, <1>14, <2>2
  <1>19. QED
    BY <1>15, <1>16, <1>17, <1>18 DEF P

-----------------------------------------------------------------------------
(* The invariant.                                                          *)

Frames == [real_fn : BOOLEAN, format : Seq(Directives), wide : BOOLEAN,
           plan : Seq(Records), records : Nat, parse_ok : BOOLEAN, ret : Int,
           i : Nat, kept : SUBSET Nat]

\* What all threads share; there is always a number above every live block.
Globals ==
    /\ g_ao_scanf_once \in {"init", "running", "done"}
    /\ g_real \subseteq {"plain", "isoc99"}
    /\ g_bridge_ready \in BOOLEAN
    /\ pc \in [Threads -> {"idle", "ensure", "resolve_plain", "resolve_isoc99",
                           "resolve_bridge", "wrap", "enosys", "scan", "rehome"}]
    /\ DOMAIN frame = Threads /\ DOMAIN slot = Threads
    /\ DOMAIN heap \subseteq Nat \ {NULL}
    /\ \E m \in Nat : \A b \in DOMAIN heap : b <= m
    /\ \A b \in DOMAIN heap : heap[b] \in {"libc", "mock", "lost"}

Resolving == {"resolve_plain", "resolve_isoc99", "resolve_bridge"}

\* One thread resolves, while the control says so, and nobody gets past it before
\* it has finished.
Once ==
    /\ \A t \in Threads :
          /\ pc[t] \in Resolving => g_ao_scanf_once = "running"
          /\ pc[t] \in {"wrap", "enosys", "scan", "rehome"} => g_ao_scanf_once = "done"
          /\ frame[t].ret > 0 => g_ao_scanf_once = "done"
    /\ \A t, u \in Threads : pc[t] \in Resolving /\ pc[u] \in Resolving => t = u

\* The blocks that a thread can reach.
Blocks(t) ==
    ({slot[t][a] : a \in DOMAIN slot[t]} \cup {frame[t].records}) \ {NULL, GARBAGE}

\* No thread reaches a block that is not live, that libc has lost or that another
\* thread reaches; every other block is one that libc has lost.
Reachable ==
    /\ \A t \in Threads : \A b \in Blocks(t) : b \in DOMAIN heap /\ heap[b] # "lost"
    /\ \A t, u \in Threads : t # u => Blocks(t) \cap Blocks(u) = {}
    /\ \A b \in DOMAIN heap : heap[b] = "lost" \/ \E t \in Threads : b \in Blocks(t)

\* The types of a call's locals and arguments.
Typed(t) ==
    /\ frame[t] \in Frames
    /\ slot[t] \in [Args(frame[t].format) -> Nat \cup {GARBAGE}]
    /\ frame[t].i \in 1 .. Len(frame[t].format) + 1
    /\ frame[t].records # NULL => Owned(frame[t].records)

\* Before the scanner runs nothing has been stored or returned; a plan has
\* records only while it is in use, and a complete one is the format's.
Staged(t) ==
    /\ pc[t] \in Resolving \cup {"ensure", "wrap", "scan"} =>
          /\ frame[t].ret = 0 /\ frame[t].i = 1
          /\ \A a \in DOMAIN slot[t] : slot[t][a] = GARBAGE
    /\ pc[t] \in Resolving \cup {"ensure", "wrap"} => ~frame[t].parse_ok
    /\ pc[t] = "enosys" => frame[t].ret = -1
    /\ pc[t] \notin {"scan", "rehome"} => frame[t].records = NULL
    /\ pc[t] \in {"scan", "rehome"} /\ frame[t].parse_ok =>
          frame[t].plan = ao_parse_scanf_format(frame[t].format)

\* A thread reaches each of its blocks in one way.
Separate(t) ==
    /\ \A a, c \in DOMAIN slot[t] :
          slot[t][a] = slot[t][c] /\ slot[t][a] \notin {NULL, GARBAGE} => a = c
    /\ \A a \in DOMAIN slot[t] : slot[t][a] = frame[t].records => slot[t][a] = NULL

\* Rehoming uses the plan, and what it leaves of an argument.
Used(t) == frame[t].parse_ok /\ g_bridge_ready /\ frame[t].ret > 0

Settled(t, a) ==
    slot[t][a] \in {NULL, GARBAGE} \/ Owned(slot[t][a]) \/ a \in frame[t].kept

\* While a plan is worked off, the arguments of the records that libc reached
\* have been stored through, and one that is not settled yet has such a record
\* ahead; when the call is over, all are settled.
Ahead(t, a) ==
    \E k \in DOMAIN frame[t].plan :
        /\ k >= frame[t].i /\ frame[t].plan[k].slot = a
        /\ frame[t].plan[k].ordinal <= frame[t].ret

Stored(t) ==
    \A k \in DOMAIN frame[t].plan : frame[t].plan[k].ordinal <= frame[t].ret =>
        slot[t][frame[t].plan[k].slot] # GARBAGE

Pending(t) ==
    /\ pc[t] = "rehome" /\ Used(t) =>
          Stored(t) /\ \A a \in DOMAIN slot[t] : Settled(t, a) \/ Ahead(t, a)
    /\ pc[t] = "idle" /\ Used(t) => \A a \in DOMAIN slot[t] : Settled(t, a)

Call(t) == Typed(t) /\ Staged(t) /\ Separate(t) /\ Pending(t)

Inv == Globals /\ Once /\ Reachable /\ \A t \in Threads : Call(t)

-----------------------------------------------------------------------------
(* The pieces of a step.                                                   *)

\* A step of thread t touches no other thread, and of the blocks only those that
\* t reaches and new ones: what t no longer reaches is released, what it now
\* reaches is new or was t's before.
Footprint(t) ==
    /\ \A u \in Threads \ {t} :
          pc'[u] = pc[u] /\ frame'[u] = frame[u] /\ slot'[u] = slot[u]
    /\ \A b \in DOMAIN heap \ Blocks(t) : b \in DOMAIN heap' /\ heap'[b] = heap[b]
    /\ \A b \in DOMAIN heap' : b \in DOMAIN heap \/ heap'[b] = "lost" \/ b \in Blocks(t)'
    /\ \A b \in Blocks(t)' : /\ b \in DOMAIN heap' /\ heap'[b] # "lost"
                             /\ b \in Blocks(t) \/ b \notin DOMAIN heap
    /\ \A b \in Blocks(t) \ Blocks(t)' : b \notin DOMAIN heap'

LEMMA ReachablePreserved ==
    ASSUME Inv, NEW t \in Threads, Footprint(t)
    PROVE  Reachable'
  <1>1. \A u \in Threads \ {t} : Blocks(u)' = Blocks(u)
    BY DEF Footprint, Blocks
  <1>2. /\ \A u \in Threads : \A b \in Blocks(u) : b \in DOMAIN heap /\ heap[b] # "lost"
        /\ \A u, v \in Threads : u # v => Blocks(u) \cap Blocks(v) = {}
        /\ \A b \in DOMAIN heap : heap[b] = "lost" \/ \E u \in Threads : b \in Blocks(u)
    BY DEF Inv, Reachable
  <1>3. /\ \A b \in DOMAIN heap \ Blocks(t) : b \in DOMAIN heap' /\ heap'[b] = heap[b]
        /\ \A b \in DOMAIN heap' : b \in DOMAIN heap \/ heap'[b] = "lost" \/ b \in Blocks(t)'
        /\ \A b \in Blocks(t)' : /\ b \in DOMAIN heap' /\ heap'[b] # "lost"
                                 /\ b \in Blocks(t) \/ b \notin DOMAIN heap
        /\ \A b \in Blocks(t) \ Blocks(t)' : b \notin DOMAIN heap'
    BY DEF Footprint
  <1>4. ASSUME NEW u \in Threads, NEW b \in Blocks(u)'
        PROVE  b \in DOMAIN heap' /\ heap'[b] # "lost"
    BY <1>1, <1>2, <1>3, <1>4
  <1>5. ASSUME NEW u \in Threads, NEW v \in Threads, u # v
        PROVE  Blocks(u)' \cap Blocks(v)' = {}
    <2>1. CASE u # t /\ v # t
      BY <1>1, <1>2, <1>5, <2>1
    <2>2. ASSUME NEW w \in Threads \ {t} PROVE Blocks(t)' \cap Blocks(w)' = {}
      BY <1>1, <1>2, <1>3, <2>2
    <2>3. QED
      BY <1>5, <2>1, <2>2
  <1>6. ASSUME NEW b \in DOMAIN heap'
        PROVE  heap'[b] = "lost" \/ \E u \in Threads : b \in Blocks(u)'
    <2>1. CASE b \in Blocks(t)
      BY <1>3, <1>6, <2>1
    <2>2. CASE b \in DOMAIN heap /\ b \notin Blocks(t)
      BY <1>1, <1>2, <1>3, <2>2
    <2>3. QED
      BY <1>3, <1>6, <2>1, <2>2
  <1>7. QED
    BY <1>4, <1>5, <1>6 DEF Reachable

\* What is known of another thread's call stays true.
LEMMA OtherCalls ==
    ASSUME Inv, NEW t \in Threads, Footprint(t), NEW u \in Threads \ {t},
           g_bridge_ready' = g_bridge_ready \/ g_ao_scanf_once = "running"
    PROVE  Call(u)'
  <1>1. pc'[u] = pc[u] /\ frame'[u] = frame[u] /\ slot'[u] = slot[u]
    BY DEF Footprint
  <1>2. Typed(u) /\ Staged(u) /\ Separate(u) /\ Pending(u)
    BY DEF Inv, Call
  <1>3. \A b \in Blocks(u) : Owned(b) => Owned(b)'
    <2>1. \A b \in Blocks(u) : b \notin Blocks(t)
      BY DEF Inv, Reachable
    <2>2. QED
      BY <2>1 DEF Footprint, Owned
  <1>4. frame[u].records # NULL => Owned(frame[u].records)'
    <2>1. frame[u].records \in Nat
      BY <1>2 DEF Typed, Frames
    <2>2. frame[u].records # NULL => frame[u].records \in Blocks(u)
      BY <2>1 DEF Blocks, NULL, GARBAGE
    <2>3. QED
      BY <1>1, <1>2, <1>3, <2>2 DEF Typed
  <1>5. Typed(u)'
    BY <1>1, <1>2, <1>4 DEF Typed
  <1>6. Staged(u)' /\ Separate(u)'
    BY <1>1, <1>2 DEF Staged, Separate
  <1>7. \A a \in DOMAIN slot[u] : Settled(u, a) => Settled(u, a)'
    <2>1. \A a \in DOMAIN slot[u] :
              slot[u][a] \in {NULL, GARBAGE} \/ slot[u][a] \in Blocks(u)
      BY DEF Blocks
    <2>2. QED
      BY <1>1, <1>3, <2>1 DEF Settled
  <1>8. Pending(u)'
    <2>1. pc[u] = "rehome" \/ frame[u].ret > 0 => g_bridge_ready' = g_bridge_ready
      BY DEF Inv, Once
    <2>2. pc[u] = "rehome" \/ pc[u] = "idle" => (Used(u)' => Used(u))
      BY <1>1, <2>1 DEF Used
    <2>3. \A a : Ahead(u, a)' <=> Ahead(u, a)
      BY <1>1 DEF Ahead
    <2>4. Stored(u)' <=> Stored(u)
      BY <1>1 DEF Stored
    <2>5. QED
      BY <1>1, <1>2, <1>7, <2>2, <2>3, <2>4 DEF Pending
  <1>9. QED
    BY <1>5, <1>6, <1>8 DEF Call

\* What each action has to show.
LEMMA Combine ==
    ASSUME Inv, NEW t \in Threads, Footprint(t), Globals', Once', Call(t)',
           g_bridge_ready' = g_bridge_ready \/ g_ao_scanf_once = "running"
    PROVE  Inv'
  <1>1. Reachable'
    BY ReachablePreserved
  <1>2. \A u \in Threads \ {t} : Call(u)'
    BY OtherCalls
  <1>3. QED
    BY <1>1, <1>2 DEF Inv

\* A step that leaves blocks and arguments alone.
LEMMA Quiet ==
    ASSUME Inv, NEW t \in Threads, slot' = slot, heap' = heap,
           frame'[t].records = frame[t].records,
           \A u \in Threads \ {t} : pc'[u] = pc[u] /\ frame'[u] = frame[u]
    PROVE  Footprint(t)
  <1>1. Blocks(t)' = Blocks(t)
    BY DEF Blocks
  <1>2. \A b \in Blocks(t) : b \in DOMAIN heap /\ heap[b] # "lost"
    BY DEF Inv, Reachable
  <1>3. QED
    BY <1>1, <1>2 DEF Footprint

\* A new block is above all others.
LEMMA FreshIsNew ==
    ASSUME Inv
    PROVE  Fresh \in Nat \ {NULL} /\ \A b \in DOMAIN heap : b \in Nat /\ b < Fresh
  <1> DEFINE S == DOMAIN heap \cup {NULL}
  <1>1. PICK m \in Nat : \A b \in DOMAIN heap : b <= m
    BY DEF Inv, Globals
  <1>2. S \in SUBSET Nat /\ S # {} /\ \A b \in S : b <= m
    BY <1>1 DEF Inv, Globals, NULL
  <1>3. Fresh = Max(S) + 1 /\ NULL \in S
    BY DEF Fresh
  <1>4. DOMAIN heap \subseteq S
    OBVIOUS
  <1> HIDE DEF S
  <1>5. Max(S) \in S /\ \A b \in S : b <= Max(S)
    BY <1>2, Greatest
  <1>6. Max(S) \in Nat /\ \A b \in S : b \in Nat
    BY <1>2, <1>5
  <1>7. QED
    BY <1>3, <1>4, <1>5, <1>6 DEF NULL

-----------------------------------------------------------------------------
(* The actions.                                                            *)

\* The parts of a frame that are set together are typed together.
LEMMA FrameTypes ==
    /\ NoFrame \in Frames
    /\ \A f \in Frames :
          /\ f.real_fn \in BOOLEAN /\ f.format \in Seq(Directives) /\ f.wide \in BOOLEAN
          /\ f.plan \in Seq(Records) /\ f.records \in Nat /\ f.parse_ok \in BOOLEAN
          /\ f.ret \in Int /\ f.i \in Nat /\ f.kept \in SUBSET Nat
  <1>1. <<>> \in Seq(Directives) /\ <<>> \in Seq(Records)
    OBVIOUS
  <1> DEFINE D == Seq(Directives)
             P == Seq(Records)
             K == SUBSET Nat
  <1>2. {} \in K
    OBVIOUS
  <1> HIDE DEF D, P, K
  <1>3. Frames = [real_fn : BOOLEAN, format : D, wide : BOOLEAN, plan : P, records : Nat,
                  parse_ok : BOOLEAN, ret : Int, i : Nat, kept : K]
    BY Zenon DEF Frames, D, P, K
  <1>4. <<>> \in D /\ <<>> \in P
    BY <1>1 DEF D, P
  <1>5. NoFrame \in Frames
    BY <1>2, <1>3, <1>4 DEF NoFrame, NULL
  <1>6. \A f \in Frames :
          /\ f.real_fn \in BOOLEAN /\ f.format \in D /\ f.wide \in BOOLEAN
          /\ f.plan \in P /\ f.records \in Nat /\ f.parse_ok \in BOOLEAN
          /\ f.ret \in Int /\ f.i \in Nat /\ f.kept \in K
    BY <1>3
  <1>7. QED
    BY <1>5, <1>6, Zenon DEF D, P, K

LEMMA Enter ==
    ASSUME Inv, NEW t \in Threads, NEW e \in {"plain", "isoc99"}, NEW format \in Formats,
           NEW wide \in BOOLEAN, enter(t, e, format, wide)
    PROVE  Inv'
  <1> DEFINE f == [NoFrame EXCEPT !.real_fn = (e \in g_real), !.format = format,
                                  !.wide = wide]
             S == {slot[t][a] : a \in DOMAIN slot[t]}
  <1>1. /\ pc[t] = "idle" /\ pc' = [pc EXCEPT ![t] = "ensure"]
        /\ heap' = Without(heap, S)
        /\ slot' = [slot EXCEPT ![t] = [a \in Args(format) |-> GARBAGE]]
        /\ frame' = [frame EXCEPT ![t] = f]
        /\ g_ao_scanf_once' = g_ao_scanf_once /\ g_real' = g_real
        /\ g_bridge_ready' = g_bridge_ready
    BY DEF enter, SetFrame, Goto, shared
  <1>2. Globals /\ Once /\ Reachable /\ Call(t)
    BY DEF Inv
  <1>3. /\ pc'[t] = "ensure" /\ frame'[t] = f
        /\ slot'[t] = [a \in Args(format) |-> GARBAGE]
        /\ \A u \in Threads \ {t} :
              pc'[u] = pc[u] /\ frame'[u] = frame[u] /\ slot'[u] = slot[u]
        /\ DOMAIN frame' = Threads /\ DOMAIN slot' = Threads
    <2> HIDE DEF f
    <2>1. QED
      BY <1>1, <1>2 DEF Globals
  <1>4. format \in Seq(Directives)
    BY FormatsAssumption
  <1>5. f \in Frames
    <2> DEFINE D == Seq(Directives)
               P == Seq(Records)
               K == SUBSET Nat
               known == e \in g_real
    <2>1. format \in D /\ <<>> \in P /\ {} \in K
      BY <1>4
    <2>2. known \in BOOLEAN /\ 0 \in Nat /\ 0 \in Int /\ 1 \in Nat
      OBVIOUS
    <2> HIDE DEF D, P, K
    <2>3. Frames = [real_fn : BOOLEAN, format : D, wide : BOOLEAN, plan : P, records : Nat,
                    parse_ok : BOOLEAN, ret : Int, i : Nat, kept : K]
      BY Zenon DEF Frames, D, P, K
    <2>4. f = [NoFrame EXCEPT !.real_fn = known, !.format = format, !.wide = wide]
      OBVIOUS
    <2> HIDE DEF f, known
    <2>5. f = [real_fn |-> known, format |-> format, wide |-> wide, plan |-> <<>>,
               records |-> 0, parse_ok |-> FALSE, ret |-> 0, i |-> 1, kept |-> {}]
      BY <2>4 DEF NoFrame, NULL
    <2>6. QED
      BY <2>1, <2>2, <2>3, <2>5, Zenon
  <1>6. f.ret = 0 /\ f.i = 1 /\ f.records = NULL /\ f.format = format /\ ~f.parse_ok
    BY DEF NoFrame
  <1>7. /\ DOMAIN heap' = DOMAIN heap \ S
        /\ \A b \in DOMAIN heap \ S : heap'[b] = heap[b]
    BY <1>1 DEF Without
  <1> HIDE DEF f
  <1>8. Blocks(t) = S \ {NULL, GARBAGE}
    BY <1>1, <1>2 DEF Call, Staged, Blocks
  <1>9. Blocks(t)' = {}
    BY <1>3, <1>6 DEF Blocks
  <1>10. NULL \notin DOMAIN heap /\ GARBAGE \notin DOMAIN heap
    BY <1>2 DEF Globals, NULL, GARBAGE
  <1> HIDE DEF S
  <1>11. Footprint(t)
    BY <1>3, <1>7, <1>8, <1>9, <1>10 DEF Footprint
  <1>12. Globals'
    <2>1. \E m \in Nat : \A b \in DOMAIN heap' : b <= m
      BY <1>2, <1>7 DEF Globals
    <2>2. DOMAIN heap' \subseteq Nat \ {NULL}
      BY <1>2, <1>7 DEF Globals
    <2>3. \A b \in DOMAIN heap' : heap'[b] \in {"libc", "mock", "lost"}
      BY <1>2, <1>7 DEF Globals
    <2>4. QED
      BY <1>1, <1>2, <1>3, <2>1, <2>2, <2>3 DEF Globals
  <1>13. Once'
    BY <1>1, <1>2, <1>3, <1>6 DEF Once, Globals, Resolving
  <1>14. Call(t)'
    <2>1. slot'[t] \in [Args(frame'[t].format) -> Nat \cup {GARBAGE}]
      BY <1>3, <1>6
    <2>2. Len(format) \in Nat
      BY <1>4
    <2>3. Typed(t)'
      BY <1>3, <1>5, <1>6, <2>1, <2>2 DEF Typed
    <2>4. Staged(t)'
      BY <1>3, <1>6 DEF Staged, Resolving
    <2>5. Separate(t)'
      BY <1>3, <1>6 DEF Separate, NULL, GARBAGE
    <2>6. Pending(t)'
      BY <1>3 DEF Pending
    <2>7. QED
      BY <2>3, <2>4, <2>5, <2>6 DEF Call
  <1>15. QED
    BY <1>1, <1>11, <1>12, <1>13, <1>14, Combine

\* The steps of the wrapper that leave blocks, arguments and the call's locals
\* alone.
LEMMA Resolves ==
    ASSUME Inv, NEW t \in Threads,
           \/ ao_ensure_scanf_symbols(t) \/ resolve_plain(t) \/ resolve_isoc99(t)
           \/ resolve_bridge(t) \/ return_enosys(t)
    PROVE  Inv'
  <1>1. Globals /\ Once /\ Call(t)
    BY DEF Inv
  <1>2. frame' = frame /\ slot' = slot /\ heap' = heap
    BY DEF ao_ensure_scanf_symbols, resolve_plain, resolve_isoc99, resolve_bridge,
           return_enosys
  <1>3. PICK l \in {"resolve_plain", "resolve_isoc99", "resolve_bridge", "wrap", "idle"} :
          /\ pc' = [pc EXCEPT ![t] = l]
          /\ pc[t] \in Resolving \cup {"ensure", "enosys"}
          /\ l = "idle" => pc[t] = "enosys"
          /\ l # "idle" => pc[t] \in Resolving \cup {"ensure"}
    BY DEF ao_ensure_scanf_symbols, resolve_plain, resolve_isoc99, resolve_bridge,
           return_enosys, Goto, Resolving
  <1>4. pc'[t] = l /\ \A u \in Threads \ {t} : pc'[u] = pc[u]
    BY <1>1, <1>3 DEF Globals
  <1>5. Footprint(t)
    BY <1>2, <1>4, Quiet
  <1>6. /\ g_ao_scanf_once' \in {"init", "running", "done"}
        /\ g_real' \subseteq {"plain", "isoc99"} /\ g_bridge_ready' \in BOOLEAN
        /\ g_bridge_ready' = g_bridge_ready \/ g_ao_scanf_once = "running"
    <2>1. CASE ao_ensure_scanf_symbols(t) \/ return_enosys(t)
      BY <1>1, <2>1 DEF ao_ensure_scanf_symbols, return_enosys, shared, Globals
    <2>2. CASE resolve_plain(t) \/ resolve_isoc99(t)
      BY <1>1, <2>2 DEF resolve_plain, resolve_isoc99, Fallback, Globals
    <2>3. CASE resolve_bridge(t)
      <3>1. g_bridge_ready' \in BOOLEAN
        BY <2>3 DEF resolve_bridge
      <3>2. QED
        BY <1>1, <2>3, <3>1 DEF resolve_bridge, Globals, Once, Resolving
    <2>4. QED
      BY <2>1, <2>2, <2>3
  <1>7. Globals'
    BY <1>1, <1>2, <1>3, <1>6 DEF Globals
  <1>8. Once'
    <2>1. CASE ao_ensure_scanf_symbols(t)
      BY <1>1, <1>2, <2>1 DEF ao_ensure_scanf_symbols, Goto, Once, Resolving, Globals
    <2>2. CASE resolve_plain(t) \/ resolve_isoc99(t) \/ return_enosys(t)
      BY <1>1, <1>2, <2>2
         DEF resolve_plain, resolve_isoc99, return_enosys, shared, Goto, Once, Resolving,
             Globals
    <2>3. CASE resolve_bridge(t)
      BY <1>1, <1>2, <2>3 DEF resolve_bridge, Goto, Once, Resolving, Globals
    <2>4. QED
      BY <2>1, <2>2, <2>3
  <1>9. Call(t)'
    <2>1. Typed(t)' /\ Separate(t)'
      BY <1>1, <1>2 DEF Call, Typed, Separate, Owned
    <2>2. Staged(t)'
      BY <1>1, <1>2, <1>3, <1>4 DEF Call, Staged, Resolving
    <2>3. Pending(t)'
      BY <1>1, <1>2, <1>3, <1>4 DEF Call, Staged, Pending, Used
    <2>4. QED
      BY <2>1, <2>2, <2>3 DEF Call
  <1>10. QED
    BY <1>5, <1>6, <1>7, <1>8, <1>9, Combine

\* A frame in which one field is set.
LEMMA FrameSet ==
    ASSUME NEW f \in Frames
    PROVE  /\ \A n \in Int : LET g == [f EXCEPT !.ret = n]
                             IN  /\ g \in Frames /\ g.ret = n /\ g.format = f.format
                                 /\ g.plan = f.plan /\ g.records = f.records /\ g.i = f.i
                                 /\ g.parse_ok = f.parse_ok /\ g.kept = f.kept
           /\ \A b \in Nat : LET g == [f EXCEPT !.records = b]
                             IN  /\ g \in Frames /\ g.records = b /\ g.format = f.format
                                 /\ g.plan = f.plan /\ g.ret = f.ret /\ g.i = f.i
                                 /\ g.parse_ok = f.parse_ok /\ g.kept = f.kept
  <1> DEFINE D == Seq(Directives)
             P == Seq(Records)
             K == SUBSET Nat
  <1>1. Frames = [real_fn : BOOLEAN, format : D, wide : BOOLEAN, plan : P, records : Nat,
                  parse_ok : BOOLEAN, ret : Int, i : Nat, kept : K]
    BY Zenon DEF Frames, D, P, K
  <1> HIDE DEF D, P, K
  <1>2. ASSUME NEW n \in Int
        PROVE  LET g == [f EXCEPT !.ret = n]
               IN  /\ g \in Frames /\ g.ret = n /\ g.format = f.format
                   /\ g.plan = f.plan /\ g.records = f.records /\ g.i = f.i
                   /\ g.parse_ok = f.parse_ok /\ g.kept = f.kept
    BY <1>1, <1>2
  <1>3. ASSUME NEW b \in Nat
        PROVE  LET g == [f EXCEPT !.records = b]
               IN  /\ g \in Frames /\ g.records = b /\ g.format = f.format
                   /\ g.plan = f.plan /\ g.ret = f.ret /\ g.i = f.i
                   /\ g.parse_ok = f.parse_ok /\ g.kept = f.kept
    BY <1>1, <1>3
  <1>4. QED
    BY <1>2, <1>3

\* What the parser leaves in the frame, whether it came to the end or not.
LEMMA Parse ==
    ASSUME NEW t \in Threads, frame[t] \in Frames, ~frame[t].parse_ok,
           NEW g \in {[frame[t] EXCEPT !.plan = ao_parse_scanf_format(frame[t].format),
                                       !.parse_ok = TRUE]} \cup
                     {[frame[t] EXCEPT !.plan = SubSeq(
                          ao_parse_scanf_format(frame[t].format), 1, n - 1)] :
                        n \in 1 .. Len(ao_parse_scanf_format(frame[t].format))}
    PROVE  /\ g \in Frames /\ g.format = frame[t].format /\ g.records = frame[t].records
           /\ g.ret = frame[t].ret /\ g.i = frame[t].i /\ g.kept = frame[t].kept
           /\ g.parse_ok => g.plan = ao_parse_scanf_format(g.format)
  <1> DEFINE f == frame[t]
             plan == ao_parse_scanf_format(f.format)
             D == Seq(Directives)
             P == Seq(Records)
             K == SUBSET Nat
  <1>1. Frames = [real_fn : BOOLEAN, format : D, wide : BOOLEAN, plan : P, records : Nat,
                  parse_ok : BOOLEAN, ret : Int, i : Nat, kept : K]
    BY Zenon DEF Frames, D, P, K
  <1>2. f.format \in Seq(Directives)
    BY FrameTypes
  <1>3. plan \in Seq(Records)
    BY <1>2, Plans
  <1>4. \A n \in 1 .. Len(plan) : SubSeq(plan, 1, n - 1) \in Seq(Records)
    <2> HIDE DEF plan
    <2>1. QED
      BY <1>3
  <1> HIDE DEF D, P, K, plan
  <1>5. CASE g = [f EXCEPT !.plan = plan, !.parse_ok = TRUE]
    <2>1. plan \in P /\ f \in Frames
      BY <1>3 DEF P
    <2> HIDE DEF f
    <2>2. /\ g \in Frames /\ g.format = f.format /\ g.records = f.records
          /\ g.ret = f.ret /\ g.i = f.i /\ g.kept = f.kept /\ g.plan = plan
      BY <1>1, <1>5, <2>1
    <2>3. QED
      BY <2>2 DEF plan, f
  <1>6. ASSUME NEW n \in 1 .. Len(plan), g = [f EXCEPT !.plan = SubSeq(plan, 1, n - 1)]
        PROVE  /\ g \in Frames /\ g.format = f.format /\ g.records = f.records
               /\ g.ret = f.ret /\ g.i = f.i /\ g.kept = f.kept /\ ~g.parse_ok
    <2> DEFINE s == SubSeq(plan, 1, n - 1)
    <2>1. s \in P /\ f \in Frames /\ ~f.parse_ok /\ g = [f EXCEPT !.plan = s]
      BY <1>4, <1>6 DEF P
    <2> HIDE DEF f, s
    <2>2. QED
      BY <1>1, <2>1
  <1>7. QED
    BY <1>5, <1>6 DEF plan

LEMMA Wrap ==
    ASSUME Inv, NEW t \in Threads, ao_wrap_common(t)
    PROVE  Inv'
  <1> DEFINE f == frame[t]
             plan == ao_parse_scanf_format(f.format)
             has(g) == IF Len(g.plan) = 0 THEN g ELSE [g EXCEPT !.records = Fresh]
             Gs == {[f EXCEPT !.plan = plan, !.parse_ok = TRUE]} \cup
                   {[f EXCEPT !.plan = SubSeq(plan, 1, n - 1)] : n \in 1 .. Len(plan)}
  <1>1. Globals /\ Once /\ Reachable /\ Typed(t) /\ Staged(t) /\ Separate(t) /\ Pending(t)
    BY DEF Inv, Call
  <1>2. /\ pc[t] = "wrap" /\ slot' = slot /\ g_ao_scanf_once' = g_ao_scanf_once
        /\ g_real' = g_real /\ g_bridge_ready' = g_bridge_ready
    BY DEF ao_wrap_common, shared
  <1>3. /\ f \in Frames /\ f.ret = 0 /\ f.i = 1 /\ f.records = NULL /\ ~f.parse_ok
        /\ \A a \in DOMAIN slot[t] : slot[t][a] = GARBAGE
    BY <1>1, <1>2 DEF Typed, Staged
  <1>4. ASSUME NEW h, NEW l \in {"enosys", "scan"}, h \in Frames, h.format = f.format,
               h.i = 1, h.ret = IF l = "enosys" THEN -1 ELSE 0,
               frame' = [frame EXCEPT ![t] = h], pc' = [pc EXCEPT ![t] = l],
               l = "scan" /\ h.parse_ok => h.plan = ao_parse_scanf_format(h.format),
               \/ h.records = NULL /\ heap' = heap
               \/ l = "scan" /\ h.records = Fresh /\ heap' = With(heap, Fresh, "mock")
        PROVE  Inv'
    <2>1. /\ pc'[t] = l /\ frame'[t] = h
          /\ \A u \in Threads \ {t} : pc'[u] = pc[u] /\ frame'[u] = frame[u]
          /\ DOMAIN frame' = Threads
      BY <1>1, <1>4 DEF Globals
    <2>2. Fresh \in Nat \ {NULL} /\ \A b \in DOMAIN heap : b \in Nat /\ b < Fresh
      BY FreshIsNew
    <2>3. Fresh \notin DOMAIN heap /\ Fresh # GARBAGE
      BY <2>2 DEF GARBAGE
    <2>4. Blocks(t) = {}
      BY <1>3 DEF Blocks
    <2>5. /\ DOMAIN heap \subseteq DOMAIN heap'
          /\ \A b \in DOMAIN heap : heap'[b] = heap[b]
          /\ h.records = NULL => heap' = heap
          /\ h.records # NULL => /\ h.records = Fresh /\ DOMAIN heap' = DOMAIN heap \cup {Fresh}
                                 /\ heap'[Fresh] = "mock"
      BY <1>4, <2>2, <2>3 DEF With
    <2>6. Blocks(t)' = {h.records} \ {NULL}
      BY <1>2, <1>3, <2>1, <2>3, <2>5 DEF Blocks
    <2>7. Footprint(t)
      BY <1>2, <2>1, <2>3, <2>4, <2>5, <2>6 DEF Footprint
    <2>8. Globals'
      <3>1. DOMAIN heap' \subseteq Nat \ {NULL}
        BY <1>1, <2>2, <2>5 DEF Globals
      <3>2. \E m \in Nat : \A b \in DOMAIN heap' : b <= m
        <4>1. \A b \in DOMAIN heap' : b <= Fresh
          BY <2>2, <2>5
        <4>2. QED
          BY <2>2, <4>1
      <3>3. \A b \in DOMAIN heap' : heap'[b] \in {"libc", "mock", "lost"}
        BY <1>1, <2>5 DEF Globals
      <3>4. pc' \in [Threads -> {"idle", "ensure", "resolve_plain", "resolve_isoc99",
                           "resolve_bridge", "wrap", "enosys", "scan", "rehome"}]
        BY <1>1, <1>4 DEF Globals
      <3>5. QED
        BY <1>1, <1>2, <2>1, <3>1, <3>2, <3>3, <3>4 DEF Globals
    <2>9. Once'
      <3>1. ~(frame'[t].ret > 0)
        BY <1>4, <2>1
      <3>2. QED
        BY <1>1, <1>2, <1>4, <2>1, <3>1 DEF Once, Resolving
    <2>10. Typed(t)'
      <3>1. slot'[t] \in [Args(frame'[t].format) -> Nat \cup {GARBAGE}]
        BY <1>1, <1>2, <1>4, <2>1 DEF Typed
      <3>2. frame'[t].i \in 1 .. Len(frame'[t].format) + 1
        BY <1>1, <1>3, <1>4, <2>1 DEF Typed
      <3>3. frame'[t].records # NULL => Owned(frame[t].records)'
        BY <2>1, <2>5 DEF Owned
      <3>4. QED
        BY <1>4, <2>1, <3>1, <3>2, <3>3 DEF Typed
    <2>11. Staged(t)'
      BY <1>2, <1>3, <1>4, <2>1 DEF Staged, Resolving
    <2>12. Separate(t)'
      <3>1. \A a \in DOMAIN slot'[t] : slot'[t][a] = GARBAGE
        BY <1>2, <1>3
      <3>2. frame'[t].records # GARBAGE
        BY <2>1, <2>3, <2>5 DEF NULL, GARBAGE
      <3>3. QED
        BY <3>1, <3>2 DEF Separate
    <2>13. Pending(t)'
      BY <1>4, <2>1 DEF Pending
    <2>14. QED
      BY <1>2, <2>7, <2>8, <2>9, <2>10, <2>11, <2>12, <2>13, Combine DEF Call
  <1>5. CASE ~f.real_fn /\ SetFrame(t, [f EXCEPT !.ret = -1]) /\ Goto(t, "enosys")
             /\ UNCHANGED heap
    <2> DEFINE h == [f EXCEPT !.ret = -1]
    <2>1. h \in Frames /\ h.format = f.format /\ h.i = 1 /\ h.ret = -1 /\ h.records = NULL
      BY <1>3, FrameSet
    <2> HIDE DEF h
    <2>2. frame' = [frame EXCEPT ![t] = h] /\ pc' = [pc EXCEPT ![t] = "enosys"] /\ heap' = heap
      BY <1>5 DEF SetFrame, Goto, h
    <2>3. QED
      BY <1>4, <2>1, <2>2
  <1>6. ASSUME NEW g \in Gs, SetFrame(t, has(g)), Goto(t, "scan"),
               heap' = IF Len(g.plan) = 0 THEN heap ELSE With(heap, Fresh, "mock")
        PROVE  Inv'
    <2>1. /\ g \in Frames /\ g.format = f.format /\ g.records = NULL /\ g.ret = 0 /\ g.i = 1
          /\ g.parse_ok => g.plan = ao_parse_scanf_format(g.format)
      BY <1>3, <1>6, Parse
    <2>2. Fresh \in Nat
      BY FreshIsNew
    <2> DEFINE h == has(g)
    <2>3. /\ h \in Frames /\ h.format = f.format /\ h.ret = 0 /\ h.i = 1
          /\ h.parse_ok => h.plan = ao_parse_scanf_format(h.format)
          /\ h.records = IF Len(g.plan) = 0 THEN NULL ELSE Fresh
      BY <2>1, <2>2, FrameSet
    <2>4. frame' = [frame EXCEPT ![t] = h] /\ pc' = [pc EXCEPT ![t] = "scan"]
      BY <1>6 DEF SetFrame, Goto
    <2> HIDE DEF h, has, Gs
    <2>5. QED
      BY <1>4, <1>6, <2>3, <2>4
  <1>7. QED
    <2>1. {n \in 1 .. Len(plan) : Grows(n - 1)} \subseteq 1 .. Len(plan)
      OBVIOUS
    <2>2. \/ ~f.real_fn /\ SetFrame(t, [f EXCEPT !.ret = -1]) /\ Goto(t, "enosys")
             /\ UNCHANGED heap
          \/ \E g \in Gs : /\ SetFrame(t, has(g)) /\ Goto(t, "scan")
                           /\ heap' = IF Len(g.plan) = 0 THEN heap
                                      ELSE With(heap, Fresh, "mock")
      BY <2>1, Zenon DEF ao_wrap_common
    <2>3. QED
      BY <1>5, <1>6, <2>2

\* The scanner of libc, when n directives match.
LEMMA ScanMatches ==
    ASSUME Inv, NEW t \in Threads, pc[t] = "scan", NEW n \in 0 .. Len(frame[t].format),
           NEW who \in {"libc", "mock"}, scan_matches(t, n, who), Goto(t, "rehome"),
           UNCHANGED <<shared, symbols, calls>>
    PROVE  Inv'
  <1> DEFINE f == frame[t]
             format == f.format
             made == {i \in 1 .. n : Allocates(format[i])}
             through(a) == {i \in made : format[i].arg = a}
             last(a) == Max({i \in made : format[i].arg = a})
             b(i) == Fresh + i
             h == [f EXCEPT !.ret = Cardinality({i \in 1 .. n : Assigned(format[i])})]
  <1>1. Globals /\ Once /\ Reachable /\ Typed(t) /\ Staged(t) /\ Separate(t) /\ Pending(t)
    BY DEF Inv, Call
  <1>2. /\ f \in Frames /\ f.i = 1 /\ \A a \in DOMAIN slot[t] : slot[t][a] = GARBAGE
        /\ f.parse_ok => f.plan = ao_parse_scanf_format(format)
    BY <1>1 DEF Typed, Staged
  <1>3. /\ format \in Seq(Directives) /\ Len(format) \in Nat /\ DOMAIN format = 1 .. Len(format)
        /\ f.records \in Nat /\ n \in Nat
    BY <1>2, FrameTypes
  <1>4. /\ slot' = [slot EXCEPT ![t] = [a \in DOMAIN slot[t] |->
                      IF \E i \in made : format[i].arg = a THEN b(last(a)) ELSE slot[t][a]]]
        /\ heap' = [x \in DOMAIN heap \cup {b(i) : i \in made} |->
              IF x \in DOMAIN heap THEN heap[x]
              ELSE IF \E i \in made : x = b(i) /\ i = last(format[i].arg)
                   THEN who ELSE "lost"]
        /\ frame' = [frame EXCEPT ![t] = h] /\ pc' = [pc EXCEPT ![t] = "rehome"]
        /\ g_ao_scanf_once' = g_ao_scanf_once /\ g_real' = g_real
        /\ g_bridge_ready' = g_bridge_ready
    BY DEF scan_matches, SetFrame, Goto, shared
  <1>5. \A i \in made : i \in 1 .. n /\ i \in DOMAIN format /\ i \in Nat \ {0} /\ i <= n
    BY <1>3
  <1>6. \A i \in made : Allocates(format[i])
    OBVIOUS
  <1>7. \A i \in 1 .. n : Allocates(format[i]) => i \in made
    OBVIOUS
  <1> HIDE DEF made
  <1>8. \A a : (\E i \in made : format[i].arg = a) => last(a) \in made /\ format[last(a)].arg = a
    <2> SUFFICES ASSUME NEW a, NEW i \in made, format[i].arg = a
                 PROVE  last(a) \in through(a)
      OBVIOUS
    <2>1. through(a) \in SUBSET Nat /\ i \in through(a) /\ \A j \in through(a) : j <= n
      BY <1>3, <1>5
    <2> HIDE DEF through
    <2>2. Max(through(a)) \in through(a)
      BY <1>3, <2>1, Greatest
    <2>3. QED
      BY <2>2 DEF through
  <1> HIDE DEF last
  <1>9. Fresh \in Nat \ {NULL} /\ \A x \in DOMAIN heap : x \in Nat /\ x < Fresh
    BY FreshIsNew
  <1>10. \A i \in made : /\ b(i) \in Nat /\ b(i) \notin DOMAIN heap
                         /\ b(i) # NULL /\ b(i) # GARBAGE /\ b(i) <= Fresh + n
    BY <1>3, <1>5, <1>9 DEF NULL, GARBAGE
  <1>11. \A i, j \in made : b(i) = b(j) => i = j
    BY <1>5, <1>9
  <1> HIDE DEF b
  <1>12. /\ h \in Frames /\ h.format = format /\ h.i = 1 /\ h.records = f.records
         /\ h.plan = f.plan /\ h.parse_ok = f.parse_ok
         /\ h.ret = Cardinality({i \in 1 .. n : Assigned(format[i])})
    <2> DEFINE c == Cardinality({i \in 1 .. n : Assigned(format[i])})
    <2>1. c \in Nat
      <3> DEFINE S == {i \in 1 .. n : Assigned(format[i])}
      <3>1. S \in SUBSET (1 .. n)
        OBVIOUS
      <3> HIDE DEF S
      <3>2. Cardinality(S) \in Nat
        BY <1>3, <3>1, RankIsNumber
      <3>3. QED
        BY <3>2 DEF S
    <2> HIDE DEF c
    <2>2. h = [f EXCEPT !.ret = c] /\ c \in Int
      BY <2>1 DEF c
    <2>3. QED
      BY <1>2, <2>2, FrameSet DEF c
  <1> HIDE DEF h
  <1>13. /\ pc'[t] = "rehome" /\ frame'[t] = h
         /\ \A u \in Threads \ {t} :
               pc'[u] = pc[u] /\ frame'[u] = frame[u] /\ slot'[u] = slot[u]
         /\ DOMAIN frame' = Threads /\ DOMAIN slot' = Threads
         /\ DOMAIN slot'[t] = DOMAIN slot[t]
    BY <1>1, <1>4 DEF Globals
  <1>14. \A a \in DOMAIN slot[t] :
            slot'[t][a] = IF \E i \in made : format[i].arg = a THEN b(last(a)) ELSE GARBAGE
    BY <1>1, <1>2, <1>4 DEF Globals
  <1>15. \A i \in made : format[i].arg \in DOMAIN slot[t]
    BY <1>1, <1>5 DEF Typed, Args
  <1>16. /\ DOMAIN heap \subseteq DOMAIN heap' /\ \A x \in DOMAIN heap : heap'[x] = heap[x]
         /\ \A x \in DOMAIN heap' : x \in DOMAIN heap \/ \E i \in made : x = b(i)
         /\ \A x \in DOMAIN heap' \ DOMAIN heap :
               \/ heap'[x] = "lost"
               \/ \E i \in made : x = b(i) /\ i = last(format[i].arg)
    BY <1>4
  <1>17. \A i \in made : i = last(format[i].arg) => b(i) \in DOMAIN heap' /\ heap'[b(i)] = who
    BY <1>4, <1>10
  <1>18. ASSUME NEW a \in DOMAIN slot[t]
         PROVE  \/ slot'[t][a] = GARBAGE
                \/ /\ last(a) \in made /\ format[last(a)].arg = a
                   /\ slot'[t][a] = b(last(a)) /\ b(last(a)) \in Nat
                   /\ b(last(a)) \in DOMAIN heap' /\ heap'[b(last(a))] = who
                   /\ b(last(a)) \notin DOMAIN heap
    BY <1>8, <1>10, <1>14, <1>17
  <1>19. Blocks(t) = {f.records} \ {NULL, GARBAGE}
    BY <1>2 DEF Blocks
  <1>20. /\ \A x \in Blocks(t) : x \in Blocks(t)' /\ x \in DOMAIN heap /\ heap[x] # "lost"
         /\ \A x \in Blocks(t)' : x \in Blocks(t) \/
               \E a \in DOMAIN slot[t] : x = slot'[t][a] /\ x # GARBAGE
    BY <1>1, <1>12, <1>13, <1>19 DEF Blocks, Reachable
  <1>21. \A i \in made : i = last(format[i].arg) => b(i) \in Blocks(t)'
    <2> SUFFICES ASSUME NEW i \in made, i = last(format[i].arg) PROVE b(i) \in Blocks(t)'
      OBVIOUS
    <2>1. format[i].arg \in DOMAIN slot[t] /\ slot'[t][format[i].arg] = b(i)
      BY <1>14, <1>15
    <2>2. QED
      BY <1>10, <1>13, <2>1 DEF Blocks
  <1>22. Footprint(t)
    <2>1. \A x \in DOMAIN heap \ Blocks(t) : x \in DOMAIN heap' /\ heap'[x] = heap[x]
      BY <1>16
    <2>2. \A x \in DOMAIN heap' : x \in DOMAIN heap \/ heap'[x] = "lost" \/ x \in Blocks(t)'
      BY <1>16, <1>21
    <2>3. \A x \in Blocks(t)' : /\ x \in DOMAIN heap' /\ heap'[x] # "lost"
                                /\ x \in Blocks(t) \/ x \notin DOMAIN heap
      BY <1>16, <1>18, <1>20
    <2>4. \A x \in Blocks(t) \ Blocks(t)' : x \notin DOMAIN heap'
      BY <1>20
    <2>5. QED
      BY <1>13, <2>1, <2>2, <2>3, <2>4 DEF Footprint
  <1>23. Globals'
    <2>1. DOMAIN heap' \subseteq Nat \ {NULL}
      BY <1>1, <1>10, <1>16 DEF Globals
    <2>2. \E m \in Nat : \A x \in DOMAIN heap' : x <= m
      <3>1. Fresh + n \in Nat /\ \A x \in DOMAIN heap' : x <= Fresh + n
        BY <1>3, <1>9, <1>10, <1>16
      <3>2. QED
        BY <3>1
    <2>3. \A x \in DOMAIN heap' : heap'[x] \in {"libc", "mock", "lost"}
      BY <1>1, <1>16, <1>17 DEF Globals
    <2>4. pc' \in [Threads -> {"idle", "ensure", "resolve_plain", "resolve_isoc99",
                         "resolve_bridge", "wrap", "enosys", "scan", "rehome"}]
      BY <1>1, <1>4 DEF Globals
    <2>5. QED
      BY <1>1, <1>4, <1>13, <2>1, <2>2, <2>3, <2>4 DEF Globals
  <1>24. Once'
    BY <1>1, <1>4, <1>13 DEF Once, Resolving
  <1>25. Typed(t)'
    <2>1. DOMAIN slot[t] = Args(format)
      BY <1>1 DEF Typed
    <2>2. \A a \in DOMAIN slot[t] : slot'[t][a] \in Nat \cup {GARBAGE}
      BY <1>18
    <2>3. slot'[t] = [a \in DOMAIN slot[t] |-> slot'[t][a]]
      BY <1>1, <1>4 DEF Globals
    <2>4. slot'[t] \in [Args(format) -> Nat \cup {GARBAGE}]
      BY <2>1, <2>2, <2>3
    <2>5. f.records # NULL => f.records \in DOMAIN heap /\ heap[f.records] = "mock"
      BY <1>1 DEF Typed, Owned
    <2>6. frame'[t].records # NULL => Owned(frame[t].records)'
      BY <1>12, <1>13, <1>16, <2>5 DEF Owned
    <2>7. 1 \in 1 .. Len(format) + 1
      BY <1>3
    <2>8. QED
      BY <1>12, <1>13, <2>4, <2>6, <2>7 DEF Typed
  <1>26. Staged(t)'
    BY <1>2, <1>12, <1>13 DEF Staged, Resolving
  <1>27. Separate(t)'
    <2>1. ASSUME NEW a \in DOMAIN slot[t], NEW c \in DOMAIN slot[t],
                 slot'[t][a] = slot'[t][c], slot'[t][a] \notin {NULL, GARBAGE}
          PROVE  a = c
      BY <1>11, <1>18, <2>1
    <2>2. \A a \in DOMAIN slot[t] : slot'[t][a] # f.records
      <3>1. f.records # GARBAGE /\ (f.records = NULL \/ f.records \in DOMAIN heap)
        BY <1>1, <1>3 DEF Typed, Owned, GARBAGE
      <3>2. QED
        BY <1>10, <1>18, <3>1
    <2>3. QED
      BY <1>12, <1>13, <2>1, <2>2 DEF Separate
  <1>28. Pending(t)'
    <2> SUFFICES ASSUME f.parse_ok
                 PROVE  /\ Stored(t)'
                        /\ \A a \in DOMAIN slot[t] : Settled(t, a)' \/ Ahead(t, a)'
      BY <1>12, <1>13 DEF Pending, Used
    <2> DEFINE P == ao_parse_scanf_format(format)
    <2>1. frame'[t].plan = P /\ frame'[t].ret = h.ret /\ frame'[t].i = 1
      BY <1>2, <1>12, <1>13
    <2>2. \A i \in DOMAIN format : Recorded(format[i]) => (ordinal(format, i) <= h.ret <=> i <= n)
      BY <1>3, <1>12, Ordinals
    <2>3. /\ \A k \in DOMAIN P : \E i \in DOMAIN format :
                 /\ Recorded(format[i]) /\ P[k].slot = format[i].arg
                 /\ P[k].ordinal = ordinal(format, i)
          /\ \A i \in DOMAIN format : Recorded(format[i]) =>
                 \E k \in DOMAIN P : /\ P[k].slot = format[i].arg
                                     /\ P[k].ordinal = ordinal(format, i)
      BY <1>3, Plans
    <2>4. P \in Seq(Records)
      BY <1>3, Plans
    <2> HIDE DEF P
    <2>5. \A k \in DOMAIN P : k \in Nat /\ k >= 1
      BY <2>4
    <2>6. ASSUME NEW k \in DOMAIN P, P[k].ordinal <= h.ret
          PROVE  slot'[t][P[k].slot] # GARBAGE
      <3>1. PICK i \in DOMAIN format : /\ Recorded(format[i]) /\ P[k].slot = format[i].arg
                                       /\ P[k].ordinal = ordinal(format, i)
        BY <2>3, <2>6
      <3>2. i <= n
        BY <2>2, <2>6, <3>1
      <3>3. i \in made
        <4>1. i \in 1 .. n
          BY <1>3, <3>2
        <4>2. QED
          BY <1>7, <3>1, <4>1 DEF Recorded, Allocates
      <3>4. QED
        BY <1>8, <1>10, <1>14, <1>15, <3>1, <3>3
    <2>7. ASSUME NEW a \in DOMAIN slot[t], slot'[t][a] # GARBAGE
          PROVE  \E k \in DOMAIN P : /\ k >= 1 /\ P[k].slot = a /\ P[k].ordinal <= h.ret
      <3>1. last(a) \in made /\ format[last(a)].arg = a
        BY <1>18, <2>7
      <3>2. last(a) \in DOMAIN format /\ last(a) <= n /\ Recorded(format[last(a)])
        BY <1>3, <1>5, <1>6, <3>1 DEF Recorded, Allocates
      <3>3. PICK k \in DOMAIN P : P[k].slot = a /\ P[k].ordinal = ordinal(format, last(a))
        BY <2>3, <3>1, <3>2
      <3>4. QED
        BY <2>2, <2>5, <3>2, <3>3
    <2>8. QED
      BY <2>1, <2>6, <2>7 DEF Stored, Settled, Ahead
  <1>29. QED
    BY <1>4, <1>13, <1>22, <1>23, <1>24, <1>25, <1>26, <1>27, <1>28, Combine DEF Call

\* The scanner of libc, when it returns EOF.
LEMMA ScanFails ==
    ASSUME Inv, NEW t \in Threads, pc[t] = "scan", NEW n \in 0 .. Len(frame[t].format),
           scan_fails(t, n), Goto(t, "rehome"), UNCHANGED <<shared, symbols, calls>>
    PROVE  Inv'
  <1> DEFINE f == frame[t]
             h == [f EXCEPT !.ret = -1]
             stored(a) == \E i \in 1 .. n : Allocates(f.format[i]) /\ f.format[i].arg = a
  <1>1. Globals /\ Once /\ Reachable /\ Typed(t) /\ Staged(t) /\ Separate(t) /\ Pending(t)
    BY DEF Inv, Call
  <1>2. /\ f \in Frames /\ f.i = 1 /\ \A a \in DOMAIN slot[t] : slot[t][a] = GARBAGE
        /\ f.parse_ok => f.plan = ao_parse_scanf_format(f.format)
    BY <1>1 DEF Typed, Staged
  <1>3. /\ slot' = [slot EXCEPT ![t] = [a \in DOMAIN slot[t] |->
                      IF stored(a) THEN NULL ELSE slot[t][a]]]
        /\ heap' = heap /\ frame' = [frame EXCEPT ![t] = h]
        /\ pc' = [pc EXCEPT ![t] = "rehome"]
        /\ g_ao_scanf_once' = g_ao_scanf_once /\ g_real' = g_real
        /\ g_bridge_ready' = g_bridge_ready
    BY DEF scan_fails, SetFrame, Goto, shared
  <1>4. /\ h \in Frames /\ h.format = f.format /\ h.i = 1 /\ h.records = f.records
        /\ h.plan = f.plan /\ h.parse_ok = f.parse_ok /\ h.ret = -1
    <2>1. f \in Frames /\ f.i = 1 /\ -1 \in Int
      BY <1>2
    <2> HIDE DEF f
    <2>2. QED
      BY <2>1, FrameSet
  <1> HIDE DEF h, stored
  <1>5. /\ pc'[t] = "rehome" /\ frame'[t] = h
        /\ \A u \in Threads \ {t} :
              pc'[u] = pc[u] /\ frame'[u] = frame[u] /\ slot'[u] = slot[u]
        /\ DOMAIN frame' = Threads /\ DOMAIN slot' = Threads
        /\ slot'[t] = [a \in DOMAIN slot[t] |-> IF stored(a) THEN NULL ELSE slot[t][a]]
    BY <1>1, <1>3 DEF Globals
  <1>6. /\ DOMAIN slot'[t] = DOMAIN slot[t]
        /\ \A a \in DOMAIN slot[t] : slot'[t][a] \in {NULL, GARBAGE}
    BY <1>2, <1>5
  <1>7. Blocks(t)' = Blocks(t)
    BY <1>2, <1>4, <1>5, <1>6 DEF Blocks
  <1>8. Footprint(t)
    BY <1>1, <1>3, <1>5, <1>7 DEF Footprint, Reachable
  <1>9. Globals'
    BY <1>1, <1>3, <1>5 DEF Globals
  <1>10. Once'
    BY <1>1, <1>3, <1>4, <1>5 DEF Once, Resolving
  <1>11. Typed(t)'
    <2>1. DOMAIN slot[t] = Args(f.format)
      BY <1>1 DEF Typed
    <2>2. slot'[t] \in [Args(f.format) -> Nat \cup {GARBAGE}]
      BY <1>2, <1>5, <2>1 DEF NULL
    <2>3. QED
      BY <1>1, <1>2, <1>3, <1>4, <1>5, <2>2 DEF Typed, Owned
  <1>12. Staged(t)'
    BY <1>2, <1>4, <1>5 DEF Staged, Resolving
  <1>13. Separate(t)'
    <2>1. f.records # GARBAGE
      BY <1>2, FrameTypes DEF GARBAGE
    <2>2. QED
      BY <1>4, <1>5, <1>6, <2>1 DEF Separate
  <1>14. Pending(t)'
    BY <1>4, <1>5 DEF Pending, Used
  <1>15. QED
    BY <1>3, <1>8, <1>9, <1>10, <1>11, <1>12, <1>13, <1>14, Combine DEF Call

\* The records of a plan in use store through arguments of the call.
LEMMA PlanSlots ==
    ASSUME Inv, NEW t \in Threads, pc[t] = "rehome", frame[t].parse_ok
    PROVE  /\ frame[t].plan \in Seq(Records) /\ Len(frame[t].plan) <= Len(frame[t].format)
           /\ Len(frame[t].format) \in Nat
           /\ \A k \in DOMAIN frame[t].plan :
                 /\ k \in Nat /\ k >= 1
                 /\ frame[t].plan[k].slot \in DOMAIN slot[t]
                 /\ frame[t].plan[k].slot \in Nat /\ frame[t].plan[k].ordinal \in Nat
           /\ \A j, k \in DOMAIN frame[t].plan :
                 j <= k => frame[t].plan[j].ordinal <= frame[t].plan[k].ordinal
  <1> DEFINE format == frame[t].format
             P == ao_parse_scanf_format(format)
  <1>1. Typed(t) /\ Staged(t)
    BY DEF Inv, Call
  <1>2. frame[t].plan = P
    BY <1>1 DEF Staged
  <1>3. format \in Seq(Directives)
    BY <1>1, FrameTypes DEF Typed
  <1>4. /\ P \in Seq(Records) /\ Len(P) <= Len(format)
        /\ \A k \in DOMAIN P : \E i \in DOMAIN format : P[k].slot = format[i].arg
        /\ \A j, k \in DOMAIN P : j <= k => P[j].ordinal <= P[k].ordinal
    BY <1>3, Plans
  <1> HIDE DEF P
  <1>5. \A k \in DOMAIN P : k \in Nat /\ k >= 1 /\ P[k] \in Records
    BY <1>4
  <1>6. \A k \in DOMAIN P : P[k].slot \in Nat /\ P[k].ordinal \in Nat
    BY <1>5 DEF Records
  <1>7. DOMAIN slot[t] = {format[i].arg : i \in DOMAIN format}
    BY <1>1 DEF Typed, Args
  <1>8. Len(format) \in Nat
    BY <1>3
  <1>9. QED
    BY <1>2, <1>4, <1>5, <1>6, <1>7, <1>8

\* The record that rehoming looks at: libc has stored through its argument.
LEMMA NextRecord ==
    ASSUME Inv, NEW t \in Threads, pc[t] = "rehome", More(frame[t])
    PROVE  /\ Used(t) /\ frame[t].i \in DOMAIN frame[t].plan /\ frame[t].i \in Nat
           /\ frame[t].i <= Len(frame[t].format)
           /\ frame[t].plan[frame[t].i].slot \in DOMAIN slot[t]
           /\ frame[t].plan[frame[t].i].slot \in Nat
           /\ slot[t][frame[t].plan[frame[t].i].slot] \in Nat
  <1> DEFINE f == frame[t]
             a == f.plan[f.i].slot
  <1>1. Typed(t) /\ Pending(t)
    BY DEF Inv, Call
  <1>2. Used(t) /\ f.plan[f.i].ordinal <= f.ret /\ f.parse_ok /\ f.i <= Len(f.plan)
    BY DEF Used, More
  <1>3. /\ f.plan \in Seq(Records) /\ Len(f.plan) <= Len(f.format) /\ Len(f.format) \in Nat
        /\ \A k \in DOMAIN f.plan : f.plan[k].slot \in DOMAIN slot[t] /\ f.plan[k].slot \in Nat
    BY <1>2, PlanSlots
  <1>4. Len(f.plan) \in Nat /\ DOMAIN f.plan = 1 .. Len(f.plan)
    BY <1>3
  <1>5. f.i \in Nat /\ f.i >= 1
    BY <1>1, <1>3 DEF Typed
  <1>6. f.i \in DOMAIN f.plan /\ f.i <= Len(f.format)
    BY <1>2, <1>3, <1>4, <1>5
  <1>7. a \in DOMAIN slot[t] /\ slot[t][a] \in Nat \cup {GARBAGE}
    BY <1>1, <1>3, <1>6 DEF Typed
  <1>8. slot[t][a] # GARBAGE
    BY <1>1, <1>2, <1>6 DEF Pending, Stored
  <1>9. QED
    BY <1>2, <1>3, <1>5, <1>6, <1>7, <1>8

\* Frame g is frame f with the loop gone on and K kept.
Advanced(f, g, K) ==
    /\ g \in Frames /\ g.i = f.i + 1 /\ g.kept = K /\ g.format = f.format
    /\ g.plan = f.plan /\ g.records = f.records /\ g.ret = f.ret
    /\ g.parse_ok = f.parse_ok

LEMMA FrameNext ==
    ASSUME NEW f \in Frames
    PROVE  /\ Advanced(f, [f EXCEPT !.i = @ + 1], f.kept)
           /\ \A K \in SUBSET Nat :
                 Advanced(f, [[f EXCEPT !.i = @ + 1] EXCEPT !.kept = K], K)
  <1> DEFINE D == Seq(Directives)
             P == Seq(Records)
             Ks == SUBSET Nat
  <1>1. Frames = [real_fn : BOOLEAN, format : D, wide : BOOLEAN, plan : P, records : Nat,
                  parse_ok : BOOLEAN, ret : Int, i : Nat, kept : Ks]
    BY Zenon DEF Frames, D, P, Ks
  <1> HIDE DEF D, P, Ks
  <1>2. f.i + 1 \in Nat
    BY <1>1
  <1>3. Advanced(f, [f EXCEPT !.i = @ + 1], f.kept)
    BY <1>1, <1>2 DEF Advanced
  <1>4. ASSUME NEW K \in Ks
        PROVE  Advanced(f, [[f EXCEPT !.i = @ + 1] EXCEPT !.kept = K], K)
    BY <1>1, <1>2, <1>4 DEF Advanced
  <1>5. QED
    BY <1>3, <1>4 DEF Ks

\* The index after x.
LEMMA NextIndex ==
    /\ \A x, n \in Nat : x <= n => x + 1 \in 1 .. n + 1
    /\ \A x, y \in Nat : y >= x /\ y # x => y >= x + 1
  OBVIOUS

\* A block of the preloaded allocator after the step.
OwnedNext(b) == b \in DOMAIN heap' /\ heap'[b] = "mock"

\* Working off a record settles its argument a, with K kept, and leaves the
\* thread's other arguments and its plan as they were.
Settles(t, a, K) ==
    /\ DOMAIN slot' = Threads
    /\ slot'[t] \in [Args(frame[t].format) -> Nat \cup {GARBAGE}]
    /\ DOMAIN heap' \subseteq Nat \ {NULL}
    /\ \E m \in Nat : \A b \in DOMAIN heap' : b <= m
    /\ \A b \in DOMAIN heap' : heap'[b] \in {"libc", "mock", "lost"}
    /\ frame[t].records # NULL => OwnedNext(frame[t].records)
    /\ \A c \in DOMAIN slot[t] \ {a} :
          /\ slot'[t][c] = slot[t][c]
          /\ Owned(slot[t][c]) => OwnedNext(slot[t][c])
          /\ slot'[t][a] = slot[t][c] => slot'[t][a] = NULL
    /\ slot'[t][a] = frame[t].records => slot'[t][a] = NULL
    /\ slot'[t][a] # GARBAGE
    /\ slot'[t][a] = NULL \/ OwnedNext(slot'[t][a]) \/ a \in K

LEMMA OneRecord ==
    ASSUME Inv, NEW t \in Threads, pc[t] = "rehome", More(frame[t]), pc' = pc,
           UNCHANGED shared,
           NEW a, a = frame[t].plan[frame[t].i].slot,
           NEW h, NEW K \in SUBSET Nat, Advanced(frame[t], h, K), frame[t].kept \subseteq K,
           frame' = [frame EXCEPT ![t] = h],
           Footprint(t), Settles(t, a, K)
    PROVE  Inv'
  <1> DEFINE f == frame[t]
  <1>1. Globals /\ Once /\ Reachable /\ Typed(t) /\ Staged(t) /\ Separate(t) /\ Pending(t)
    BY DEF Inv, Call
  <1>2. /\ Used(t) /\ f.i \in DOMAIN f.plan /\ f.i \in Nat /\ f.i <= Len(f.format)
        /\ a \in DOMAIN slot[t]
    BY NextRecord
  <1>3. /\ h \in Frames /\ h.i = f.i + 1 /\ h.kept = K /\ h.format = f.format
        /\ h.plan = f.plan /\ h.records = f.records /\ h.ret = f.ret
        /\ h.parse_ok = f.parse_ok
    BY DEF Advanced
  <1>4. /\ Len(f.format) \in Nat
        /\ \A k \in DOMAIN f.plan : k \in Nat /\ f.plan[k].slot \in DOMAIN slot[t]
    BY <1>2, PlanSlots DEF Used
  <1>5. /\ pc'[t] = "rehome" /\ frame'[t] = h /\ DOMAIN frame' = Threads
        /\ DOMAIN slot'[t] = DOMAIN slot[t]
    BY <1>1 DEF Globals, Typed, Settles
  <1>6. /\ g_ao_scanf_once' = g_ao_scanf_once /\ g_real' = g_real
        /\ g_bridge_ready' = g_bridge_ready
    BY DEF shared
  <1>7. Globals'
    BY <1>1, <1>5, <1>6 DEF Globals, Settles
  <1>8. Once'
    <2>1. \A u \in Threads : frame'[u].ret = frame[u].ret
      BY <1>3, <1>5 DEF Footprint
    <2>2. QED
      BY <1>1, <1>6, <2>1 DEF Once
  <1>9. Typed(t)'
    <2>1. f.i + 1 \in 1 .. Len(f.format) + 1
      BY <1>2, <1>4, NextIndex, Zenon
    <2>2. QED
      BY <1>3, <1>5, <2>1 DEF Typed, Owned, OwnedNext, Settles
  <1>10. Staged(t)'
    BY <1>1, <1>3, <1>5 DEF Staged, Resolving
  <1>11. Separate(t)'
    <2>1. ASSUME NEW c \in DOMAIN slot[t], NEW d \in DOMAIN slot[t],
                 slot'[t][c] = slot'[t][d], slot'[t][c] \notin {NULL, GARBAGE}
          PROVE  c = d
      <3>1. CASE c # a /\ d # a
        BY <1>1, <2>1, <3>1 DEF Separate, Settles
      <3>2. CASE c = a \/ d = a
        BY <2>1, <3>2 DEF Settles
      <3>3. QED
        BY <3>1, <3>2
    <2>2. \A c \in DOMAIN slot[t] : slot'[t][c] = f.records => slot'[t][c] = NULL
      BY <1>1 DEF Separate, Settles
    <2>3. QED
      BY <1>3, <1>5, <2>1, <2>2 DEF Separate
  <1>12. Pending(t)'
    <2>1. Stored(t) /\ \A c \in DOMAIN slot[t] : Settled(t, c) \/ Ahead(t, c)
      BY <1>1, <1>2 DEF Pending
    <2>2. ASSUME NEW k \in DOMAIN f.plan, f.plan[k].ordinal <= f.ret
          PROVE  slot'[t][f.plan[k].slot] # GARBAGE
      <3>1. f.plan[k].slot \in DOMAIN slot[t] /\ slot[t][f.plan[k].slot] # GARBAGE
        BY <1>4, <2>1, <2>2 DEF Stored
      <3>2. QED
        BY <3>1 DEF Settles
    <2>3. Stored(t)'
      BY <1>3, <1>5, <2>2 DEF Stored
    <2>4. ASSUME NEW c \in DOMAIN slot[t]
          PROVE  Settled(t, c)' \/ Ahead(t, c)'
      <3>1. CASE c = a
        BY <1>3, <1>5, <3>1 DEF Settled, Owned, OwnedNext, Settles
      <3>2. CASE c # a /\ Settled(t, c)
        <4>1. slot'[t][c] = slot[t][c] /\ (Owned(slot[t][c]) => OwnedNext(slot[t][c]))
          BY <3>2 DEF Settles
        <4>2. QED
          BY <1>3, <1>5, <3>2, <4>1 DEF Settled, Owned, OwnedNext
      <3>3. CASE c # a /\ Ahead(t, c)
        <4>1. PICK k \in DOMAIN f.plan : /\ k >= f.i /\ f.plan[k].slot = c
                                         /\ f.plan[k].ordinal <= f.ret
          BY <3>3 DEF Ahead
        <4>2. k # f.i /\ k \in Nat
          BY <1>4, <3>3, <4>1
        <4>3. k >= f.i + 1
          BY <1>2, <4>1, <4>2, NextIndex, Zenon
        <4>4. QED
          BY <1>3, <1>5, <4>1, <4>3 DEF Ahead
      <3>4. QED
        BY <2>1, <3>1, <3>2, <3>3
    <2>5. QED
      BY <1>5, <2>3, <2>4 DEF Pending
  <1>13. QED
    BY <1>6, <1>7, <1>8, <1>9, <1>10, <1>11, <1>12, Combine DEF Call

\* A record whose block is left where it is.
LEMMA LeavesBlock ==
    ASSUME Inv, NEW t \in Threads, pc[t] = "rehome", More(frame[t]), pc' = pc,
           UNCHANGED shared, slot' = slot, heap' = heap,
           NEW h, NEW K \in SUBSET Nat, Advanced(frame[t], h, K), frame[t].kept \subseteq K,
           frame' = [frame EXCEPT ![t] = h],
           NEW a, a = frame[t].plan[frame[t].i].slot,
           LeftAlone(slot[t][a]) \/ a \in K
    PROVE  Inv'
  <1>1. Globals /\ Typed(t) /\ Separate(t)
    BY DEF Inv, Call
  <1>2. a \in DOMAIN slot[t] /\ slot[t][a] \in Nat
    BY NextRecord
  <1>3. frame'[t] = h /\ \A u \in Threads \ {t} : pc'[u] = pc[u] /\ frame'[u] = frame[u]
    BY <1>1 DEF Globals
  <1>4. Footprint(t)
    <2>1. frame'[t].records = frame[t].records
      BY <1>3 DEF Advanced
    <2>2. QED
      BY <1>3, <2>1, Quiet
  <1>5. /\ slot'[t] \in [Args(frame[t].format) -> Nat \cup {GARBAGE}]
        /\ frame[t].records # NULL => OwnedNext(frame[t].records)
    BY <1>1 DEF Typed, Owned, OwnedNext
  <1>6. /\ DOMAIN slot' = Threads /\ DOMAIN heap' \subseteq Nat \ {NULL}
        /\ \E m \in Nat : \A b \in DOMAIN heap' : b <= m
        /\ \A b \in DOMAIN heap' : heap'[b] \in {"libc", "mock", "lost"}
    BY <1>1 DEF Globals
  <1>7. slot'[t][a] # GARBAGE
    BY <1>2, SMTT(30) DEF GARBAGE
  <1>8. \A c \in DOMAIN slot[t] \ {a} :
           /\ slot'[t][c] = slot[t][c]
           /\ Owned(slot[t][c]) => OwnedNext(slot[t][c])
           /\ slot'[t][a] = slot[t][c] => slot'[t][a] = NULL
    BY <1>1, <1>2, <1>7 DEF Separate, Owned, OwnedNext
  <1>9. slot'[t][a] = frame[t].records => slot'[t][a] = NULL
    BY <1>1, <1>2 DEF Separate
  <1>10. slot'[t][a] = NULL \/ OwnedNext(slot'[t][a]) \/ a \in K
    BY DEF LeftAlone, Owned, OwnedNext
  <1>11. Settles(t, a, K)
    BY <1>5, <1>6, <1>7, <1>8, <1>9, <1>10, Zenon DEF Settles
  <1>12. QED
    BY <1>4, <1>11, OneRecord

\* Where a new block is, and where none is.
LEMMA NewBlock ==
    ASSUME Inv
    PROVE  /\ Fresh \in Nat /\ Fresh \notin DOMAIN heap /\ Fresh # GARBAGE /\ Fresh # NULL
           /\ Fresh <= Fresh /\ \A x \in DOMAIN heap : x <= Fresh
           /\ GARBAGE \notin Nat
  <1>1. Fresh \in Nat \ {NULL} /\ \A x \in DOMAIN heap : x \in Nat /\ x < Fresh
    BY FreshIsNew
  <1>2. QED
    BY <1>1 DEF GARBAGE

\* A record whose block is cloned and released.
LEMMA MovesBlock ==
    ASSUME Inv, NEW t \in Threads, pc[t] = "rehome", More(frame[t]), pc' = pc,
           UNCHANGED shared,
           NEW h, Advanced(frame[t], h, frame[t].kept), frame' = [frame EXCEPT ![t] = h],
           NEW a, a = frame[t].plan[frame[t].i].slot, ~LeftAlone(slot[t][a]),
           slot' = [slot EXCEPT ![t][a] = Fresh],
           heap' = Without(With(heap, Fresh, "mock"), {slot[t][a]})
    PROVE  Inv'
  <1> DEFINE b == slot[t][a]
  <1>1. Globals /\ Reachable /\ Typed(t) /\ Separate(t)
    BY DEF Inv, Call
  <1>2. a \in DOMAIN slot[t] /\ b \in Nat
    BY NextRecord
  <1>3. /\ frame'[t] = h /\ h.records = frame[t].records
        /\ \A u \in Threads \ {t} :
              pc'[u] = pc[u] /\ frame'[u] = frame[u] /\ slot'[u] = slot[u]
        /\ DOMAIN slot' = Threads /\ slot'[t] = [slot[t] EXCEPT ![a] = Fresh]
    BY <1>1 DEF Globals, Advanced
  <1>4. /\ DOMAIN slot'[t] = DOMAIN slot[t] /\ slot'[t][a] = Fresh
        /\ \A c \in DOMAIN slot[t] \ {a} : slot'[t][c] = slot[t][c]
    BY <1>2, <1>3
  <1>5. /\ Fresh \in Nat /\ Fresh <= Fresh /\ \A x \in DOMAIN heap : x <= Fresh
        /\ GARBAGE \notin Nat
    BY NewBlock
  <1>6. Fresh \notin DOMAIN heap /\ Fresh # GARBAGE /\ Fresh # NULL
    BY NewBlock
  <1>7. b # NULL /\ b # GARBAGE
    BY <1>2, <1>5, Zenon DEF LeftAlone
  <1>8. b \in Blocks(t) /\ b \in DOMAIN heap /\ b # Fresh
    <2>1. b \in Blocks(t)
      BY <1>2, <1>7 DEF Blocks
    <2>2. QED
      BY <1>1, <1>6, <2>1 DEF Reachable
  <1>9. /\ DOMAIN heap' = (DOMAIN heap \cup {Fresh}) \ {b}
        /\ heap'[Fresh] = "mock"
        /\ \A x \in DOMAIN heap \ {b} : heap'[x] = heap[x]
    BY <1>6, <1>8 DEF With, Without
  <1>10. /\ \A c \in DOMAIN slot[t] \ {a} : slot[t][c] # b
         /\ frame[t].records # b
    BY <1>1, <1>2, <1>7 DEF Separate
  <1> HIDE DEF b
  <1>11. Blocks(t)' = (Blocks(t) \ {b}) \cup {Fresh}
    <2>1. Blocks(t)' = ({slot'[t][c] : c \in DOMAIN slot[t]} \cup {frame[t].records})
                         \ {NULL, GARBAGE}
      BY <1>3, <1>4 DEF Blocks
    <2>2. {slot'[t][c] : c \in DOMAIN slot[t]}
            = {slot[t][c] : c \in DOMAIN slot[t] \ {a}} \cup {Fresh}
      <3> DEFINE old == {slot[t][c] : c \in DOMAIN slot[t] \ {a}}
                 new == {slot'[t][c] : c \in DOMAIN slot[t]}
      <3>1. \A c \in DOMAIN slot[t] \ {a} : slot[t][c] \in old /\ slot[t][c] \in new
        BY <1>4
      <3>2. \A c \in DOMAIN slot[t] : slot'[t][c] \in old \cup {Fresh}
        BY <1>4, <3>1
      <3>3. Fresh \in new
        BY <1>2, <1>4
      <3>4. QED
        BY <3>1, <3>2, <3>3, ZenonT(60)
    <2>3. {slot[t][c] : c \in DOMAIN slot[t] \ {a}} = {slot[t][c] : c \in DOMAIN slot[t]} \ {b}
      BY <1>2, <1>10 DEF b
    <2>4. QED
      BY <1>6, <1>10, <2>1, <2>2, <2>3 DEF Blocks
  <1>12. \A x \in Blocks(t) : x \in DOMAIN heap /\ heap[x] # "lost"
    BY <1>1 DEF Reachable
  <1>13. Footprint(t)
    <2>1. \A x \in DOMAIN heap \ Blocks(t) : x \in DOMAIN heap' /\ heap'[x] = heap[x]
      BY <1>8, <1>9
    <2>2. \A x \in DOMAIN heap' : x \in DOMAIN heap \/ heap'[x] = "lost" \/ x \in Blocks(t)'
      BY <1>9, <1>11
    <2>3. \A x \in Blocks(t)' : /\ x \in DOMAIN heap' /\ heap'[x] # "lost"
                                /\ x \in Blocks(t) \/ x \notin DOMAIN heap
      <3>1. ASSUME NEW x \in Blocks(t), x # b
            PROVE  x \in DOMAIN heap' /\ heap'[x] # "lost"
        BY <1>9, <1>12, <3>1
      <3>2. Fresh \in DOMAIN heap' /\ heap'[Fresh] # "lost"
        BY <1>8, <1>9
      <3>3. QED
        BY <1>6, <1>11, <3>1, <3>2
    <2>4. \A x \in Blocks(t) \ Blocks(t)' : x \notin DOMAIN heap'
      BY <1>8, <1>9, <1>11
    <2>5. QED
      BY <1>3, <2>1, <2>2, <2>3, <2>4, Zenon DEF Footprint
  <1>14. slot'[t] \in [Args(frame[t].format) -> Nat \cup {GARBAGE}]
    BY <1>1, <1>3, <1>5 DEF Typed
  <1>15. frame[t].records # NULL => OwnedNext(frame[t].records)
    BY <1>1, <1>9, <1>10 DEF Typed, Owned, OwnedNext
  <1>16. DOMAIN heap' \subseteq Nat \ {NULL}
    BY <1>1, <1>5, <1>6, <1>9 DEF Globals
  <1>17. \E m \in Nat : \A x \in DOMAIN heap' : x <= m
    <2>1. \A x \in DOMAIN heap' : x <= Fresh
      BY <1>5, <1>9
    <2>2. QED
      BY <1>5, <2>1
  <1>18. \A x \in DOMAIN heap' : heap'[x] \in {"libc", "mock", "lost"}
    BY <1>1, <1>9 DEF Globals
  <1>19. \A c \in DOMAIN slot[t] \ {a} :
            /\ slot'[t][c] = slot[t][c]
            /\ Owned(slot[t][c]) => OwnedNext(slot[t][c])
            /\ slot'[t][a] = slot[t][c] => slot'[t][a] = NULL
    <2>1. \A c \in DOMAIN slot[t] : slot[t][c] \in DOMAIN heap \cup {NULL, GARBAGE}
      BY <1>12 DEF Blocks
    <2> SUFFICES ASSUME NEW c \in DOMAIN slot[t] \ {a}
                 PROVE  /\ slot'[t][c] = slot[t][c]
                        /\ Owned(slot[t][c]) => OwnedNext(slot[t][c])
                        /\ slot'[t][a] = slot[t][c] => slot'[t][a] = NULL
      OBVIOUS
    <2>2. slot'[t][c] = slot[t][c]
      BY <1>4
    <2>3. Owned(slot[t][c]) => OwnedNext(slot[t][c])
      BY <1>6, <1>9, <1>10 DEF Owned, OwnedNext
    <2>4. slot'[t][a] = slot[t][c] => slot'[t][a] = NULL
      BY <1>4, <1>6, <2>1
    <2>5. QED
      BY <2>2, <2>3, <2>4
  <1>20. slot'[t][a] = frame[t].records => slot'[t][a] = NULL
    BY <1>1, <1>4, <1>6 DEF Typed, Owned
  <1>21. /\ slot'[t][a] # GARBAGE
         /\ slot'[t][a] = NULL \/ OwnedNext(slot'[t][a]) \/ a \in frame[t].kept
    BY <1>4, <1>6, <1>8, <1>9 DEF OwnedNext
  <1>22. frame[t].kept \in SUBSET Nat /\ frame[t].kept \subseteq frame[t].kept
    BY <1>1, FrameTypes DEF Typed
  <1>23. Settles(t, a, frame[t].kept)
    BY <1>3, <1>14, <1>15, <1>16, <1>17, <1>18, <1>19, <1>20, <1>21, Zenon DEF Settles
  <1>24. QED
    BY <1>13, <1>22, <1>23, OneRecord

LEMMA Rehome ==
    ASSUME Inv, NEW t \in Threads, ao_rehome_scanf_record(t)
    PROVE  Inv'
  <1> DEFINE f == frame[t]
             a == f.plan[f.i].slot
             next == [f EXCEPT !.i = @ + 1]
             kept == [next EXCEPT !.kept = f.kept \cup {a}]
  <1>1. pc[t] = "rehome" /\ More(f) /\ pc' = pc /\ UNCHANGED shared
    BY DEF ao_rehome_scanf_record
  <1>2. f \in Frames /\ f.kept \in SUBSET Nat
    BY FrameTypes DEF Inv, Call, Typed
  <1>3. f.kept \cup {a} \in SUBSET Nat
    BY <1>1, <1>2, NextRecord
  <1>4. Advanced(f, next, f.kept) /\ Advanced(f, kept, f.kept \cup {a})
    <2>1. next.kept = f.kept
      BY <1>2, FrameNext DEF Advanced
    <2>2. QED
      BY <1>2, <1>3, FrameNext
  <1>5. [next EXCEPT !.kept = @ \cup {a}] = kept
    <2>1. next.kept = f.kept
      BY <1>4 DEF Advanced
    <2> HIDE DEF next, f, a
    <2>2. QED
      BY <2>1
  <1>6. \/ /\ LeftAlone(slot[t][a]) /\ SetFrame(t, next) /\ slot' = slot /\ heap' = heap
        \/ /\ SetFrame(t, [next EXCEPT !.kept = @ \cup {a}]) /\ slot' = slot /\ heap' = heap
        \/ /\ ~LeftAlone(slot[t][a]) /\ SetFrame(t, next)
           /\ slot' = [slot EXCEPT ![t][a] = Fresh]
           /\ heap' = Without(With(heap, Fresh, "mock"), {slot[t][a]})
    BY Zenon DEF ao_rehome_scanf_record, StoreSlot
  <1> HIDE DEF next, kept
  <1>7. CASE LeftAlone(slot[t][a]) /\ SetFrame(t, next) /\ slot' = slot /\ heap' = heap
    BY <1>1, <1>2, <1>4, <1>7, LeavesBlock DEF SetFrame
  <1>8. CASE SetFrame(t, kept) /\ slot' = slot /\ heap' = heap
    <2>1. frame' = [frame EXCEPT ![t] = kept] /\ slot' = slot /\ heap' = heap
      BY <1>8 DEF SetFrame
    <2>2. a \in f.kept \cup {a} /\ f.kept \subseteq f.kept \cup {a}
      OBVIOUS
    <2>3. QED
      BY <1>1, <1>3, <1>4, <2>1, <2>2, LeavesBlock
  <1>9. CASE /\ ~LeftAlone(slot[t][a]) /\ SetFrame(t, next)
             /\ slot' = [slot EXCEPT ![t][a] = Fresh]
             /\ heap' = Without(With(heap, Fresh, "mock"), {slot[t][a]})
    <2>1. frame' = [frame EXCEPT ![t] = next]
      BY <1>9 DEF SetFrame
    <2>2. QED
      BY <1>1, <1>4, <1>9, <2>1, MovesBlock
  <1>10. QED
    BY <1>5, <1>6, <1>7, <1>8, <1>9

LEMMA Reset ==
    ASSUME Inv, NEW t \in Threads, ao_scanf_plan_reset(t)
    PROVE  Inv'
  <1> DEFINE f == frame[t]
             h == [f EXCEPT !.plan = <<>>, !.records = NULL]
  <1>1. Globals /\ Once /\ Reachable /\ Typed(t) /\ Staged(t) /\ Separate(t) /\ Pending(t)
    BY DEF Inv, Call
  <1>2. /\ pc[t] = "rehome" /\ ~More(f) /\ pc' = [pc EXCEPT ![t] = "idle"]
        /\ heap' = Without(heap, {f.records}) /\ frame' = [frame EXCEPT ![t] = h]
        /\ slot' = slot /\ g_ao_scanf_once' = g_ao_scanf_once /\ g_real' = g_real
        /\ g_bridge_ready' = g_bridge_ready
    BY DEF ao_scanf_plan_reset, Released, ResetPlan, SetFrame, Goto, shared
  <1>3. /\ h \in Frames /\ h.records = NULL /\ h.format = f.format /\ h.ret = f.ret
        /\ h.i = f.i /\ h.parse_ok = f.parse_ok /\ h.kept = f.kept
    <2> DEFINE D == Seq(Directives)
               P == Seq(Records)
               K == SUBSET Nat
    <2>1. Frames = [real_fn : BOOLEAN, format : D, wide : BOOLEAN, plan : P, records : Nat,
                    parse_ok : BOOLEAN, ret : Int, i : Nat, kept : K]
      BY Zenon DEF Frames, D, P, K
    <2>2. <<>> \in P /\ f \in Frames
      BY <1>1 DEF Typed
    <2> HIDE DEF D, P, K, f
    <2>3. QED
      BY <2>1, <2>2 DEF NULL
  <1> HIDE DEF h
  <1>4. /\ pc'[t] = "idle" /\ frame'[t] = h /\ DOMAIN frame' = Threads
        /\ \A u \in Threads \ {t} : pc'[u] = pc[u] /\ frame'[u] = frame[u]
    BY <1>1, <1>2 DEF Globals
  <1>5. /\ DOMAIN heap' = DOMAIN heap \ {f.records}
        /\ \A b \in DOMAIN heap' : heap'[b] = heap[b]
    BY <1>2 DEF Without
  <1>6. \A a \in DOMAIN slot[t] : slot[t][a] = f.records => slot[t][a] = NULL
    BY <1>1 DEF Separate
  <1>7. f.records \in Nat
    BY <1>1, FrameTypes DEF Typed
  <1>8. Blocks(t)' = Blocks(t) \ {f.records}
    <2>1. Blocks(t)' = {slot[t][a] : a \in DOMAIN slot[t]} \ {NULL, GARBAGE}
      BY <1>2, <1>3, <1>4 DEF Blocks
    <2>2. QED
      BY <1>6, <2>1 DEF Blocks
  <1>9. f.records = NULL \/ f.records \in Blocks(t)
    BY <1>7 DEF Blocks, GARBAGE
  <1>10. NULL \notin DOMAIN heap
    BY <1>1 DEF Globals
  <1>11. \A b \in Blocks(t) : b \in DOMAIN heap /\ heap[b] # "lost"
    BY <1>1 DEF Reachable
  <1>12. Footprint(t)
    BY <1>2, <1>4, <1>5, <1>8, <1>9, <1>10, <1>11 DEF Footprint
  <1>13. Globals'
    <2>1. DOMAIN heap' \subseteq Nat \ {NULL} /\ \E m \in Nat : \A b \in DOMAIN heap' : b <= m
      BY <1>1, <1>5 DEF Globals
    <2>2. \A b \in DOMAIN heap' : heap'[b] \in {"libc", "mock", "lost"}
      BY <1>1, <1>5 DEF Globals
    <2>3. QED
      BY <1>1, <1>2, <1>4, <2>1, <2>2 DEF Globals
  <1>14. Once'
    <2>1. \A u \in Threads : frame'[u].ret = frame[u].ret
      BY <1>3, <1>4
    <2>2. QED
      BY <1>1, <1>2, <1>4, <2>1 DEF Once, Resolving
  <1>15. Typed(t)'
    BY <1>1, <1>2, <1>3, <1>4 DEF Typed
  <1>16. Staged(t)'
    BY <1>3, <1>4 DEF Staged, Resolving
  <1>17. Separate(t)'
    BY <1>1, <1>2, <1>3, <1>4 DEF Separate
  <1>18. Pending(t)'
    <2> SUFFICES ASSUME Used(t), NEW a \in DOMAIN slot[t] PROVE Settled(t, a)'
      BY <1>2, <1>3, <1>4 DEF Pending, Used
    <2>1. Settled(t, a) \/ Ahead(t, a)
      BY <1>1, <1>2 DEF Pending
    <2>2. ~Ahead(t, a)
      <3> SUFFICES ASSUME NEW k \in DOMAIN f.plan, k >= f.i, f.plan[k].ordinal <= f.ret
                   PROVE  FALSE
        BY DEF Ahead
      <3>1. /\ f.plan \in Seq(Records)
            /\ \A j \in DOMAIN f.plan : j \in Nat /\ j >= 1 /\ f.plan[j].ordinal \in Nat
            /\ \A j, l \in DOMAIN f.plan : j <= l => f.plan[j].ordinal <= f.plan[l].ordinal
        BY <1>2, PlanSlots DEF Used
      <3>2. Len(f.plan) \in Nat /\ DOMAIN f.plan = 1 .. Len(f.plan)
        BY <3>1
      <3>3. f.i \in Nat /\ f.i >= 1 /\ f.ret \in Int
        <4>1. f \in Frames /\ f.i \in 1 .. Len(f.format) + 1
          BY <1>1 DEF Typed
        <4>2. f.i \in Nat /\ f.ret \in Int
          BY <4>1, FrameTypes
        <4>3. QED
          BY <4>1, <4>2
      <3>4. f.i <= Len(f.plan) /\ f.i \in DOMAIN f.plan /\ f.i <= k
        BY <3>2, <3>3
      <3>5. f.plan[f.i].ordinal <= f.plan[k].ordinal
        BY <3>1, <3>4
      <3>6. f.plan[f.i].ordinal \in Nat /\ f.plan[k].ordinal \in Nat
        BY <3>1, <3>4
      <3>7. f.plan[f.i].ordinal <= f.ret
        BY <3>3, <3>5, <3>6
      <3>8. QED
        BY <1>2, <3>4, <3>7 DEF More, Used
    <2>3. slot[t][a] # f.records \/ slot[t][a] = NULL
      BY <1>6
    <2>4. QED
      BY <1>2, <1>3, <1>4, <1>5, <2>1, <2>2, <2>3 DEF Settled, Owned
  <1>19. QED
    BY <1>2, <1>12, <1>13, <1>14, <1>15, <1>16, <1>17, <1>18, Combine DEF Call

-----------------------------------------------------------------------------
(* The theorems.                                                           *)

LEMMA InitInv == Init => Inv
  <1> SUFFICES ASSUME Init PROVE Inv
    OBVIOUS
  <1>1. Globals
    BY DEF Init, Globals, NULL
  <1>2. /\ pc = [t \in Threads |-> "idle"] /\ frame = [t \in Threads |-> NoFrame]
        /\ \A t \in Threads : DOMAIN slot[t] = {} /\ slot[t] = [a \in {} |-> NULL]
        /\ DOMAIN heap = {}
    BY DEF Init
  <1>3. /\ NoFrame.ret = 0 /\ NoFrame.i = 1 /\ NoFrame.records = NULL
        /\ NoFrame.format = <<>> /\ ~NoFrame.parse_ok
    BY DEF NoFrame
  <1>4. NoFrame \in Frames
    BY FrameTypes
  <1>5. \A t \in Threads : pc[t] = "idle" /\ frame[t] = NoFrame
    BY <1>2
  <1>6. \A t \in Threads : Blocks(t) = {}
    BY <1>2, <1>3, <1>5 DEF Blocks
  <1>7. Reachable
    BY <1>2, <1>6 DEF Reachable
  <1>8. Once
    BY <1>3, <1>5 DEF Once, Resolving
  <1>9. ASSUME NEW t \in Threads PROVE Call(t)
    <2>1. Args(<<>>) = {}
      BY DEF Args
    <2>2. slot[t] \in [Args(frame[t].format) -> Nat \cup {GARBAGE}]
      BY <1>2, <1>3, <1>5, <2>1
    <2>3. 1 \in 1 .. Len(<<>>) + 1
      OBVIOUS
    <2>4. Typed(t)
      BY <1>3, <1>4, <1>5, <2>2, <2>3 DEF Typed
    <2>5. Staged(t)
      BY <1>3, <1>5 DEF Staged, Resolving
    <2>6. Separate(t) /\ Pending(t)
      BY <1>2, <1>3, <1>5 DEF Separate, Pending, Used
    <2>7. QED
      BY <2>4, <2>5, <2>6 DEF Call
  <1>10. QED
    BY <1>1, <1>7, <1>8, <1>9 DEF Inv

LEMMA NextInv == Inv /\ [Next]_vars => Inv'
  <1> SUFFICES ASSUME Inv, [Next]_vars PROVE Inv'
    OBVIOUS
  <1>1. CASE UNCHANGED vars
    <2>1. /\ g_ao_scanf_once' = g_ao_scanf_once /\ g_real' = g_real
          /\ g_bridge_ready' = g_bridge_ready /\ pc' = pc /\ frame' = frame
          /\ slot' = slot /\ heap' = heap
      BY <1>1 DEF vars, shared
    <2>2. Globals' /\ Once'
      BY <2>1 DEF Inv, Globals, Once
    <2>3. \A t \in Threads : Blocks(t)' = Blocks(t)
      BY <2>1 DEF Blocks
    <2>4. Reachable'
      BY <2>1, <2>3 DEF Inv, Reachable
    <2>5. ASSUME NEW t \in Threads PROVE Call(t)'
      <3>1. Typed(t) /\ Staged(t) /\ Separate(t) /\ Pending(t)
        BY DEF Inv, Call
      <3>2. Typed(t)' /\ Staged(t)' /\ Separate(t)'
        BY <2>1, <3>1 DEF Typed, Owned, Staged, Separate
      <3>3. Pending(t)'
        BY <2>1, <3>1 DEF Pending, Used, Stored, Settled, Ahead, Owned
      <3>4. QED
        BY <3>2, <3>3 DEF Call
    <2>6. QED
      BY <2>2, <2>4, <2>5 DEF Inv
  <1>2. ASSUME NEW t \in Threads, real_fn(t) PROVE Inv'
    <2>1. pc[t] = "scan" /\ Goto(t, "rehome") /\ UNCHANGED <<shared, symbols, calls>>
      BY <1>2 DEF real_fn
    <2>2. PICK n \in 0 .. Len(frame[t].format) :
             \/ \E who \in {"libc", "mock"} : scan_matches(t, n, who)
             \/ scan_fails(t, n)
      BY <1>2 DEF real_fn
    <2>3. CASE scan_fails(t, n)
      BY <2>1, <2>3, ScanFails
    <2>4. ASSUME NEW who \in {"libc", "mock"}, scan_matches(t, n, who) PROVE Inv'
      BY <2>1, <2>4, ScanMatches
    <2>5. QED
      BY <2>2, <2>3, <2>4
  <1>3. ASSUME NEW t \in Threads,
               \/ \E e \in {"plain", "isoc99"}, format \in Formats, wide \in BOOLEAN :
                     enter(t, e, format, wide)
               \/ ao_ensure_scanf_symbols(t) \/ resolve_plain(t) \/ resolve_isoc99(t)
               \/ resolve_bridge(t) \/ return_enosys(t)
               \/ ao_wrap_common(t) \/ ao_rehome_scanf_record(t) \/ ao_scanf_plan_reset(t)
        PROVE  Inv'
    BY <1>3, Enter, Resolves, Wrap, Rehome, Reset
  <1>4. CASE Next
    BY <1>2, <1>3, <1>4 DEF Next
  <1>5. QED
    BY <1>1, <1>4

\* The inductive invariant of the scanf wrappers.
THEOREM Invariance == Spec => []Inv
  BY InitInv, NextInv, PTL DEF Spec

\* The rehoming loop: it runs only when the plan is used, and stays within it.
InLoop(t) ==
    /\ frame[t].i > 1 => Used(t)
    /\ pc[t] # "idle" => frame[t].i <= Len(frame[t].plan) + 1

\* What a step has to keep of the loop, when its thread has frame g afterwards.
LEMMA LoopKept ==
    ASSUME Inv, \A u \in Threads : InLoop(u), NEW t \in Threads,
           \A u \in Threads \ {t} : pc'[u] = pc[u] /\ frame'[u] = frame[u],
           g_ao_scanf_once = "done" => g_bridge_ready' = g_bridge_ready,
           InLoop(t)'
    PROVE  \A u \in Threads : InLoop(u)'
  <1> SUFFICES ASSUME NEW u \in Threads \ {t} PROVE InLoop(u)'
    OBVIOUS
  <1>1. InLoop(u) /\ (frame[u].ret > 0 => g_ao_scanf_once = "done")
    BY DEF Inv, Once
  <1>2. QED
    BY <1>1 DEF InLoop, Used

LEMMA LoopStep ==
    ASSUME Inv, \A u \in Threads : InLoop(u), Next
    PROVE  \A u \in Threads : InLoop(u)'
  <1>1. PICK t \in Threads :
          \/ \E e \in {"plain", "isoc99"}, format \in Formats, wide \in BOOLEAN :
                enter(t, e, format, wide)
          \/ ao_ensure_scanf_symbols(t) \/ resolve_plain(t) \/ resolve_isoc99(t)
          \/ resolve_bridge(t) \/ ao_wrap_common(t) \/ real_fn(t)
          \/ ao_rehome_scanf_record(t) \/ ao_scanf_plan_reset(t) \/ return_enosys(t)
    BY DEF Next
  <1> DEFINE f == frame[t]
  <1>2. Globals /\ Once /\ Typed(t) /\ Staged(t) /\ InLoop(t)
    BY DEF Inv, Call
  <1>3. f \in Frames /\ f.i \in Nat /\ Len(f.plan) \in Nat
    BY <1>2, FrameTypes DEF Typed
  <1>4. f.i = 1 => f.i <= Len(f.plan) + 1
    BY <1>3
  <1>5. ASSUME NEW e \in {"plain", "isoc99"}, NEW format \in Formats,
               NEW wide \in BOOLEAN, enter(t, e, format, wide)
        PROVE  \A u \in Threads : InLoop(u)'
    <2>1. /\ pc' = [pc EXCEPT ![t] = "ensure"] /\ g_bridge_ready' = g_bridge_ready
          /\ frame' = [frame EXCEPT ![t] = [NoFrame EXCEPT !.real_fn = (e \in g_real),
                                              !.format = format, !.wide = wide]]
      BY <1>5 DEF enter, Goto, SetFrame, shared
    <2>2. frame'[t].i = 1 /\ frame'[t].plan = <<>>
      BY <1>2, <2>1 DEF Globals, NoFrame
    <2>3. InLoop(t)'
      BY <2>2 DEF InLoop
    <2>4. \A u \in Threads \ {t} : pc'[u] = pc[u] /\ frame'[u] = frame[u]
      BY <1>2, <2>1 DEF Globals
    <2>5. QED
      BY <2>1, <2>3, <2>4, LoopKept
  <1>6. CASE \/ ao_ensure_scanf_symbols(t) \/ resolve_plain(t) \/ resolve_isoc99(t)
             \/ resolve_bridge(t) \/ return_enosys(t)
    <2>1. /\ frame' = frame /\ \E l : pc' = [pc EXCEPT ![t] = l]
          /\ pc[t] \in Resolving \cup {"ensure", "enosys"}
          /\ g_bridge_ready' = g_bridge_ready \/ pc[t] \in Resolving
      BY <1>6, Zenon DEF ao_ensure_scanf_symbols, resolve_plain, resolve_isoc99,
         resolve_bridge, return_enosys, Goto, shared, Resolving
    <2>2. f.i = 1
      <3>1. pc[t] = "enosys" => f.ret = -1
        BY <1>2 DEF Staged
      <3>2. pc[t] = "enosys" => ~(f.i > 1)
        BY <1>2, <3>1 DEF InLoop, Used
      <3>3. f.i >= 1
        BY <1>2, <1>3 DEF Typed
      <3>4. QED
        BY <1>2, <1>3, <2>1, <3>2, <3>3 DEF Staged
    <2>3. InLoop(t)'
      BY <1>4, <2>1, <2>2 DEF InLoop
    <2>4. \A u \in Threads \ {t} : pc'[u] = pc[u] /\ frame'[u] = frame[u]
      BY <1>2, <2>1 DEF Globals
    <2>5. g_ao_scanf_once = "done" => g_bridge_ready' = g_bridge_ready
      BY <1>2, <2>1 DEF Once
    <2>6. QED
      BY <2>3, <2>4, <2>5, LoopKept
  <1>7. CASE ao_wrap_common(t)
    <2>1. /\ pc[t] = "wrap" /\ g_bridge_ready' = g_bridge_ready
          /\ \E l : pc' = [pc EXCEPT ![t] = l]
          /\ \E g : frame' = [frame EXCEPT ![t] = g]
      BY <1>7, Zenon DEF ao_wrap_common, Goto, SetFrame, shared
    <2>2. \A u \in Threads \ {t} : pc'[u] = pc[u] /\ frame'[u] = frame[u]
      BY <1>2, <2>1 DEF Globals
    <2>3. Inv'
      BY <1>7, Wrap
    <2>4. frame'[t].i = 1
      <3>1. pc'[t] \in {"scan", "enosys"}
        BY <1>2, <1>7 DEF ao_wrap_common, Goto, Globals
      <3>2. pc'[t] = "scan" => frame'[t].i = 1
        BY <2>3 DEF Inv, Call, Staged
      <3>3. pc'[t] = "enosys" => frame' = [frame EXCEPT ![t] = [f EXCEPT !.ret = -1]]
        BY <1>2, <1>7 DEF ao_wrap_common, Goto, Globals, SetFrame
      <3>4. f.i = 1
        BY <1>2, <2>1 DEF Staged
      <3>5. QED
        BY <1>2, <1>3, <3>1, <3>2, <3>3, <3>4 DEF Globals, Frames
    <2>5. Len(frame'[t].plan) \in Nat
      <3>1. frame'[t] \in Frames
        BY <2>3 DEF Inv, Call, Typed
      <3>2. QED
        BY <3>1 DEF Frames
    <2>6. InLoop(t)'
      BY <2>4, <2>5 DEF InLoop
    <2>7. QED
      BY <2>1, <2>2, <2>6, LoopKept
  <1>8. CASE real_fn(t)
    <2>1. /\ pc[t] = "scan" /\ g_bridge_ready' = g_bridge_ready
          /\ \E l : pc' = [pc EXCEPT ![t] = l]
      BY <1>8, Zenon DEF real_fn, Goto, shared
    <2>2. PICK r : frame' = [frame EXCEPT ![t] = [f EXCEPT !.ret = r]]
      BY <1>8, Zenon DEF real_fn, scan_matches, scan_fails, SetFrame
    <2>3. frame'[t].i = f.i /\ frame'[t].plan = f.plan
      BY <1>2, <1>3, <2>2 DEF Globals, Frames
    <2>4. f.i = 1
      BY <1>2, <2>1 DEF Staged
    <2>5. InLoop(t)'
      BY <1>4, <2>3, <2>4 DEF InLoop
    <2>6. \A u \in Threads \ {t} : pc'[u] = pc[u] /\ frame'[u] = frame[u]
      BY <1>2, <2>1, <2>2 DEF Globals
    <2>7. QED
      BY <2>1, <2>5, <2>6, LoopKept
  <1>9. CASE ao_rehome_scanf_record(t)
    <2>1. /\ More(f) /\ g_bridge_ready' = g_bridge_ready /\ pc' = pc
      BY <1>9, Zenon DEF ao_rehome_scanf_record, shared
    <2>2. PICK K : frame' = [frame EXCEPT ![t] = [[f EXCEPT !.i = @ + 1] EXCEPT !.kept = K]]
      <3>1. \/ frame' = [frame EXCEPT ![t] = [f EXCEPT !.i = @ + 1]]
            \/ frame' = [frame EXCEPT ![t] = [[f EXCEPT !.i = @ + 1]
                           EXCEPT !.kept = @ \cup {f.plan[f.i].slot}]]
        BY <1>9, Zenon DEF ao_rehome_scanf_record, SetFrame
      <3>2. [f EXCEPT !.i = @ + 1] = [[f EXCEPT !.i = @ + 1] EXCEPT !.kept = f.kept]
        BY <1>3 DEF Frames
      <3>3. QED
        BY <3>1, <3>2, Zenon
    <2>3. /\ frame'[t].i = f.i + 1 /\ frame'[t].plan = f.plan
          /\ frame'[t].ret = f.ret /\ frame'[t].parse_ok = f.parse_ok
      BY <1>2, <1>3, <2>2 DEF Globals, Frames
    <2>4. InLoop(t)'
      BY <1>3, <2>1, <2>3 DEF InLoop, More, Used
    <2>5. \A u \in Threads \ {t} : pc'[u] = pc[u] /\ frame'[u] = frame[u]
      BY <1>2, <2>1, <2>2 DEF Globals
    <2>6. QED
      BY <2>1, <2>4, <2>5, LoopKept
  <1>10. CASE ao_scanf_plan_reset(t)
    <2>1. /\ pc' = [pc EXCEPT ![t] = "idle"] /\ g_bridge_ready' = g_bridge_ready
          /\ frame' = [frame EXCEPT ![t] = [f EXCEPT !.plan = <<>>, !.records = NULL]]
      BY <1>10 DEF ao_scanf_plan_reset, Goto, SetFrame, ResetPlan, shared
    <2>2. /\ pc'[t] = "idle" /\ frame'[t].i = f.i /\ frame'[t].ret = f.ret
          /\ frame'[t].parse_ok = f.parse_ok
      BY <1>2, <1>3, <2>1 DEF Globals, Frames
    <2>3. InLoop(t)'
      BY <1>2, <2>1, <2>2 DEF InLoop, Used
    <2>4. \A u \in Threads \ {t} : pc'[u] = pc[u] /\ frame'[u] = frame[u]
      BY <1>2, <2>1 DEF Globals
    <2>5. QED
      BY <2>1, <2>3, <2>4, LoopKept
  <1>11. QED
    BY <1>1, <1>5, <1>6, <1>7, <1>8, <1>9, <1>10

\* The state of the wrappers keeps its shape, the rehoming loop stays within the
\* plan and runs only on one parsed to its end, with the bridge there and a
\* conversion made, and a plan that has records has a live block of the preloaded
\* allocator to hold them (scanf_overrides.c).
THEOREM TypeCorrect == Spec => []TypeOK
  <1> DEFINE Loops == \A t \in Threads : InLoop(t)
  <1>1. Init => Loops
    BY DEF Init, InLoop, NoFrame
  <1>2. Inv /\ Loops /\ [Next]_vars => Loops'
    <2> SUFFICES ASSUME Inv, Loops, [Next]_vars PROVE Loops'
      OBVIOUS
    <2>1. CASE Next
      BY <2>1, LoopStep
    <2>2. CASE UNCHANGED vars
      BY <2>2 DEF vars, shared, InLoop, Used
    <2>3. QED
      BY <2>1, <2>2
  <1>3. Inv /\ Loops => TypeOK
    <2> SUFFICES ASSUME Inv, Loops PROVE TypeOK
      OBVIOUS
    <2>1. ASSUME NEW t \in Threads
          PROVE  /\ frame[t].i \in Nat \ {0}
                 /\ frame[t].records # NULL => Owned(frame[t].records)
      <3>1. Typed(t)
        BY DEF Inv, Call
      <3>2. frame[t].i \in Nat
        BY <3>1, FrameTypes DEF Typed
      <3>3. QED
        BY <3>1, <3>2 DEF Typed
    <2>2. QED
      BY <2>1 DEF Inv, Globals, TypeOK, InLoop, Used
  <1> HIDE DEF Loops
  <1>4. QED
    BY <1>1, <1>2, <1>3, Invariance, PTL DEF Spec

\* Whatever the format suppresses, escapes or counts with %n, the rehoming loop
\* reads no argument that libc has not stored through.
THEOREM OnlyAssignedIsRead == Spec => []RehomesOnlyAssigned
  <1>1. Inv => RehomesOnlyAssigned
    <2> SUFFICES ASSUME Inv, NEW t \in Threads, pc[t] = "rehome", More(frame[t])
                 PROVE  slot[t][frame[t].plan[frame[t].i].slot] # GARBAGE
      BY DEF RehomesOnlyAssigned
    <2>1. slot[t][frame[t].plan[frame[t].i].slot] \in Nat
      BY NextRecord
    <2>2. QED
      BY <2>1 DEF GARBAGE
  <1>2. QED
    BY <1>1, Invariance, PTL

\* No argument of a caller points at a block that rehoming has released, however
\* many threads scan and however many records share an argument.
THEOREM ArgumentsAreLive == Spec => []SlotsLive
  <1>1. Inv => SlotsLive
    BY DEF Inv, Reachable, Blocks, SlotsLive
  <1>2. QED
    BY <1>1, Invariance, PTL

\* Between calls no plan and no original is left behind on any path: every live
\* block is a caller's, or one that libc itself has lost.
THEOREM NoLeaks == Spec => []NothingLeaks
  <1>1. Inv => NothingLeaks
    <2> SUFFICES ASSUME Inv, \A t \in Threads : pc[t] = "idle", NEW b \in DOMAIN heap,
                        heap[b] # "lost"
                 PROVE  \E t \in Threads : \E a \in DOMAIN slot[t] : slot[t][a] = b
      BY DEF NothingLeaks
    <2>1. PICK t \in Threads : b \in Blocks(t)
      BY DEF Inv, Reachable
    <2>2. frame[t].records = NULL
      BY DEF Inv, Call, Staged
    <2>3. QED
      BY <2>1, <2>2 DEF Blocks
  <1>2. QED
    BY <1>1, Invariance, PTL

\* After a call that returned a positive count and had its plan and the bridge,
\* every %m result is the preloaded allocator's, except those that were kept:
\* wide %mc, and clones that could not be allocated.
THEOREM ResultsAreRehomed == Spec => []ResultsRehomed
  <1>1. Inv => ResultsRehomed
    <2> SUFFICES ASSUME Inv PROVE ResultsRehomed
      OBVIOUS
    <2>1. \A t \in Threads : pc[t] = "idle" /\ Used(t) =>
             \A a \in DOMAIN slot[t] : Settled(t, a)
      BY DEF Inv, Call, Pending
    <2>2. QED
      BY <2>1, Zenon DEF ResultsRehomed, Used, Settled
  <1>2. QED
    BY <1>1, Invariance, PTL

\* While it rehomes, a thread gives to libc's free only blocks of libc: never a
\* block of the preloaded allocator, which would stay in the registry.
THEOREM OnlyLibcIsReleased == Spec => OnlyLibcGoesToLibc
  <1> DEFINE A == \A t \in Threads :
                    pc[t] = "rehome" /\ pc'[t] = "rehome" /\ frame'[t] # frame[t] =>
                       \A b \in DOMAIN heap \ DOMAIN heap' : heap[b] = "libc"
  <1>1. Inv /\ [Next]_vars => [A]_vars
    <2> SUFFICES ASSUME Inv, Next, NEW t \in Threads, pc[t] = "rehome", pc'[t] = "rehome",
                        frame'[t] # frame[t], NEW b \in DOMAIN heap \ DOMAIN heap'
                 PROVE  heap[b] = "libc"
      OBVIOUS
    <2>1. Globals /\ Reachable /\ Call(t)
      BY DEF Inv
    <2>2. ao_rehome_scanf_record(t)
      <3>1. PICK u \in Threads :
              \/ \E e \in {"plain", "isoc99"}, format \in Formats, wide \in BOOLEAN :
                    enter(u, e, format, wide)
              \/ ao_ensure_scanf_symbols(u) \/ resolve_plain(u) \/ resolve_isoc99(u)
              \/ resolve_bridge(u) \/ ao_wrap_common(u) \/ real_fn(u)
              \/ ao_rehome_scanf_record(u) \/ ao_scanf_plan_reset(u) \/ return_enosys(u)
        BY DEF Next
      <3>2. u = t
        <4>1. frame' = frame \/ \E g : frame' = [frame EXCEPT ![u] = g]
          BY <3>1, Zenon DEF enter, ao_ensure_scanf_symbols, resolve_plain, resolve_isoc99,
             resolve_bridge, ao_wrap_common, real_fn, scan_matches, scan_fails,
             ao_rehome_scanf_record, ao_scanf_plan_reset, return_enosys, SetFrame
        <4>2. QED
          BY <2>1, <4>1 DEF Globals
      <3>3. ~ao_scanf_plan_reset(t)
        BY <2>1 DEF ao_scanf_plan_reset, Goto, Globals
      <3>4. QED
        BY <3>1, <3>2, <3>3 DEF enter, ao_ensure_scanf_symbols, resolve_plain,
           resolve_isoc99, resolve_bridge, ao_wrap_common, real_fn, return_enosys
    <2> DEFINE original == slot[t][frame[t].plan[frame[t].i].slot]
    <2>3. \/ heap' = heap
          \/ ~LeftAlone(original) /\ heap' = Without(With(heap, Fresh, "mock"), {original})
      BY <2>2, Zenon DEF ao_rehome_scanf_record
    <2>4. original \in Nat /\ frame[t].plan[frame[t].i].slot \in DOMAIN slot[t]
      BY <2>2, NextRecord DEF ao_rehome_scanf_record
    <2>5. ~LeftAlone(original) => original \in Blocks(t) /\ ~Owned(original)
      <3>1. original \in {slot[t][a] : a \in DOMAIN slot[t]}
        BY <2>4
      <3> HIDE DEF original
      <3>2. original # GARBAGE
        BY <2>4 DEF GARBAGE
      <3>3. ~LeftAlone(original) => original # NULL /\ ~Owned(original)
        BY DEF LeftAlone
      <3>4. QED
        BY <3>1, <3>2, <3>3 DEF Blocks
    <2> HIDE DEF original
    <2>6. ~LeftAlone(original) /\ b = original
      BY <2>3 DEF With, Without
    <2>7. heap[b] # "lost" /\ heap[b] # "mock"
      BY <2>1, <2>5, <2>6 DEF Reachable, Owned
    <2>8. QED
      BY <2>1, <2>7 DEF Globals
  <1>2. QED
    BY <1>1, Invariance, PTL DEF Spec, OnlyLibcGoesToLibc

=============================================================================
