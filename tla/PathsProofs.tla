----------------------------- MODULE PathsProofs -----------------------------
(***************************************************************************)
(* realpath's two buffers and what it returns (module Paths), for every    *)
(* path, every PATH_MAX and whatever the kernel answers: readlink's answer *)
(* may be any text or error, and another one each time. At the end, the    *)
(* sizes that the stateless overrides compute (module Copies).             *)
(***************************************************************************)
EXTENDS Paths, Copies, FiniteSetTheorems, SequenceTheorems, WellFoundedInduction, TLAPS

\* output has r slashes of a root, then components with a slash between them:
\* first k times "..", then names.
Shape(t, r, k) ==
    /\ r \in 0 .. 2 /\ k \in Nat
    /\ k > 0 => r = 0
    /\ Len(t) = r \/ (Len(t) > r /\ (Len(t) - r) % 2 = 1)
    /\ Len(t) >= 2 * k - 1
    /\ \A i \in 1 .. Len(t) :
          IF i <= r \/ (i - r) % 2 = 0 THEN t[i] = "/"
          ELSE IF i < 2 * k THEN t[i] = ".." ELSE t[i] \notin {"/", ".", ".."}

Ranges ==
    /\ fs \in FileSystems /\ cwd \in Locations /\ call \in Calls
    /\ rest \in Texts /\ output \in Texts
    /\ pc \in {"call", "loop", "try", "over"}
    /\ check_dir \in BOOLEAN /\ loop_count \in 0 .. SymloopMax - 1 /\ attempt \in 0 .. MaxTries

\* The stack, and output with its terminator.
Room == Size(rest) < PathMax /\ Size(output) < PathMax

\* Every ".." of output is pending.
Pending ==
    /\ \E r \in 0 .. 2 : Shape(output, r, pending_up)
    /\ Size(output) = Len(output) + pending_up

\* Only tempnam tries names.
Trying == pc = "try" => call.op = "tempnam"

Inv == Ranges /\ Room /\ Pending /\ Trying /\ Canonical

-----------------------------------------------------------------------------
(* Texts and their sizes.                                                  *)

Tokens == Names \cup {".", "..", "/"}

LEMMA TextsAreTokens == Texts = Seq(Tokens)
  BY DEF Texts, Tokens

Ups(t) == {i \in DOMAIN t : t[i] = ".."}

LEMMA SizeType ==
    ASSUME NEW t \in Texts
    PROVE  /\ IsFiniteSet(Ups(t)) /\ Cardinality(Ups(t)) \in Nat
           /\ Size(t) = Len(t) + Cardinality(Ups(t)) /\ Size(t) \in Nat
  <1>1. Len(t) \in Nat /\ Ups(t) \in SUBSET (1 .. Len(t))
    BY DEF Texts, Tokens, Ups
  <1>2. IsFiniteSet(1 .. Len(t))
    BY <1>1, FS_Interval
  <1>3. IsFiniteSet(Ups(t)) /\ Cardinality(Ups(t)) \in Nat
    BY <1>1, <1>2, FS_Subset, FS_CardinalityType
  <1> QED
    BY <1>1, <1>3 DEF Size, Ups

\* strlen adds up.
LEMMA SizeConcat ==
    ASSUME NEW s \in Texts, NEW t \in Texts
    PROVE  s \o t \in Texts /\ Size(s \o t) = Size(s) + Size(t)
  <1> DEFINE n  == Len(s)
             st == s \o t
             moved == {i \in (n + 1) .. (n + Len(t)) : st[i] = ".."}
             f  == [i \in Ups(t) |-> i + n]
  <1>1. /\ n \in Nat /\ Len(t) \in Nat /\ st \in Texts /\ Len(st) = n + Len(t)
        /\ DOMAIN st = 1 .. n + Len(t) /\ DOMAIN s = 1 .. n /\ DOMAIN t = 1 .. Len(t)
    BY DEF Texts, Tokens
  <1>2. /\ \A i \in 1 .. n : st[i] = s[i]
        /\ \A i \in 1 .. Len(t) : st[i + n] = t[i]
    BY DEF Texts, Tokens
  <1> HIDE DEF st
  <1>3. Ups(st) = Ups(s) \cup moved /\ Ups(s) \cap moved = {}
    BY <1>1, <1>2 DEF Ups
  <1>4. f \in Bijection(Ups(t), moved)
    <2>1. \A i \in Ups(t) : i \in 1 .. Len(t) /\ f[i] = i + n /\ f[i] \in moved
      BY <1>1, <1>2 DEF Ups
    <2>2. f \in [Ups(t) -> moved]
      BY <2>1
    <2>3. \A a, b \in Ups(t) : f[a] = f[b] => a = b
      BY <1>1, <2>1
    <2>4. \A j \in moved : j - n \in Ups(t) /\ f[j - n] = j
      BY <1>1, <1>2 DEF Ups
    <2> HIDE DEF f, moved
    <2> QED
      BY <2>2, <2>3, <2>4 DEF Bijection, Injection, Surjection, IsInjective
  <1>5. /\ IsFiniteSet(Ups(s)) /\ IsFiniteSet(Ups(t))
        /\ Cardinality(Ups(s)) \in Nat /\ Cardinality(Ups(t)) \in Nat
        /\ Size(s) = n + Cardinality(Ups(s)) /\ Size(t) = Len(t) + Cardinality(Ups(t))
        /\ Size(st) = Len(st) + Cardinality(Ups(st))
    BY <1>1, SizeType
  <1>6. IsFiniteSet(moved) /\ Cardinality(moved) = Cardinality(Ups(t))
    <2>1. ExistsBijection(Ups(t), moved)
      BY <1>4 DEF ExistsBijection
    <2> QED
      BY <1>5, <2>1, FS_Bijection
  <1> HIDE DEF moved, f, n
  <1>7. Cardinality(Ups(st)) = Cardinality(Ups(s)) + Cardinality(moved) - Cardinality({})
    BY <1>3, <1>5, <1>6, FS_Union
  <1>8. Cardinality({}) = 0
    BY FS_EmptySet
  <1>9. Size(st) = Size(s) + Size(t)
    BY <1>1, <1>5, <1>6, <1>7, <1>8
  <1> QED
    BY <1>1, <1>9 DEF st

LEMMA OneToken ==
    ASSUME NEW S, NEW x \in S
    PROVE  <<x>> \in Seq(S) /\ Len(<<x>>) = 1
  OBVIOUS

LEMMA OneMore ==
    ASSUME NEW S, NEW t \in Seq(S), NEW x \in S
    PROVE  /\ t \o <<x>> \in Seq(S) /\ Len(t \o <<x>>) = Len(t) + 1
           /\ (t \o <<x>>)[Len(t) + 1] = x
           /\ \A i \in 1 .. Len(t) : (t \o <<x>>)[i] = t[i]
  OBVIOUS

LEMMA TwoMore ==
    ASSUME NEW S, NEW t \in Seq(S), NEW x \in S, NEW y \in S
    PROVE  /\ t \o (<<y>> \o <<x>>) \in Seq(S) /\ Len(t \o (<<y>> \o <<x>>)) = Len(t) + 2
           /\ (t \o (<<y>> \o <<x>>))[Len(t) + 1] = y
           /\ (t \o (<<y>> \o <<x>>))[Len(t) + 2] = x
           /\ \A i \in 1 .. Len(t) : (t \o (<<y>> \o <<x>>))[i] = t[i]
  OBVIOUS

LEMMA Joining ==
    ASSUME NEW S, NEW s \in Seq(S), NEW t \in Seq(S)
    PROVE  /\ s \o t \in Seq(S) /\ Len(s \o t) = Len(s) + Len(t) /\ Len(t) \in Nat
           /\ \A i \in 1 .. Len(s) : (s \o t)[i] = s[i]
           /\ \A i \in 1 .. Len(t) : (s \o t)[i + Len(s)] = t[i]
  OBVIOUS

LEMMA Suffix ==
    ASSUME NEW S, NEW t \in Seq(S), NEW s \in 0 .. Len(t)
    PROVE  /\ SubSeq(t, s + 1, Len(t)) \in Seq(S)
           /\ Len(SubSeq(t, s + 1, Len(t))) = Len(t) - s
           /\ SubSeq(t, s + 1, Len(t)) = <<>> <=> Len(t) - s = 0
           /\ \A i \in 1 .. Len(t) - s : SubSeq(t, s + 1, Len(t))[i] = t[i + s]
  <1> DEFINE u == SubSeq(t, s + 1, Len(t))
  <1>1. u \in Seq(S) /\ Len(u) = Len(t) - s
    OBVIOUS
  <1>2. \A i \in 1 .. Len(t) - s : u[i] = t[i + s]
    <2>1. \A i \in 1 .. Len(t) - s : u[i] = t[(s + 1) + i - 1]
      OBVIOUS
    <2>2. \A i \in 1 .. Len(t) - s : (s + 1) + i - 1 = i + s
      OBVIOUS
    <2> QED
      BY <2>1, <2>2
  <1> HIDE DEF u
  <1>3. u = <<>> <=> Len(t) - s = 0
    BY <1>1
  <1> QED
    BY <1>1, <1>2, <1>3 DEF u

LEMMA NoneBefore ==
    ASSUME NEW S, NEW t \in Seq(S)
    PROVE  <<>> \o t = t
  OBVIOUS

LEMMA SizeSmall ==
    /\ <<>> \in Texts /\ Size(<<>>) = 0
    /\ \A x \in Tokens : /\ <<x>> \in Texts /\ Size(<<x>>) >= 1
                         /\ Size(<<x>>) = IF x = ".." THEN 2 ELSE 1
  <1>1. <<>> \in Texts /\ Ups(<<>>) = {} /\ Len(<<>>) = 0
    BY DEF Texts, Tokens, Ups
  <1>2. Size(<<>>) = 0
    BY <1>1, SizeType, FS_EmptySet
  <1>3. ASSUME NEW x \in Tokens
        PROVE  /\ <<x>> \in Texts /\ Size(<<x>>) >= 1
               /\ Size(<<x>>) = IF x = ".." THEN 2 ELSE 1
    <2>1. <<x>> \in Texts /\ Len(<<x>>) = 1
      BY OneToken DEF Texts, Tokens
    <2>2. Ups(<<x>>) = IF x = ".." THEN {1} ELSE {}
      BY DEF Ups
    <2>3. Cardinality({1}) = 1 /\ Cardinality({}) = 0
      BY FS_Singleton, FS_EmptySet
    <2>4. Size(<<x>>) = 1 + Cardinality(Ups(<<x>>))
      BY <2>1, SizeType
    <2> QED
      BY <2>1, <2>2, <2>3, <2>4
  <1> QED
    BY <1>1, <1>2, <1>3

\* The end of a text is no longer than the text.
LEMMA SizeSuffix ==
    ASSUME NEW t \in Texts, NEW i \in 1 .. Len(t) + 1
    PROVE  SubSeq(t, i, Len(t)) \in Texts /\ Size(SubSeq(t, i, Len(t))) <= Size(t)
  <1> DEFINE a == SubSeq(t, 1, i - 1)
             b == SubSeq(t, i, Len(t))
  <1>1. a \in Texts /\ b \in Texts
    BY DEF Texts, Tokens
  <1>2. Len(t) \in Nat /\ Len(a) = i - 1 /\ Len(b) = Len(t) - i + 1
    BY DEF Texts, Tokens
  <1>3. /\ \A j \in 1 .. i - 1 : a[j] = t[j]
        /\ \A j \in 1 .. Len(t) - i + 1 : b[j] = t[j + i - 1]
    BY DEF Texts, Tokens
  <1>4. t = a \o b
    <2> HIDE DEF a, b
    <2>1. a \o b \in Texts /\ Len(a \o b) = Len(t)
      BY <1>1, <1>2 DEF Texts, Tokens
    <2>2. \A j \in 1 .. Len(t) : (a \o b)[j] = t[j]
      <3>1. \A j \in 1 .. Len(t) : (a \o b)[j] = IF j <= Len(a) THEN a[j] ELSE b[j - Len(a)]
        BY <1>1, <1>2, SMTT(30) DEF Texts, Tokens
      <3> QED
        BY <1>2, <1>3, <3>1
    <2> QED
      BY <2>1, <2>2, SeqEqual DEF Texts, Tokens
  <1> HIDE DEF a, b
  <1>5. Size(t) = Size(a) + Size(b) /\ Size(a) \in Nat /\ Size(b) \in Nat
    BY <1>1, <1>4, SizeConcat, SizeType
  <1> QED
    BY <1>1, <1>5 DEF b

\* A set of positions has a first one.
LEMMA First ==
    ASSUME NEW S \in SUBSET Nat, S # {}
    PROVE  \E m \in S : \A k \in S : m <= k
  <1> DEFINE R == OpToRel(<, Nat)
  <1>1. IsWellFoundedOn(R, Nat)
    BY NatLessThanWellFounded
  <1> HIDE DEF R
  <1>2. PICK m \in S : \A k \in S : ~(<<k, m>> \in R)
    BY <1>1, WFMin
  <1>3. \A k \in S : k < m => <<k, m>> \in R
    BY DEF R, OpToRel
  <1>4. \A k \in S : ~(k < m)
    BY <1>2, <1>3
  <1>5. m \in Nat /\ \A k \in S : k \in Nat
    OBVIOUS
  <1> QED
    BY <1>4, <1>5

LEMMA StrippedShorter ==
    ASSUME NEW t \in Texts
    PROVE  Stripped(t) \in Texts /\ Size(Stripped(t)) <= Size(t)
  <1> DEFINE names == {i \in DOMAIN t : t[i] # "/"}
             first  == CHOOSE i \in names : \A j \in names : i <= j
  <1>1. CASE names = {}
    BY <1>1, SizeSmall, SizeType DEF Stripped
  <1>2. CASE names # {}
    <2>1. names \in SUBSET (1 .. Len(t)) /\ Len(t) \in Nat
      BY DEF Texts, Tokens
    <2> HIDE DEF names
    <2>2. \E i \in names : \A j \in names : i <= j
      <3>1. names \in SUBSET Nat
        BY <2>1
      <3> QED
        BY <1>2, <3>1, First
    <2>3. first \in names
      BY <2>2
    <2>4. Stripped(t) = SubSeq(t, first, Len(t))
      BY <1>2 DEF Stripped, names
    <2> HIDE DEF first
    <2>5. first \in 1 .. Len(t) + 1
      BY <2>1, <2>3
    <2> QED
      BY <2>4, <2>5, SizeSuffix
  <1> QED
    BY <1>1, <1>2

-----------------------------------------------------------------------------
(* The next component, and output after it.                                *)

LEMMA NextComponent ==
    ASSUME Ranges, Room
    PROVE  /\ rest = <<>> => Component = <<>> /\ Following = <<>>
           /\ rest # <<>> => /\ rest[1] \in Tokens /\ Component = <<rest[1]>>
                             /\ Following = SubSeq(rest, 2, Len(rest))
           /\ Component \in Texts /\ Following \in Texts
           /\ Size(Following) <= Size(rest)
           /\ Stripped(Following) \in Texts /\ Size(Stripped(Following)) < PathMax
  <1>1. rest \in Texts /\ Size(rest) \in Nat /\ PathMax \in Nat /\ Size(rest) < PathMax
    BY SizeType, PathsAssumption DEF Ranges, Room
  <1>2. CASE rest = <<>>
    <2>1. Component = <<>> /\ Following = <<>>
      BY <1>2 DEF Component, Following
    <2>2. Stripped(<<>>) \in Texts /\ Size(Stripped(<<>>)) <= Size(<<>>) /\ <<>> \in Texts
      BY SizeSmall, StrippedShorter
    <2>3. Size(Stripped(<<>>)) \in Nat
      BY <2>2, SizeType
    <2> QED
      BY <1>1, <1>2, <2>1, <2>2, <2>3
  <1>3. CASE rest # <<>>
    <2>1. Len(rest) \in Nat /\ Len(rest) > 0 /\ rest[1] \in Tokens /\ 2 \in 1 .. Len(rest) + 1
      BY <1>1, <1>3 DEF Texts, Tokens
    <2>2. Component = <<rest[1]>> /\ Following = SubSeq(rest, 2, Len(rest))
      BY <1>3 DEF Component, Following
    <2>3. Component \in Texts
      BY <2>1, <2>2, SizeSmall
    <2>4. Following \in Texts /\ Size(Following) <= Size(rest)
      BY <1>1, <2>1, <2>2, SizeSuffix
    <2>5. /\ Stripped(Following) \in Texts /\ Size(Stripped(Following)) <= Size(Following)
          /\ Size(Following) \in Nat /\ Size(Stripped(Following)) \in Nat
      BY <2>4, StrippedShorter, SizeType
    <2> QED
      BY <1>1, <1>3, <2>1, <2>2, <2>3, <2>4, <2>5
  <1> QED
    BY <1>2, <1>3

\* What a step of the loop does to output keeps Pending if it keeps this.
Good(t, k) ==
    /\ t \in Texts /\ Size(t) < PathMax
    /\ \E r \in 0 .. 2 : Shape(t, r, k)
    /\ Size(t) = Len(t) + k

LEMMA GoodOutput ==
    ASSUME Ranges, Room, Pending
    PROVE  Good(output, pending_up)
  BY DEF Ranges, Room, Pending, Good

\* output ends in a slash only if it is a root.
LEMMA SlashAtRoot ==
    ASSUME NEW t \in Texts, NEW r \in 0 .. 2, NEW k \in Nat, Shape(t, r, k)
    PROVE  /\ Len(t) = r => t = <<>> \/ EndsInSlash(t)
           /\ Len(t) # r => ~(t = <<>> \/ EndsInSlash(t))
  <1>1. Len(t) \in Nat /\ (t = <<>> <=> Len(t) = 0)
    BY DEF Texts, Tokens
  <1>2. ASSUME Len(t) > r  PROVE t[Len(t)] # "/"
    BY <1>1, <1>2 DEF Shape
  <1>3. ASSUME Len(t) = r, r > 0  PROVE t[Len(t)] = "/"
    BY <1>1, <1>3 DEF Shape
  <1> QED
    BY <1>1, <1>2, <1>3 DEF EndsInSlash, Shape

LEMMA GrowsAtRoot ==
    ASSUME NEW t, NEW r \in 0 .. 2, NEW k \in Nat, Shape(t, r, k), Len(t) = r,
           NEW u, NEW x, Len(u) = r + 1, u[r + 1] = x,
           \A i \in 1 .. r : u[i] = t[i]
    PROVE  /\ x \notin {"/", ".", ".."} => Shape(u, r, k)
           /\ x = ".." /\ Len(t) <= 2 * k => Shape(u, r, k + 1)
  <1>1. x \notin {"/", ".", ".."} => Shape(u, r, k)
    BY DEF Shape
  <1>2. x = ".." /\ Len(t) <= 2 * k => Shape(u, r, k + 1)
    BY DEF Shape
  <1> QED
    BY <1>1, <1>2

LEMMA GrowsAfterName ==
    ASSUME NEW t, NEW r \in 0 .. 2, NEW k \in Nat, Shape(t, r, k), NEW n \in Nat, Len(t) = n,
           n > r, NEW u, NEW x, Len(u) = n + 2, u[n + 1] = "/", u[n + 2] = x,
           \A i \in 1 .. n : u[i] = t[i]
    PROVE  /\ x \notin {"/", ".", ".."} => Shape(u, r, k)
           /\ x = ".." /\ n <= 2 * k => Shape(u, r, k + 1)
  <1>1. x \notin {"/", ".", ".."} => Shape(u, r, k)
    BY DEF Shape
  <1>2. x = ".." /\ n <= 2 * k => Shape(u, r, k + 1)
    BY DEF Shape
  <1> QED
    BY <1>1, <1>2

\* One more component after t, with the separator that it needs.
LEMMA Grows ==
    ASSUME NEW t \in Texts, NEW r \in 0 .. 2, NEW k \in Nat, Shape(t, r, k),
           NEW x \in Tokens, NEW piece,
           piece = (IF t = <<>> \/ EndsInSlash(t) THEN <<>> ELSE <<"/">>) \o <<x>>
    PROVE  /\ piece \in Texts
           /\ x \notin {"/", ".", ".."} => Shape(t \o piece, r, k)
           /\ x = ".." /\ Len(t) <= 2 * k => Shape(t \o piece, r, k + 1)
           /\ Len(t \o piece) + (IF x = ".." THEN 1 ELSE 0) = Len(t) + Size(piece)
  <1>1. Len(t) \in Nat
    BY DEF Texts, Tokens
  <1>2. "/" \in Tokens
    BY DEF Tokens
  <1>3. <<x>> \in Texts /\ <<"/">> \in Texts
    BY <1>2, SizeSmall
  <1>4. CASE t = <<>> \/ EndsInSlash(t)
    <2>1. piece = <<x>>
      BY <1>3, <1>4, NoneBefore, Zenon DEF Texts, Tokens
    <2>2. Len(t) = r
      BY <1>4, SlashAtRoot
    <2>3. /\ t \o piece \in Texts /\ Len(t \o piece) = r + 1
          /\ (t \o piece)[r + 1] = x
          /\ \A i \in 1 .. r : (t \o piece)[i] = t[i]
      <3>1. t \in Seq(Tokens)
        BY TextsAreTokens
      <3>2. /\ t \o <<x>> \in Seq(Tokens) /\ Len(t \o <<x>>) = Len(t) + 1
            /\ (t \o <<x>>)[Len(t) + 1] = x
            /\ \A i \in 1 .. Len(t) : (t \o <<x>>)[i] = t[i]
        BY <3>1, OneMore
      <3> QED
        BY <2>1, <2>2, <3>2, TextsAreTokens, Zenon
    <2>4. Size(piece) = IF x = ".." THEN 2 ELSE 1
      BY <2>1, SizeSmall, Zenon
    <2>5. Len(t \o piece) + (IF x = ".." THEN 1 ELSE 0) = Len(t) + Size(piece)
      <3> DEFINE n == Len(t \o piece)
      <3>1. n = r + 1 /\ Len(t) = r
        BY <2>2, <2>3
      <3> HIDE DEF n
      <3>2. n + (IF x = ".." THEN 1 ELSE 0) = Len(t) + Size(piece)
        BY <2>4, <3>1
      <3> QED
        BY <3>2 DEF n
    <2>6. /\ x \notin {"/", ".", ".."} => Shape(t \o piece, r, k)
          /\ x = ".." /\ Len(t) <= 2 * k => Shape(t \o piece, r, k + 1)
      BY <2>2, <2>3, GrowsAtRoot
    <2> QED
      BY <1>3, <2>1, <2>5, <2>6
  <1>5. CASE ~(t = <<>> \/ EndsInSlash(t))
    <2>1. piece = <<"/">> \o <<x>>
      BY <1>5
    <2>2. Len(t) > r
      BY <1>1, <1>5, SlashAtRoot DEF Shape
    <2>3. /\ t \o piece \in Texts /\ Len(t \o piece) = Len(t) + 2
          /\ (t \o piece)[Len(t) + 1] = "/" /\ (t \o piece)[Len(t) + 2] = x
          /\ \A i \in 1 .. Len(t) : (t \o piece)[i] = t[i]
      <3>1. t \in Seq(Tokens)
        BY TextsAreTokens
      <3> DEFINE more == <<"/">> \o <<x>>
      <3>2. /\ t \o more \in Seq(Tokens) /\ Len(t \o more) = Len(t) + 2
            /\ (t \o more)[Len(t) + 1] = "/" /\ (t \o more)[Len(t) + 2] = x
            /\ \A i \in 1 .. Len(t) : (t \o more)[i] = t[i]
        BY <1>2, <3>1, TwoMore
      <3> QED
        BY <2>1, <3>2, TextsAreTokens, Zenon
    <2>4. Size(piece) = Size(<<"/">>) + Size(<<x>>) /\ piece \in Texts
      BY <1>3, <2>1, SizeConcat
    <2>5. Size(<<"/">>) = 1 /\ Size(<<x>>) = IF x = ".." THEN 2 ELSE 1
      BY <1>2, SizeSmall
    <2>6. Len(t \o piece) + (IF x = ".." THEN 1 ELSE 0) = Len(t) + Size(piece)
      <3>1. Size(piece) = 1 + IF x = ".." THEN 2 ELSE 1
        BY <2>4, <2>5, Zenon
      <3> QED
        <4> DEFINE n == Len(t \o piece)
        <4>1. n = Len(t) + 2
          BY <2>3
        <4> HIDE DEF n
        <4>2. n + (IF x = ".." THEN 1 ELSE 0) = Len(t) + Size(piece)
          BY <1>1, <3>1, <4>1
        <4> QED
          BY <4>2 DEF n
    <2>7. /\ x \notin {"/", ".", ".."} => Shape(t \o piece, r, k)
          /\ x = ".." /\ Len(t) <= 2 * k => Shape(t \o piece, r, k + 1)
      BY <1>1, <2>2, <2>3, GrowsAfterName, ZenonT(60)
    <2> QED
      BY <2>4, <2>6, <2>7
  <1> QED
    BY <1>4, <1>5

\* t without its last component, which is a name.
LEMMA Shrinks ==
    ASSUME NEW t \in Texts, NEW r \in 0 .. 2, NEW k \in Nat, Shape(t, r, k),
           Size(t) = Len(t) + k, Size(t) < PathMax, Len(t) > 2 * k,
           NEW m \in 0 .. Len(t),
           \/ m = r /\ Len(t) <= r + 1
           \/ m = Len(t) - 2 /\ m > r
    PROVE  Good(SubSeq(t, 1, m), k)
  <1> DEFINE u == SubSeq(t, 1, m)
  <1>1. Len(t) \in Nat
    BY DEF Texts
  <1>2. u \in Texts /\ Len(u) = m /\ \A i \in 1 .. m : u[i] = t[i]
    BY <1>1 DEF Texts
  <1>3. DOMAIN u = 1 .. m /\ DOMAIN t = 1 .. Len(t)
    BY <1>2 DEF Texts
  <1> HIDE DEF u
  <1>4. \A i \in 1 .. Len(t) : t[i] = ".." => i <= m
    BY <1>1 DEF Shape
  <1>5. Ups(u) = Ups(t)
    <2>1. ASSUME NEW i \in 1 .. Len(t), t[i] = ".."  PROVE i \in 1 .. m /\ u[i] = ".."
      BY <1>1, <1>2, <1>4, <2>1
    <2>2. ASSUME NEW i \in 1 .. m, u[i] = ".."  PROVE i \in 1 .. Len(t) /\ t[i] = ".."
      BY <1>1, <1>2, <2>2
    <2> QED
      BY <1>3, <2>1, <2>2, Zenon DEF Ups
  <1>6. Size(u) = m + k /\ Size(u) < PathMax
    <2>1. /\ Size(u) = m + Cardinality(Ups(t)) /\ Size(t) = Len(t) + Cardinality(Ups(t))
          /\ Cardinality(Ups(t)) \in Nat
      BY <1>2, <1>5, SizeType
    <2> DEFINE c == Cardinality(Ups(t))
    <2> HIDE DEF c
    <2>2. c = k
      BY <1>1, <2>1 DEF c
    <2> QED
      BY <1>1, <2>1, <2>2, PathsAssumption DEF c
  <1>7. Shape(u, r, k)
    BY <1>1, <1>2, SMTT(30) DEF Shape
  <1>8. Good(u, k)
    BY <1>2, <1>6, <1>7 DEF Good
  <1> QED
    BY <1>8 DEF u

LEMMA PoppedIsGood ==
    ASSUME Good(output, pending_up), ~NothingToCancel
    PROVE  Good(Popped, pending_up)
  <1> DEFINE n == Len(output)
             k == pending_up
             slashes == {i \in DOMAIN output : output[i] = "/"}
             last    == CHOOSE i \in slashes : \A j \in slashes : j <= i
  <1>1. PICK r \in 0 .. 2 : Shape(output, r, k)
    BY DEF Good
  <1>2. /\ output \in Texts /\ n \in Nat /\ DOMAIN output = 1 .. n
        /\ Size(output) = n + k /\ Size(output) < PathMax /\ k \in Nat
    BY <1>1 DEF Good, Texts, Shape
  <1>3. n > 2 * k
    BY <1>2 DEF NothingToCancel, q
  <1>4. Popped = IF slashes = {} THEN <<>>
                 ELSE IF last > 1 /\ (last > 2 \/ ~Absolute(output))
                      THEN SubSeq(output, 1, last - 1) ELSE SubSeq(output, 1, last)
    BY DEF Popped
  <1>5. slashes = {i \in 1 .. n : i <= r \/ (i - r) % 2 = 0}
    BY <1>1, <1>2 DEF Shape
  <1>6. Absolute(output) <=> r > 0
    <2>1. n >= 1 /\ output # <<>>
      BY <1>2, <1>3
    <2>2. output[1] = "/" <=> 1 <= r \/ (1 - r) % 2 = 0
      <3>1. 1 \in slashes <=> output[1] = "/"
        BY <1>2, <2>1
      <3>2. 1 \in slashes <=> 1 <= r \/ (1 - r) % 2 = 0
        BY <1>5, <2>1, <1>2
      <3> QED
        BY <3>1, <3>2
    <2>3. 1 <= r \/ (1 - r) % 2 = 0 <=> r > 0
      BY <1>1
    <2> QED
      BY <2>1, <2>2, <2>3 DEF Absolute
  <1>7. Shape(output, r, k) /\ (n = r \/ (n > r /\ (n - r) % 2 = 1)) /\ r \in 0 .. 2
    BY <1>1 DEF Shape
  <1> HIDE DEF n, k, slashes
  <1>8. ASSUME NEW m \in 1 .. n, m \in slashes, \A j \in slashes : j <= m
        PROVE  last = m
    <2>1. \A i \in slashes : (\A j \in slashes : j <= i) => i = m
      BY <1>2, <1>5, <1>8
    <2> QED
      BY <1>8, <2>1
  <1> HIDE DEF last
  <1>9. CASE n <= r + 1 /\ r = 0
    <2>1. slashes = {} /\ Popped = <<>>
      BY <1>2, <1>3, <1>4, <1>5, <1>7, <1>9
    <2>2. SubSeq(output, 1, 0) = <<>>
      BY <1>2 DEF Texts
    <2>3. Good(SubSeq(output, 1, 0), k)
      BY <1>2, <1>3, <1>7, <1>9, Shrinks DEF n
    <2> QED
      BY <2>1, <2>2, <2>3 DEF k
  <1>10. CASE n <= r + 1 /\ r > 0
    <2>1. r \in slashes /\ (\A j \in slashes : j <= r) /\ r \in 1 .. n
      BY <1>2, <1>3, <1>5, <1>7, <1>10
    <2>2. last = r /\ slashes # {}
      BY <1>8, <2>1
    <2>3. Popped = SubSeq(output, 1, r)
      BY <1>4, <1>6, <1>7, <1>10, <2>2
    <2>4. Good(SubSeq(output, 1, r), k)
      <3>1. r \in 0 .. n /\ n <= r + 1
        BY <1>2, <1>10, <2>1
      <3> QED
        BY <1>2, <1>3, <1>7, <3>1, Shrinks DEF n
    <2> QED
      BY <2>3, <2>4 DEF k
  <1>11. CASE n > r + 1
    <2>1. n - 1 \in slashes /\ (\A j \in slashes : j <= n - 1) /\ n - 1 \in 1 .. n
      BY <1>2, <1>3, <1>5, <1>7, <1>11
    <2>2. last = n - 1 /\ slashes # {}
      BY <1>8, <2>1
    <2>3. Popped = SubSeq(output, 1, n - 2)
      <3>1. n - 1 > 1 /\ (n - 1 > 2 \/ ~Absolute(output)) /\ (n - 1) - 1 = n - 2
        BY <1>2, <1>6, <1>7, <1>11
      <3> QED
        BY <1>4, <2>2, <3>1
    <2>4. Good(SubSeq(output, 1, n - 2), k)
      <3>1. n - 2 \in 0 .. n /\ n - 2 > r
        BY <1>2, <1>7, <1>11
      <3> QED
        BY <1>2, <1>3, <1>7, <3>1, Shrinks DEF n
    <2> QED
      BY <2>3, <2>4 DEF k
  <1> QED
    BY <1>2, <1>7, <1>9, <1>10, <1>11

-----------------------------------------------------------------------------
(* What is returned.                                                       *)

\* What Canonical says of a text.
IsCanonical(t) ==
    /\ Absolute(t)
    /\ \A i \in DOMAIN t : t[i] \notin {".", ".."}
    /\ \A i \in 3 .. Len(t) : t[i] = "/" => t[i - 1] # "/" /\ i < Len(t)

\* Shape where nothing is pending.
LEMMA NamesOnly ==
    ASSUME NEW t, NEW r \in 0 .. 2, NEW n \in Nat, n = Len(t)
    PROVE  Shape(t, r, 0) <=>
               /\ n = r \/ (n > r /\ (n - r) % 2 = 1)
               /\ \A i \in 1 .. n : i <= r \/ (i - r) % 2 = 0 => t[i] = "/"
               /\ \A i \in 1 .. n : ~(i <= r \/ (i - r) % 2 = 0) => t[i] \notin {"/", ".", ".."}
  <1>1. \A i \in 1 .. n : ~(i < 2 * 0)
    OBVIOUS
  <1>2. n >= 2 * 0 - 1 /\ 0 \in Nat /\ ~(0 > 0)
    OBVIOUS
  <1> QED
    BY <1>1, <1>2 DEF Shape

LEMMA RootedIsCanonical ==
    ASSUME NEW t \in Texts, NEW r \in 1 .. 2, NEW k \in Nat, Shape(t, r, k)
    PROVE  IsCanonical(t)
  <1> DEFINE n == Len(t)
  <1>1. n \in Nat /\ DOMAIN t = 1 .. n /\ k = 0 /\ n >= r /\ (t = <<>> <=> n = 0)
    BY DEF Texts, Shape
  <1>2. /\ n = r \/ (n > r /\ (n - r) % 2 = 1)
        /\ \A i \in 1 .. n : i <= r \/ (i - r) % 2 = 0 => t[i] = "/"
        /\ \A i \in 1 .. n : ~(i <= r \/ (i - r) % 2 = 0) => t[i] \notin {"/", ".", ".."}
    <2>1. Shape(t, r, 0) /\ r \in 0 .. 2
      BY <1>1
    <2> QED
      BY <1>1, <2>1, NamesOnly, ZenonT(60)
  <1> HIDE DEF n
  <1>4. t # <<>> /\ t[1] = "/"
    <2>1. 1 \in 1 .. n /\ 1 <= r /\ n # 0
      BY <1>1
    <2> QED
      BY <1>1, <1>2, <2>1
  <1>5. \A i \in 1 .. n : t[i] \notin {".", ".."}
    BY <1>2
  <1>6. ASSUME NEW i \in 3 .. n, t[i] = "/"
        PROVE  t[i - 1] # "/" /\ i < n
    <2>1. i \in Nat /\ i > r /\ i \in 1 .. n /\ (i - 1) \in 1 .. n /\ i <= n
      BY <1>1
    <2>2. (i - r) % 2 = 0
      BY <1>2, <1>6, <2>1
    <2>3. ~(i - 1 <= r \/ ((i - 1) - r) % 2 = 0)
      BY <2>1, <2>2
    <2>4. t[i - 1] # "/"
      BY <1>2, <2>1, <2>3
    <2>5. i # n
      BY <1>1, <1>2, <2>1, <2>2
    <2> QED
      BY <1>1, <2>1, <2>4, <2>5
  <1>7. \A i \in 3 .. Len(t) : t[i] = "/" => t[i - 1] # "/" /\ i < Len(t)
    BY <1>6 DEF n
  <1> QED
    BY <1>1, <1>4, <1>5, <1>7 DEF IsCanonical, Absolute

LEMMA FromRootShape ==
    ASSUME NEW t \in Texts, t # <<>>, FromRoot(t)
    PROVE  Shape(t, 1, 0)
  <1>1. Len(t) \in Nat /\ Len(t) > 0 /\ DOMAIN t = 1 .. Len(t)
    BY DEF Texts
  <1>2. Len(t) = 1 \/ (Len(t) > 1 /\ (Len(t) - 1) % 2 = 1)
    BY <1>1 DEF FromRoot
  <1>3. ASSUME NEW i \in 1 .. Len(t)
        PROVE  IF i <= 1 \/ (i - 1) % 2 = 0 THEN t[i] = "/" ELSE t[i] \notin {"/", ".", ".."}
    <2>1. i % 2 = 1 <=> (i <= 1 \/ (i - 1) % 2 = 0)
      BY <1>1
    <2>2. t[i] \in IF i % 2 = 1 THEN {"/"} ELSE Names
      BY <1>1 DEF FromRoot
    <2> QED
      BY <2>1, <2>2, PathsAssumption
  <1>4. \A i \in 1 .. Len(t) : ~(i < 2 * 0)
    BY <1>1
  <1> QED
    BY <1>1, <1>2, <1>3, <1>4 DEF Shape

\* The length of the text one level up.
Shorter(n) == IF n > 3 THEN n - 2 ELSE 1

LEMMA ParentText ==
    ASSUME NEW t \in Texts, Shape(t, 1, 0)
    PROVE  /\ Shorter(Len(t)) \in 1 .. Len(t)
           /\ Parent(t) = SubSeq(t, 1, Shorter(Len(t)))
           /\ Parent(t) \in Texts /\ Shape(Parent(t), 1, 0)
  <1>1. Len(t) \in Nat /\ (Len(t) = 1 \/ (Len(t) > 1 /\ (Len(t) - 1) % 2 = 1))
    BY DEF Texts, Shape
  <1>2. Shorter(Len(t)) \in 1 .. Len(t)
    BY <1>1, SMTT(30) DEF Shorter
  <1>3. Parent(t) = SubSeq(t, 1, Shorter(Len(t)))
    <2>1. Len(t) # 1 => ~EndsInSlash(t)
      BY SlashAtRoot
    <2>2. CASE Len(t) = 1
      <3>1. SubSeq(t, 1, 1) = t
        BY <2>2 DEF Texts
      <3> QED
        BY <2>2, <3>1 DEF Parent, Shorter
    <2>3. CASE Len(t) = 2
      <3>1. ~EndsInSlash(t)
        BY <2>1, <2>3
      <3>2. Len(SubSeq(t, 1, 1)) = 1
        BY <2>3 DEF Texts
      <3> QED
        BY <2>3, <3>1, <3>2 DEF Parent, Shorter
    <2>4. CASE Len(t) > 3
      <3>1. ~EndsInSlash(t)
        <4> DEFINE n == Len(t)
        <4> HIDE DEF n
        <4>1. n > 3 => n # 1
          OBVIOUS
        <4> QED
          BY <2>1, <2>4, <4>1 DEF n
      <3> DEFINE name == SubSeq(t, 1, Len(t) - 1)
      <3>2. name \in Texts /\ Len(name) = Len(t) - 1
        BY <1>1, <2>4 DEF Texts
      <3>3. SubSeq(name, 1, Len(t) - 2) = SubSeq(t, 1, Len(t) - 2)
        BY <1>1, <2>4 DEF Texts
      <3> HIDE DEF name
      <3>4. Len(name) > 1 /\ Len(name) - 1 = Len(t) - 2 /\ Len(t) > 1
        BY <1>1, <2>4, <3>2
      <3>5. Parent(t) = SubSeq(name, 1, Len(name) - 1)
        BY <3>1, <3>4 DEF Parent, name
      <3> QED
        BY <2>4, <3>3, <3>4, <3>5 DEF Shorter
    <2>5. Len(t) = 1 \/ Len(t) = 2 \/ Len(t) > 3
      <3> DEFINE n == Len(t)
      <3> HIDE DEF n
      <3>1. n \in Nat /\ (n = 1 \/ (n > 1 /\ (n - 1) % 2 = 1)) => n = 1 \/ n = 2 \/ n > 3
        OBVIOUS
      <3> QED
        BY <1>1, <3>1 DEF n
    <2> QED
      BY <2>2, <2>3, <2>4, <2>5
  <1> DEFINE u == SubSeq(t, 1, Shorter(Len(t)))
  <1>4. /\ u \in Texts /\ Len(u) = Shorter(Len(t))
        /\ \A i \in 1 .. Shorter(Len(t)) : u[i] = t[i]
    BY <1>1, <1>2 DEF Texts
  <1> HIDE DEF u
  <1>5. Shape(u, 1, 0)
    <2>1. /\ \A i \in 1 .. Len(t) : i <= 1 \/ (i - 1) % 2 = 0 => t[i] = "/"
          /\ \A i \in 1 .. Len(t) : ~(i <= 1 \/ (i - 1) % 2 = 0) => t[i] \notin {"/", ".", ".."}
      BY <1>1, NamesOnly
    <2>2. /\ Len(u) = 1 \/ (Len(u) > 1 /\ (Len(u) - 1) % 2 = 1)
          /\ Len(u) \in Nat /\ \A i \in 1 .. Len(u) : i \in 1 .. Len(t) /\ u[i] = t[i]
      <3> DEFINE n == Len(t)
                 m == Len(u)
      <3>1. /\ n \in Nat /\ (n = 1 \/ (n > 1 /\ (n - 1) % 2 = 1))
            /\ m = IF n > 3 THEN n - 2 ELSE 1
            /\ \A i \in 1 .. m : u[i] = t[i]
        BY <1>1, <1>4 DEF Shorter
      <3> HIDE DEF n, m
      <3>2. /\ m = 1 \/ (m > 1 /\ (m - 1) % 2 = 1)
            /\ m \in Nat /\ \A i \in 1 .. m : i \in 1 .. n /\ u[i] = t[i]
        BY <3>1
      <3> QED
        BY <3>2 DEF n, m
    <2> DEFINE m == Len(u)
    <2>3. /\ m \in Nat /\ (m = 1 \/ (m > 1 /\ (m - 1) % 2 = 1))
          /\ \A i \in 1 .. m : i <= 1 \/ (i - 1) % 2 = 0 => u[i] = "/"
          /\ \A i \in 1 .. m : ~(i <= 1 \/ (i - 1) % 2 = 0) => u[i] \notin {"/", ".", ".."}
      BY <2>1, <2>2
    <2> QED
      BY <2>3, NamesOnly
  <1> QED
    BY <1>2, <1>3, <1>4, <1>5 DEF u

\* The first m tokens of a text from the root, where these end with a name.
LEMMA RootPrefix ==
    ASSUME NEW t \in Texts, Shape(t, 1, 0), NEW m \in 1 .. Len(t), m = 1 \/ (m - 1) % 2 = 1
    PROVE  /\ SubSeq(t, 1, m) \in Texts /\ Len(SubSeq(t, 1, m)) = m
           /\ Shape(SubSeq(t, 1, m), 1, 0)
  <1> DEFINE u == SubSeq(t, 1, m)
  <1>1. Len(t) \in Nat
    BY DEF Texts
  <1>2. u \in Texts /\ Len(u) = m /\ \A i \in 1 .. m : u[i] = t[i]
    BY <1>1 DEF Texts
  <1> HIDE DEF u
  <1>3. /\ \A i \in 1 .. Len(t) : i <= 1 \/ (i - 1) % 2 = 0 => t[i] = "/"
        /\ \A i \in 1 .. Len(t) : ~(i <= 1 \/ (i - 1) % 2 = 0) => t[i] \notin {"/", ".", ".."}
    BY <1>1, NamesOnly
  <1>4. m \in Nat /\ (m = 1 \/ (m > 1 /\ (m - 1) % 2 = 1)) /\ \A i \in 1 .. m : i \in 1 .. Len(t)
    BY <1>1
  <1>5. /\ \A i \in 1 .. m : i <= 1 \/ (i - 1) % 2 = 0 => u[i] = "/"
        /\ \A i \in 1 .. m : ~(i <= 1 \/ (i - 1) % 2 = 0) => u[i] \notin {"/", ".", ".."}
    BY <1>2, <1>3, <1>4
  <1>6. Shape(u, 1, 0)
    BY <1>2, <1>4, <1>5, NamesOnly
  <1> QED
    BY <1>2, <1>6 DEF u

\* The recursion of Ancestor has a solution.
Climbs(dir, f) == f = [k \in Nat |-> IF k = 0 THEN dir ELSE Parent(f[k - 1])]

LEMMA ClimbExists ==
    ASSUME NEW dir \in Texts, Shape(dir, 1, 0)
    PROVE  \E f : Climbs(dir, f)
  <1> DEFINE n == Len(dir)
             Cut(j) == IF n - 2 * j > 1 THEN n - 2 * j ELSE 1
             f == [j \in Nat |-> SubSeq(dir, 1, Cut(j))]
  <1>1. n \in Nat /\ (n = 1 \/ (n > 1 /\ (n - 1) % 2 = 1)) /\ SubSeq(dir, 1, n) = dir
    BY DEF Texts, Shape
  <1> HIDE DEF n
  <1>2. ASSUME NEW j \in Nat
        PROVE  Cut(j) \in 1 .. n /\ (Cut(j) = 1 \/ (Cut(j) - 1) % 2 = 1)
    BY <1>1
  <1>3. Cut(0) = n
    BY <1>1
  <1>4. ASSUME NEW j \in Nat \ {0}
        PROVE  Cut(j) = Shorter(Cut(j - 1)) /\ j - 1 \in Nat
    BY <1>1 DEF Shorter
  <1> HIDE DEF Cut
  <1>5. ASSUME NEW j \in Nat \ {0}
        PROVE  SubSeq(dir, 1, Cut(j)) = Parent(f[j - 1])
    <2> DEFINE m == Cut(j - 1)
               u == SubSeq(dir, 1, m)
    <2>1. f[j - 1] = u /\ Cut(j) = Shorter(m) /\ m \in 1 .. n /\ (m = 1 \/ (m - 1) % 2 = 1)
      BY <1>2, <1>4
    <2> HIDE DEF m
    <2>2. u \in Texts /\ Len(u) = m /\ Shape(u, 1, 0)
      BY <2>1, RootPrefix DEF n
    <2>3. Parent(u) = SubSeq(u, 1, Shorter(m)) /\ Shorter(m) \in 1 .. m
      <3> HIDE DEF u
      <3> QED
        BY <2>2, ParentText
    <2>4. SubSeq(u, 1, Shorter(m)) = SubSeq(dir, 1, Shorter(m))
      <3> DEFINE h == Shorter(m)
      <3>1. h \in 1 .. m /\ m \in 1 .. Len(dir) /\ Len(dir) \in Nat
        BY <1>1, <2>1, <2>3 DEF n
      <3> HIDE DEF h
      <3>2. SubSeq(SubSeq(dir, 1, m), 1, h) = SubSeq(dir, 1, h)
        BY <3>1 DEF Texts
      <3> QED
        BY <3>2 DEF h
    <2> QED
      BY <2>1, <2>3, <2>4
  <1>6. SubSeq(dir, 1, Cut(0)) = dir
    BY <1>1, <1>3
  <1>7. \A k \in Nat : SubSeq(dir, 1, Cut(k)) = IF k = 0 THEN dir ELSE Parent(f[k - 1])
    BY <1>5, <1>6
  <1>8. Climbs(dir, f)
    BY <1>7, Zenon DEF Climbs
  <1> QED
    BY <1>8

\* Some levels above a directory is a directory.
LEMMA AncestorText ==
    ASSUME NEW dir \in Texts, Shape(dir, 1, 0), NEW n \in Nat
    PROVE  Ancestor(dir, n) \in Texts /\ Shape(Ancestor(dir, n), 1, 0)
  <1> DEFINE f == CHOOSE f : Climbs(dir, f)
  <1>1. Climbs(dir, f)
    BY ClimbExists
  <1>2. Ancestor(dir, n) = f[n]
    BY Zenon DEF Ancestor, Climbs
  <1> HIDE DEF f
  <1>3. f[0] = dir /\ \A k \in Nat \ {0} : f[k] = Parent(f[k - 1]) /\ k - 1 \in Nat
    BY <1>1 DEF Climbs
  <1> DEFINE Bad == {k \in Nat : ~(f[k] \in Texts /\ Shape(f[k], 1, 0))}
  <1>4. Bad = {}
    <2> SUFFICES ASSUME Bad # {}  PROVE FALSE
      OBVIOUS
    <2>1. PICK m \in Bad : \A k \in Bad : m <= k
      BY First
    <2>2. m \in Nat /\ m # 0
      BY <1>3, <2>1
    <2>3. m - 1 \in Nat /\ m - 1 \notin Bad
      <3>1. m - 1 \in Nat /\ ~(m <= m - 1)
        BY <2>2
      <3> QED
        BY <2>1, <3>1
    <2>4. f[m - 1] \in Texts /\ Shape(f[m - 1], 1, 0)
      BY <2>3
    <2>5. Parent(f[m - 1]) \in Texts /\ Shape(Parent(f[m - 1]), 1, 0)
      BY <2>4, ParentText
    <2>6. f[m] = Parent(f[m - 1])
      BY <1>3, <2>2
    <2> QED
      BY <2>1, <2>5, <2>6
  <1> QED
    BY <1>2, <1>4

\* A relative output, put after the working directory, has no ".." left.
LEMMA JoinedText ==
    ASSUME NEW dir \in Texts, Shape(dir, 1, 0), Good(output, pending_up), ~Absolute(output)
    PROVE  Joined(dir) \in Texts /\ Shape(Joined(dir), 1, 0)
  <1> DEFINE base == Ancestor(dir, pending_up)
             skip == IF 2 * pending_up < Len(output) THEN 2 * pending_up ELSE Len(output)
             kept == SubSeq(output, skip + 1, Len(output))
             sep  == IF kept # <<>> /\ ~EndsInSlash(base) THEN <<"/">> ELSE <<>>
             k    == pending_up
             n    == Len(output)
             b    == Len(base)
             l    == Len(kept)
  <1>1. Joined(dir) = base \o sep \o kept
    BY DEF Joined
  <1>2. k \in Nat /\ output \in Texts /\ n \in Nat
    BY DEF Good, Shape, Texts
  <1>3. Shape(output, 0, k)
    <2>1. PICK r \in 0 .. 2 : Shape(output, r, k)
      BY DEF Good
    <2>2. r = 0
      <3> SUFFICES ASSUME r > 0  PROVE FALSE
        BY <2>1
      <3>1. n >= r /\ 1 \in 1 .. n /\ n # 0
        BY <1>2, <2>1 DEF Shape
      <3>2. output[1] = "/"
        BY <1>2, <2>1, <3>1 DEF Shape
      <3>3. output # <<>>
        BY <1>2, <3>1
      <3> QED
        BY <3>2, <3>3 DEF Absolute
    <2> QED
      BY <2>1, <2>2
  <1>4. base \in Texts /\ Shape(base, 1, 0)
    BY <1>2, AncestorText
  <1>5. b \in Nat /\ (b = 1 \/ (b > 1 /\ (b - 1) % 2 = 1))
    BY <1>4 DEF Texts, Shape
  <1>6. /\ \A i \in 1 .. b : i <= 1 \/ (i - 1) % 2 = 0 => base[i] = "/"
        /\ \A i \in 1 .. b : ~(i <= 1 \/ (i - 1) % 2 = 0) => base[i] \notin {"/", ".", ".."}
    BY <1>4, <1>5, NamesOnly
  <1>7. skip \in 0 .. n
    BY <1>2
  <1>8. /\ kept \in Texts /\ l = n - skip /\ (kept = <<>> <=> l = 0)
        /\ \A i \in 1 .. n - skip : kept[i] = output[i + skip]
    <2> HIDE DEF skip
    <2>1. output \in Seq(Tokens) /\ skip \in 0 .. Len(output)
      BY <1>2, <1>7, TextsAreTokens
    <2> QED
      BY <2>1, Suffix, TextsAreTokens
  <1>9. (b = 1 => EndsInSlash(base)) /\ (b # 1 => ~EndsInSlash(base))
    <2>1. Len(base) = 1 => base # <<>>
      BY <1>4, SMTT(30) DEF Texts
    <2> HIDE DEF base
    <2> QED
      BY <1>4, <2>1, SlashAtRoot
  <1>10. skip = IF 2 * k < n THEN 2 * k ELSE n
    OBVIOUS
  <1> HIDE DEF base, skip, kept, k, n, b, l
  <1>11. l = 0 \/ (l \in Nat /\ l % 2 = 1 /\ skip = 2 * k)
    <2>1. n = 0 \/ (n > 0 /\ (n - 0) % 2 = 1)
      BY <1>3 DEF Shape, n
    <2> QED
      BY <1>2, <1>7, <1>8, <1>10, <2>1
  <1>12. ASSUME l # 0, NEW i \in 1 .. l
         PROVE  IF i % 2 = 0 THEN kept[i] = "/" ELSE kept[i] \notin {"/", ".", ".."}
    <2>1. i + skip \in 1 .. n /\ kept[i] = output[i + skip] /\ skip = 2 * k
      BY <1>2, <1>7, <1>8, <1>11, <1>12
    <2>2. ~(i + skip < 2 * k) /\ ~(i + skip <= 0) /\ ((i + skip) - 0) % 2 = i % 2
      BY <1>2, <2>1
    <2> QED
      BY <1>3, <2>1, <2>2 DEF Shape, n
  <1>13. CASE l = 0
    <2>1. sep = <<>> /\ kept = <<>>
      BY <1>8, <1>13
    <2>2. base \o <<>> \o <<>> = base
      BY <1>4 DEF Texts
    <2> QED
      BY <1>1, <1>4, <2>1, <2>2
  <1>14. CASE l # 0
    <2> DEFINE front == base \o sep
               h     == Len(front)
               t     == front \o kept
               m     == Len(t)
    <2>1. /\ front \in Texts /\ h \in Nat /\ h % 2 = 1
          /\ \A i \in 1 .. h : IF i <= 1 \/ (i - 1) % 2 = 0 THEN front[i] = "/"
                               ELSE front[i] \notin {"/", ".", ".."}
      <3>1. CASE b = 1
        <4>1. sep = <<>> /\ base \o <<>> = base
          BY <1>4, <1>9, <3>1 DEF Texts
        <4>2. front = base /\ h = 1
          BY <3>1, <4>1 DEF b
        <4> HIDE DEF front, h
        <4>3. \A i \in 1 .. h : i <= 1 /\ i \in 1 .. b
          BY <3>1, <4>2
        <4>4. h \in Nat /\ h % 2 = 1
          BY <4>2
        <4>5. \A i \in 1 .. h : front[i] = "/"
          BY <1>6, <4>2, <4>3
        <4> QED
          BY <1>4, <4>2, <4>3, <4>4, <4>5
      <3>2. CASE b # 1
        <4>1. front = base \o <<"/">>
          BY <1>8, <1>9, <1>14, <3>2
        <4>2. "/" \in Tokens /\ base \in Seq(Tokens)
          BY <1>4, TextsAreTokens DEF Tokens
        <4>3. /\ front \in Seq(Tokens) /\ h = b + 1 /\ front[b + 1] = "/"
              /\ \A i \in 1 .. b : front[i] = base[i]
          BY <4>1, <4>2, OneMore DEF b
        <4> HIDE DEF front, h
        <4>4. h \in Nat /\ h % 2 = 1 /\ ((b + 1) - 1) % 2 = 0
          BY <1>5, <3>2, <4>3
        <4>5. ASSUME NEW i \in 1 .. h
              PROVE  IF i <= 1 \/ (i - 1) % 2 = 0 THEN front[i] = "/"
                     ELSE front[i] \notin {"/", ".", ".."}
          <5>1. i \in 1 .. b \/ i = b + 1
            BY <1>5, <4>3
          <5> QED
            BY <1>6, <4>3, <4>4, <5>1
        <4> QED
          BY <4>3, <4>4, <4>5, TextsAreTokens
      <3> QED
        BY <3>1, <3>2
    <2> HIDE DEF front
    <2>2. /\ t \in Texts /\ m = h + l /\ l \in Nat
          /\ \A i \in 1 .. h : t[i] = front[i]
          /\ \A i \in 1 .. l : t[i + h] = kept[i]
      <3>1. front \in Seq(Tokens) /\ kept \in Seq(Tokens)
        BY <1>8, <2>1, TextsAreTokens
      <3>2. t \in Seq(Tokens)
        BY <3>1, Joining
      <3> QED
        BY <3>1, <3>2, Joining, TextsAreTokens DEF l
    <2> HIDE DEF t, h, m
    <2>3. m \in Nat /\ m > 1 /\ (m - 1) % 2 = 1
      BY <1>11, <1>14, <2>1, <2>2
    <2>4. ASSUME NEW i \in 1 .. m
          PROVE  IF i <= 1 \/ (i - 1) % 2 = 0 THEN t[i] = "/" ELSE t[i] \notin {"/", ".", ".."}
      <3>1. CASE i <= h
        <4>1. i \in 1 .. h
          BY <2>1, <3>1
        <4> QED
          BY <2>1, <2>2, <4>1
      <3>2. CASE i > h
        <4> DEFINE j == i - h
        <4>1. j \in 1 .. l /\ j + h = i /\ i > 1 /\ (j % 2 = 0 <=> (i - 1) % 2 = 0)
          BY <2>1, <2>2, <3>2
        <4> HIDE DEF j
        <4>2. t[i] = kept[j]
          BY <2>2, <4>1
        <4>3. IF j % 2 = 0 THEN kept[j] = "/" ELSE kept[j] \notin {"/", ".", ".."}
          BY <1>12, <1>14, <4>1
        <4>4. ~(i <= 1)
          BY <4>1
        <4> QED
          BY <4>1, <4>2, <4>3, <4>4
      <3> QED
        BY <2>1, <3>1, <3>2
    <2>5. Shape(t, 1, 0)
      BY <2>3, <2>4, NamesOnly DEF m
    <2> QED
      BY <1>1, <2>2, <2>5 DEF t, front
  <1> QED
    BY <1>13, <1>14

-----------------------------------------------------------------------------
(* One step of the call.                                                   *)

\* A step after which the loop goes on.
LEMMA LoopStep ==
    ASSUME Inv, Good(output', pending_up'), rest' \in Texts, Size(rest') < PathMax,
           check_dir' \in BOOLEAN, loop_count' \in 0 .. SymloopMax - 1,
           UNCHANGED <<world, call, attempt>>, pc' = "loop"
    PROVE  Inv'
  <1>1. fs' = fs /\ cwd' = cwd /\ call' = call /\ attempt' = attempt
    BY DEF world
  <1>2. Ranges'
    BY <1>1 DEF Inv, Ranges, Good
  <1>3. Room' /\ Pending'
    BY DEF Room, Pending, Good
  <1>4. Trying' /\ Canonical'
    BY DEF Trying, Canonical
  <1> QED
    BY <1>2, <1>3, <1>4 DEF Inv

\* A step that leaves the texts alone, and may return.
LEMMA LastStep ==
    ASSUME Inv, UNCHANGED <<world, call, rest, output, flags>>,
           attempt' \in 0 .. MaxTries, pc' \in {"call", "loop", "try", "over"},
           pc' = "try" => call.op = "tempnam",
           pc' = "over" /\ call.op = "realpath" /\ "text" \in DOMAIN result' =>
               IsCanonical(result'.text) /\ Size(result'.text) < PathMax
    PROVE  Inv'
  <1>1. /\ fs' = fs /\ cwd' = cwd /\ call' = call /\ rest' = rest /\ output' = output
        /\ check_dir' = check_dir /\ pending_up' = pending_up /\ loop_count' = loop_count
    BY DEF world, flags
  <1>2. Ranges'
    BY <1>1 DEF Inv, Ranges
  <1>3. Room' /\ Pending' /\ Trying'
    BY <1>1 DEF Inv, Room, Pending, Trying
  <1>4. Canonical'
    BY <1>1, Zenon DEF Canonical, IsCanonical
  <1> QED
    BY <1>2, <1>3, <1>4 DEF Inv

LEMMA ErrorStep ==
    ASSUME Inv, UNCHANGED <<world, call, rest, output, flags, attempt>>, NEW e, Fail(e)
    PROVE  Inv'
  <1>1. result' = [error |-> e] /\ pc' = "over" /\ attempt' \in 0 .. MaxTries
    BY DEF Fail, Return, Inv, Ranges
  <1>2. "text" \notin DOMAIN result'
    BY <1>1
  <1> QED
    BY <1>1, <1>2, LastStep

LEMMA InvFacts ==
    ASSUME Inv
    PROVE  /\ Good(output, pending_up) /\ Ranges /\ Room
           /\ rest \in Texts /\ Size(rest) \in Nat /\ Size(rest) < PathMax
           /\ output \in Texts /\ Size(output) \in Nat
           /\ check_dir \in BOOLEAN /\ loop_count \in 0 .. SymloopMax - 1
           /\ PathMax \in Nat /\ SymloopMax \in Nat
  BY GoodOutput, SizeType, PathsAssumption DEF Inv, Ranges, Room

LEMMA RealpathStep == Inv /\ realpath => Inv'
  <1> SUFFICES ASSUME Inv, realpath  PROVE Inv'
    OBVIOUS
  <1> DEFINE f == call.filename
  <1>1. UNCHANGED <<world, call, output, flags, attempt>> /\ call.op = "realpath"
    BY DEF realpath
  <1>2. ASSUME NEW e, Fail(e), UNCHANGED rest  PROVE Inv'
    BY <1>1, <1>2, ErrorStep
  <1>3. CASE f # NONE /\ f # <<>> /\ Size(f) < PathMax /\ rest' = f /\ pc' = "loop"
    <2>1. rest' \in Texts /\ Size(rest') < PathMax
      BY <1>1, <1>3, CallsAssumption DEF Inv, Ranges
    <2>2. /\ Good(output', pending_up') /\ check_dir' \in BOOLEAN
          /\ loop_count' \in 0 .. SymloopMax - 1
      BY <1>1, InvFacts DEF flags
    <2> QED
      BY <1>1, <1>3, <2>1, <2>2, LoopStep
  <1> QED
    BY <1>2, <1>3 DEF realpath

LEMMA RootStep == Inv /\ root => Inv'
  <1> SUFFICES ASSUME Inv, root  PROVE Inv'
    OBVIOUS
  <1>1. /\ UNCHANGED <<world, call, loop_count, attempt, pc>> /\ pc = "loop"
        /\ check_dir' = FALSE /\ pending_up' = 0 /\ rest' = Stripped(rest) /\ Absolute(rest)
        /\ (output' = <<"/", "/">> /\ Len(rest) > 1 /\ rest[2] = "/") \/ output' = <<"/">>
    BY DEF root, Looping, PendingAtRoot
  <1>2. rest' \in Texts /\ Size(rest') < PathMax
    <2>1. Stripped(rest) \in Texts /\ Size(Stripped(rest)) <= Size(rest)
      BY InvFacts, StrippedShorter
    <2>2. Size(Stripped(rest)) \in Nat
      BY <2>1, SizeType
    <2> QED
      BY <1>1, <2>1, <2>2, InvFacts
  <1>3. Good(output', 0)
    <2>1. "/" \in Tokens
      BY DEF Tokens
    <2>2. <<"/">> \in Texts /\ Size(<<"/">>) = 1
      BY <2>1, SizeSmall
    <2>3. Len(rest) \in Nat /\ Size(rest) >= Len(rest) /\ Len(rest) >= 1
      BY <1>1, InvFacts, SizeType, SMTT(30) DEF Absolute, Texts
    <2>4. CASE output' = <<"/">>
      <3>1. Shape(<<"/">>, 1, 0)
        BY DEF Shape
      <3>2. Size(<<"/">>) < PathMax /\ Size(<<"/">>) = Len(<<"/">>) + 0
        BY <2>2, <2>3, InvFacts
      <3> QED
        BY <2>2, <2>4, <3>1, <3>2 DEF Good
    <2>5. CASE output' = <<"/", "/">> /\ Len(rest) > 1
      <3>1. <<"/", "/">> = <<"/">> \o <<"/">>
        OBVIOUS
      <3>2. <<"/", "/">> \in Texts /\ Size(<<"/", "/">>) = 2
        <4>1. /\ <<"/">> \o <<"/">> \in Texts
              /\ Size(<<"/">> \o <<"/">>) = Size(<<"/">>) + Size(<<"/">>)
          BY <2>2, SizeConcat
        <4>2. Size(<<"/">> \o <<"/">>) = 1 + 1
          BY <2>2, <4>1, Zenon
        <4>3. <<"/", "/">> \in Texts /\ Size(<<"/", "/">>) = 1 + 1
          BY <3>1, <4>1, <4>2, Zenon
        <4> QED
          BY <4>3
      <3>3. Shape(<<"/", "/">>, 2, 0)
        BY DEF Shape
      <3>4. Size(<<"/", "/">>) < PathMax /\ Size(<<"/", "/">>) = Len(<<"/", "/">>) + 0
        BY <2>3, <2>5, <3>2, InvFacts
      <3> QED
        BY <2>5, <3>2, <3>3, <3>4 DEF Good
    <2> QED
      BY <1>1, <2>4, <2>5
  <1> QED
    BY <1>1, <1>2, <1>3, InvFacts, LoopStep

\* A component that is not refused fits output.
LEMMA PieceFits ==
    ASSUME Inv, Accepted
    PROVE  /\ pc = "loop" /\ Piece \in Texts
           /\ output \o Piece \in Texts /\ Size(output \o Piece) < PathMax
           /\ Size(output \o Piece) = Size(output) + Size(Piece)
           /\ rest # <<>> => /\ rest[1] \in Tokens /\ rest[1] \notin {"/", "."}
                             /\ Component = <<rest[1]>>
                             /\ (Up <=> rest[1] = "..")
           /\ rest = <<>> => Component = <<>> /\ ~Up
  <1>1. /\ pc = "loop" /\ Component # <<".">> /\ ~Absolute(rest) /\ ~Refused
    BY DEF Accepted, AtComponent, Looping
  <1>2. /\ rest = <<>> => Component = <<>>
        /\ rest # <<>> => rest[1] \in Tokens /\ Component = <<rest[1]>>
        /\ Component \in Texts
    BY InvFacts, NextComponent
  <1>3. rest # <<>> => rest[1] \notin {"/", "."} /\ (Up <=> rest[1] = "..")
    BY <1>1, <1>2 DEF Absolute, Up
  <1>4. rest = <<>> => ~Up
    BY <1>2 DEF Up
  <1>5. Piece \in Texts
    <2>1. "/" \in Tokens
      BY DEF Tokens
    <2>2. <<"/">> \in Texts /\ <<>> \in Texts
      BY <2>1, SizeSmall
    <2> QED
      BY <1>2, <2>2, SizeConcat DEF Piece
  <1>6. /\ output \o Piece \in Texts /\ Size(output \o Piece) = Size(output) + Size(Piece)
        /\ Size(Piece) \in Nat
    BY <1>5, InvFacts, SizeConcat, SizeType
  <1>7. Size(output \o Piece) < PathMax
    <2>1. ~(Size(output) + Size(Piece) >= PathMax)
      BY <1>1 DEF Refused, q
    <2> QED
      BY <1>6, <2>1, InvFacts
  <1> QED
    BY <1>1, <1>2, <1>3, <1>4, <1>5, <1>6, <1>7

\* output with one more name, or one more pending "..".
LEMMA OutputGrows ==
    ASSUME Inv, Accepted, rest # <<>>
    PROVE  /\ ~Up => Good(output \o Piece, pending_up)
           /\ Up /\ NothingToCancel => Good(output \o Piece, pending_up + 1)
  <1>1. PICK r \in 0 .. 2 : Shape(output, r, pending_up)
    BY InvFacts DEF Good
  <1>2. pending_up \in Nat /\ Size(output) = Len(output) + pending_up /\ Len(output) \in Nat
    BY <1>1, InvFacts DEF Good, Shape, Texts
  <1> DEFINE x == rest[1]
  <1>3. /\ x \in Tokens /\ x \notin {"/", "."} /\ Component = <<x>>
        /\ (Up <=> x = "..") /\ Piece \in Texts
        /\ output \o Piece \in Texts /\ Size(output \o Piece) < PathMax
        /\ Size(output \o Piece) = Size(output) + Size(Piece)
    BY PieceFits
  <1>4. Piece = (IF output = <<>> \/ EndsInSlash(output) THEN <<>> ELSE <<"/">>) \o <<x>>
    BY <1>3 DEF Piece
  <1> HIDE DEF x
  <1>5. /\ x \notin {"/", ".", ".."} => Shape(output \o Piece, r, pending_up)
        /\ x = ".." /\ Len(output) <= 2 * pending_up =>
               Shape(output \o Piece, r, pending_up + 1)
        /\ Len(output \o Piece) + (IF x = ".." THEN 1 ELSE 0) = Len(output) + Size(Piece)
    <2>1. output \in Texts
      BY InvFacts
    <2>2. r \in 0 .. 2 /\ pending_up \in Nat /\ Shape(output, r, pending_up) /\ x \in Tokens
      BY <1>1, <1>2, <1>3
    <2> QED
      BY <1>4, <2>1, <2>2, Grows, ZenonT(60)
  <1>6. Len(output \o Piece) \in Nat /\ Size(Piece) \in Nat
    BY <1>3, SizeType DEF Texts
  <1> DEFINE n == Len(output \o Piece)
             s == Size(output \o Piece)
  <1>7. /\ n \in Nat /\ n + (IF x = ".." THEN 1 ELSE 0) = Len(output) + Size(Piece)
        /\ s = Len(output) + pending_up + Size(Piece)
    BY <1>2, <1>3, <1>5, <1>6
  <1> HIDE DEF n, s
  <1>8. ASSUME ~Up  PROVE Good(output \o Piece, pending_up)
    <2>1. x \notin {"/", ".", ".."}
      BY <1>3, <1>8
    <2>2. s = n + pending_up
      BY <1>2, <1>6, <1>7, <2>1
    <2>3. Shape(output \o Piece, r, pending_up)
      BY <1>5, <2>1
    <2> QED
      BY <1>1, <1>3, <2>2, <2>3 DEF Good, n, s
  <1>9. ASSUME Up, NothingToCancel  PROVE Good(output \o Piece, pending_up + 1)
    <2>1. x = ".." /\ Len(output) <= 2 * pending_up
      BY <1>2, <1>3, <1>9 DEF NothingToCancel, q
    <2>2. s = n + (pending_up + 1)
      BY <1>2, <1>6, <1>7, <2>1
    <2>3. Shape(output \o Piece, r, pending_up + 1)
      BY <1>5, <2>1
    <2> QED
      BY <1>1, <1>3, <2>2, <2>3 DEF Good, n, s
  <1> QED
    BY <1>8, <1>9

LEMMA DotStep == Inv /\ dot => Inv'
  <1> SUFFICES ASSUME Inv, dot  PROVE Inv'
    OBVIOUS
  <1>1. /\ UNCHANGED <<world, call, output, flags, attempt, pc>> /\ pc = "loop"
        /\ rest' = Stripped(Following)
    BY DEF dot, AtComponent, Looping
  <1>2. rest' \in Texts /\ Size(rest') < PathMax
    BY <1>1, InvFacts, NextComponent
  <1>3. /\ Good(output', pending_up') /\ check_dir' \in BOOLEAN
        /\ loop_count' \in 0 .. SymloopMax - 1
    BY <1>1, InvFacts DEF flags
  <1> QED
    BY <1>1, <1>2, <1>3, LoopStep

LEMMA PendStep == Inv /\ pend => Inv'
  <1> SUFFICES ASSUME Inv, pend  PROVE Inv'
    OBVIOUS
  <1>1. /\ UNCHANGED <<world, call, check_dir, loop_count, attempt, pc>>
        /\ rest' = Stripped(Following) /\ pending_up' = pending_up + 1
        /\ output' = output \o Piece /\ Accepted /\ Up /\ NothingToCancel
    BY DEF pend
  <1>2. rest' \in Texts /\ Size(rest') < PathMax
    BY <1>1, InvFacts, NextComponent
  <1>3. Good(output', pending_up') /\ pc = "loop"
    BY <1>1, PieceFits, OutputGrows
  <1> QED
    BY <1>1, <1>2, <1>3, InvFacts, LoopStep

LEMMA UpStep == Inv /\ up => Inv'
  <1> SUFFICES ASSUME Inv, up  PROVE Inv'
    OBVIOUS
  <1>1. /\ UNCHANGED <<world, call, flags, attempt, pc>>
        /\ rest' = Stripped(Following) /\ output' = Popped /\ Accepted /\ ~NothingToCancel
    BY DEF up
  <1>2. rest' \in Texts /\ Size(rest') < PathMax
    BY <1>1, InvFacts, NextComponent
  <1>3. /\ check_dir' = check_dir /\ pending_up' = pending_up /\ loop_count' = loop_count
        /\ pc = "loop"
    BY <1>1, PieceFits DEF flags
  <1>4. Good(output', pending_up')
    BY <1>1, <1>3, InvFacts, PoppedIsGood
  <1> QED
    BY <1>1, <1>2, <1>3, <1>4, InvFacts, LoopStep

LEMMA NotALinkStep == Inv /\ not_a_link => Inv'
  <1> SUFFICES ASSUME Inv, not_a_link  PROVE Inv'
    OBVIOUS
  <1>1. /\ UNCHANGED <<world, call, pending_up, loop_count, attempt, pc>>
        /\ rest' = Stripped(Following) /\ check_dir' \in BOOLEAN /\ Accepted
        /\ ~(Up /\ (NothingToCancel \/ ~check_dir))
        /\ output' = IF Up THEN Popped
                     ELSE IF Component = <<>> THEN output ELSE output \o Piece
    BY DEF not_a_link, Asked, CheckDirAfter
  <1>2. rest' \in Texts /\ Size(rest') < PathMax
    BY <1>1, InvFacts, NextComponent
  <1>3. pc = "loop" /\ (rest = <<>> => Component = <<>> /\ ~Up)
    BY <1>1, PieceFits
  <1>4. CASE Up
    BY <1>1, <1>4, InvFacts, PoppedIsGood, <1>2, <1>3, LoopStep
  <1>5. CASE ~Up /\ Component = <<>>
    BY <1>1, <1>5, InvFacts, <1>2, <1>3, LoopStep
  <1>6. CASE ~Up /\ Component # <<>>
    <2>1. Good(output', pending_up')
      BY <1>1, <1>3, <1>6, OutputGrows
    <2> QED
      BY <1>1, <1>2, <1>3, <2>1, InvFacts, LoopStep
  <1> QED
    BY <1>4, <1>5, <1>6

LEMMA FollowStep == Inv /\ follow => Inv'
  <1> SUFFICES ASSUME Inv, follow  PROVE Inv'
    OBVIOUS
  <1> DEFINE link == Answer.text
             tail == IF EndsInSlash(link) THEN Stripped(Following) ELSE Following
  <1>1. /\ UNCHANGED <<world, call, output, check_dir, pending_up, attempt, pc>>
        /\ Accepted /\ Fits(link) /\ rest' = link \o tail
        /\ loop_count' = loop_count + 1 /\ loop_count + 1 # SymloopMax
        /\ Answer \in [text : Texts]
    BY DEF follow, Asked, IsLink, Counted
  <1>2. link \in Texts /\ Size(link) \in Nat
    <2>1. link \in Texts
      BY <1>1
    <2> HIDE DEF link
    <2> QED
      BY <2>1, SizeType
  <1>3. tail \in Texts /\ Size(tail) <= Size(Following) /\ Size(Following) \in Nat
    <2>1. Following \in Texts /\ Size(Following) \in Nat
      BY InvFacts, NextComponent, SizeType
    <2>2. Stripped(Following) \in Texts /\ Size(Stripped(Following)) <= Size(Following)
      BY <2>1, StrippedShorter
    <2> QED
      BY <2>1, <2>2
  <1>4. Size(link) < PathMax - Size(Following)
    BY <1>1 DEF Fits
  <1> HIDE DEF link, tail
  <1>5. rest' \in Texts /\ Size(rest') = Size(link) + Size(tail) /\ Size(tail) \in Nat
    BY <1>1, <1>2, <1>3, SizeConcat, SizeType
  <1>6. Size(rest') < PathMax
    BY <1>2, <1>3, <1>4, <1>5, InvFacts
  <1>7. loop_count' \in 0 .. SymloopMax - 1
    BY <1>1, InvFacts
  <1>8. pc = "loop"
    BY <1>1, PieceFits
  <1> QED
    BY <1>1, <1>5, <1>6, <1>7, <1>8, InvFacts, LoopStep

LEMMA RefuseStep == Inv /\ refuse => Inv'
  <1> SUFFICES ASSUME Inv, refuse  PROVE Inv'
    OBVIOUS
  <1>1. /\ UNCHANGED <<world, call, rest, output, flags, attempt>>
        /\ \E e : Fail(e)
    BY DEF refuse
  <1> QED
    BY <1>1, ErrorStep

\* A text is returned, or there is no memory for its copy.
LEMMA DeliverStep ==
    ASSUME Inv, UNCHANGED <<world, call, rest, output, flags, attempt>>,
           NEW t, NEW mine, Deliver([text |-> t], mine),
           IsCanonical(t), Size(t) < PathMax
    PROVE  Inv'
  <1>1. CASE Return([text |-> t])
    <2>1. result' = [text |-> t] /\ pc' = "over" /\ attempt' \in 0 .. MaxTries
      BY <1>1 DEF Return, Inv, Ranges
    <2>2. result'.text = t
      BY <2>1
    <2> QED
      BY <2>1, <2>2, LastStep
  <1>2. CASE Fail("ENOMEM")
    BY <1>2, ErrorStep
  <1> QED
    BY <1>1, <1>2 DEF Deliver

LEMMA AbsoluteStep == Inv /\ absolute => Inv'
  <1> SUFFICES ASSUME Inv, absolute  PROVE Inv'
    OBVIOUS
  <1>1. /\ UNCHANGED <<world, call, rest, output, flags, attempt>>
        /\ Absolute(output) /\ Deliver([text |-> output], call.resolved)
    BY DEF absolute
  <1>2. PICK r \in 0 .. 2 : Shape(output, r, pending_up)
    BY InvFacts DEF Good
  <1>3. pending_up \in Nat /\ output \in Texts /\ Size(output) < PathMax
    BY <1>2, InvFacts DEF Good, Shape
  <1>4. r # 0
    <2> SUFFICES ASSUME r = 0  PROVE FALSE
      OBVIOUS
    <2>1. Len(output) \in Nat /\ Len(output) >= 1 /\ output[1] = "/"
      BY <1>1, <1>3 DEF Absolute, Texts
    <2> DEFINE n == Len(output)
    <2>2. 1 \in 1 .. n
      BY <2>1
    <2>3. ~(1 <= 0 \/ (1 - 0) % 2 = 0)
      OBVIOUS
    <2>4. output[1] # "/"
      BY <1>2, <2>2, <2>3 DEF Shape
    <2> QED
      BY <2>1, <2>4
  <1>5. r \in 1 .. 2
    BY <1>4
  <1>6. IsCanonical(output)
    BY <1>2, <1>3, <1>5, RootedIsCanonical
  <1> QED
    BY <1>1, <1>3, <1>6, DeliverStep

\* What getcwd gives to realpath.
LEMMA CwdFacts ==
    ASSUME Inv, NEW c, c = GetCwd(PathMax + 1), "text" \in DOMAIN c
    PROVE  c.text \in Texts /\ Shape(c.text, 1, 0)
  <1> DEFINE t == CwdText(fs, cwd)
  <1>1. \/ t \in [error : STRING]
        \/ /\ t \in [text : Texts]
           /\ Absolute(t.text) => FromRoot(t.text)
    BY CwdAssumption DEF Inv, Ranges
  <1>2. c = IF "error" \in DOMAIN t THEN t
            ELSE IF Size(t.text) + 1 > PathMax + 1 THEN [error |-> "ERANGE"]
            ELSE IF ~Absolute(t.text) THEN [error |-> "ENOENT"] ELSE t
    BY DEF GetCwd
  <1> HIDE DEF t
  <1>3. /\ t \in [error : STRING] => "error" \in DOMAIN t /\ "text" \notin DOMAIN t
        /\ t \in [text : Texts] => "error" \notin DOMAIN t
    OBVIOUS
  <1>4. c = t /\ t \in [text : Texts] /\ Absolute(t.text)
    <2>1. \A e : "text" \notin DOMAIN [error |-> e]
      OBVIOUS
    <2> QED
      BY <1>1, <1>2, <1>3, <2>1
  <1>5. t.text \in Texts /\ t.text # <<>> /\ FromRoot(t.text)
    BY <1>1, <1>3, <1>4 DEF Absolute
  <1> QED
    BY <1>4, <1>5, FromRootShape

LEMMA RelativeStep == Inv /\ relative => Inv'
  <1> SUFFICES ASSUME Inv, relative  PROVE Inv'
    OBVIOUS
  <1> DEFINE c == GetCwd(PathMax + 1)
             t == Joined(c.text)
  <1>1. /\ UNCHANGED <<world, call, rest, output, flags, attempt>>
        /\ ~Absolute(output)
        /\ \/ "error" \in DOMAIN c /\ Return(c)
           \/ Fail("ENAMETOOLONG")
           \/ /\ "text" \in DOMAIN c /\ Size(t) + 1 < PathMax
              /\ Deliver([text |-> t], call.resolved)
    BY DEF relative
  <1>2. CASE "error" \in DOMAIN c /\ Return(c)
    <2>1. "text" \notin DOMAIN c
      <3> SUFFICES ASSUME "text" \in DOMAIN c  PROVE FALSE
        OBVIOUS
      <3>1. CwdText(fs, cwd) \in [error : STRING] \/ CwdText(fs, cwd) \in [text : Texts]
        BY CwdAssumption DEF Inv, Ranges
      <3> DEFINE a == CwdText(fs, cwd)
      <3>2. c = a \/ c = [error |-> "ERANGE"] \/ c = [error |-> "ENOENT"]
        BY Zenon DEF GetCwd
      <3> HIDE DEF a, c
      <3>3. a \in [error : STRING] \/ a \in [text : Texts]
        BY <3>1 DEF a
      <3> QED
        BY <1>2, <3>2, <3>3
    <2>2. result' = c /\ pc' = "over" /\ attempt' \in 0 .. MaxTries
      BY <1>1, <1>2 DEF Return, Inv, Ranges
    <2> HIDE DEF c
    <2> QED
      BY <1>1, <2>1, <2>2, LastStep
  <1>3. CASE Fail("ENAMETOOLONG")
    BY <1>1, <1>3, ErrorStep
  <1>4. CASE "text" \in DOMAIN c /\ Size(t) + 1 < PathMax /\ Deliver([text |-> t], call.resolved)
    <2>1. c.text \in Texts /\ Shape(c.text, 1, 0)
      BY <1>4, CwdFacts
    <2>2. t \in Texts /\ Shape(t, 1, 0)
      <3> HIDE DEF c
      <3> QED
        BY <1>1, <2>1, InvFacts, JoinedText
    <2> HIDE DEF t
    <2>3. IsCanonical(t)
      BY <2>2, RootedIsCanonical
    <2>4. Size(t) < PathMax
      <3>1. Size(t) \in Nat
        BY <2>2, SizeType
      <3> QED
        BY <1>4, <3>1, InvFacts
    <2> QED
      BY <1>1, <1>4, <2>3, <2>4, DeliverStep
  <1> QED
    BY <1>1, <1>2, <1>3, <1>4

LEMMA OtherCallSteps ==
    Inv /\ (getcwd \/ get_current_dir_name \/ tempnam \/ try \/ give_up) => Inv'
  <1> SUFFICES ASSUME Inv, getcwd \/ get_current_dir_name \/ tempnam \/ try \/ give_up
               PROVE  Inv'
    OBVIOUS
  <1>1. /\ UNCHANGED <<world, call, rest, output, flags>> /\ call.op # "realpath"
        /\ attempt' = attempt \/ (attempt < MaxTries /\ attempt' = attempt + 1)
        /\ pc' = "over" \/ (pc' = "try" /\ call.op = "tempnam")
    <2>1. CASE getcwd
      BY <2>1 DEF getcwd, Deliver, Fail, Return
    <2>2. CASE get_current_dir_name
      BY <2>2 DEF get_current_dir_name, Deliver, Fail, Return
    <2>3. CASE tempnam
      BY <2>3 DEF tempnam, Fail, Return
    <2>4. CASE try
      BY <2>4 DEF try, Deliver, Fail, Return, Inv, Trying
    <2>5. CASE give_up
      BY <2>5 DEF give_up, Fail, Return, Inv, Trying
    <2> QED
      BY <2>1, <2>2, <2>3, <2>4, <2>5
  <1>2. attempt' \in 0 .. MaxTries
    BY <1>1, PathsAssumption DEF Inv, Ranges
  <1> QED
    BY <1>1, <1>2, LastStep

LEMMA OthersStep == Inv /\ others => Inv'
  <1> SUFFICES ASSUME Inv, others  PROVE Inv'
    OBVIOUS
  <1>1. /\ fs' \in FileSystems /\ cwd' \in Locations
        /\ UNCHANGED <<call, rest, output, flags, attempt, pc, result>>
    BY DEF others, Inv, Ranges
  <1>2. Ranges'
    BY <1>1 DEF Inv, Ranges, flags
  <1>3. Room' /\ Pending' /\ Trying' /\ Canonical'
    BY <1>1 DEF Inv, Room, Pending, Trying, Canonical, flags
  <1> QED
    BY <1>2, <1>3 DEF Inv

-----------------------------------------------------------------------------

LEMMA InvInit == Init => Inv
  <1> SUFFICES ASSUME Init  PROVE Inv
    OBVIOUS
  <1>1. <<>> \in Texts /\ Size(<<>>) = 0 /\ Len(<<>>) = 0
    BY SizeSmall
  <1>2. Ranges /\ Room
    <2>1. 0 \in 0 .. SymloopMax - 1 /\ 0 \in 0 .. MaxTries /\ 0 < PathMax
      BY PathsAssumption
    <2>2. /\ rest = <<>> /\ output = <<>> /\ loop_count = 0 /\ attempt = 0
          /\ pc = "call" /\ check_dir = FALSE
          /\ fs \in FileSystems /\ cwd \in Locations /\ call \in Calls
      BY DEF Init
    <2> QED
      BY <1>1, <2>1, <2>2 DEF Ranges, Room
  <1>3. Shape(<<>>, 0, 0)
    BY <1>1 DEF Shape
  <1>4. Pending
    BY <1>1, <1>3 DEF Init, Pending
  <1> QED
    BY <1>2, <1>4 DEF Init, Inv, Trying, Canonical

LEMMA InvNext == Inv /\ [Next]_vars => Inv'
  <1> SUFFICES ASSUME Inv, [Next]_vars  PROVE Inv'
    OBVIOUS
  <1>1. CASE Resolve
    BY <1>1, RootStep, DotStep, PendStep, UpStep, NotALinkStep, FollowStep, RefuseStep,
       AbsoluteStep, RelativeStep DEF Resolve
  <1>2. CASE Step
    BY <1>1, <1>2, RealpathStep, OtherCallSteps DEF Step
  <1>3. CASE UNCHANGED vars
    <2>1. attempt' \in 0 .. MaxTries /\ UNCHANGED <<world, call, rest, output, flags, pc, result>>
      BY <1>3 DEF vars, Inv, Ranges
    <2> QED
      BY <2>1, LastStep DEF Inv, Ranges, Trying, Canonical, IsCanonical
  <1> QED
    BY <1>2, <1>3, OthersStep DEF Next

LEMMA Invariance == Spec => []Inv
  BY InvInit, InvNext, PTL DEF Spec

\* Neither the stack nor output overflows (lines 139, 152, 210 and 215 of
\* path_overrides.c), whatever texts the links have that readlink finds, and
\* links that lead to themselves are given up before SYMLOOP_MAX.
THEOREM BuffersAlwaysHold == Spec => []BuffersHold
  <1>1. Inv => BuffersHold
    <2> SUFFICES ASSUME Inv  PROVE BuffersHold
      OBVIOUS
    <2>1. p \in 1 .. PathMax
      BY InvFacts DEF p
    <2>2. q \in 0 .. PathMax - 1
      BY InvFacts DEF q, Inv, Room
    <2>3. pending_up \in 0 .. PathMax
      <3>1. pending_up \in Nat /\ Len(output) \in Nat /\ Size(output) = Len(output) + pending_up
            /\ Size(output) < PathMax
        BY InvFacts DEF Good, Shape, Texts
      <3> QED
        BY <3>1, PathsAssumption
    <2> QED
      BY <2>1, <2>2, <2>3 DEF BuffersHold, Inv, Ranges
  <1> QED
    BY <1>1, Invariance, PTL

\* Whatever the kernel answers, and however its answers change during the call,
\* what realpath returns is absolute, fits PATH_MAX, and has no ".", no ".." and
\* no empty component; that the working directory's own text is so is assumed.
THEOREM AlwaysCanonical == Spec => []Canonical
  <1>1. Inv => Canonical
    BY DEF Inv
  <1> QED
    BY <1>1, Invariance, PTL

-----------------------------------------------------------------------------
(* The sizes of module Copies, on unsigned numbers of any width.           *)

LEMMA NoWrap ==
    ASSUME NEW m \in Nat \ {0}, NEW n \in 0 .. m - 1
    PROVE  Wrapped(n, m) = n
  BY SMT DEF Wrapped

\* A cpu set has whole words, a bit for every cpu asked for and less than a word
\* to spare, for any count a caller can pass, up to SIZE_MAX: dividing before
\* adding (lines 9 to 12 of sched_overrides.c) cannot wrap, as (count + 63) / 64
\* would.
THEOREM CpuSetFits ==
    ASSUME NEW m \in Nat, m >= 128, NEW count \in 0 .. m - 1
    PROVE  /\ ao_cpu_alloc_size(count, m) \in 0 .. m - 1
           /\ ao_cpu_alloc_size(count, m) % 8 = 0
           /\ 8 * ao_cpu_alloc_size(count, m) >= count
           /\ 8 * ao_cpu_alloc_size(count, m) < count + 64
  <1> DEFINE words == count \div 64
             bits  == count % 64
             more  == (bits + 63) \div 64
  <1>1. /\ words \in Nat /\ bits \in 0 .. 63
        /\ count = 64 * words + bits
    BY SMT
  <1>2. /\ more \in 0 .. 1
        /\ more = 0 <=> bits = 0
    BY <1>1, SMT
  <1>3. Wrapped(bits + 63, m) = bits + 63
    BY <1>1, NoWrap, SMT
  <1>4. ao_cpu_alloc_size(count, m) = Wrapped(8 * Wrapped(words + more, m), m)
    BY <1>3 DEF ao_cpu_alloc_size
  <1> HIDE DEF words, bits, more
  <1>5. words + more \in 0 .. m - 1 /\ 8 * (words + more) \in 0 .. m - 1
    BY <1>1, <1>2, SMT
  <1>6. ao_cpu_alloc_size(count, m) = 8 * (words + more)
    BY <1>4, <1>5, NoWrap, SMT
  <1>7. /\ (8 * (words + more)) % 8 = 0
        /\ 64 * (words + more) >= count
        /\ 64 * (words + more) < count + 64
    BY <1>1, <1>2, SMT
  <1> QED
    BY <1>5, <1>6, <1>7, SMT

\* A copy has room for the string and its terminator, and its size does not wrap,
\* for every string that is an object of the program.
LEMMA CopyFits ==
    ASSUME NEW m \in Nat \ {0}, NEW len \in Nat, NEW unit \in {1, 4},
           (len + 1) * unit < m
    PROVE  dup_size(len, unit, m) = (len + 1) * unit
  <1>1. len + 1 \in 0 .. m - 1 /\ (len + 1) * unit \in 0 .. m - 1
    BY SMT
  <1> QED
    BY <1>1, NoWrap, SMT DEF dup_size

=============================================================================
