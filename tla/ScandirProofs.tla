---------------------------- MODULE ScandirProofs ----------------------------
(***************************************************************************)
(* scandir of module Scandir, for directories, arrays and sets of errors   *)
(* of every size: the memory of a call, what it tells its caller, and that *)
(* what it returns is complete.                                            *)
(***************************************************************************)
EXTENDS Scandir, TLAPS

\* The variables have their types.
Shape ==
    /\ dir \in Seq(Int)
    /\ at \in 0 .. Len(dir)
    /\ cmp \in BOOLEAN
    /\ names \in Seq(Int)
    /\ room \in Nat /\ capacity \in Nat
    /\ errno \in {0} \cup Errors /\ old_errno \in {0} \cup Errors
    /\ pc \in {"call", "loop", "sel", "store", "close", "decide", "failed", "succeeded"}

\* The blocks of a call that has not failed are the array, once there is one, and
\* those of the entries in it.
Blocks ==
    /\ Len(names) <= room
    /\ pc \in {"call", "loop", "sel", "store"} => capacity = room
    /\ live = IF pc = "failed" THEN {}
              ELSE (IF room = 0 THEN {} ELSE {NAMES}) \cup 1 .. Len(names)
    /\ pc = "call" => room = 0
    /\ room # 0 /\ names = <<>> =>
          \/ pc \in {"store", "failed"}
          \/ pc \in {"close", "decide"} /\ errno # 0
    /\ pc = "succeeded" => res = names

\* errno is not 0 exactly when a step has failed, but for an array at its limit,
\* and is ENOMEM when no more than memory ran out.
Reasons ==
    /\ pc \in {"call", "loop", "sel", "store"} => cause = {}
    /\ pc \in {"close", "decide"} =>
          /\ errno # 0 => cause # {}
          /\ errno = 0 => cause \subseteq {"limit"}
          /\ cause = {"memory"} => errno = ENOMEM

\* s is what sel accepts of the first k entries, in the order of the directory.
Lists(s, k) ==
    \E place \in Bijection(DOMAIN s, Accepted(k)) :
        /\ \A i \in DOMAIN s : s[i] = dir[place[i]]
        /\ \A i, j \in DOMAIN s : i < j => place[i] < place[j]

\* The array has what sel has accepted so far; the entry under way, if there is
\* one, is the last one read.
Complete ==
    /\ pc = "call" => at = 0 /\ names = <<>>
    /\ pc = "loop" => Lists(names, at)
    /\ pc \in {"sel", "store"} => at > 0 /\ Lists(names, at - 1)
    /\ pc = "store" => dir[at] \in chosen
    /\ pc \in {"close", "decide"} /\ errno = 0 =>
          IF "limit" \in cause THEN at > 0 /\ Lists(names, at - 1)
          ELSE at = Len(dir) /\ Lists(names, at)

Inv == Shape /\ Blocks /\ Reasons /\ Complete /\ AllOrNothing /\ FailuresTold /\ NothingMissing

-----------------------------------------------------------------------------
(* Lists of accepted entries.                                              *)

\* Before the first entry nothing is listed.
LEMMA ListsNothing == Lists(<<>>, 0)
  <1> DEFINE place == [i \in {} |-> 0]
  <1>1. Accepted(0) = {} /\ DOMAIN <<>> = {}
    BY DEF Accepted
  <1>2. place \in Bijection({}, {})
    BY DEF Bijection, Injection, Surjection, IsInjective
  <1>3. QED
    BY <1>1, <1>2 DEF Lists

\* An entry that sel does not accept changes nothing.
LEMMA ListsSkip ==
    ASSUME NEW s, NEW k \in Nat, k > 0, dir[k] \notin chosen, Lists(s, k - 1)
    PROVE  Lists(s, k)
  <1>1. Accepted(k) = Accepted(k - 1)
    BY DEF Accepted
  <1>2. QED
    BY <1>1 DEF Lists

\* An entry that sel accepts goes to the end of the list.
LEMMA ListsAppend ==
    ASSUME NEW s \in Seq(Int), NEW k \in Nat, k > 0, dir[k] \in chosen,
           dir[k] \in Int, Lists(s, k - 1)
    PROVE  Lists(Append(s, dir[k]), k)
  <1> DEFINE o == Append(s, dir[k])
             n == Len(s)
  <1> HIDE DEF n
  <1>1. PICK place \in Bijection(DOMAIN s, Accepted(k - 1)) :
           /\ \A i \in DOMAIN s : s[i] = dir[place[i]]
           /\ \A i, j \in DOMAIN s : i < j => place[i] < place[j]
    BY DEF Lists
  <1>2. /\ n \in Nat /\ DOMAIN s = 1 .. n
        /\ DOMAIN o = 1 .. n + 1 /\ o[n + 1] = dir[k]
        /\ \A i \in 1 .. n : o[i] = s[i]
    BY DEF n
  <1>3. /\ place \in [1 .. n -> Accepted(k - 1)]
        /\ \A i, j \in 1 .. n : place[i] = place[j] => i = j
        /\ \A a \in Accepted(k - 1) : \E i \in 1 .. n : place[i] = a
    BY <1>1, <1>2 DEF Bijection, Injection, Surjection, IsInjective
  <1>4. /\ Accepted(k) = Accepted(k - 1) \cup {k}
        /\ \A a \in Accepted(k - 1) : a \in Nat /\ a < k
    BY DEF Accepted
  <1> DEFINE longer == [i \in 1 .. n + 1 |-> IF i = n + 1 THEN k ELSE place[i]]
  <1>5. /\ longer \in [1 .. n + 1 -> Accepted(k)]
        /\ longer[n + 1] = k
        /\ \A i \in 1 .. n : longer[i] = place[i] /\ longer[i] \in Nat /\ longer[i] < k
        /\ \A i \in 1 .. n + 1 : i # n + 1 => i \in 1 .. n
    <2>1. \A i \in 1 .. n + 1 : i # n + 1 => i \in 1 .. n
      BY <1>2
    <2>2. \A i \in 1 .. n : i \in 1 .. n + 1 /\ i # n + 1
      BY <1>2
    <2>3. n + 1 \in 1 .. n + 1
      BY <1>2
    <2>4. \A i \in 1 .. n : place[i] \in Accepted(k - 1)
      BY <1>3
    <2>5. QED
      BY <1>4, <2>1, <2>2, <2>3, <2>4
  <1> HIDE DEF longer, o
  <1>6. longer \in Bijection(1 .. n + 1, Accepted(k))
    <2>1. ASSUME NEW i \in 1 .. n + 1, NEW j \in 1 .. n + 1, longer[i] = longer[j]
          PROVE  i = j
      <3>1. CASE i \in 1 .. n /\ j \in 1 .. n
        BY <1>3, <1>5, <2>1, <3>1
      <3>2. \A l \in 1 .. n : longer[l] # longer[n + 1]
        BY <1>5
      <3>3. QED
        BY <1>5, <2>1, <3>1, <3>2
    <2>2. \A a \in Accepted(k) : \E i \in 1 .. n + 1 : longer[i] = a
      BY <1>2, <1>3, <1>4, <1>5
    <2>3. QED
      BY <1>5, <2>1, <2>2 DEF Bijection, Injection, Surjection, IsInjective
  <1>7. \A i \in 1 .. n + 1 : o[i] = dir[longer[i]]
    BY <1>1, <1>2, <1>5
  <1>8. \A i, j \in 1 .. n + 1 : i < j => longer[i] < longer[j]
    <2> SUFFICES ASSUME NEW i \in 1 .. n + 1, NEW j \in 1 .. n + 1, i < j
                 PROVE  longer[i] < longer[j]
      OBVIOUS
    <2>1. i \in 1 .. n
      BY <1>2
    <2>2. CASE j = n + 1
      BY <1>5, <2>1, <2>2
    <2>3. CASE j \in 1 .. n
      BY <1>1, <1>2, <1>5, <2>1, <2>3
    <2>4. QED
      BY <1>5, <2>2, <2>3
  <1>9. Lists(o, k)
    BY <1>2, <1>6, <1>7, <1>8 DEF Lists
  <1>10. QED
    BY <1>9 DEF o

\* A rearrangement of a list has the same entries, each of them once.
LEMMA Rearranged ==
    ASSUME NEW s \in Seq(Int), NEW k, Lists(s, k), NEW o \in qsort(s)
    PROVE  /\ o \in Seq(Int) /\ Len(o) = Len(s) /\ DOMAIN o = DOMAIN s
           /\ \A i, j \in DOMAIN s : i < j => o[i] <= o[j]
           /\ \E place \in Bijection(DOMAIN o, Accepted(k)) :
                 \A i \in DOMAIN o : o[i] = dir[place[i]]
  <1>1. PICK p \in Bijection(DOMAIN s, DOMAIN s) :
           /\ o = [i \in DOMAIN s |-> s[p[i]]]
           /\ \A i, j \in DOMAIN s : i < j => o[i] <= o[j]
    BY DEF qsort
  <1>2. PICK place \in Bijection(DOMAIN s, Accepted(k)) :
           \A i \in DOMAIN s : s[i] = dir[place[i]]
    BY DEF Lists
  <1>3. /\ p \in [DOMAIN s -> DOMAIN s]
        /\ \A i, j \in DOMAIN s : p[i] = p[j] => i = j
        /\ \A i \in DOMAIN s : \E j \in DOMAIN s : p[j] = i
        /\ place \in [DOMAIN s -> Accepted(k)]
        /\ \A i, j \in DOMAIN s : place[i] = place[j] => i = j
        /\ \A a \in Accepted(k) : \E i \in DOMAIN s : place[i] = a
    BY <1>1, <1>2 DEF Bijection, Injection, Surjection, IsInjective
  <1>4. DOMAIN s = 1 .. Len(s) /\ Len(s) \in Nat /\ \A i \in DOMAIN s : s[i] \in Int
    OBVIOUS
  <1>5. o \in [1 .. Len(s) -> Int]
    BY <1>1, <1>3, <1>4
  <1>6. o \in Seq(Int) /\ Len(o) = Len(s) /\ DOMAIN o = DOMAIN s
    BY <1>4, <1>5
  <1> DEFINE moved == [i \in DOMAIN s |-> place[p[i]]]
  <1>7. moved \in [DOMAIN s -> Accepted(k)] /\ \A i \in DOMAIN s : moved[i] = place[p[i]]
    BY <1>3
  <1> HIDE DEF moved
  <1>8. /\ \A i, j \in DOMAIN s : moved[i] = moved[j] => i = j
        /\ \A a \in Accepted(k) : \E i \in DOMAIN s : moved[i] = a
    BY <1>3, <1>7
  <1>9. moved \in Bijection(DOMAIN s, Accepted(k))
    BY <1>7, <1>8 DEF Bijection, Injection, Surjection, IsInjective
  <1>10. \A i \in DOMAIN s : o[i] = dir[moved[i]]
    <2>1. \A i \in DOMAIN s : p[i] \in DOMAIN s /\ o[i] = s[p[i]]
      BY <1>1, <1>3
    <2>2. ASSUME NEW i \in DOMAIN s PROVE o[i] = dir[moved[i]]
      <3>1. p[i] \in DOMAIN s /\ o[i] = s[p[i]]
        BY <2>1, Zenon
      <3>2. s[p[i]] = dir[place[p[i]]]
        BY <1>2, <3>1, Zenon
      <3>3. moved[i] = place[p[i]]
        BY <1>7, Zenon
      <3>4. QED
        BY <3>1, <3>2, <3>3, Zenon
    <2>3. QED
      BY <2>2
  <1>11. QED
    BY <1>1, <1>6, <1>9, <1>10

-----------------------------------------------------------------------------
(* The inductive invariant, part by part.                                  *)

\* The converted count is the count while an int can hold it.
LEMMA CountFits ==
    ASSUME NEW c \in Nat
    PROVE  ToInt(c) = c \/ c > IntMax
  <1>1. IntMax \in Nat
    BY ScandirAssumption
  <1>2. CASE c <= IntMax
    <2>1. c % (2 * (IntMax + 1)) = c
      BY <1>1, <1>2
    <2>2. QED
      BY <1>1, <1>2, <2>1 DEF ToInt
  <1>3. CASE c > IntMax
    BY <1>3
  <1>4. QED
    BY <1>1, <1>2, <1>3

\* The array that succeed leaves has as many entries as the one it found.
LEMMA SortedLength ==
    ASSUME Shape, Complete, succeed
    PROVE  names' \in Seq(Int) /\ Len(names') = Len(names) /\ (names' = <<>> => names = <<>>)
  <1>1. names' = names \/ (names' \in Seq(Int) /\ Len(names') = Len(names))
    BY Rearranged DEF succeed, Complete, Shape
  <1>2. QED
    BY <1>1 DEF Shape

\* Every step keeps the types.
LEMMA ShapeStep ==
    ASSUME Inv, Next
    PROVE  Shape'
  <1> USE ScandirAssumption DEF Shape, stream, caller, array, output
  <1>0. Shape
    BY DEF Inv
  <1>1. CASE opendir
    BY <1>0, <1>1 DEF opendir
  <1>2. CASE readdir
    BY <1>0, <1>2 DEF readdir, Cleared
  <1>3. CASE sel
    BY <1>0, <1>3 DEF sel
  <1>4. CASE grow
    BY <1>0, <1>4 DEF grow
  <1>5. CASE store
    <2>1. dir[at] \in Int
      BY <1>0, <1>5 DEF store, Inv, Complete
    <2>2. names' = names \/ names' = Append(names, dir[at])
      BY <1>5 DEF store
    <2>3. names' \in Seq(Int)
      <3>1. names \in Seq(Int)
        BY <1>0
      <3>2. Append(names, dir[at]) \in Seq(Int)
        BY <2>1, <3>1
      <3>3. QED
        BY <2>2, <3>1, <3>2
    <2>4. QED
      BY <1>0, <1>5, <2>3 DEF store
  <1>6. CASE closedir
    BY <1>0, <1>6 DEF closedir, AfterClose
  <1>7. CASE fail
    BY <1>0, <1>7 DEF fail
  <1>8. CASE succeed
    <2>1. names' \in Seq(Int)
      BY <1>8, SortedLength DEF Inv
    <2>2. QED
      BY <1>0, <1>8, <2>1 DEF succeed
  <1>9. QED
    BY <1>1, <1>2, <1>3, <1>4, <1>5, <1>6, <1>7, <1>8 DEF Next

\* Every step keeps the account of the blocks.
LEMMA BlocksStep ==
    ASSUME Inv, Next
    PROVE  Blocks'
  <1> USE ScandirAssumption DEF Blocks, stream, caller, array, output, NAMES
  <1>0. Shape /\ Blocks /\ Len(names) \in Nat
    BY DEF Inv, Shape
  <1>1. CASE opendir
    BY <1>0, <1>1 DEF opendir, Inv, Complete
  <1>2. CASE readdir
    BY <1>0, <1>2 DEF readdir, Cleared
  <1>3. CASE sel
    BY <1>0, <1>3 DEF sel
  <1>4. CASE grow
    BY <1>0, <1>4 DEF grow, Full, Shape
  <1>5. CASE store
    BY <1>0, <1>5 DEF store, Full, Shape
  <1>6. CASE closedir
    BY <1>0, <1>6 DEF closedir, AfterClose
  <1>7. CASE fail
    BY <1>0, <1>7 DEF fail, Freed
  <1>8. CASE succeed
    <2>1. Len(names') = Len(names) /\ (names' = <<>> => names = <<>>)
      BY <1>8, SortedLength DEF Inv
    <2>2. QED
      BY <1>0, <1>8, <2>1 DEF succeed
  <1>9. QED
    BY <1>1, <1>2, <1>3, <1>4, <1>5, <1>6, <1>7, <1>8 DEF Next

\* Every step keeps errno and the history of failures together.
LEMMA ReasonsStep ==
    ASSUME Inv, Next
    PROVE  Reasons'
  <1> USE ScandirAssumption DEF Reasons, stream, caller, array, output
  <1>0. Shape /\ Reasons
    BY DEF Inv
  <1>1. CASE opendir
    BY <1>0, <1>1 DEF opendir
  <1>2. CASE readdir
    BY <1>0, <1>2 DEF readdir, Cleared
  <1>3. CASE sel
    BY <1>0, <1>3 DEF sel
  <1>4. CASE grow
    BY <1>0, <1>4 DEF grow
  <1>5. CASE store
    BY <1>0, <1>5 DEF store
  <1>6. CASE closedir
    BY <1>0, <1>6 DEF closedir, AfterClose
  <1>7. CASE fail
    BY <1>0, <1>7 DEF fail
  <1>8. CASE succeed
    BY <1>0, <1>8 DEF succeed
  <1>9. QED
    BY <1>1, <1>2, <1>3, <1>4, <1>5, <1>6, <1>7, <1>8 DEF Next

\* A step that leaves the directory and sel alone leaves a list alone.
LEMMA ListsKept ==
    ASSUME UNCHANGED <<dir, chosen>>
    PROVE  /\ UNCHANGED <<names, at>> => (Lists(names, at) => Lists(names, at)')
           /\ UNCHANGED <<names, at>> => (Lists(names, at - 1) => Lists(names, at - 1)')
           /\ UNCHANGED names /\ at' = at + 1 /\ at \in Nat =>
                 (Lists(names, at) => Lists(names, at - 1)')
  <1>1. \A k : Accepted(k)' = Accepted(k)
    BY DEF Accepted
  <1>2. at \in Nat => (at + 1) - 1 = at
    OBVIOUS
  <1>3. QED
    BY <1>1, <1>2 DEF Lists, Accepted

\* Every step keeps the array up to date with the entries read.
LEMMA CompleteStep ==
    ASSUME Inv, Next
    PROVE  Complete'
  <1> USE ScandirAssumption DEF Complete, stream, caller, array, output
  <1>0. Shape /\ Reasons /\ Complete /\ at \in Nat
    BY DEF Inv, Shape
  <1>k. UNCHANGED <<dir, chosen>>
    BY DEF Next, opendir, readdir, sel, grow, store, closedir, fail, succeed
  <1>1. CASE opendir
    <2>1. pc' = "loop" => Lists(<<>>, 0)'
      BY ListsNothing, <1>k DEF Lists, Accepted
    <2>2. QED
      BY <1>0, <1>1, <2>1 DEF opendir
  <1>2. CASE readdir
    BY <1>0, <1>2, <1>k, ListsKept DEF readdir, Cleared, Reasons
  <1>3. CASE sel
    <2>1. dir[at] \notin chosen => Lists(names, at)
      BY <1>0, <1>3, ListsSkip DEF sel
    <2>2. QED
      BY <1>0, <1>3, <1>k, <2>1, ListsKept DEF sel
  <1>4. CASE grow
    BY <1>0, <1>4, <1>k, ListsKept DEF grow, Reasons
  <1>5. CASE store
    <2>1. dir[at] \in Int /\ Lists(Append(names, dir[at]), at)
      BY <1>0, <1>5, ListsAppend DEF store, Shape
    <2>2. CASE pc' = "loop"
      <3>1. names' = Append(names, dir[at]) /\ at' = at
        BY <1>5, <2>2 DEF store
      <3>2. Lists(names, at)'
        BY <1>k, <2>1, <3>1 DEF Lists, Accepted
      <3>3. QED
        BY <2>2, <3>2
    <2>3. CASE pc' = "close"
      BY <1>5, <2>3 DEF store
    <2>4. QED
      BY <1>5, <2>2, <2>3 DEF store
  <1>6. CASE closedir
    BY <1>0, <1>6, <1>k, ListsKept DEF closedir, AfterClose
  <1>7. CASE fail
    BY <1>7 DEF fail
  <1>8. CASE succeed
    BY <1>8 DEF succeed
  <1>9. QED
    BY <1>1, <1>2, <1>3, <1>4, <1>5, <1>6, <1>7, <1>8 DEF Next

\* What succeed publishes is complete.
LEMMA Published ==
    ASSUME Inv, succeed
    PROVE  NothingMissing'
  <1> DEFINE k == IF "limit" \in cause THEN at - 1 ELSE Len(dir)
  <1>1. /\ Lists(names, k) /\ names \in Seq(Int)
        /\ UNCHANGED <<dir, at, chosen, cmp, cause>> /\ res' = names'
    BY DEF Inv, Shape, Complete, succeed, stream, caller
  <1>2. Accepted(k)' = Accepted(k) /\ k' = k
    BY <1>1 DEF Accepted
  <1> HIDE DEF k
  <1>3. \E place \in Bijection(DOMAIN res', Accepted(k)) :
            /\ \A i \in DOMAIN res' : res'[i] = dir[place[i]]
            /\ \A i, j \in DOMAIN res' : i < j =>
                  IF cmp THEN res'[i] <= res'[j] ELSE place[i] < place[j]
    <2>1. CASE cmp
      <3>1. names' \in qsort(names)
        BY <2>1 DEF succeed
      <3>2. /\ DOMAIN names' = DOMAIN names
            /\ \A i, j \in DOMAIN names : i < j => names'[i] <= names'[j]
            /\ \E place \in Bijection(DOMAIN names', Accepted(k)) :
                  \A i \in DOMAIN names' : names'[i] = dir[place[i]]
        BY <1>1, <3>1, Rearranged
      <3>3. QED
        BY <1>1, <2>1, <3>2
    <2>2. CASE ~cmp
      <3>1. names' = names
        BY <2>2 DEF succeed
      <3>2. QED
        BY <1>1, <2>2, <3>1 DEF Lists
    <2>3. QED
      BY <2>1, <2>2
  <1>4. QED
    BY <1>1, <1>2, <1>3 DEF NothingMissing, k

\* Every step keeps what a call that is over promises.
LEMMA PromisesStep ==
    ASSUME Inv, Next, Shape', Blocks'
    PROVE  AllOrNothing' /\ FailuresTold' /\ NothingMissing'
  <1>1. AllOrNothing'
    <2>1. Len(names') \in Nat /\ (names' = <<>> <=> Len(names') = 0)
      BY DEF Shape
    <2>2. CASE pc' = "succeeded"
      <3>1. res' = names' /\ (room' = 0 <=> names' = <<>>) /\ Len(names') <= room'
        BY <2>1, <2>2 DEF Blocks, Shape
      <3>2. live' = (IF room' = 0 THEN {} ELSE {NAMES}) \cup 1 .. Len(names')
        BY <2>2 DEF Blocks
      <3>3. names' = <<>> => 1 .. Len(names') = {}
        BY <2>1
      <3>4. QED
        BY <2>2, <3>1, <3>2, <3>3 DEF AllOrNothing, NULL
    <2>3. CASE pc' # "succeeded"
      BY <2>3 DEF Blocks, AllOrNothing
    <2>4. QED
      BY <2>2, <2>3
  <1>2. CASE opendir
    BY <1>1, <1>2, ScandirAssumption DEF opendir, FailuresTold, NothingMissing
  <1>3. CASE fail
    BY <1>1, <1>3 DEF Inv, Shape, Reasons, fail, FailuresTold, NothingMissing
  <1>4. CASE succeed
    <2>1. result' = Len(res') \/ Len(res') > IntMax
      <3>1. Len(names) \in Nat /\ Len(res') = Len(names)
        BY <1>4, SortedLength DEF Inv, succeed, Shape
      <3>2. QED
        BY <1>4, <3>1, CountFits DEF succeed
    <2>2. FailuresTold'
      BY <1>4, <2>1 DEF Inv, Reasons, succeed, FailuresTold, caller
    <2>3. QED
      BY <1>1, <1>4, <2>2, Published
  <1>5. CASE readdir \/ sel \/ grow \/ store \/ closedir
    <2>1. pc' \notin {"failed", "succeeded"}
      BY <1>5 DEF readdir, sel, grow, store, closedir
    <2>2. QED
      BY <1>1, <2>1 DEF FailuresTold, NothingMissing
  <1>6. QED
    BY <1>2, <1>3, <1>4, <1>5 DEF Next

\* The invariant holds in every state of a call.
THEOREM Invariance == Spec => []Inv
  <1>1. Init => Inv
    <2> SUFFICES ASSUME Init PROVE Inv
      OBVIOUS
    <2>1. Shape /\ Blocks /\ Reasons
      BY ScandirAssumption DEF Init, Shape, Blocks, Reasons, NAMES
    <2>2. Complete
      BY DEF Init, Complete
    <2>3. AllOrNothing /\ FailuresTold /\ NothingMissing
      BY DEF Init, AllOrNothing, FailuresTold, NothingMissing
    <2>4. QED
      BY <2>1, <2>2, <2>3 DEF Inv
  <1>2. Inv /\ [Next]_vars => Inv'
    <2> SUFFICES ASSUME Inv, [Next]_vars PROVE Inv'
      OBVIOUS
    <2>1. CASE Next
      BY <2>1, ShapeStep, BlocksStep, ReasonsStep, CompleteStep, PromisesStep DEF Inv
    <2>2. CASE UNCHANGED vars
      <3> USE <2>2 DEF vars, stream, caller, array, output, Inv
      <3>1. Shape' /\ Blocks' /\ Reasons'
        BY DEF Shape, Blocks, Reasons
      <3>2. Complete'
        <4>1. \A f, k : Lists(f, k)' <=> Lists(f, k)
          BY DEF Lists, Accepted
        <4>2. QED
          BY <4>1 DEF Complete
      <3>3. AllOrNothing' /\ FailuresTold'
        BY DEF AllOrNothing, FailuresTold
      <3>4. NothingMissing'
        <4>1. \A k : Accepted(k)' = Accepted(k)
          BY DEF Accepted
        <4>2. QED
          BY <4>1, SMTT(30) DEF NothingMissing
      <3>5. QED
        BY <3>1, <3>2, <3>3, <3>4
    <2>3. QED
      BY <2>1, <2>2
  <1>3. QED
    BY <1>1, <1>2, PTL DEF Spec

\* A failing call keeps no block and a successful one exactly the array and the
\* entries, and no entry is stored past the array.
THEOREM MemoryAllOrNothing == Spec => []AllOrNothing
  BY Invariance, PTL DEF Inv

\* The test of errno after closedir tells the failures of the loop from its end.
THEOREM FailuresAreTold == Spec => []FailuresTold
  BY Invariance, PTL DEF Inv

\* A successful call returns everything that sel accepts, up to an array that
\* cannot grow.
THEOREM NothingIsMissing == Spec => []NothingMissing
  BY Invariance, PTL DEF Inv

=============================================================================
