----------------------- MODULE KeyedContainersProofs -----------------------
(***************************************************************************)
(* Proofs about KeyedContainers, for any processes, kinds, keys and bounds:*)
(* nothing leaves a block before it ends, and an operation on a whole set, *)
(* though it is many accesses to the store, is exact if nobody disturbs    *)
(* it.                                                                     *)
(*                                                                         *)
(* The inductive invariant says of each process where its operation is and *)
(* what that has to do with the store: as long as nobody has disturbed it, *)
(* what the operation has yet to look at, what it has collected and what   *)
(* the container had in it at the start make up what it is meant to leave. *)
(***************************************************************************)
EXTENDS KeyedContainers, FiniteSetTheorems, SequenceTheorems, WellFoundedInduction, TLAPS

(***************************************************************************)
(* Lists of keys.                                                          *)
(***************************************************************************)

Descending(s) == \A i, j \in DOMAIN s : i < j => s[i] > s[j]

\* A list of a set: every element once.
Lists(s, S) == s \in Seq(S) /\ IsInjective(s) /\ Range(s) = S

\* A list of n different elements of a set of n has them all.
LEMMA FullList ==
    ASSUME NEW S, IsFiniteSet(S), NEW s \in [1 .. Cardinality(S) -> S], IsInjective(s)
    PROVE  Lists(s, S)
<1> DEFINE n == Cardinality(S)
<1>1. n \in Nat
  BY FS_CardinalityType
<1>2. IsFiniteSet(1 .. n) /\ Cardinality(1 .. n) = n
  BY <1>1, FS_Interval
<1>3. s \in Injection(1 .. n, S)
  BY DEF Injection
<1>4. s \in Surjection(1 .. n, S)
  BY <1>2, <1>3, FS_Injection
<1>5. Range(s) = S
  BY <1>4 DEF Surjection, Range
<1>6. s \in Seq(S)
  BY <1>1
<1>7. QED
  BY <1>5, <1>6 DEF Lists

\* A finite set of numbers has a list in descending order.
LEMMA DescendingListExists ==
    ASSUME NEW S \in SUBSET Nat, IsFiniteSet(S)
    PROVE  \E s \in [1 .. Cardinality(S) -> S] : Descending(s)
<1> DEFINE Has(T) == \E s \in [1 .. Cardinality(T) -> T] : Descending(s)
           Bad == {T \in SUBSET S : ~Has(T)}
           R == StrictSubsetOrdering(S)
<1>1. IsWellFoundedOn(R, FiniteSubsetsOf(S)) /\ FiniteSubsetsOf(S) = SUBSET S
  BY FS_StrictSubsetOrderingWellFounded, FS_FiniteSubsetsOfFinite
<1>2. SUFFICES ASSUME Bad # {}
               PROVE  FALSE
  OBVIOUS
<1>3. PICK T \in Bad : \A U \in Bad : ~(<<U, T>> \in R)
  <2>1. Bad \subseteq FiniteSubsetsOf(S)
    BY <1>1
  <2> HIDE DEF Bad, R
  <2>2. QED
    BY <1>1, <1>2, <2>1, WFMin
<1>4. IsFiniteSet(T) /\ T \subseteq Nat
  BY FS_Subset
<1>5. T # {}
  <2>1. SUFFICES ASSUME T = {}
                 PROVE  Has({})
    OBVIOUS
  <2>2. Cardinality({}) = 0 /\ 1 .. 0 = {}
    BY FS_EmptySet
  <2>3. [i \in {} |-> i] \in [1 .. Cardinality({}) -> {}] /\ Descending([i \in {} |-> i])
    BY <2>2 DEF Descending
  <2>4. QED
    BY <2>3
<1>6. PICK m \in T : \A k \in T : ~(<<k, m>> \in OpToRel(<, Nat))
  BY <1>4, <1>5, NatLessThanWellFounded, WFMin
<1>7. \A k \in T : m <= k
  <2>1. \A k \in T : ~(k < m)
    BY <1>4, <1>6 DEF OpToRel
  <2>2. QED
    BY <1>4, <2>1
<1> DEFINE U == T \ {m}
           n == Cardinality(U)
<1>8. n \in Nat /\ Cardinality(T) = n + 1
  <2>1. IsFiniteSet(U) /\ Cardinality(U) = Cardinality(T) - 1
    BY <1>4, FS_RemoveElement
  <2>2. Cardinality(U) \in Nat /\ Cardinality(T) \in Nat
    BY <1>4, <2>1, FS_CardinalityType
  <2>3. QED
    BY <2>1, <2>2
<1>9. Has(U)
  <2>1. <<U, T>> \in R
    BY DEF StrictSubsetOrdering
  <2>2. QED
    BY <1>3, <2>1
<1>10. PICK s \in [1 .. n -> U] : Descending(s)
  BY <1>9
<1> HIDE DEF U, n
<1> DEFINE t == [i \in 1 .. (n + 1) |-> IF i = n + 1 THEN m ELSE s[i]]
<1>11. \A i \in 1 .. n : s[i] \in T /\ s[i] > m
  <2>1. SUFFICES ASSUME NEW i \in 1 .. n
                 PROVE  s[i] \in T /\ s[i] > m
    OBVIOUS
  <2>2. s[i] \in T /\ s[i] # m
    BY <1>10 DEF U
  <2>3. s[i] \in Nat /\ m \in Nat /\ m <= s[i]
    BY <1>4, <1>7, <2>2
  <2>4. QED
    BY <2>2, <2>3
<1>12. t \in [1 .. Cardinality(T) -> T]
  BY <1>8, <1>11
<1>13. Descending(t)
  <2>1. SUFFICES ASSUME NEW i \in 1 .. (n + 1), NEW j \in 1 .. (n + 1), i < j
                 PROVE  t[i] > t[j]
    BY DEF Descending
  <2>2. CASE j = n + 1
    BY <1>8, <1>11, <2>1, <2>2
  <2>3. CASE j # n + 1
    BY <1>8, <1>10, <2>1, <2>3 DEF Descending
  <2>4. QED
    BY <2>2, <2>3
<1>14. Has(T)
  BY <1>12, <1>13
<1>15. QED
  BY <1>14

\* What get_keyed_entries yields: every key once, in descending order.
LEMMA ListedProperties ==
    ASSUME NEW S \in SUBSET Key
    PROVE  /\ Listed(S) \in Seq(Key)
           /\ IsInjective(Listed(S))
           /\ Range(Listed(S)) = S
           /\ Descending(Listed(S))
<1>1. S \in SUBSET Nat /\ IsFiniteSet(S)
  BY ConstantsAssumption, FS_Subset
<1> DEFINE s == Listed(S)
<1>2. s \in [1 .. Cardinality(S) -> S] /\ Descending(s)
  BY <1>1, DescendingListExists DEF Listed, Descending
<1> HIDE DEF s
<1>3. IsInjective(s)
  <2>1. SUFFICES ASSUME NEW i \in 1 .. Cardinality(S), NEW j \in 1 .. Cardinality(S), s[i] = s[j]
                 PROVE  i = j
    BY <1>2 DEF IsInjective
  <2>2. s[i] \in Nat /\ s[j] \in Nat
    BY <1>1, <1>2
  <2>3. QED
    BY <1>2, <2>1, <2>2 DEF Descending
<1>4. Lists(s, S)
  BY <1>1, <1>2, <1>3, FullList
<1>5. s \in Seq(Key)
  BY <1>4, SeqMonotonic DEF Lists
<1>6. QED
  BY <1>2, <1>3, <1>4, <1>5 DEF Lists, s

LEMMA SetToSeqProperties ==
    ASSUME NEW S \in SUBSET Key
    PROVE  SetToSeq(S) \in Seq(Key) /\ Range(SetToSeq(S)) = S
<1>1. IsFiniteSet(S)
  BY ConstantsAssumption, FS_Subset
<1>2. \E f \in [1 .. Cardinality(S) -> S] : IsInjective(f)
  BY <1>1, FS_CardinalityType DEF ExistsBijection, Bijection, Injection
<1> DEFINE s == SetToSeq(S)
<1>3. s \in [1 .. Cardinality(S) -> S] /\ IsInjective(s)
  BY <1>2 DEF SetToSeq
<1> HIDE DEF s
<1>4. Lists(s, S)
  BY <1>1, <1>3, FullList
<1>5. s \in Seq(Key)
  BY <1>4, SeqMonotonic DEF Lists
<1>6. QED
  BY <1>4, <1>5 DEF Lists, s

\* The head and the rest of a list of keys.
LEMMA HeadAndTail ==
    ASSUME NEW s \in Seq(Key), s # <<>>
    PROVE  /\ Head(s) \in Key /\ Tail(s) \in Seq(Key)
           /\ Range(s) = {Head(s)} \cup Range(Tail(s))
           /\ IsInjective(s) => IsInjective(Tail(s)) /\ Head(s) \notin Range(Tail(s))
           /\ Descending(s) => /\ Descending(Tail(s))
                               /\ \A k \in Range(Tail(s)) : k < Head(s)
<1> DEFINE t == Tail(s)
<1>1. /\ Head(s) \in Key /\ t \in Seq(Key)
      /\ Len(s) \in Nat \ {0} /\ DOMAIN s = 1 .. Len(s) /\ Head(s) = s[1]
      /\ Len(t) = Len(s) - 1 /\ DOMAIN t = 1 .. (Len(s) - 1)
      /\ \A i \in 1 .. (Len(s) - 1) : t[i] = s[i + 1]
  BY HeadTailProperties, LenProperties, EmptySeq
<1> HIDE DEF t
<1>2. Range(s) = {Head(s)} \cup Range(t)
  <2>1. ASSUME NEW i \in 1 .. Len(s)
        PROVE  s[i] \in {Head(s)} \cup Range(t)
    <3>1. CASE i = 1
      BY <1>1, <3>1
    <3>2. CASE i # 1
      <4>1. i - 1 \in DOMAIN t /\ t[i - 1] = s[i]
        BY <1>1, <3>2
      <4>2. QED
        BY <4>1 DEF Range
    <3>3. QED
      BY <3>1, <3>2
  <2>2. ASSUME NEW i \in DOMAIN t
        PROVE  t[i] \in Range(s)
    <3>1. i + 1 \in DOMAIN s /\ t[i] = s[i + 1]
      BY <1>1
    <3>2. QED
      BY <3>1 DEF Range
  <2>3. Head(s) \in Range(s)
    BY <1>1 DEF Range
  <2>4. QED
    BY <1>1, <2>1, <2>2, <2>3 DEF Range
<1>3. ASSUME IsInjective(s)
      PROVE  IsInjective(t) /\ Head(s) \notin Range(t)
  <2>1. IsInjective(t)
    <3>1. SUFFICES ASSUME NEW i \in 1 .. (Len(s) - 1), NEW j \in 1 .. (Len(s) - 1), t[i] = t[j]
                   PROVE  i = j
      BY <1>1 DEF IsInjective
    <3>2. /\ i + 1 \in DOMAIN s /\ j + 1 \in DOMAIN s
          /\ s[i + 1] = s[j + 1]
      BY <1>1, <3>1
    <3>3. i + 1 = j + 1
      BY <1>3, <3>2 DEF IsInjective
    <3>4. QED
      BY <3>3
  <2>2. Head(s) \notin Range(t)
    BY <1>1, <1>3 DEF IsInjective, Range
  <2>3. QED
    BY <2>1, <2>2
<1>4. ASSUME Descending(s)
      PROVE  Descending(t) /\ \A k \in Range(t) : k < Head(s)
  <2>1. Descending(t)
    <3>1. SUFFICES ASSUME NEW i \in DOMAIN t, NEW j \in DOMAIN t, i < j
                   PROVE  t[i] > t[j]
      BY DEF Descending
    <3>2. /\ i + 1 \in DOMAIN s /\ j + 1 \in DOMAIN s /\ i + 1 < j + 1
          /\ t[i] = s[i + 1] /\ t[j] = s[j + 1]
      BY <1>1, <3>1
    <3>3. QED
      BY <1>4, <3>2 DEF Descending
  <2>2. ASSUME NEW i \in DOMAIN t
        PROVE  t[i] < Head(s)
    <3>1. i + 1 \in DOMAIN s /\ 1 \in DOMAIN s /\ 1 < i + 1 /\ t[i] = s[i + 1]
      BY <1>1
    <3>2. s[1] > s[i + 1]
      BY <1>4, <3>1 DEF Descending
    <3>3. s[1] \in Nat /\ s[i + 1] \in Nat
      <4>1. s[1] \in Key /\ s[i + 1] \in Key
        BY <1>1, <3>1, ElementOfSeq
      <4>2. QED
        BY <4>1, ConstantsAssumption
    <3>4. QED
      BY <1>1, <3>1, <3>2, <3>3
  <2>3. QED
    BY <2>1, <2>2 DEF Range
<1>5. QED
  BY <1>1, <1>2, <1>3, <1>4 DEF t

LEMMA EmptyRange == Range(<<>>) = {}
BY DEF Range

-----------------------------------------------------------------------------
(***************************************************************************)
(* What bundles do.                                                        *)
(***************************************************************************)

Deleted(b) == {k \in Key : Put("deletion", k) \in Range(b)}

OnlyDeletions(b) == \A i \in DOMAIN b : \E k \in Key : b[i] = Put("deletion", k)

LEMMA ChangesDiffer ==
    /\ \A k, l : Put("deletion", k) = Put("deletion", l) => k = l
    /\ \A k, l : Put("inclusion", k) = Put("inclusion", l) => k = l
    /\ \A k, l : Put("inclusion", k) # Put("deletion", l)
    /\ \A type, k : type # "clearance" => Put(type, k) # Clearance
BY DEF Put, Clearance

LEMMA NoChanges ==
    ASSUME members \in SUBSET Key
    PROVE  Applied(<<>>) = members
BY EmptyRange DEF Applied

LEMMA DeletionsApplied ==
    ASSUME members \in SUBSET Key, NEW b, OnlyDeletions(b)
    PROVE  Applied(b) = members \ Deleted(b)
<1>1. Clearance \notin Range(b)
  BY ChangesDiffer DEF OnlyDeletions, Range
<1>2. \A k \in Key : \A i \in DOMAIN b : b[i] # Put("inclusion", k)
  BY ChangesDiffer DEF OnlyDeletions
<1>3. QED
  BY <1>1, <1>2 DEF Applied, Deleted

LEMMA InclusionsApplied ==
    ASSUME members \in SUBSET Key, NEW s \in Seq(Key)
    PROVE  Applied(Inclusions(s)) = members \cup Range(s)
<1> DEFINE b == Inclusions(s)
<1>1. DOMAIN b = DOMAIN s /\ \A i \in DOMAIN s : b[i] = Put("inclusion", s[i]) /\ s[i] \in Key
  BY LenProperties DEF Inclusions
<1> HIDE DEF b
<1>2. Clearance \notin Range(b) /\ \A k : Put("deletion", k) \notin Range(b)
  BY <1>1, ChangesDiffer DEF Range
<1>3. \A k : \A j \in DOMAIN b : b[j] # Put("deletion", k)
  BY <1>2 DEF Range
<1>4. \A k \in Key : (\E i \in DOMAIN b : b[i] = Put("inclusion", k)) <=> k \in Range(s)
  BY <1>1, ChangesDiffer DEF Range
<1>5. Range(s) \subseteq Key
  BY <1>1 DEF Range
<1>6. Applied(b) = members \cup Range(s)
  BY <1>2, <1>3, <1>4, <1>5 DEF Applied
<1>7. QED
  BY <1>6 DEF b

LEMMA OneDeletion ==
    ASSUME NEW k \in Key
    PROVE  /\ OnlyDeletions(<<Put("deletion", k)>>)
           /\ Deleted(<<Put("deletion", k)>>) = {k}
<1> DEFINE b == <<Put("deletion", k)>>
<1>1. DOMAIN b = {1} /\ b[1] = Put("deletion", k)
  OBVIOUS
<1> HIDE DEF b
<1>2. OnlyDeletions(b) /\ Deleted(b) = {k}
  BY <1>1, ChangesDiffer DEF OnlyDeletions, Deleted, Range
<1>3. QED
  BY <1>2 DEF b

LEMMA NoneDeleted == OnlyDeletions(<<>>) /\ Deleted(<<>>) = {}
BY EmptyRange DEF OnlyDeletions, Deleted

\* Another deletion is collected.
LEMMA DeletionAdded ==
    ASSUME NEW b \in Seq(Change), OnlyDeletions(b), NEW k \in Key
    PROVE  /\ OnlyDeletions(b \o <<Put("deletion", k)>>)
           /\ Deleted(b \o <<Put("deletion", k)>>) = Deleted(b) \cup {k}
<1> DEFINE one == <<Put("deletion", k)>>
           all == b \o one
<1>1. Put("deletion", k) \in Change
  BY DEF Put, Change
<1>2. one \in Seq(Change) /\ Len(one) = 1 /\ one[1] = Put("deletion", k)
  BY <1>1
<1> HIDE DEF one
<1>3. /\ Len(b) \in Nat /\ DOMAIN b = 1 .. Len(b)
      /\ DOMAIN all = 1 .. (Len(b) + 1)
      /\ \A i \in 1 .. Len(b) : all[i] = b[i]
      /\ all[Len(b) + 1] = Put("deletion", k)
  <2>1. /\ all \in Seq(Change) /\ Len(all) = Len(b) + Len(one)
        /\ \A i \in 1 .. Len(b) + Len(one) :
              all[i] = IF i <= Len(b) THEN b[i] ELSE one[i - Len(b)]
    BY <1>2, ConcatProperties
  <2>2. Len(b) \in Nat /\ DOMAIN b = 1 .. Len(b) /\ DOMAIN all = 1 .. Len(all)
    BY <2>1, LenProperties
  <2> HIDE DEF all
  <2>3. QED
    BY <1>2, <2>1, <2>2
<1> HIDE DEF all
<1>4. OnlyDeletions(all)
  <2>1. SUFFICES ASSUME NEW i \in 1 .. (Len(b) + 1)
                 PROVE  \E l \in Key : all[i] = Put("deletion", l)
    BY <1>3 DEF OnlyDeletions
  <2>2. CASE i \in 1 .. Len(b)
    BY <1>3, <2>2 DEF OnlyDeletions
  <2>3. CASE i = Len(b) + 1
    BY <1>3, <2>3
  <2>4. QED
    BY <1>3, <2>2, <2>3
<1>5. Range(all) = Range(b) \cup {Put("deletion", k)}
  <2>1. DOMAIN all = DOMAIN b \cup {Len(b) + 1}
    BY <1>3
  <2>2. QED
    BY <1>3, <2>1 DEF Range
<1>6. Deleted(all) = Deleted(b) \cup {k}
  BY <1>5, ChangesDiffer DEF Deleted
<1>7. QED
  BY <1>4, <1>6 DEF all, one

\* Totals.
LEMMA SumOfNothing == Sum(<<>>) = 0
<1> DEFINE Body(g) == [s \in SUBSET {} |->
                         IF s = {} THEN 0
                         ELSE IF <<>>[Max(s)].type = "increment"
                              THEN g[s \ {Max(s)}] + <<>>[Max(s)].by
                              ELSE g[s \ {Max(s)}]]
<1>1. \E g : g = Body(g)
  <2>1. [s \in SUBSET {} |-> 0] = Body([s \in SUBSET {} |-> 0])
    OBVIOUS
  <2>2. QED
    BY <2>1
<1>2. Sum(<<>>) = (CHOOSE g : g = Body(g))[{}]
  BY DEF Sum, FoldLeft, MapThenFoldSet
<1> HIDE DEF Body
<1>3. PICK g : g = Body(g) /\ g = CHOOSE h : h = Body(h)
  BY <1>1
<1>4. g[{}] = 0
  BY <1>3 DEF Body
<1>5. QED
  BY <1>2, <1>3, <1>4

LEMMA SumOfOne ==
    ASSUME NEW n \in Int
    PROVE  Sum(<<Increment(n)>>) = n
<1> DEFINE q == <<Increment(n)>>
           D == DOMAIN q
           Body(g) == [s \in SUBSET D |->
                         IF s = {} THEN 0
                         ELSE IF q[Max(s)].type = "increment"
                              THEN g[s \ {Max(s)}] + q[Max(s)].by
                              ELSE g[s \ {Max(s)}]]
           sums == [s \in SUBSET D |-> IF s = {} THEN 0 ELSE n]
<1>1. Sum(q) = (CHOOSE g : g = Body(g))[D]
  BY DEF Sum, FoldLeft, MapThenFoldSet
<1>2. D = {1} /\ q[1].type = "increment" /\ q[1].by = n
  BY DEF Increment
<1>3. Max({1}) = 1
  BY DEF Max
<1>4. SUBSET D = {{}, {1}} /\ {1} \ {1} = {} /\ {1} # {}
  BY <1>2
<1> HIDE DEF q, D
<1>5. sums = Body(sums)
  <2>1. ASSUME NEW s \in SUBSET D
        PROVE  sums[s] = Body(sums)[s]
    <3>1. CASE s = {}
      BY <3>1
    <3>2. CASE s = {1}
      BY <1>2, <1>3, <1>4, <3>2
    <3>3. QED
      BY <1>4, <3>1, <3>2
  <2>2. QED
    BY <2>1
<1> HIDE DEF Body
<1>6. PICK g : g = Body(g) /\ g = CHOOSE h : h = Body(h)
  BY <1>5
<1>7. g[{}] = 0 /\ g[D] = g[{}] + n
  <2>1. \A s \in SUBSET D : g[s] = IF s = {} THEN 0
                                  ELSE IF q[Max(s)].type = "increment"
                                       THEN g[s \ {Max(s)}] + q[Max(s)].by
                                       ELSE g[s \ {Max(s)}]
    BY <1>6 DEF Body
  <2>2. g[{}] = 0
    BY <1>4, <2>1
  <2>3. g[{1}] = g[{}] + n
    BY <1>2, <1>3, <1>4, <2>1
  <2>4. QED
    BY <1>2, <2>2, <2>3
<1>8. QED
  BY <1>1, <1>6, <1>7 DEF q

LEMMA SumOfTwo ==
    ASSUME NEW n \in Int, NEW m \in Int
    PROVE  Sum(<<Increment(n), Increment(m)>>) = n + m
<1> DEFINE q == <<Increment(n), Increment(m)>>
           D == DOMAIN q
           Body(g) == [s \in SUBSET D |->
                         IF s = {} THEN 0
                         ELSE IF q[Max(s)].type = "increment"
                              THEN g[s \ {Max(s)}] + q[Max(s)].by
                              ELSE g[s \ {Max(s)}]]
           sums == [s \in SUBSET D |-> IF s = {} THEN 0
                                       ELSE IF s = {1} THEN n
                                       ELSE IF s = {2} THEN m ELSE n + m]
<1>1. Sum(q) = (CHOOSE g : g = Body(g))[D]
  BY DEF Sum, FoldLeft, MapThenFoldSet
<1>2. /\ D = {1, 2}
      /\ q[1].type = "increment" /\ q[1].by = n
      /\ q[2].type = "increment" /\ q[2].by = m
  BY DEF Increment
<1>3. Max({1}) = 1 /\ Max({2}) = 2 /\ Max({1, 2}) = 2
  BY DEF Max
<1>4. SUBSET D = {{}, {1}, {2}, {1, 2}}
  BY <1>2
<1>5. {1} \ {1} = {} /\ {2} \ {2} = {} /\ {1, 2} \ {2} = {1} /\ {1} # {2} /\ {1, 2} # {1} /\ {1, 2} # {2}
  OBVIOUS
<1> HIDE DEF q, D
<1>6. sums = Body(sums)
  <2>1. ASSUME NEW s \in SUBSET D
        PROVE  sums[s] = Body(sums)[s]
    <3>1. CASE s = {}
      BY <3>1
    <3>2. CASE s = {1}
      BY <1>2, <1>3, <1>4, <1>5, <3>2
    <3>3. CASE s = {2}
      <4>1. s # {} /\ s \ {Max(s)} = {} /\ q[Max(s)].type = "increment" /\ q[Max(s)].by = m
        BY <1>2, <1>3, <1>5, <3>3
      <4>2. sums[{}] = 0 /\ sums[s] = m
        BY <1>4, <1>5, <3>3
      <4>3. Body(sums)[s] = sums[{}] + m
        BY <4>1
      <4> HIDE DEF Body, sums
      <4>4. QED
        BY <4>2, <4>3
    <3>4. CASE s = {1, 2}
      <4>1. s # {} /\ s \ {Max(s)} = {1} /\ q[Max(s)].type = "increment" /\ q[Max(s)].by = m
        BY <1>2, <1>3, <1>5, <3>4
      <4>2. sums[{1}] = n /\ sums[s] = n + m
        BY <1>4, <1>5, <3>4
      <4>3. Body(sums)[s] = sums[{1}] + m
        BY <4>1
      <4> HIDE DEF Body, sums
      <4>4. QED
        BY <4>2, <4>3
    <3>5. QED
      BY <1>4, <3>1, <3>2, <3>3, <3>4
  <2>2. QED
    BY <2>1
<1> HIDE DEF Body
<1>7. PICK g : g = Body(g) /\ g = CHOOSE h : h = Body(h)
  BY <1>6
<1>8. g[{}] = 0 /\ g[{1}] = g[{}] + n /\ g[D] = g[{1}] + m
  <2>1. \A s \in SUBSET D : g[s] = IF s = {} THEN 0
                                  ELSE IF q[Max(s)].type = "increment"
                                       THEN g[s \ {Max(s)}] + q[Max(s)].by
                                       ELSE g[s \ {Max(s)}]
    BY <1>7 DEF Body
  <2>2. g[{}] = 0
    BY <1>4, <2>1
  <2>3. g[{1}] = g[{}] + n
    <3>1. {1} \in SUBSET D /\ {1} # {} /\ {1} \ {Max({1})} = {}
      BY <1>3, <1>4, <1>5
    <3>2. q[Max({1})].type = "increment" /\ q[Max({1})].by = n
      BY <1>2, <1>3
    <3>3. QED
      BY <2>1, <3>1, <3>2
  <2>4. g[{1, 2}] = g[{1}] + m
    <3>1. {1, 2} \in SUBSET D /\ {1, 2} # {} /\ {1, 2} \ {Max({1, 2})} = {1}
      BY <1>3, <1>4, <1>5
    <3>2. q[Max({1, 2})].type = "increment" /\ q[Max({1, 2})].by = m
      BY <1>2, <1>3
    <3>3. QED
      BY <2>1, <3>1, <3>2
  <2>5. QED
    BY <1>2, <2>2, <2>3, <2>4
<1>9. QED
  BY <1>1, <1>7, <1>8 DEF q

-----------------------------------------------------------------------------
(***************************************************************************)
(* The inductive invariant.                                                *)
(***************************************************************************)

\* Where an operation may be.
Stage(o) ==
    /\ o.name = "remove" => o.at \in {"remove", "write"}
    /\ o.name = "difference_update" => o.at \in {"contains", "remove"}
    /\ o.name = "intersection_update" => o.at \in {"list", "probe"}
    /\ o.name = "symmetric_difference_update" =>
          o.at \in {"union", "subtract", "remove", "write"}
    /\ o.name = "clear" => o.at = "write"
    /\ o.name # "clear" /\ o.at = "write" => o.todo # <<>>

(***************************************************************************)
(* How far an operation has come that nobody has disturbed: mem is what    *)
(* the container has in it, b what the operation has collected.            *)
(***************************************************************************)

RemoveSound(o, mem) ==
    mem = o.was /\ o.todo # <<>> /\ Range(o.arg) = {Head(o.todo)}

DifferenceSound(o, mem, b) ==
    /\ mem = o.was
    /\ OnlyDeletions(b)
    /\ Range(o.todo) \subseteq Range(o.arg)
    /\ Deleted(b) \subseteq o.was \cap Range(o.arg)
    /\ o.was \cap Range(o.arg) \subseteq Deleted(b) \cup Range(o.todo)
    /\ o.at = "remove" => o.todo # <<>> /\ Head(o.todo) \in o.was

\* The generator that is asked yields all keys there are, in their order.
InOrder(o) == o.was \subseteq Range(o.arg) /\ o.arg = Listed(Range(o.arg))

IntersectionSound(o, mem, b) ==
    /\ mem = o.was
    /\ OnlyDeletions(b)
    /\ Range(o.todo) \subseteq Range(o.arg)
    /\ o.at = "list" => b = <<>> /\ o.todo = o.arg
    /\ o.at = "probe" =>
          o.was \subseteq Deleted(b) \cup Range(o.listed) \cup Range(o.arg) \cup {0}
    /\ o.at = "probe" /\ InOrder(o) =>
          /\ Deleted(b) = {}
          /\ Descending(o.todo) /\ Descending(o.listed)
          /\ Range(o.listed) \subseteq o.was
          /\ Range(o.listed) \ {0} \subseteq Range(o.todo)

\* The keys that are in both sets; one that is false will stay.
Common(o) == o.was \cap Range(o.arg)

\* What the difference lacks of the union: nothing, if nothing is left to subtract.
Gone(o) == IF o.once THEN {} ELSE Common(o)

\* How much of the argument is subtracted, and what that is; the rest is left to do;
\* and what was there is subtracted at most once.
Done(o) == Len(o.arg) - Len(o.todo)
Seen(o) == {o.arg[i] : i \in 1 .. Done(o)}
Follows(o) ==
    /\ Len(o.todo) <= Len(o.arg)
    /\ \A i \in 1 .. Len(o.todo) : o.todo[i] = o.arg[Done(o) + i]
SeenOnce(o) ==
    \A i, j \in 1 .. Done(o) : i < j /\ o.arg[i] = o.arg[j] => o.arg[i] \notin o.was

Subtracting(o) ==
    IF o.once THEN o.todo = <<>> /\ o.set = o.was \cup Range(o.arg)
    ELSE /\ Follows(o) /\ SeenOnce(o)
         /\ o.set = (o.was \cup Range(o.arg)) \ (o.was \cap Seen(o))

Subtracted(o) ==
    /\ ~o.once => ~Repeats(o)
    /\ o.set = (o.was \cup Range(o.arg)) \ Gone(o)

SymmetricSound(o, mem) ==
    /\ o.at = "union" => mem = o.was /\ o.todo = o.arg
    /\ o.at = "subtract" => mem = o.was /\ Subtracting(o)
    /\ o.at \in {"remove", "write"} =>
          /\ Subtracted(o)
          /\ IsInjective(o.todo)
          /\ Range(o.todo) \subseteq Gone(o) \ {0}
          /\ mem = o.was \ ((Gone(o) \ {0}) \ Range(o.todo))

OpSound(o, mem, tot, b) ==
    /\ o.name = "remove" => RemoveSound(o, mem)
    /\ o.name = "difference_update" => DifferenceSound(o, mem, b)
    /\ o.name = "intersection_update" => IntersectionSound(o, mem, b)
    /\ o.name = "symmetric_difference_update" => SymmetricSound(o, mem)
    /\ o.name = "clear" => o.read = tot

\* A process: what it is within, and what its bundler has.
ProcessSound(k, o, mem, tot, act, b, sp) ==
    /\ o # Idle => Stage(o)
    /\ o # Idle /\ o.at = "write" /\ o.name # "clear" => ~act
    /\ ~act /\ o.name \notin {"difference_update", "intersection_update"} => b = <<>>
    /\ o # Idle /\ o.quiet => ~act /\ OpSound(o, mem, tot, b)
    /\ k \in {"key_set", "box", "accumulator"} => ~sp

Sound(c) == ProcessSound(kind, op[c], members, total, active[c], bundle[c], spilled[c])

IInv == TypeOK /\ \A c \in Client : Sound(c)
-----------------------------------------------------------------------------
(***************************************************************************)
(* Steps: what they do to the process itself, and to others.               *)
(***************************************************************************)

Operations == Operation \cup {Idle}

\* What is left after a step of c.
Own(c, o, mem, tot, act, b, sp) ==
    /\ op'[c] = o /\ members' = mem /\ total' = tot
    /\ active'[c] = act /\ bundle'[c] = b /\ spilled'[c] = sp

\* Others find the container as it was, or are disturbed.
Others(c) ==
    /\ kind' = kind
    /\ \A d \in Client \ {c} :
          /\ active'[d] = active[d] /\ bundle'[d] = bundle[d] /\ spilled'[d] = spilled[d]
          /\ \/ op'[d] = op[d] /\ members' = members /\ total' = total
             \/ op[d] # Idle /\ op'[d] = Disturbed(op[d])
             \/ op[d] = Idle /\ op'[d] = Idle

LEMMA IdleIsNone == Idle \notin Operation /\ Idle.name = "none"
BY DEF Idle, Operation

LEMMA DisturbedType ==
    ASSUME NEW o \in Operation
    PROVE  /\ Disturbed(o) \in Operation
           /\ Disturbed(o).name = o.name /\ Disturbed(o).at = o.at
           /\ Disturbed(o).todo = o.todo
           /\ ~Disturbed(o).quiet
BY DEF Disturbed, Operation

LEMMA ProceedsType ==
    ASSUME TypeOK, NEW c \in Client, NEW next \in Operations, NEW disturbs \in BOOLEAN,
           Proceeds(c, next, disturbs)
    PROVE  /\ op' \in [Client -> Operations]
           /\ op'[c] = next
           /\ \A d \in Client \ {c} :
                 \/ ~disturbs /\ op'[d] = op[d]
                 \/ op[d] # Idle /\ op'[d] = Disturbed(op[d])
                 \/ op[d] = Idle /\ op'[d] = Idle
<1>1. \A d \in Client : op[d] \in Operations
  BY DEF TypeOK, Operations
<1>2. \A d \in Client : op[d] # Idle => Disturbed(op[d]) \in Operations
  BY <1>1, DisturbedType DEF Operations
<1>3. op' = [d \in Client |-> IF d = c THEN next
                              ELSE IF disturbs /\ op[d] # Idle THEN Disturbed(op[d])
                              ELSE op[d]]
  BY DEF Proceeds
<1>4. \A d \in Client : op'[d] = IF d = c THEN next
                                 ELSE IF disturbs /\ op[d] # Idle THEN Disturbed(op[d])
                                 ELSE op[d]
  BY <1>3
<1>5. op' \in [Client -> Operations]
  BY <1>1, <1>2, <1>3
<1>6. QED
  BY <1>4, <1>5

LEMMA ReadsEffect ==
    ASSUME TypeOK, NEW c \in Client, NEW next \in Operations, Reads(c, next)
    PROVE  /\ TypeOK' /\ Others(c)
           /\ Own(c, next, members, total, active[c], bundle[c], spilled[c])
<1>1. Proceeds(c, next, FALSE) /\ UNCHANGED <<kind, members, total, active, bundle, spilled>>
  BY DEF Reads
<1>2. /\ op' \in [Client -> Operations] /\ op'[c] = next
      /\ \A d \in Client \ {c} : op'[d] = op[d] \/ (op[d] # Idle /\ op'[d] = Disturbed(op[d]))
  BY <1>1, ProceedsType
<1>3. QED
  BY <1>1, <1>2 DEF TypeOK, Others, Own, Operations

LEMMA CollectsEffect ==
    ASSUME TypeOK, NEW c \in Client, NEW next \in Operations, NEW changes \in Seq(Change),
           Collects(c, changes, next)
    PROVE  /\ TypeOK' /\ Others(c)
           /\ Own(c, next, members, total, active[c], bundle[c] \o changes, spilled[c])
<1>1. /\ Proceeds(c, next, FALSE) /\ UNCHANGED <<kind, members, total, active, spilled>>
      /\ bundle' = [bundle EXCEPT ![c] = @ \o changes]
  BY DEF Collects
<1>2. /\ op' \in [Client -> Operations] /\ op'[c] = next
      /\ \A d \in Client \ {c} : op'[d] = op[d] \/ (op[d] # Idle /\ op'[d] = Disturbed(op[d]))
  BY <1>1, ProceedsType
<1>3. bundle \in [Client -> Seq(Change)]
  BY DEF TypeOK
<1>4. bundle[c] \o changes \in Seq(Change)
  BY <1>3, ConcatProperties
<1>5. /\ bundle' \in [Client -> Seq(Change)]
      /\ bundle'[c] = bundle[c] \o changes
      /\ \A d \in Client \ {c} : bundle'[d] = bundle[d]
  BY <1>1, <1>3, <1>4
<1>6. QED
  BY <1>1, <1>2, <1>5 DEF TypeOK, Others, Own, Operations

\* A commit of c, in a bundler of its own or of the operation.
LEMMA CommittedEffect ==
    ASSUME TypeOK, NEW c \in Client, NEW next \in Operations, NEW changes,
           Committed(c, changes), Proceeds(c, next, changes # <<>>),
           UNCHANGED <<kind, active>>, NEW b \in Seq(Change),
           bundle' = [bundle EXCEPT ![c] = b]
    PROVE  /\ TypeOK' /\ Others(c)
           /\ Own(c, next, Applied(changes), total + Sum(changes), active[c], b,
                  active[c] /\ (spilled[c] \/ changes # <<>>))
<1>1. /\ members' = Applied(changes) /\ total' = total + Sum(changes)
      /\ total' \in -MaxTotal .. MaxTotal
      /\ spilled' = [spilled EXCEPT ![c] = active[c] /\ (@ \/ changes # <<>>)]
  BY DEF Committed
<1>2. changes = <<>> => members' = members /\ total' = total
  <2>1. members \in SUBSET Key /\ total \in Int
    BY ConstantsAssumption DEF TypeOK
  <2>2. QED
    BY <1>1, <2>1, NoChanges, SumOfNothing
<1>3. members' \subseteq Key
  BY <1>1 DEF Applied
<1> DEFINE disturbs == changes # <<>>
<1>4. disturbs \in BOOLEAN /\ Proceeds(c, next, disturbs)
  OBVIOUS
<1> HIDE DEF disturbs
<1>5. /\ op' \in [Client -> Operations] /\ op'[c] = next
      /\ \A d \in Client \ {c} :
            \/ ~disturbs /\ op'[d] = op[d]
            \/ op[d] # Idle /\ op'[d] = Disturbed(op[d])
            \/ op[d] = Idle /\ op'[d] = Idle
  BY <1>4, ProceedsType
<1>6. /\ bundle' \in [Client -> Seq(Change)] /\ bundle'[c] = b
      /\ \A d \in Client \ {c} : bundle'[d] = bundle[d]
  BY DEF TypeOK
<1>7. /\ spilled' \in [Client -> BOOLEAN]
      /\ spilled'[c] = (active[c] /\ (spilled[c] \/ changes # <<>>))
      /\ \A d \in Client \ {c} : spilled'[d] = spilled[d]
  BY <1>1 DEF TypeOK
<1>8. TypeOK'
  BY <1>1, <1>3, <1>5, <1>6, <1>7 DEF TypeOK, Operations
<1>9. Others(c)
  BY <1>2, <1>5, <1>6, <1>7 DEF Others, disturbs
<1>10. Own(c, next, Applied(changes), total + Sum(changes), active[c], b,
           active[c] /\ (spilled[c] \/ changes # <<>>))
  BY <1>1, <1>5, <1>6, <1>7 DEF Own
<1>11. QED
  BY <1>8, <1>9, <1>10

LEMMA CommitsEffect ==
    ASSUME TypeOK, NEW c \in Client, NEW next \in Operations, NEW changes,
           Commits(c, changes, next)
    PROVE  /\ TypeOK' /\ Others(c)
           /\ Own(c, next, Applied(changes), total + Sum(changes), active[c], bundle[c],
                  active[c] /\ (spilled[c] \/ changes # <<>>))
<1>1. bundle[c] \in Seq(Change) /\ bundle = [bundle EXCEPT ![c] = bundle[c]]
  BY DEF TypeOK
<1> DEFINE b == bundle[c]
<1>2. bundle' = [bundle EXCEPT ![c] = b]
  BY <1>1 DEF Commits
<1>3. Committed(c, changes) /\ Proceeds(c, next, changes # <<>>) /\ UNCHANGED <<kind, active>>
  BY DEF Commits
<1> HIDE DEF b
<1>4. b \in Seq(Change)
  BY <1>1 DEF b
<1>5. QED
  BY <1>2, <1>3, <1>4, CommittedEffect DEF b

LEMMA FinishesEffect ==
    ASSUME TypeOK, NEW c \in Client, Finishes(c)
    PROVE  /\ TypeOK' /\ Others(c)
           /\ active[c] => Own(c, Idle, members, total, active[c], bundle[c], spilled[c])
           /\ ~active[c] => Own(c, Idle, Applied(bundle[c]), total + Sum(bundle[c]),
                                active[c], <<>>, FALSE)
<1>1. Idle \in Operations /\ <<>> \in Seq(Change)
  BY DEF Operations
<1>2. CASE active[c]
  BY <1>1, <1>2, ReadsEffect DEF Finishes
<1>3. CASE ~active[c]
  <2> DEFINE changes == bundle[c]
             empty == <<>>
  <2>1. /\ Committed(c, changes) /\ Proceeds(c, Idle, changes # <<>>)
        /\ UNCHANGED <<kind, active>> /\ bundle' = [bundle EXCEPT ![c] = empty]
        /\ empty \in Seq(Change)
    BY <1>1, <1>3 DEF Finishes
  <2> HIDE DEF changes, empty
  <2>2. /\ TypeOK' /\ Others(c)
        /\ Own(c, Idle, Applied(changes), total + Sum(changes), active[c], empty,
               active[c] /\ (spilled[c] \/ changes # <<>>))
    BY <1>1, <2>1, CommittedEffect
  <2>3. QED
    BY <1>3, <2>2 DEF Own, changes, empty
<1>4. QED
  BY <1>2, <1>3

LEMMA RaisesEffect ==
    ASSUME TypeOK, NEW c \in Client, Raises(c)
    PROVE  /\ TypeOK' /\ Others(c)
           /\ Own(c, Idle, members, total, active[c],
                  IF active[c] THEN bundle[c] ELSE <<>>, spilled[c])
<1>1. /\ Proceeds(c, Idle, FALSE) /\ UNCHANGED <<kind, members, total, active, spilled>>
      /\ bundle' = [bundle EXCEPT ![c] = IF active[c] THEN @ ELSE <<>>]
  BY DEF Raises
<1>2. Idle \in Operations
  BY DEF Operations
<1>3. /\ op' \in [Client -> Operations] /\ op'[c] = Idle
      /\ \A d \in Client \ {c} : op'[d] = op[d] \/ (op[d] # Idle /\ op'[d] = Disturbed(op[d]))
  BY <1>1, <1>2, ProceedsType
<1>4. bundle \in [Client -> Seq(Change)] /\ <<>> \in Seq(Change)
  BY DEF TypeOK
<1>5. /\ bundle' \in [Client -> Seq(Change)]
      /\ bundle'[c] = IF active[c] THEN bundle[c] ELSE <<>>
      /\ \A d \in Client \ {c} : bundle'[d] = bundle[d]
  BY <1>1, <1>4
<1>6. QED
  BY <1>1, <1>3, <1>5 DEF TypeOK, Others, Own, Operations

\* An operation that is disturbed, or finds the container as it was, stays sound.
LEMMA OthersSound ==
    ASSUME TypeOK, NEW c \in Client, Others(c), NEW d \in Client \ {c}, Sound(d)
    PROVE  /\ Sound(d)'
           /\ op[d] # Idle => op'[d] # Idle
<1>1. op[d] \in Operation \cup {Idle}
  BY DEF TypeOK
<1>2. /\ kind' = kind
      /\ active'[d] = active[d] /\ bundle'[d] = bundle[d] /\ spilled'[d] = spilled[d]
  BY DEF Others
<1>3. CASE op'[d] = op[d] /\ members' = members /\ total' = total
  BY <1>2, <1>3 DEF Sound
<1>4. CASE op[d] # Idle /\ op'[d] = Disturbed(op[d])
  <2>1. /\ op'[d] \in Operation
        /\ op'[d].name = op[d].name /\ op'[d].at = op[d].at /\ op'[d].todo = op[d].todo
        /\ ~op'[d].quiet
    BY <1>1, <1>4, DisturbedType
  <2>2. op'[d] # Idle
    BY <2>1, IdleIsNone
  <2>3. Sound(d)'
    BY <1>2, <1>4, <2>1 DEF Sound, ProcessSound, Stage
  <2>4. QED
    BY <2>2, <2>3
<1>5. CASE op[d] = Idle /\ op'[d] = Idle
  BY <1>2, <1>5 DEF Sound, ProcessSound
<1>6. QED
  BY <1>3, <1>4, <1>5 DEF Others

\* What QuietOperationsAreExact says of c.
Exact(c) ==
    EndsQuietly(c) =>
        CASE op[c].name = "clear" -> total' = op[c].then
          [] op[c].name = "intersection_update" ->
                /\ Members' \subseteq Meant(op[c])
                /\ op[c].was \subseteq Range(op[c].arg) /\ op[c].arg = Listed(Range(op[c].arg))
                    => Members' = op[c].was
          [] OTHER -> Members' = Meant(op[c])

\* A step of c is as it should be.
Proper(c) == TypeOK' /\ Others(c) /\ Sound(c)' /\ Exact(c)

LEMMA ProperStep ==
    ASSUME IInv, NEW c \in Client, Proper(c)
    PROVE  IInv' /\ \A d \in Client : Exact(d)
<1>1. ASSUME NEW d \in Client \ {c}
      PROVE  Sound(d)' /\ Exact(d)
  BY OthersSound DEF IInv, Proper, Exact, EndsQuietly
<1>2. QED
  BY <1>1 DEF IInv, Proper

\* What is left to show of a step that begins, goes on or ends.
LEMMA OwnIsProper ==
    ASSUME TypeOK', NEW c \in Client, Others(c), NEW o, NEW mem, NEW tot, NEW act, NEW b, NEW sp,
           Own(c, o, mem, tot, act, b, sp), ProcessSound(kind, o, mem, tot, act, b, sp),
           Exact(c)
    PROVE  Proper(c)
BY DEF Own, Proper, Sound, Others

LEMMA NotEnding ==
    ASSUME NEW c \in Client, op[c] = Idle \/ op'[c] # Idle
    PROVE  Exact(c)
BY DEF Exact, EndsQuietly

-----------------------------------------------------------------------------
(***************************************************************************)
(* Blocks, and operations with one access to the store.                    *)
(***************************************************************************)

LEMMA KeysAreKeys == TypeOK => Keys \subseteq Key
BY ConstantsAssumption DEF TypeOK, Keys

LEMMA ArgumentType ==
    ASSUME TypeOK, NEW arg \in Arguments
    PROVE  arg \in Seq(Key) /\ Range(arg) \subseteq Key
<1>1. PICK n \in 0 .. MaxArgument : arg \in [1 .. n -> Keys]
  BY DEF Arguments
<1>2. n \in Nat /\ arg \in [1 .. n -> Key]
  BY <1>1, KeysAreKeys, ConstantsAssumption
<1>3. QED
  BY <1>1, <1>2 DEF Range

LEMMA ChangeTypes ==
    /\ \A k \in Key : Put("inclusion", k) \in Change /\ Put("deletion", k) \in Change
    /\ Clearance \in Change
    /\ \A n \in -MaxTotal .. MaxTotal : Increment(n) \in Change
BY DEF Put, Clearance, Increment, Change

LEMMA ChangesTypes ==
    ASSUME NEW arg \in Seq(Key)
    PROVE  Inclusions(arg) \in Seq(Change) /\ Deletions(arg) \in Seq(Change)
<1>1. Len(arg) \in Nat /\ DOMAIN arg = 1 .. Len(arg) /\ \A i \in 1 .. Len(arg) : arg[i] \in Key
  BY LenProperties
<1>2. \A i \in 1 .. Len(arg) : Put("inclusion", arg[i]) \in Change /\ Put("deletion", arg[i]) \in Change
  BY <1>1, ChangeTypes
<1>3. /\ Inclusions(arg) \in [1 .. Len(arg) -> Change]
      /\ Deletions(arg) \in [1 .. Len(arg) -> Change]
  BY <1>1, <1>2 DEF Inclusions, Deletions
<1>4. QED
  BY <1>1, <1>3

\* The end of an operation that has collected nothing: its changes go to the block,
\* or are committed.
LEMMA AddsAtEnd ==
    ASSUME IInv, NEW c \in Client, NEW changes \in Seq(Change), Adds(c, changes, Idle),
           op[c].name \notin {"difference_update", "intersection_update"}
    PROVE  /\ TypeOK' /\ Others(c) /\ Sound(c)'
           /\ ~active[c] => members' = Applied(changes) /\ total' = total + Sum(changes)
<1>1. TypeOK /\ Sound(c) /\ Idle \in Operations
  BY DEF IInv, Operations
<1>2. CASE active[c]
  <2>1. /\ TypeOK' /\ Others(c)
        /\ Own(c, Idle, members, total, active[c], bundle[c] \o changes, spilled[c])
    BY <1>1, <1>2, CollectsEffect DEF Adds
  <2>2. Sound(c)'
    BY <1>1, <1>2, <2>1 DEF Own, Others, Sound, ProcessSound
  <2>3. QED
    BY <1>2, <2>1, <2>2
<1>3. CASE ~active[c]
  <2>1. /\ TypeOK' /\ Others(c)
        /\ Own(c, Idle, Applied(changes), total + Sum(changes), active[c], bundle[c],
               active[c] /\ (spilled[c] \/ changes # <<>>))
    BY <1>1, <1>3, CommitsEffect DEF Adds
  <2>2. bundle[c] = <<>>
    BY <1>1, <1>3 DEF Sound, ProcessSound
  <2>3. Sound(c)'
    BY <1>1, <1>3, <2>1, <2>2 DEF Own, Others, Sound, ProcessSound
  <2>4. QED
    BY <2>1, <2>3 DEF Own
<1>4. QED
  BY <1>2, <1>3

LEMMA AddsProper ==
    ASSUME IInv, NEW c \in Client, NEW changes \in Seq(Change), Adds(c, changes, Idle),
           op[c] = Idle
    PROVE  Proper(c)
<1>1. op[c].name \notin {"difference_update", "intersection_update"}
  BY IdleIsNone
<1>2. Exact(c)
  BY NotEnding
<1>3. QED
  BY <1>1, <1>2, AddsAtEnd DEF Proper

\* The kinds that do not look for the block's bundler.
LEMMA CommitsProper ==
    ASSUME IInv, NEW c \in Client, NEW changes \in Seq(Change), Commits(c, changes, Idle),
           op[c] = Idle, kind \notin {"key_set", "box", "accumulator"}
    PROVE  Proper(c)
<1>1. TypeOK /\ Sound(c) /\ Idle \in Operations
  BY DEF IInv, Operations
<1>2. /\ TypeOK' /\ Others(c)
      /\ Own(c, Idle, Applied(changes), total + Sum(changes), active[c], bundle[c],
             active[c] /\ (spilled[c] \/ changes # <<>>))
  BY <1>1, CommitsEffect
<1>3. ProcessSound(kind, Idle, Applied(changes), total + Sum(changes), active[c], bundle[c],
                   active[c] /\ (spilled[c] \/ changes # <<>>))
  BY <1>1 DEF Sound, ProcessSound
<1>4. Sound(c)'
  BY <1>2, <1>3 DEF Own, Others, Sound
<1>5. Exact(c)
  BY NotEnding
<1>6. QED
  BY <1>2, <1>4, <1>5 DEF Proper

LEMMA EnterProper ==
    ASSUME IInv, NEW c \in Client, Enter(c)
    PROVE  Proper(c)
<1>1. /\ op[c] = Idle /\ active' = [active EXCEPT ![c] = TRUE]
      /\ UNCHANGED <<kind, members, total, bundle, op, spilled>>
  BY DEF Enter
<1>2. TypeOK /\ Sound(c)
  BY DEF IInv
<1>3. TypeOK' /\ active'[c] /\ \A d \in Client \ {c} : active'[d] = active[d]
  BY <1>1, <1>2 DEF TypeOK
<1>4. Others(c)
  BY <1>1, <1>3 DEF Others
<1>5. Sound(c)'
  BY <1>1, <1>2, <1>3 DEF Sound, ProcessSound
<1>6. Exact(c)
  BY <1>1, NotEnding
<1>7. QED
  BY <1>3, <1>4, <1>5, <1>6 DEF Proper

LEMMA ExitProper ==
    ASSUME IInv, NEW c \in Client, Exit(c)
    PROVE  Proper(c)
<1>1. TypeOK /\ Sound(c) /\ Idle \in Operations
  BY DEF IInv, Operations
<1>2. PICK ok \in BOOLEAN :
          LET changes == IF ok THEN bundle[c] ELSE <<>>
          IN  /\ members' = Applied(changes)
              /\ total' = total + Sum(changes)
              /\ total' \in -MaxTotal .. MaxTotal
              /\ Proceeds(c, Idle, changes # <<>>)
  BY DEF Exit
<1> DEFINE changes == IF ok THEN bundle[c] ELSE <<>>
           disturbs == changes # <<>>
<1>3. /\ members' = Applied(changes) /\ total' = total + Sum(changes)
      /\ total' \in -MaxTotal .. MaxTotal
      /\ disturbs \in BOOLEAN /\ Proceeds(c, Idle, disturbs)
  BY <1>2
<1>4. /\ op[c] = Idle /\ active' = [active EXCEPT ![c] = FALSE]
      /\ spilled' = [spilled EXCEPT ![c] = FALSE] /\ bundle' = [bundle EXCEPT ![c] = <<>>]
      /\ kind' = kind
  BY DEF Exit
<1> HIDE DEF changes
<1>5. changes = <<>> => members' = members /\ total' = total
  <2>1. members \in SUBSET Key /\ total \in Int
    BY <1>1, ConstantsAssumption DEF TypeOK
  <2>2. QED
    BY <1>3, <2>1, NoChanges, SumOfNothing
<1>6. disturbs <=> changes # <<>>
  OBVIOUS
<1> HIDE DEF disturbs
<1>7. /\ op' \in [Client -> Operations] /\ op'[c] = Idle
      /\ \A d \in Client \ {c} :
            \/ ~disturbs /\ op'[d] = op[d]
            \/ op[d] # Idle /\ op'[d] = Disturbed(op[d])
            \/ op[d] = Idle /\ op'[d] = Idle
  BY <1>1, <1>3, ProceedsType
<1>8. /\ active' \in [Client -> BOOLEAN] /\ ~active'[c]
      /\ spilled' \in [Client -> BOOLEAN] /\ ~spilled'[c]
      /\ bundle' \in [Client -> Seq(Change)] /\ bundle'[c] = <<>>
      /\ \A d \in Client \ {c} :
            active'[d] = active[d] /\ spilled'[d] = spilled[d] /\ bundle'[d] = bundle[d]
  <2>1. <<>> \in Seq(Change)
    OBVIOUS
  <2>2. QED
    BY <1>1, <1>4, <2>1 DEF TypeOK
<1>9. members' \subseteq Key
  BY <1>3 DEF Applied
<1>10. TypeOK'
  BY <1>1, <1>3, <1>4, <1>7, <1>8, <1>9 DEF TypeOK, Operations
<1>11. Others(c)
  BY <1>4, <1>5, <1>6, <1>7, <1>8 DEF Others
<1>12. Sound(c)'
  BY <1>7, <1>8 DEF Sound, ProcessSound
<1>13. Exact(c)
  BY <1>4, NotEnding
<1>14. QED
  BY <1>10, <1>11, <1>12, <1>13 DEF Proper

LEMMA IncludeProper ==
    ASSUME IInv, NEW c \in Client, NEW k \in Keys, Include(c, k)
    PROVE  Proper(c)
<1>1. k \in Key
  BY KeysAreKeys DEF IInv
<1>2. <<Put("inclusion", k)>> \in Seq(Change)
  BY <1>1, ChangeTypes
<1>3. QED
  BY <1>2, AddsProper DEF Include

LEMMA ExcludeProper ==
    ASSUME IInv, NEW c \in Client, NEW k \in Keys, Exclude(c, k)
    PROVE  Proper(c)
<1>1. k \in Key
  BY KeysAreKeys DEF IInv
<1>2. <<Put("deletion", k)>> \in Seq(Change)
  BY <1>1, ChangeTypes
<1>3. QED
  BY <1>2, AddsProper DEF Exclude

LEMMA ClearProper ==
    ASSUME IInv, NEW c \in Client, Clear(c)
    PROVE  Proper(c)
<1>1. <<Clearance>> \in Seq(Change)
  BY ChangeTypes
<1>2. QED
  BY <1>1, AddsProper DEF Clear

LEMMA RefillBoxProper ==
    ASSUME IInv, NEW c \in Client, RefillBox(c)
    PROVE  Proper(c)
<1>1. 0 \in Key
  BY ConstantsAssumption DEF RefillBox, IInv, TypeOK
<1>2. <<Put("inclusion", 0)>> \in Seq(Change)
  BY <1>1, ChangeTypes
<1>3. QED
  BY <1>2, AddsProper DEF RefillBox

LEMMA IncrementByProper ==
    ASSUME IInv, NEW c \in Client, NEW n \in {-1, 1}, IncrementBy(c, n)
    PROVE  Proper(c)
<1>1. n \in -MaxTotal .. MaxTotal
  BY ConstantsAssumption
<1>2. <<Increment(n)>> \in Seq(Change)
  BY <1>1, ChangeTypes
<1>3. QED
  BY <1>2, AddsProper DEF IncrementBy

\* A clearance, inclusions and deletions.
LEMMA RefillTypes ==
    ASSUME NEW include \in Seq(Key), NEW exclude \in Seq(Key)
    PROVE  /\ <<Clearance>> \o Inclusions(include) \in Seq(Change)
           /\ <<Clearance>> \o Inclusions(include) \o Deletions(exclude) \in Seq(Change)
<1>1. <<Clearance>> \in Seq(Change)
  BY ChangeTypes
<1>2. Inclusions(include) \in Seq(Change) /\ Deletions(exclude) \in Seq(Change)
  BY ChangesTypes
<1>3. <<Clearance>> \o Inclusions(include) \in Seq(Change)
  BY <1>1, <1>2, ConcatProperties
<1>4. <<Clearance>> \o Inclusions(include) \o Deletions(exclude) \in Seq(Change)
  BY <1>2, <1>3, ConcatProperties
<1>5. QED
  BY <1>3, <1>4

LEMMA UpdateProper ==
    ASSUME IInv, NEW c \in Client, NEW arg \in Arguments, Update(c, arg)
    PROVE  Proper(c)
<1>1. arg \in Seq(Key)
  BY ArgumentType DEF IInv
<1>2. Inclusions(arg) \in Seq(Change)
  BY <1>1, ChangesTypes
<1>3. QED
  BY <1>2, AddsProper, CommitsProper DEF Update

LEMMA RefillKeySetProper ==
    ASSUME IInv, NEW c \in Client, NEW arg \in Arguments, RefillKeySet(c, arg)
    PROVE  Proper(c)
<1>1. arg \in Seq(Key)
  BY ArgumentType DEF IInv
<1>2. <<Clearance>> \o Inclusions(arg) \in Seq(Change)
  BY <1>1, RefillTypes
<1>3. QED
  BY <1>2, AddsProper DEF RefillKeySet

\* PairMap and Property.
LEMMA RefillMapProper ==
    ASSUME IInv, NEW c \in Client, NEW arg \in Arguments,
           RefillPairMap(c, arg) \/ RefillProperty(c, arg)
    PROVE  Proper(c)
<1>1. arg \in Seq(Key)
  BY ArgumentType DEF IInv
<1>2. <<Clearance>> \o Inclusions(arg) \in Seq(Change)
  BY <1>1, RefillTypes
<1>3. /\ Commits(c, <<Clearance>> \o Inclusions(arg), Idle)
      /\ op[c] = Idle /\ kind \notin {"key_set", "box", "accumulator"}
  BY DEF RefillPairMap, RefillProperty
<1>4. QED
  BY <1>2, <1>3, CommitsProper

\* Group and PairSet.
LEMMA RefillPairsProper ==
    ASSUME IInv, NEW c \in Client, NEW arg \in Arguments, NEW k \in Keys,
           RefillGroup(c, arg, <<k>>) \/ RefillPairSet(c, arg, <<k>>)
    PROVE  Proper(c)
<1>1. arg \in Seq(Key) /\ <<k>> \in Seq(Key)
  BY ArgumentType, KeysAreKeys DEF IInv
<1>2. <<Clearance>> \o Inclusions(arg) \o Deletions(<<k>>) \in Seq(Change)
  BY <1>1, RefillTypes
<1>3. /\ Commits(c, <<Clearance>> \o Inclusions(arg) \o Deletions(<<k>>), Idle)
      /\ op[c] = Idle /\ kind \notin {"key_set", "box", "accumulator"}
  BY DEF RefillGroup, RefillPairSet
<1>4. QED
  BY <1>2, <1>3, CommitsProper

-----------------------------------------------------------------------------
(***************************************************************************)
(* Operations with several accesses: their start, and how they go on.      *)
(***************************************************************************)

LEMMA BegunType ==
    ASSUME TypeOK, NEW c \in Client,
           NEW name \in {"remove", "difference_update", "intersection_update",
                         "symmetric_difference_update", "clear"},
           NEW at \in {"contains", "remove", "write", "list", "union"},
           NEW arg \in Seq(Key), NEW n \in 0 .. MaxTotal
    PROVE  /\ Begun(c, name, at, arg, n) \in Operation
           /\ Begun(c, name, at, arg, n).name = name
           /\ Begun(c, name, at, arg, n).at = at
           /\ Begun(c, name, at, arg, n).arg = arg
           /\ Begun(c, name, at, arg, n).todo = arg
           /\ Begun(c, name, at, arg, n).quiet = ~active[c]
           /\ ~active[c] => Begun(c, name, at, arg, n).was = members
<1> DEFINE o == [name |-> name, at |-> at, arg |-> arg, once |-> FALSE, todo |-> arg,
                 listed |-> <<>>, set |-> {}, read |-> 0, then |-> n, was |-> members,
                 quiet |-> TRUE]
<1>1. 0 \in -MaxTotal .. MaxTotal
  BY ConstantsAssumption
<1>2. members \in SUBSET Key /\ <<>> \in Seq(Key) /\ active[c] \in BOOLEAN
  BY DEF TypeOK
<1>3. /\ o \in Operation /\ o.name = name /\ o.at = at /\ o.arg = arg /\ o.todo = arg
      /\ o.once = FALSE /\ o.quiet /\ o.was = members
  BY <1>1, <1>2 DEF Operation
<1>4. Begun(c, name, at, arg, n) = IF active[c] THEN Disturbed(o) ELSE o
  BY DEF Begun, Members
<1> HIDE DEF o
<1>5. Disturbed(o) \in Operation /\ Disturbed(o).quiet = FALSE
  BY <1>3 DEF Disturbed, Operation
<1> DEFINE p == Disturbed(o)
<1>6. CASE active[c]
  <2>1. /\ p.name = o.name /\ p.at = o.at /\ p.todo = o.todo /\ p.arg = o.arg
        /\ p.once = o.once
    BY <1>3 DEF Disturbed, Operation
  <2>2. Begun(c, name, at, arg, n) = p
    BY <1>4, <1>6
  <2> HIDE DEF p
  <2>3. QED
    BY <1>3, <1>5, <1>6, <2>1, <2>2 DEF p
<1>7. CASE ~active[c]
  BY <1>3, <1>4, <1>7
<1>8. QED
  BY <1>6, <1>7

LEMMA BeginsProper ==
    ASSUME IInv, NEW c \in Client, NEW o \in Operation, op[c] = Idle, Reads(c, o),
           Stage(o), o.at = "write" => o.name = "clear", o.quiet = ~active[c],
           ~active[c] => OpSound(o, members, total, <<>>)
    PROVE  Proper(c)
<1>1. TypeOK /\ Sound(c) /\ o \in Operations /\ o # Idle
  BY IdleIsNone DEF IInv, Operations
<1>2. /\ TypeOK' /\ Others(c)
      /\ Own(c, o, members, total, active[c], bundle[c], spilled[c])
  BY <1>1, ReadsEffect
<1>3. ~active[c] => bundle[c] = <<>>
  BY <1>1, IdleIsNone DEF Sound, ProcessSound
<1>4. ProcessSound(kind, o, members, total, active[c], bundle[c], spilled[c])
  BY <1>1, <1>3 DEF Sound, ProcessSound
<1>5. Exact(c)
  BY NotEnding
<1>6. QED
  BY <1>2, <1>4, <1>5, OwnIsProper

LEMMA RemoveKeyProper ==
    ASSUME IInv, NEW c \in Client, NEW k \in Keys, RemoveKey(c, k)
    PROVE  Proper(c)
<1> DEFINE arg == <<k>>
           o == Begun(c, "remove", "remove", arg, 0)
<1>1. arg \in Seq(Key) /\ arg # <<>> /\ Range(arg) = {Head(arg)} /\ 0 \in 0 .. MaxTotal
  <2>1. k \in Key
    BY KeysAreKeys DEF IInv
  <2>2. DOMAIN arg = {1} /\ arg[1] = k /\ Head(arg) = k
    OBVIOUS
  <2>3. QED
    BY <2>1, <2>2, ConstantsAssumption DEF Range
<1>2. op[c] = Idle /\ Reads(c, o)
  BY DEF RemoveKey
<1> HIDE DEF arg
<1>3. /\ o \in Operation /\ o.name = "remove" /\ o.at = "remove" /\ o.arg = arg /\ o.todo = arg
      /\ o.quiet = ~active[c] /\ (~active[c] => o.was = members)
  BY <1>1, BegunType DEF IInv
<1> HIDE DEF o
<1>4. Stage(o)
  BY <1>3 DEF Stage
<1>5. ~active[c] => OpSound(o, members, total, <<>>)
  BY <1>1, <1>3 DEF OpSound, RemoveSound
<1>6. QED
  BY <1>2, <1>3, <1>4, <1>5, BeginsProper

LEMMA DifferenceUpdateProper ==
    ASSUME IInv, NEW c \in Client, NEW arg \in Arguments, DifferenceUpdate(c, arg)
    PROVE  Proper(c)
<1> DEFINE o == Begun(c, "difference_update", "contains", arg, 0)
<1>1. arg \in Seq(Key) /\ 0 \in 0 .. MaxTotal
  BY ArgumentType, ConstantsAssumption DEF IInv
<1>2. op[c] = Idle /\ Reads(c, o)
  BY DEF DifferenceUpdate
<1>3. /\ o \in Operation /\ o.name = "difference_update" /\ o.at = "contains"
      /\ o.arg = arg /\ o.todo = arg
      /\ o.quiet = ~active[c] /\ (~active[c] => o.was = members)
  BY <1>1, BegunType DEF IInv
<1> HIDE DEF o
<1>4. Stage(o)
  BY <1>3 DEF Stage
<1>5. ~active[c] => OpSound(o, members, total, <<>>)
  BY <1>1, <1>3, NoneDeleted DEF OpSound, DifferenceSound
<1>6. QED
  BY <1>2, <1>3, <1>4, <1>5, BeginsProper

LEMMA IntersectionUpdateProper ==
    ASSUME IInv, NEW c \in Client, NEW arg \in Arguments, IntersectionUpdate(c, arg)
    PROVE  Proper(c)
<1> DEFINE o == Begun(c, "intersection_update", "list", arg, 0)
<1>1. arg \in Seq(Key) /\ 0 \in 0 .. MaxTotal
  BY ArgumentType, ConstantsAssumption DEF IInv
<1>2. op[c] = Idle /\ Reads(c, o)
  BY DEF IntersectionUpdate
<1>3. /\ o \in Operation /\ o.name = "intersection_update" /\ o.at = "list"
      /\ o.arg = arg /\ o.todo = arg
      /\ o.quiet = ~active[c] /\ (~active[c] => o.was = members)
  BY <1>1, BegunType DEF IInv
<1> HIDE DEF o
<1>4. Stage(o)
  BY <1>3 DEF Stage
<1>5. ~active[c] => OpSound(o, members, total, <<>>)
  BY <1>1, <1>3, NoneDeleted DEF OpSound, IntersectionSound
<1>6. QED
  BY <1>2, <1>3, <1>4, <1>5, BeginsProper

LEMMA SymmetricDifferenceUpdateProper ==
    ASSUME IInv, NEW c \in Client, NEW arg \in Arguments, NEW once \in BOOLEAN,
           SymmetricDifferenceUpdate(c, arg, once)
    PROVE  Proper(c)
<1> DEFINE begun == Begun(c, "symmetric_difference_update", "union", arg, 0)
           o == [begun EXCEPT !.once = once]
<1>1. arg \in Seq(Key) /\ 0 \in 0 .. MaxTotal
  BY ArgumentType, ConstantsAssumption DEF IInv
<1>2. op[c] = Idle /\ Reads(c, o)
  BY DEF SymmetricDifferenceUpdate
<1>3. /\ o \in Operation /\ o.name = "symmetric_difference_update" /\ o.at = "union"
      /\ o.arg = arg /\ o.todo = arg
      /\ o.quiet = ~active[c] /\ (~active[c] => o.was = members)
  <2>1. /\ begun \in Operation /\ begun.name = "symmetric_difference_update"
        /\ begun.at = "union" /\ begun.arg = arg /\ begun.todo = arg
        /\ begun.quiet = ~active[c] /\ (~active[c] => begun.was = members)
    BY <1>1, BegunType DEF IInv
  <2> HIDE DEF begun
  <2>2. QED
    BY <2>1 DEF Operation
<1> HIDE DEF o
<1>4. Stage(o)
  BY <1>3 DEF Stage
<1>5. ~active[c] => OpSound(o, members, total, <<>>)
  BY <1>1, <1>3 DEF OpSound, SymmetricSound
<1>6. QED
  BY <1>2, <1>3, <1>4, <1>5, BeginsProper

LEMMA ClearTotalProper ==
    ASSUME IInv, NEW c \in Client, NEW n \in {0, 1}, ClearTotal(c, n)
    PROVE  Proper(c)
<1> DEFINE arg == <<>>
           b == Begun(c, "clear", "write", arg, n)
           o == [b EXCEPT !.read = total]
<1>1. arg \in Seq(Key) /\ n \in 0 .. MaxTotal /\ total \in -MaxTotal .. MaxTotal
  BY ConstantsAssumption DEF IInv, TypeOK
<1>2. op[c] = Idle /\ Reads(c, o)
  BY DEF ClearTotal
<1> HIDE DEF arg
<1>3. b \in Operation /\ b.name = "clear" /\ b.at = "write" /\ b.quiet = ~active[c]
  BY <1>1, BegunType DEF IInv
<1> HIDE DEF b
<1>4. /\ o \in Operation /\ o.name = "clear" /\ o.at = "write" /\ o.quiet = ~active[c]
      /\ o.read = total
  BY <1>1, <1>3 DEF Operation
<1> HIDE DEF o
<1>5. Stage(o)
  BY <1>4 DEF Stage
<1>6. ~active[c] => OpSound(o, members, total, <<>>)
  BY <1>4 DEF OpSound
<1>7. QED
  BY <1>2, <1>4, <1>5, <1>6, BeginsProper

\* An operation reads, and goes on.
LEMMA GoesOn ==
    ASSUME IInv, NEW c \in Client, NEW o \in Operation, op[c] # Idle, Reads(c, o),
           o.name = op[c].name, o.quiet = op[c].quiet, Stage(o),
           o.at = "write" /\ o.name # "clear" => ~active[c],
           op[c].quiet => OpSound(o, members, total, bundle[c])
    PROVE  Proper(c)
<1>1. TypeOK /\ Sound(c) /\ o \in Operations /\ o # Idle
  BY IdleIsNone DEF IInv, Operations
<1>2. /\ TypeOK' /\ Others(c)
      /\ Own(c, o, members, total, active[c], bundle[c], spilled[c])
  BY <1>1, ReadsEffect
<1>3. ProcessSound(kind, o, members, total, active[c], bundle[c], spilled[c])
  BY <1>1 DEF Sound, ProcessSound
<1>4. Exact(c)
  BY <1>1, <1>2, NotEnding DEF Own
<1>5. QED
  BY <1>2, <1>3, <1>4, OwnIsProper

\* An operation collects changes, and goes on.
LEMMA CollectsOn ==
    ASSUME IInv, NEW c \in Client, NEW o \in Operation, NEW changes \in Seq(Change),
           op[c] # Idle, Collects(c, changes, o),
           o.name = op[c].name, o.quiet = op[c].quiet, Stage(o), o.at # "write",
           active[c] \/ o.name \in {"difference_update", "intersection_update"},
           op[c].quiet => OpSound(o, members, total, bundle[c] \o changes)
    PROVE  Proper(c)
<1>1. TypeOK /\ Sound(c) /\ o \in Operations /\ o # Idle
  BY IdleIsNone DEF IInv, Operations
<1>2. /\ TypeOK' /\ Others(c)
      /\ Own(c, o, members, total, active[c], bundle[c] \o changes, spilled[c])
  BY <1>1, CollectsEffect
<1>3. ProcessSound(kind, o, members, total, active[c], bundle[c] \o changes, spilled[c])
  BY <1>1 DEF Sound, ProcessSound
<1>4. Exact(c)
  BY <1>1, <1>2, NotEnding DEF Own
<1>5. QED
  BY <1>2, <1>3, <1>4, OwnIsProper

\* Without a block, what an operation has collected is committed at its end.
LEMMA FinishesAtEnd ==
    ASSUME IInv, NEW c \in Client, Finishes(c)
    PROVE  /\ TypeOK' /\ Others(c) /\ Sound(c)'
           /\ ~active[c] => members' = Applied(bundle[c])
<1>1. TypeOK /\ Sound(c)
  BY DEF IInv
<1>2. /\ TypeOK' /\ Others(c)
      /\ active[c] => Own(c, Idle, members, total, active[c], bundle[c], spilled[c])
      /\ ~active[c] => Own(c, Idle, Applied(bundle[c]), total + Sum(bundle[c]),
                           active[c], <<>>, FALSE)
  BY <1>1, FinishesEffect
<1>3. Sound(c)'
  BY <1>1, <1>2 DEF Own, Others, Sound, ProcessSound
<1>4. QED
  BY <1>2, <1>3 DEF Own

\* The exception: who meets it undisturbed has changed nothing, and is not meant to.
LEMMA RaisesProper ==
    ASSUME IInv, NEW c \in Client, Raises(c),
           op[c].quiet => /\ op[c].name \notin {"clear", "intersection_update"}
                          /\ Meant(op[c]) = members
    PROVE  Proper(c)
<1>1. TypeOK /\ Sound(c)
  BY DEF IInv
<1>2. /\ TypeOK' /\ Others(c)
      /\ Own(c, Idle, members, total, active[c],
             IF active[c] THEN bundle[c] ELSE <<>>, spilled[c])
  BY <1>1, RaisesEffect
<1>3. ProcessSound(kind, Idle, members, total, active[c],
                   IF active[c] THEN bundle[c] ELSE <<>>, spilled[c])
  BY <1>1 DEF Sound, ProcessSound
<1>4. ASSUME EndsQuietly(c)
      PROVE  /\ Members' = Meant(op[c])
             /\ op[c].name \notin {"clear", "intersection_update"}
  BY <1>2, <1>4 DEF EndsQuietly, Own, Members
<1>5. Exact(c)
  BY <1>4 DEF Exact
<1>6. QED
  BY <1>2, <1>3, <1>5, OwnIsProper

\* The type of an operation in progress.
LEMMA Within ==
    ASSUME IInv, NEW c \in Client, op[c] # Idle
    PROVE  /\ op[c] \in Operation
           /\ op[c].todo \in Seq(Key) /\ op[c].arg \in Seq(Key) /\ op[c].listed \in Seq(Key)
           /\ op[c].set \in SUBSET Key /\ op[c].was \in SUBSET Key
           /\ op[c].read \in -MaxTotal .. MaxTotal /\ op[c].then \in 0 .. MaxTotal
           /\ op[c].quiet \in BOOLEAN /\ op[c].once \in BOOLEAN
           /\ members \in SUBSET Key /\ bundle[c] \in Seq(Change)
           /\ Stage(op[c])
           /\ op[c].at = "write" /\ op[c].name # "clear" => ~active[c]
           /\ op[c].quiet => ~active[c] /\ OpSound(op[c], members, total, bundle[c])
BY DEF IInv, TypeOK, Sound, ProcessSound, Operation

LEMMA NamedIsWithin ==
    ASSUME NEW c \in Client, NEW name, name # "none", op[c].name = name
    PROVE  op[c] # Idle
BY IdleIsNone

-----------------------------------------------------------------------------
(***************************************************************************)
(* Accumulator.clear.                                                      *)
(***************************************************************************)

LEMMA SubtractTotalProper ==
    ASSUME IInv, NEW c \in Client, SubtractTotal(c)
    PROVE  Proper(c)
<1> DEFINE o == op[c]
           changes == IF o.then = 0 THEN <<Increment(-o.read)>>
                      ELSE <<Increment(-o.read), Increment(o.then)>>
<1>1. o.name = "clear" /\ Adds(c, changes, Idle)
  BY DEF SubtractTotal
<1>2. /\ o.read \in -MaxTotal .. MaxTotal /\ o.then \in 0 .. MaxTotal /\ MaxTotal \in Nat
      /\ o.quiet => ~active[c] /\ OpSound(o, members, total, bundle[c])
  BY <1>1, Within, NamedIsWithin, ConstantsAssumption
<1>3. changes \in Seq(Change)
  <2>1. Increment(-o.read) \in Change /\ Increment(o.then) \in Change
    <3>1. -o.read \in -MaxTotal .. MaxTotal /\ o.then \in -MaxTotal .. MaxTotal
      BY <1>2
    <3>2. QED
      BY <3>1, ChangeTypes
  <2>2. QED
    BY <2>1
<1>4. Sum(changes) = o.then - o.read
  <2>1. CASE o.then = 0
    BY <1>2, <2>1, SumOfOne
  <2>2. CASE o.then # 0
    BY <1>2, <2>2, SumOfTwo
  <2>3. QED
    BY <2>1, <2>2
<1> HIDE DEF changes
<1>5. /\ TypeOK' /\ Others(c) /\ Sound(c)'
      /\ ~active[c] => total' = total + Sum(changes)
  BY <1>1, <1>3, AddsAtEnd
<1>6. ASSUME EndsQuietly(c)
      PROVE  total' = o.then
  <2>1. o.quiet
    BY <1>6 DEF EndsQuietly
  <2>2. o.read = total
    BY <1>1, <1>2, <2>1 DEF OpSound
  <2>3. QED
    BY <1>2, <1>4, <1>5, <2>1, <2>2
<1>7. Exact(c)
  BY <1>1, <1>6 DEF Exact
<1>8. QED
  BY <1>5, <1>7 DEF Proper

-----------------------------------------------------------------------------
(***************************************************************************)
(* Removals, one after the other.                                          *)
(***************************************************************************)

\* What does not change while an operation goes on.
Keeps(p, o) ==
    /\ p.name = o.name /\ p.arg = o.arg /\ p.once = o.once
    /\ p.was = o.was /\ p.quiet = o.quiet

LEMMA ToPlace ==
    ASSUME NEW o \in Operation,
           NEW at \in {"contains", "remove", "write", "list", "probe", "union", "subtract", "update"}
    PROVE  /\ [o EXCEPT !.at = at] \in Operation
           /\ Keeps([o EXCEPT !.at = at], o)
           /\ [o EXCEPT !.at = at].at = at
           /\ [o EXCEPT !.at = at].todo = o.todo
           /\ [o EXCEPT !.at = at].set = o.set
BY DEF Operation, Keeps

LEMMA ToRest ==
    ASSUME NEW o \in Operation, NEW todo \in Seq(Key)
    PROVE  /\ [o EXCEPT !.todo = todo] \in Operation
           /\ Keeps([o EXCEPT !.todo = todo], o)
           /\ [o EXCEPT !.todo = todo].at = o.at
           /\ [o EXCEPT !.todo = todo].todo = todo
BY DEF Operation, Keeps

LEMMA TestElementProper ==
    ASSUME IInv, NEW c \in Client, TestElement(c)
    PROVE  Proper(c)
<1> DEFINE o == op[c]
           b == bundle[c]
<1>1. /\ o.name = "difference_update" /\ o.at = "contains" /\ o # Idle
  BY NamedIsWithin DEF TestElement
<1>2. /\ o \in Operation /\ o.todo \in Seq(Key) /\ Stage(o)
      /\ o.quiet => ~active[c] /\ DifferenceSound(o, members, b)
      /\ members \in SUBSET Key /\ b \in Seq(Change)
  BY <1>1, Within DEF OpSound
<1>3. CASE o.todo = <<>>
  <2>1. Finishes(c)
    BY <1>3 DEF TestElement
  <2>2. /\ TypeOK' /\ Others(c) /\ Sound(c)'
        /\ ~active[c] => members' = Applied(b)
    BY <2>1, FinishesAtEnd
  <2>3. ASSUME EndsQuietly(c)
        PROVE  Members' = Meant(o)
    <3>1. o.quiet
      BY <2>3 DEF EndsQuietly
    <3>2. /\ members = o.was /\ OnlyDeletions(b)
          /\ Deleted(b) = o.was \cap Range(o.arg)
      BY <1>2, <1>3, <3>1, EmptyRange DEF DifferenceSound
    <3>3. members' = members \ Deleted(b)
      BY <1>2, <2>2, <3>1, <3>2, DeletionsApplied
    <3>4. QED
      BY <1>1, <3>2, <3>3 DEF Meant, Members
  <2>4. Exact(c)
    BY <1>1, <2>3 DEF Exact
  <2>5. QED
    BY <2>2, <2>4 DEF Proper
<1>4. CASE o.todo # <<>> /\ HasKey(Head(o.todo))
  <2> DEFINE p == [o EXCEPT !.at = "remove"]
  <2>1. Reads(c, p)
    BY <1>4 DEF TestElement
  <2>2. p \in Operation /\ Keeps(p, o) /\ p.at = "remove" /\ p.todo = o.todo
    BY <1>2, ToPlace
  <2> HIDE DEF p
  <2>3. Stage(p)
    BY <1>1, <2>2 DEF Stage, Keeps
  <2>4. o.quiet => OpSound(p, members, total, b)
    BY <1>1, <1>2, <1>4, <2>2 DEF OpSound, DifferenceSound, Keeps, HasKey
  <2>5. QED
    BY <1>1, <2>1, <2>2, <2>3, <2>4, GoesOn DEF Keeps
<1>5. CASE o.todo # <<>> /\ ~HasKey(Head(o.todo))
  <2> DEFINE rest == Tail(o.todo)
             p == [o EXCEPT !.todo = rest]
  <2>1. Reads(c, p)
    BY <1>5 DEF TestElement
  <2>2. rest \in Seq(Key) /\ Range(o.todo) = {Head(o.todo)} \cup Range(rest)
    BY <1>2, <1>5, HeadAndTail
  <2> HIDE DEF rest
  <2>3. p \in Operation /\ Keeps(p, o) /\ p.at = "contains" /\ p.todo = rest
    BY <1>1, <1>2, <2>2, ToRest
  <2> HIDE DEF p
  <2>4. Stage(p)
    BY <1>1, <2>3 DEF Stage, Keeps
  <2>5. ASSUME o.quiet
        PROVE  DifferenceSound(p, members, b)
    <3>1. DifferenceSound(o, members, b)
      BY <1>2, <2>5
    <3>2. Head(o.todo) \notin o.was
      BY <1>5, <3>1 DEF HasKey, DifferenceSound
    <3>3. QED
      BY <2>2, <2>3, <3>1, <3>2 DEF DifferenceSound, Keeps
  <2>6. o.quiet => OpSound(p, members, total, b)
    BY <1>1, <2>3, <2>5 DEF OpSound, Keeps
  <2>7. QED
    BY <1>1, <2>1, <2>3, <2>4, <2>6, GoesOn DEF Keeps
<1>6. QED
  BY <1>3, <1>4, <1>5

\* The element that is removed is one that the operation is meant to remove.
LEMMA LookForProper ==
    ASSUME IInv, NEW c \in Client, LookFor(c)
    PROVE  Proper(c)
<1> DEFINE o == op[c]
           b == bundle[c]
           k == Head(o.todo)
           rest == Tail(o.todo)
           one == <<Put("deletion", k)>>
<1>1. o # Idle /\ o.at = "remove" /\ o.todo # <<>>
  BY DEF LookFor
<1>2. /\ o \in Operation /\ o.todo \in Seq(Key) /\ Stage(o)
      /\ o.quiet => ~active[c] /\ OpSound(o, members, total, b)
      /\ members \in SUBSET Key /\ b \in Seq(Change)
  BY <1>1, Within
<1>3. o.name \in {"remove", "difference_update", "symmetric_difference_update"}
  BY <1>1, <1>2 DEF Stage, Operation
<1>4. /\ k \in Key /\ rest \in Seq(Key) /\ Range(o.todo) = {k} \cup Range(rest)
      /\ IsInjective(o.todo) => IsInjective(rest) /\ k \notin Range(rest)
  BY <1>1, <1>2, HeadAndTail
<1>5. one \in Seq(Change)
  BY <1>4, ChangeTypes
<1>6. CASE ~HasKey(k)
  <2>1. Raises(c)
    BY <1>6 DEF LookFor
  <2>2. ASSUME o.quiet
        PROVE  o.name = "remove" /\ Meant(o) = members
    <3>1. CASE o.name = "difference_update"
      BY <1>1, <1>2, <1>6, <2>2, <3>1 DEF OpSound, DifferenceSound, HasKey
    <3>2. CASE o.name = "symmetric_difference_update"
      <4>1. SymmetricSound(o, members)
        BY <1>2, <2>2, <3>2 DEF OpSound
      <4>2. k \in Gone(o) /\ members = o.was \ ((Gone(o) \ {0}) \ Range(o.todo))
        BY <1>1, <1>4, <4>1 DEF SymmetricSound
      <4>3. k \in members
        BY <1>4, <4>2 DEF Gone, Common
      <4>4. QED
        BY <1>6, <4>3 DEF HasKey
    <3>3. CASE o.name = "remove"
      <4>1. members = o.was /\ Range(o.arg) = {k}
        BY <1>2, <2>2, <3>3 DEF OpSound, RemoveSound
      <4>2. QED
        BY <1>6, <3>3, <4>1 DEF Meant, HasKey
    <3>4. QED
      BY <1>3, <3>1, <3>2, <3>3
  <2>3. QED
    BY <2>1, <2>2, RaisesProper
<1>7. CASE HasKey(k) /\ (active[c] \/ o.name = "difference_update")
  <2>1. Collects(c, one, AfterRemoval(c))
    BY <1>7 DEF LookFor
  <2>2. CASE o.name = "remove"
    <3>1. active[c] /\ ~o.quiet
      BY <1>2, <1>7, <2>2
    <3>2. Adds(c, one, Idle)
      BY <2>1, <2>2, <3>1 DEF AfterRemoval, Adds
    <3>3. TypeOK' /\ Others(c) /\ Sound(c)'
      BY <1>5, <2>2, <3>2, AddsAtEnd
    <3>4. Exact(c)
      BY <3>1 DEF Exact, EndsQuietly
    <3>5. QED
      BY <3>3, <3>4 DEF Proper
  <2>3. CASE o.name = "difference_update"
    <3> DEFINE p == [o EXCEPT !.at = "contains", !.todo = rest]
    <3>1. Collects(c, one, p)
      BY <2>1, <2>3 DEF AfterRemoval
    <3> HIDE DEF rest
    <3>2. p \in Operation /\ Keeps(p, o) /\ p.at = "contains" /\ p.todo = rest
      <4>1. o \in Operation /\ rest \in Seq(Key)
        BY <1>2, <1>4
      <4> HIDE DEF o
      <4>2. QED
        BY <4>1 DEF Operation, Keeps
    <3> HIDE DEF p
    <3>3. Stage(p)
      BY <2>3, <3>2 DEF Stage, Keeps
    <3>4. ASSUME o.quiet
          PROVE  DifferenceSound(p, members, b \o one)
      <4>1. DifferenceSound(o, members, b)
        BY <1>2, <2>3, <3>4 DEF OpSound
      <4>2. OnlyDeletions(b \o one) /\ Deleted(b \o one) = Deleted(b) \cup {k}
        BY <1>2, <1>4, <4>1, DeletionAdded DEF DifferenceSound
      <4>3. k \in o.was /\ k \in Range(o.arg)
        BY <1>1, <1>4, <4>1 DEF DifferenceSound
      <4> HIDE DEF k, one
      <4>4. QED
        BY <1>4, <3>2, <4>1, <4>2, <4>3 DEF DifferenceSound, Keeps
    <3>5. o.quiet => OpSound(p, members, total, b \o one)
      BY <2>3, <3>2, <3>4 DEF OpSound, Keeps
    <3> HIDE DEF one
    <3>6. QED
      BY <1>1, <1>5, <2>3, <3>1, <3>2, <3>3, <3>5, CollectsOn DEF Keeps
  <2>4. CASE o.name = "symmetric_difference_update"
    <3> DEFINE p == [o EXCEPT !.at = "remove", !.todo = rest]
    <3>1. Collects(c, one, p)
      BY <2>1, <2>4 DEF AfterRemoval
    <3> HIDE DEF rest
    <3>2. p \in Operation /\ Keeps(p, o) /\ p.at = "remove" /\ p.todo = rest
      <4>1. o \in Operation /\ rest \in Seq(Key)
        BY <1>2, <1>4
      <4> HIDE DEF o
      <4>2. QED
        BY <4>1 DEF Operation, Keeps
    <3> HIDE DEF p, one
    <3>3. Stage(p)
      BY <2>4, <3>2 DEF Stage, Keeps
    <3>4. active[c] /\ ~o.quiet
      BY <1>2, <1>7, <2>4
    <3>5. QED
      BY <1>1, <1>5, <3>1, <3>2, <3>3, <3>4, CollectsOn DEF Keeps
  <2>5. QED
    BY <1>3, <2>2, <2>3, <2>4
<1>8. CASE HasKey(k) /\ ~active[c] /\ o.name # "difference_update"
  <2> DEFINE p == [o EXCEPT !.at = "write"]
  <2>1. Reads(c, p)
    BY <1>8 DEF LookFor
  <2>2. p \in Operation /\ Keeps(p, o) /\ p.at = "write" /\ p.todo = o.todo /\ p.set = o.set
    BY <1>2, ToPlace
  <2> HIDE DEF p
  <2>3. Stage(p)
    BY <1>1, <1>3, <1>8, <2>2 DEF Stage, Keeps
  <2>4. ASSUME o.quiet
        PROVE  OpSound(p, members, total, b)
    <3>1. OpSound(o, members, total, b)
      BY <1>2, <2>4
    <3>2. CASE o.name = "remove"
      BY <2>2, <3>1, <3>2 DEF OpSound, RemoveSound, Keeps
    <3>3. CASE o.name = "symmetric_difference_update"
      <4>1. SymmetricSound(o, members)
        BY <3>1, <3>3 DEF OpSound
      <4>2. SymmetricSound(p, members)
        BY <1>1, <2>2, <4>1 DEF SymmetricSound, Subtracted, Repeats, Gone, Common, Keeps
      <4>3. QED
        BY <2>2, <3>3, <4>2 DEF OpSound, Keeps
    <3>4. QED
      BY <1>3, <1>8, <3>2, <3>3
  <2>5. QED
    BY <1>1, <1>8, <2>1, <2>2, <2>3, <2>4, GoesOn DEF Keeps
<1>9. QED
  BY <1>6, <1>7, <1>8

LEMMA CommitRemovalProper ==
    ASSUME IInv, NEW c \in Client, CommitRemoval(c)
    PROVE  Proper(c)
<1> DEFINE o == op[c]
           k == Head(o.todo)
           rest == Tail(o.todo)
           one == <<Put("deletion", k)>>
           next == AfterRemoval(c)
<1>1. o # Idle /\ o.at = "write" /\ o.name # "clear" /\ Commits(c, one, next)
  BY DEF CommitRemoval
<1>2. /\ o \in Operation /\ o.todo \in Seq(Key) /\ Stage(o) /\ ~active[c]
      /\ o.quiet => OpSound(o, members, total, bundle[c])
      /\ members \in SUBSET Key
  BY <1>1, Within
<1>3. o.name \in {"remove", "symmetric_difference_update"} /\ o.todo # <<>>
  BY <1>1, <1>2 DEF Stage, Operation
<1>4. /\ k \in Key /\ rest \in Seq(Key) /\ Range(o.todo) = {k} \cup Range(rest)
      /\ IsInjective(o.todo) => IsInjective(rest) /\ k \notin Range(rest)
  BY <1>2, <1>3, HeadAndTail
<1>5. Applied(one) = members \ {k}
  <2>1. OnlyDeletions(one) /\ Deleted(one) = {k}
    BY <1>4, OneDeletion
  <2> HIDE DEF one
  <2>2. QED
    BY <1>2, <2>1, DeletionsApplied
<1>6. TypeOK /\ Sound(c) /\ bundle[c] = <<>>
  BY <1>2, <1>3 DEF IInv, Sound, ProcessSound
<1> HIDE DEF one, next
<1>7. next \in Operations => /\ TypeOK' /\ Others(c)
                             /\ Own(c, next, members \ {k}, total + Sum(one), active[c],
                                    bundle[c], FALSE)
  <2>1. SUFFICES ASSUME next \in Operations
                 PROVE  /\ TypeOK' /\ Others(c)
                        /\ Own(c, next, members \ {k}, total + Sum(one), active[c],
                               bundle[c], FALSE)
    OBVIOUS
  <2>2. /\ TypeOK' /\ Others(c)
        /\ Own(c, next, Applied(one), total + Sum(one), active[c], bundle[c],
               active[c] /\ (spilled[c] \/ one # <<>>))
    BY <1>1, <1>6, <2>1, CommitsEffect
  <2>3. (active[c] /\ (spilled[c] \/ one # <<>>)) = FALSE
    BY <1>2
  <2>4. QED
    BY <1>5, <2>2, <2>3
<1>8. CASE o.name = "remove"
  <2>1. next = Idle
    BY <1>8 DEF AfterRemoval, next
  <2>2. /\ TypeOK' /\ Others(c)
        /\ Own(c, next, members \ {k}, total + Sum(one), active[c], bundle[c], FALSE)
    BY <1>7, <2>1 DEF Operations
  <2>3. ProcessSound(kind, next, members \ {k}, total + Sum(one), active[c], bundle[c], FALSE)
    BY <1>6, <2>1 DEF ProcessSound
  <2>4. ASSUME o.quiet
        PROVE  Members' = Meant(o)
    <3>1. members = o.was /\ Range(o.arg) = {k}
      BY <1>2, <1>8, <2>4 DEF OpSound, RemoveSound
    <3>2. members' = members \ {k}
      BY <2>2 DEF Own
    <3>3. QED
      BY <1>8, <3>1, <3>2 DEF Meant, Members
  <2>5. Exact(c)
    BY <1>8, <2>4 DEF Exact, EndsQuietly
  <2>6. QED
    BY <2>2, <2>3, <2>5, OwnIsProper
<1>9. CASE o.name = "symmetric_difference_update"
  <2>1. next = [o EXCEPT !.at = "remove", !.todo = rest]
    BY <1>9 DEF AfterRemoval, next
  <2> HIDE DEF rest
  <2>2. /\ next \in Operation /\ Keeps(next, o) /\ next.at = "remove" /\ next.todo = rest
        /\ next.set = o.set
    <3>1. o \in Operation /\ rest \in Seq(Key)
      BY <1>2, <1>4
    <3> DEFINE p == [o EXCEPT !.at = "remove", !.todo = rest]
    <3>2. next = p
      BY <2>1
    <3> HIDE DEF o
    <3>3. /\ p \in Operation /\ Keeps(p, o) /\ p.at = "remove" /\ p.todo = rest
          /\ p.set = o.set
      BY <3>1 DEF Operation, Keeps
    <3> HIDE DEF p
    <3>4. QED
      BY <3>2, <3>3
  <2>3. /\ TypeOK' /\ Others(c)
        /\ Own(c, next, members \ {k}, total + Sum(one), active[c], bundle[c], FALSE)
    BY <1>7, <2>2 DEF Operations
  <2>4. Stage(next)
    BY <1>9, <2>2 DEF Stage, Keeps
  <2>5. ASSUME o.quiet
        PROVE  SymmetricSound(next, members \ {k})
    <3>1. SymmetricSound(o, members)
      BY <1>2, <1>9, <2>5 DEF OpSound
    <3>2. /\ IsInjective(rest) /\ k \notin Range(rest)
          /\ Subtracted(o)
          /\ {k} \cup Range(rest) \subseteq Gone(o) \ {0}
          /\ members = o.was \ ((Gone(o) \ {0}) \ ({k} \cup Range(rest)))
      BY <1>1, <1>4, <3>1 DEF SymmetricSound
    <3>3. Gone(next) = Gone(o) /\ Subtracted(next) /\ next.was = o.was
      BY <2>2, <3>2 DEF Subtracted, Repeats, Gone, Common, Keeps
    <3> HIDE DEF k
    <3>4. members \ {k} = o.was \ ((Gone(o) \ {0}) \ Range(rest))
      BY <3>2
    <3>5. QED
      BY <2>2, <3>2, <3>3, <3>4 DEF SymmetricSound
  <2>6. ProcessSound(kind, next, members \ {k}, total + Sum(one), active[c], bundle[c], FALSE)
    <3>1. o.quiet => OpSound(next, members \ {k}, total + Sum(one), bundle[c])
      BY <1>9, <2>2, <2>5 DEF OpSound, Keeps
    <3>2. QED
      BY <1>2, <1>6, <1>9, <2>2, <2>4, <3>1 DEF ProcessSound, Keeps
  <2>7. Exact(c)
    <3>1. op'[c] # Idle
      BY <2>2, <2>3, IdleIsNone DEF Own
    <3>2. QED
      BY <3>1, NotEnding
  <2>8. QED
    BY <2>3, <2>6, <2>7, OwnIsProper
<1>10. QED
  BY <1>3, <1>8, <1>9

-----------------------------------------------------------------------------
(***************************************************************************)
(* KeySet.intersection_update.                                             *)
(***************************************************************************)

LEMMA ListKeysProper ==
    ASSUME IInv, NEW c \in Client, ListKeys(c)
    PROVE  Proper(c)
<1> DEFINE o == op[c]
           b == bundle[c]
           list == Listed(members)
           p == [o EXCEPT !.at = "probe", !.listed = list]
<1>1. o.name = "intersection_update" /\ o.at = "list" /\ o # Idle /\ Reads(c, p)
  BY NamedIsWithin DEF ListKeys, Members
<1>2. /\ o \in Operation /\ members \in SUBSET Key /\ Stage(o)
      /\ o.quiet => ~active[c] /\ IntersectionSound(o, members, b)
  BY <1>1, Within DEF OpSound
<1>3. list \in Seq(Key) /\ Range(list) = members /\ Descending(list)
  BY <1>2, ListedProperties
<1> HIDE DEF list
<1>4. /\ p \in Operation /\ Keeps(p, o) /\ p.at = "probe" /\ p.todo = o.todo /\ p.listed = list
  BY <1>2, <1>3 DEF Operation, Keeps
<1> HIDE DEF p
<1>5. Stage(p)
  BY <1>1, <1>4 DEF Stage, Keeps
<1>6. ASSUME o.quiet
      PROVE  IntersectionSound(p, members, b)
  <2>1. members = o.was /\ b = <<>> /\ o.todo = o.arg
    BY <1>1, <1>2, <1>6 DEF IntersectionSound
  <2>2. OnlyDeletions(b) /\ Deleted(b) = {}
    BY <2>1, NoneDeleted
  <2>3. ASSUME InOrder(p)
        PROVE  Descending(p.todo) /\ Range(list) \ {0} \subseteq Range(p.todo)
    <3>1. o.was \subseteq Range(o.arg) /\ o.arg = Listed(Range(o.arg))
      BY <1>4, <2>3 DEF InOrder, Keeps
    <3>2. Range(o.arg) \in SUBSET Key
      <4>1. o.arg \in Seq(Key)
        BY <1>1, Within
      <4>2. \A i \in DOMAIN o.arg : o.arg[i] \in Key
        BY <4>1, LenProperties
      <4>3. QED
        BY <4>2 DEF Range
    <3>3. Descending(o.arg)
      <4> DEFINE S == Range(o.arg)
      <4>1. Descending(Listed(S))
        BY <3>2, ListedProperties
      <4>2. QED
        BY <3>1, <4>1
    <3>4. QED
      BY <1>3, <1>4, <2>1, <3>1, <3>3
  <2>4. QED
    BY <1>3, <1>4, <2>1, <2>2, <2>3 DEF IntersectionSound, Keeps
<1>7. o.quiet => OpSound(p, members, total, b)
  BY <1>1, <1>4, <1>6 DEF OpSound, Keeps
<1>8. QED
  BY <1>1, <1>4, <1>5, <1>7, GoesOn DEF Keeps

LEMMA ProbeProper ==
    ASSUME IInv, NEW c \in Client, Probe(c)
    PROVE  Proper(c)
<1> DEFINE o == op[c]
           b == bundle[c]
           key == Head(o.listed)
           keys == Tail(o.listed)
           e == Head(o.todo)
           rest == Tail(o.todo)
<1>1. o.name = "intersection_update" /\ o.at = "probe" /\ o # Idle
  BY NamedIsWithin DEF Probe
<1>2. /\ o \in Operation /\ o.todo \in Seq(Key) /\ o.listed \in Seq(Key) /\ Stage(o)
      /\ o.quiet => ~active[c] /\ IntersectionSound(o, members, b)
      /\ members \in SUBSET Key /\ b \in Seq(Change)
  BY <1>1, Within DEF OpSound
<1>3. ASSUME NEW p \in Operation, Keeps(p, o), p.at = "probe"
      PROVE  /\ Stage(p) /\ p.name = o.name /\ p.quiet = o.quiet /\ p.at # "write"
             /\ p.name \in {"difference_update", "intersection_update"}
             /\ InOrder(p) <=> InOrder(o)
             /\ \A bb : IntersectionSound(p, members, bb) => OpSound(p, members, total, bb)
  BY <1>1, <1>3 DEF Stage, Keeps, InOrder, OpSound
<1>4. ASSUME o.listed # <<>>
      PROVE  /\ key \in Key /\ keys \in Seq(Key)
             /\ Range(o.listed) = {key} \cup Range(keys)
             /\ Descending(o.listed) => /\ Descending(keys)
                                        /\ \A l \in Range(keys) : l < key
  BY <1>2, <1>4, HeadAndTail
<1>5. ASSUME o.todo # <<>>
      PROVE  /\ e \in Key /\ rest \in Seq(Key)
             /\ Range(o.todo) = {e} \cup Range(rest)
             /\ Descending(o.todo) => /\ Descending(rest)
                                      /\ \A l \in Range(rest) : l < e
  BY <1>2, <1>5, HeadAndTail
<1>6. CASE o.listed = <<>>
  <2>1. Finishes(c)
    BY <1>6 DEF Probe
  <2>2. /\ TypeOK' /\ Others(c) /\ Sound(c)'
        /\ ~active[c] => members' = Applied(b)
    BY <2>1, FinishesAtEnd
  <2>3. ASSUME EndsQuietly(c)
        PROVE  /\ Members' \subseteq Meant(o)
               /\ InOrder(o) => Members' = o.was
    <3>1. IntersectionSound(o, members, b) /\ ~active[c]
      BY <1>2, <2>3 DEF EndsQuietly
    <3>2. /\ members = o.was /\ OnlyDeletions(b)
          /\ o.was \subseteq Deleted(b) \cup Range(o.arg) \cup {0}
          /\ InOrder(o) => Deleted(b) = {}
      BY <1>1, <1>6, <3>1, EmptyRange DEF IntersectionSound
    <3>3. members' = members \ Deleted(b)
      BY <1>2, <2>2, <3>1, <3>2, DeletionsApplied
    <3>4. QED
      BY <1>1, <3>2, <3>3 DEF Meant, Members
  <2>4. Exact(c)
    BY <1>1, <2>3 DEF Exact, InOrder
  <2>5. QED
    BY <2>2, <2>4 DEF Proper
<1>7. CASE o.listed # <<>> /\ key = 0
  <2> DEFINE p == [o EXCEPT !.listed = keys]
  <2>1. Reads(c, p)
    BY <1>7 DEF Probe
  <2> HIDE DEF keys
  <2>2. p \in Operation /\ Keeps(p, o) /\ p.at = "probe" /\ p.todo = o.todo /\ p.listed = keys
    BY <1>1, <1>2, <1>4, <1>7 DEF Operation, Keeps
  <2> HIDE DEF p
  <2>3. ASSUME o.quiet
        PROVE  IntersectionSound(p, members, b)
    <3>1. IntersectionSound(o, members, b)
      BY <1>2, <2>3
    <3>2. p.was \subseteq Deleted(b) \cup Range(keys) \cup Range(p.arg) \cup {0}
      BY <1>1, <1>4, <1>7, <2>2, <3>1 DEF IntersectionSound, Keeps
    <3>3. ASSUME InOrder(p)
          PROVE  /\ Deleted(b) = {} /\ Descending(o.todo) /\ Descending(keys)
                 /\ Range(keys) \subseteq p.was /\ Range(keys) \ {0} \subseteq Range(o.todo)
      <4>1. InOrder(o)
        BY <1>3, <2>2, <3>3
      <4>2. QED
        BY <1>1, <1>4, <1>7, <2>2, <3>1, <4>1 DEF IntersectionSound, Keeps
    <3>4. QED
      BY <2>2, <3>1, <3>2, <3>3 DEF IntersectionSound, Keeps
  <2>4. QED
    BY <1>1, <1>3, <2>1, <2>2, <2>3, GoesOn
<1>8. CASE o.listed # <<>> /\ key # 0 /\ o.todo = <<>>
  <2> DEFINE p == [o EXCEPT !.listed = keys]
             one == <<Put("deletion", key)>>
  <2>1. Collects(c, one, p)
    BY <1>8 DEF Probe
  <2>2. one \in Seq(Change)
    BY <1>4, <1>8, ChangeTypes
  <2> HIDE DEF keys
  <2>3. p \in Operation /\ Keeps(p, o) /\ p.at = "probe" /\ p.todo = o.todo /\ p.listed = keys
    BY <1>1, <1>2, <1>4, <1>8 DEF Operation, Keeps
  <2> HIDE DEF p
  <2>4. ASSUME o.quiet
        PROVE  IntersectionSound(p, members, b \o one)
    <3>1. IntersectionSound(o, members, b)
      BY <1>2, <2>4
    <3>2. OnlyDeletions(b \o one) /\ Deleted(b \o one) = Deleted(b) \cup {key}
      BY <1>2, <1>4, <1>8, <3>1, DeletionAdded DEF IntersectionSound
    <3>3. ~InOrder(p)
      <4>1. SUFFICES ASSUME InOrder(p)
                     PROVE  FALSE
        OBVIOUS
      <4>2. Range(o.listed) \ {0} \subseteq Range(o.todo)
        BY <1>1, <1>3, <2>3, <3>1, <4>1 DEF IntersectionSound
      <4>3. QED
        BY <1>4, <1>8, <4>2, EmptyRange
    <3> HIDE DEF key, one
    <3>4. p.was \subseteq Deleted(b \o one) \cup Range(keys) \cup Range(p.arg) \cup {0}
      BY <1>1, <1>4, <1>8, <2>3, <3>1, <3>2 DEF IntersectionSound, Keeps
    <3>5. QED
      BY <2>3, <3>1, <3>2, <3>3, <3>4 DEF IntersectionSound, Keeps
  <2> HIDE DEF one
  <2>5. QED
    BY <1>1, <1>3, <2>1, <2>2, <2>3, <2>4, CollectsOn
<1>9. CASE o.listed # <<>> /\ key # 0 /\ o.todo # <<>>
  <2> DEFINE found == HasKey(e) /\ e = key
             left == IF found THEN keys ELSE o.listed
             p == [o EXCEPT !.todo = rest, !.listed = left]
  <2>1. Reads(c, p)
    BY <1>9 DEF Probe
  <2>2. left \in Seq(Key) /\ Range(left) \subseteq Range(o.listed)
    BY <1>2, <1>4, <1>9
  <2> HIDE DEF rest, left
  <2>3. p \in Operation /\ Keeps(p, o) /\ p.at = "probe" /\ p.todo = rest /\ p.listed = left
    BY <1>1, <1>2, <1>5, <1>9, <2>2 DEF Operation, Keeps
  <2> HIDE DEF p
  <2>4. ASSUME o.quiet
        PROVE  IntersectionSound(p, members, b)
    <3>1. IntersectionSound(o, members, b)
      BY <1>2, <2>4
    <3>2. Range(rest) \subseteq Range(p.arg)
      BY <1>5, <1>9, <2>3, <3>1 DEF IntersectionSound, Keeps
    <3>3. p.was \subseteq Deleted(b) \cup Range(left) \cup Range(p.arg) \cup {0}
      <4>1. /\ o.was \subseteq Deleted(b) \cup Range(o.listed) \cup Range(o.arg) \cup {0}
            /\ Range(o.todo) \subseteq Range(o.arg)
        BY <1>1, <3>1 DEF IntersectionSound
      <4>2. Range(o.listed) \subseteq Range(left) \cup Range(o.arg)
        BY <1>4, <1>5, <1>9, <4>1 DEF left
      <4>3. QED
        BY <2>3, <4>1, <4>2 DEF Keeps
    <3>4. ASSUME InOrder(p)
          PROVE  /\ Deleted(b) = {} /\ Descending(rest) /\ Descending(left)
                 /\ Range(left) \subseteq p.was
                 /\ Range(left) \ {0} \subseteq Range(rest)
      <4>1. InOrder(o)
        BY <1>3, <2>3, <3>4
      <4>2. /\ members = o.was /\ Deleted(b) = {}
            /\ Descending(o.todo) /\ Descending(o.listed)
            /\ Range(o.listed) \subseteq o.was
            /\ Range(o.listed) \ {0} \subseteq Range(o.todo)
        BY <1>1, <3>1, <4>1 DEF IntersectionSound
      <4>3. /\ Descending(rest) /\ \A l \in Range(rest) : l < e
            /\ Descending(keys) /\ \A l \in Range(keys) : l < key
        BY <1>4, <1>5, <1>9, <4>2
      <4>4. Descending(left) /\ Range(left) \subseteq p.was
        BY <2>2, <2>3, <4>2, <4>3 DEF left, Keeps
      <4>5. \A l \in Key : l \in Nat
        BY ConstantsAssumption
      <4>6. e \notin Range(left) \ {0}
        <5>1. SUFFICES ASSUME e \in Range(left), e # 0
                       PROVE  FALSE
          OBVIOUS
        <5>2. CASE found
          <6>1. e \in Range(keys) /\ e = key
            BY <5>1, <5>2 DEF left
          <6>2. QED
            BY <1>4, <1>9, <4>3, <4>5, <6>1
        <5>3. CASE ~found
          <6>1. HasKey(e) /\ e # key
            BY <2>2, <4>2, <5>1, <5>3 DEF HasKey
          <6>2. e \in Range(keys) /\ key \in Range(rest)
            <7>1. e \in Range(o.listed) /\ key \in Range(o.todo)
              BY <1>4, <1>9, <2>2, <4>2, <5>1
            <7>2. QED
              BY <1>4, <1>5, <1>9, <6>1, <7>1
          <6>3. e < key /\ key < e /\ e \in Nat /\ key \in Nat
            BY <1>4, <1>5, <1>9, <4>3, <4>5, <6>2
          <6>4. QED
            BY <6>3
        <5>4. QED
          BY <5>2, <5>3
      <4>7. Range(left) \ {0} \subseteq Range(rest)
        BY <1>5, <1>9, <2>2, <4>2, <4>6
      <4>8. QED
        BY <4>2, <4>3, <4>4, <4>7
    <3>5. QED
      BY <2>3, <3>1, <3>2, <3>3, <3>4 DEF IntersectionSound, Keeps
  <2>5. QED
    BY <1>1, <1>3, <2>1, <2>3, <2>4, GoesOn
<1>10. QED
  BY <1>6, <1>7, <1>8, <1>9

-----------------------------------------------------------------------------
(***************************************************************************)
(* KeySet.symmetric_difference_update.                                     *)
(***************************************************************************)

\* Its stages before the removals, when nothing is collected yet.
LEMMA OnlySymmetric ==
    ASSUME NEW o \in Operation, Stage(o),
           o.at \in {"union", "subtract"}
    PROVE  o.name = "symmetric_difference_update"
BY DEF Stage, Operation

LEMMA UniteProper ==
    ASSUME IInv, NEW c \in Client, Unite(c)
    PROVE  Proper(c)
<1> DEFINE o == op[c]
           union == members \cup Range(o.arg)
           rest == IF o.once THEN <<>> ELSE o.todo
           p == [o EXCEPT !.at = "subtract", !.set = union, !.todo = rest]
<1>1. o # Idle /\ o.at = "union" /\ Reads(c, p)
  BY DEF Unite, Members
<1>2. /\ o \in Operation /\ o.arg \in Seq(Key) /\ o.todo \in Seq(Key)
      /\ o.once \in BOOLEAN /\ members \in SUBSET Key /\ Stage(o)
      /\ o.quiet => OpSound(o, members, total, bundle[c])
  BY <1>1, Within
<1>3. o.name = "symmetric_difference_update"
  BY <1>1, <1>2, OnlySymmetric
<1>4. union \in SUBSET Key
  <2>1. \A i \in DOMAIN o.arg : o.arg[i] \in Key
    BY <1>2, LenProperties
  <2>2. QED
    BY <1>2, <2>1 DEF Range
<1>10. rest \in Seq(Key)
  BY <1>2
<1> HIDE DEF union, rest
<1>5. p \in Operation /\ Keeps(p, o) /\ p.at = "subtract" /\ p.todo = rest /\ p.set = union
  BY <1>2, <1>4, <1>10 DEF Operation, Keeps
<1> HIDE DEF p
<1>6. Stage(p)
  BY <1>3, <1>5 DEF Stage, Keeps
<1>7. ASSUME o.quiet
      PROVE  SymmetricSound(p, members)
  <2>1. members = o.was /\ o.todo = o.arg
    BY <1>1, <1>2, <1>3, <1>7 DEF OpSound, SymmetricSound
  <2>2. p.was = o.was /\ p.arg = o.arg /\ p.once = o.once
    BY <1>5 DEF Keeps
  <2>3. CASE o.once
    BY <1>5, <2>1, <2>2, <2>3 DEF SymmetricSound, Subtracting, union, rest
  <2>4. CASE ~o.once
    <3>1. p.todo = p.arg /\ Done(p) = 0
      BY <1>2, <1>5, <2>1, <2>2, <2>4, LenProperties DEF Done, rest
    <3>2. Follows(p) /\ SeenOnce(p) /\ Seen(p) = {}
      BY <1>2, <2>2, <3>1, LenProperties DEF Follows, SeenOnce, Seen
    <3>3. QED
      BY <1>5, <2>1, <2>2, <2>4, <3>2 DEF SymmetricSound, Subtracting, union
  <2>5. QED
    BY <2>3, <2>4
<1>8. o.quiet => OpSound(p, members, total, bundle[c])
  BY <1>3, <1>5, <1>7 DEF OpSound, Keeps
<1>9. QED
  BY <1>1, <1>5, <1>6, <1>8, GoesOn DEF Keeps

\* The next element that is subtracted.
LEMMA NextElement ==
    ASSUME NEW o, o.arg \in Seq(Key), o.todo \in Seq(Key), o.todo # <<>>, Follows(o)
    PROVE  /\ Done(o) \in Nat
           /\ Done(o) + 1 \in DOMAIN o.arg /\ o.arg[Done(o) + 1] = Head(o.todo)
<1>1. /\ Len(o.arg) \in Nat /\ DOMAIN o.arg = 1 .. Len(o.arg)
      /\ Len(o.todo) \in Nat \ {0} /\ Len(o.todo) <= Len(o.arg)
      /\ Head(o.todo) = o.todo[1]
  BY LenProperties, HeadTailProperties, EmptySeq DEF Follows
<1>2. Done(o) \in Nat /\ Done(o) + 1 \in 1 .. Len(o.arg)
  <2> DEFINE m == Len(o.arg)
             n == Len(o.todo)
  <2>1. m \in Nat /\ n \in Nat /\ n >= 1 /\ n <= m /\ Done(o) = m - n
    BY <1>1 DEF Done
  <2> HIDE DEF m, n
  <2>2. Done(o) \in Nat /\ Done(o) + 1 \in 1 .. m
    BY <2>1
  <2>3. QED
    BY <2>2 DEF m
<1>3. o.arg[Done(o) + 1] = o.todo[1]
  BY <1>1, <1>2 DEF Follows
<1>4. QED
  BY <1>1, <1>2, <1>3

\* One more element is subtracted.
LEMMA OneMoreSeen ==
    ASSUME NEW o, NEW p, o.arg \in Seq(Key), o.todo \in Seq(Key), o.todo # <<>>, Follows(o),
           p.arg = o.arg, p.todo = Tail(o.todo)
    PROVE  /\ Follows(p)
           /\ Done(p) = Done(o) + 1 /\ Done(o) \in Nat
           /\ Done(p) \in DOMAIN o.arg /\ o.arg[Done(p)] = Head(o.todo)
           /\ Seen(p) = Seen(o) \cup {Head(o.todo)}
<1>1. /\ Len(o.arg) \in Nat /\ DOMAIN o.arg = 1 .. Len(o.arg)
      /\ Len(o.todo) \in Nat \ {0} /\ Len(o.todo) <= Len(o.arg)
      /\ Len(p.todo) = Len(o.todo) - 1
      /\ \A i \in 1 .. Len(p.todo) : p.todo[i] = o.todo[i + 1]
  BY LenProperties, HeadTailProperties, EmptySeq DEF Follows
<1>10. /\ Done(o) \in Nat
      /\ Done(o) + 1 \in DOMAIN o.arg /\ o.arg[Done(o) + 1] = Head(o.todo)
  BY NextElement
<1>2. Done(p) = Done(o) + 1
  <2>1. Done(p) = Len(o.arg) - Len(p.todo) /\ Done(o) = Len(o.arg) - Len(o.todo)
    BY DEF Done
  <2>2. QED
    BY <1>1, <2>1
<1>3. o.arg[Done(p)] = Head(o.todo) /\ Done(p) \in DOMAIN o.arg
  BY <1>2, <1>10
<1>4. Follows(p)
  <2>1. Len(p.todo) <= Len(p.arg)
    BY <1>1
  <2>2. ASSUME NEW i \in 1 .. Len(p.todo)
        PROVE  p.todo[i] = p.arg[Done(p) + i]
    <3>1. i + 1 \in 1 .. Len(o.todo) /\ Done(p) + i = Done(o) + (i + 1)
      <4> DEFINE n == Len(o.todo)
                 d == Done(o)
      <4>1. n \in Nat /\ i \in 1 .. n - 1 /\ d \in Nat /\ Done(p) = d + 1
        BY <1>1, <1>2, <1>10
      <4> HIDE DEF n, d
      <4>2. i + 1 \in 1 .. n /\ Done(p) + i = d + (i + 1)
        BY <4>1
      <4>3. QED
        BY <4>2 DEF n, d
    <3>2. QED
      BY <1>1, <3>1 DEF Follows
  <2>3. QED
    BY <2>1, <2>2 DEF Follows
<1>5. Seen(p) = Seen(o) \cup {Head(o.todo)}
  <2>1. 1 .. Done(p) = 1 .. Done(o) \cup {Done(p)}
    BY <1>2, <1>10
  <2>2. QED
    BY <1>3, <2>1 DEF Seen
<1>6. QED
  BY <1>2, <1>3, <1>4, <1>5, <1>10

LEMMA SubtractElementProper ==
    ASSUME IInv, NEW c \in Client, SubtractElement(c)
    PROVE  Proper(c)
<1> DEFINE o == op[c]
           e == Head(o.todo)
           rest == Tail(o.todo)
           left == IF HasKey(e) THEN o.set \ {e} ELSE o.set
           p == [o EXCEPT !.todo = rest, !.set = left]
<1>1. o # Idle /\ o.at = "subtract" /\ o.todo # <<>>
  BY DEF SubtractElement
<1>2. /\ o \in Operation /\ o.todo \in Seq(Key) /\ o.arg \in Seq(Key)
      /\ o.set \in SUBSET Key /\ Stage(o)
      /\ o.quiet => OpSound(o, members, total, bundle[c])
  BY <1>1, Within
<1>3. o.name = "symmetric_difference_update"
  BY <1>1, <1>2, OnlySymmetric
<1>4. e \in Key /\ rest \in Seq(Key)
  BY <1>1, <1>2, HeadAndTail
<1>5. ASSUME o.quiet
      PROVE  /\ members = o.was /\ ~o.once /\ Follows(o) /\ SeenOnce(o)
             /\ o.set = (o.was \cup Range(o.arg)) \ (o.was \cap Seen(o))
  BY <1>1, <1>2, <1>3, <1>5 DEF OpSound, SymmetricSound, Subtracting
<1>6. CASE HasKey(e) /\ e \notin o.set
  <2>1. Raises(c)
    BY <1>6 DEF SubtractElement
  <2>2. ASSUME o.quiet
        PROVE  Meant(o) = members
    <3>1. Done(o) \in Nat /\ Done(o) + 1 \in DOMAIN o.arg /\ o.arg[Done(o) + 1] = e
      BY <1>1, <1>2, <1>5, <2>2, NextElement
    <3> HIDE DEF e
    <3>2. e \in o.was /\ e \in Seen(o)
      BY <1>5, <1>6, <2>2 DEF HasKey
    <3>3. PICK i \in 1 .. Done(o) : o.arg[i] = e
      BY <3>2 DEF Seen
    <3>4. i \in DOMAIN o.arg /\ i < Done(o) + 1
      BY <1>2, <3>1, LenProperties
    <3>5. Repeats(o)
      BY <3>1, <3>2, <3>3, <3>4 DEF Repeats
    <3>6. QED
      BY <1>3, <1>5, <2>2, <3>5 DEF Meant
  <2>3. QED
    BY <1>3, <2>1, <2>2, RaisesProper
<1>7. CASE ~(HasKey(e) /\ e \notin o.set)
  <2>1. Reads(c, p)
    BY <1>7 DEF SubtractElement
  <2>2. left \in SUBSET Key
    BY <1>2
  <2> HIDE DEF left, rest
  <2>3. p \in Operation /\ Keeps(p, o) /\ p.at = "subtract" /\ p.todo = rest /\ p.set = left
    BY <1>1, <1>2, <1>4, <2>2 DEF Operation, Keeps
  <2> HIDE DEF p
  <2>4. Stage(p)
    BY <1>3, <2>3 DEF Stage, Keeps
  <2>5. ASSUME o.quiet
        PROVE  SymmetricSound(p, members)
    <3>1. p.was = o.was /\ p.arg = o.arg /\ p.once = o.once
      BY <2>3 DEF Keeps
    <3>2. /\ Follows(p) /\ Done(p) = Done(o) + 1 /\ Done(o) \in Nat
          /\ Done(p) \in DOMAIN o.arg /\ o.arg[Done(p)] = e
          /\ Seen(p) = Seen(o) \cup {e}
      BY <1>1, <1>2, <1>5, <2>3, <2>5, <3>1, OneMoreSeen DEF rest
    <3> HIDE DEF e
    <3>3. HasKey(e) <=> e \in o.was
      BY <1>5, <2>5 DEF HasKey
    <3>4. left = (p.was \cup Range(p.arg)) \ (p.was \cap Seen(p))
      <4>1. CASE HasKey(e)
        BY <1>5, <2>5, <3>1, <3>2, <3>3, <4>1 DEF left
      <4>2. CASE ~HasKey(e)
        BY <1>5, <2>5, <3>1, <3>2, <3>3, <4>2 DEF left
      <4>3. QED
        BY <4>1, <4>2
    <3>5. SeenOnce(p)
      <4>1. SUFFICES ASSUME NEW i \in 1 .. Done(p), NEW j \in 1 .. Done(p),
                            i < j, o.arg[i] = o.arg[j], o.arg[i] \in o.was
                     PROVE  FALSE
        BY <3>1 DEF SeenOnce
      <4>2. i \in 1 .. Done(o)
        BY <3>2, <4>1
      <4>3. CASE j \in 1 .. Done(o)
        BY <1>5, <2>5, <4>1, <4>2, <4>3 DEF SeenOnce
      <4>4. CASE j = Done(p)
        <5>1. e \in Seen(o) /\ e \in o.was
          BY <3>2, <4>1, <4>2, <4>4 DEF Seen
        <5>2. e \notin o.set
          BY <1>5, <2>5, <5>1
        <5>3. QED
          BY <1>7, <3>3, <5>1, <5>2
      <4>5. QED
        BY <3>2, <4>1, <4>3, <4>4
    <3>6. QED
      BY <1>5, <2>3, <2>5, <3>1, <3>2, <3>4, <3>5 DEF SymmetricSound, Subtracting
  <2>6. o.quiet => OpSound(p, members, total, bundle[c])
    BY <1>3, <2>3, <2>5 DEF OpSound, Keeps
  <2>7. QED
    BY <1>1, <2>1, <2>3, <2>4, <2>6, GoesOn DEF Keeps
<1>8. QED
  BY <1>6, <1>7

LEMMA ListRemovalsProper ==
    ASSUME IInv, NEW c \in Client, ListRemovals(c)
    PROVE  Proper(c)
<1> DEFINE o == op[c]
           gone == {k \in members : k # 0 /\ k \notin o.set}
           list == Listed(gone)
           p == [o EXCEPT !.at = "remove", !.todo = list]
<1>1. o # Idle /\ o.at = "subtract" /\ o.todo = <<>> /\ Reads(c, p)
  BY DEF ListRemovals, Members
<1>2. /\ o \in Operation /\ members \in SUBSET Key /\ o.was \in SUBSET Key /\ Stage(o)
      /\ o.arg \in Seq(Key) /\ o.once \in BOOLEAN
      /\ o.quiet => OpSound(o, members, total, bundle[c])
  BY <1>1, Within
<1>3. o.name = "symmetric_difference_update"
  BY <1>1, <1>2, OnlySymmetric
<1>4. gone \in SUBSET Key
  BY <1>2
<1> HIDE DEF gone
<1>5. list \in Seq(Key) /\ IsInjective(list) /\ Range(list) = gone
  BY <1>4, ListedProperties
<1> HIDE DEF list
<1>6. p \in Operation /\ Keeps(p, o) /\ p.at = "remove" /\ p.todo = list /\ p.set = o.set
  BY <1>2, <1>5 DEF Operation, Keeps
<1> HIDE DEF p
<1>7. Stage(p)
  BY <1>3, <1>6 DEF Stage, Keeps
<1>8. ASSUME o.quiet
      PROVE  SymmetricSound(p, members)
  <2>1. members = o.was /\ Subtracting(o)
    BY <1>1, <1>2, <1>3, <1>8 DEF OpSound, SymmetricSound
  <2>2. Subtracted(o)
    <3>1. CASE o.once
      BY <2>1, <3>1 DEF Subtracting, Subtracted, Gone
    <3>2. CASE ~o.once
      <4>1. DOMAIN o.arg = 1 .. Done(o)
        BY <1>1, <1>2, LenProperties DEF Done
      <4>2. Seen(o) = Range(o.arg) /\ ~Repeats(o)
        BY <2>1, <3>2, <4>1 DEF Subtracting, SeenOnce, Seen, Range, Repeats
      <4>3. QED
        BY <2>1, <3>2, <4>2 DEF Subtracting, Subtracted, Gone, Common
    <3>3. QED
      BY <3>1, <3>2
  <2>3. gone = Gone(o) \ {0}
    BY <2>1, <2>2 DEF gone, Subtracted, Gone, Common
  <2>4. Gone(p) = Gone(o) /\ Subtracted(p) /\ p.was = o.was
    BY <1>6, <2>2 DEF Subtracted, Repeats, Gone, Common, Keeps
  <2>5. QED
    BY <1>5, <1>6, <2>1, <2>3, <2>4 DEF SymmetricSound
<1>9. o.quiet => OpSound(p, members, total, bundle[c])
  BY <1>3, <1>6, <1>8 DEF OpSound, Keeps
<1>10. QED
  BY <1>1, <1>6, <1>7, <1>9, GoesOn DEF Keeps

LEMMA UpdateWithDifferenceProper ==
    ASSUME IInv, NEW c \in Client, UpdateWithDifference(c)
    PROVE  Proper(c)
<1> DEFINE o == op[c]
           list == SetToSeq(o.set)
           changes == Inclusions(list)
<1>1. /\ o # Idle /\ o.name = "symmetric_difference_update" /\ o.at = "remove"
      /\ o.todo = <<>> /\ Adds(c, changes, Idle)
  BY DEF UpdateWithDifference
<1>2. /\ members \in SUBSET Key /\ o.set \in SUBSET Key /\ o.once \in BOOLEAN
      /\ o.quiet => ~active[c] /\ OpSound(o, members, total, bundle[c])
  BY <1>1, Within
<1>3. list \in Seq(Key) /\ Range(list) = o.set
  BY <1>2, SetToSeqProperties
<1> HIDE DEF list
<1>4. changes \in Seq(Change) /\ Applied(changes) = members \cup o.set
  BY <1>2, <1>3, ChangesTypes, InclusionsApplied
<1> HIDE DEF changes
<1>5. /\ TypeOK' /\ Others(c) /\ Sound(c)'
      /\ ~active[c] => members' = Applied(changes)
  BY <1>1, <1>4, AddsAtEnd
<1>6. ASSUME EndsQuietly(c)
      PROVE  Members' = Meant(o)
  <2>1. o.quiet
    BY <1>6 DEF EndsQuietly
  <2>2. /\ Subtracted(o)
        /\ members = o.was \ (Gone(o) \ {0})
    <3>1. SymmetricSound(o, members)
      BY <1>1, <1>2, <2>1 DEF OpSound
    <3>2. QED
      BY <1>1, <3>1, EmptyRange DEF SymmetricSound
  <2>3. members' = members \cup o.set
    BY <1>2, <1>4, <1>5, <2>1
  <2>4. CASE o.once
    <3>1. Meant(o) = o.was \cup Range(o.arg)
      BY <1>1, <2>4 DEF Meant
    <3>2. QED
      BY <2>2, <2>3, <2>4, <3>1 DEF Subtracted, Gone, Members
  <2>5. CASE ~o.once
    <3>1. Meant(o) = (o.was \ Range(o.arg)) \cup (Range(o.arg) \ o.was)
                     \cup (o.was \cap Range(o.arg) \cap {0})
      BY <1>1, <2>2, <2>5 DEF Meant, Subtracted
    <3>2. QED
      BY <2>2, <2>3, <2>5, <3>1 DEF Subtracted, Gone, Common, Members
  <2>6. QED
    BY <2>4, <2>5
<1>7. Exact(c)
  BY <1>1, <1>6 DEF Exact
<1>8. QED
  BY <1>5, <1>7 DEF Proper

-----------------------------------------------------------------------------
(***************************************************************************)
(* The theorems.                                                           *)
(***************************************************************************)

LEMMA NextProper ==
    ASSUME IInv, Next
    PROVE  \E c \in Client : Proper(c)
<1>1. PICK c \in Client :
        \/ Enter(c)
        \/ Exit(c)
        \/ \E k \in Keys : Include(c, k) \/ Exclude(c, k) \/ RemoveKey(c, k)
        \/ Clear(c)
        \/ RefillBox(c)
        \/ \E arg \in Arguments :
            \/ Update(c, arg)
            \/ RefillKeySet(c, arg)
            \/ RefillPairMap(c, arg)
            \/ RefillProperty(c, arg)
            \/ DifferenceUpdate(c, arg)
            \/ IntersectionUpdate(c, arg)
            \/ \E once \in BOOLEAN : SymmetricDifferenceUpdate(c, arg, once)
            \/ \E k \in Keys \ Range(arg) :
                RefillGroup(c, arg, <<k>>) \/ RefillPairSet(c, arg, <<k>>)
        \/ \E n \in {-1, 1} : IncrementBy(c, n)
        \/ \E n \in {0, 1} : ClearTotal(c, n)
        \/ SubtractTotal(c)
        \/ TestElement(c)
        \/ LookFor(c)
        \/ CommitRemoval(c)
        \/ ListKeys(c)
        \/ Probe(c)
        \/ Unite(c)
        \/ SubtractElement(c)
        \/ ListRemovals(c)
        \/ UpdateWithDifference(c)
  BY DEF Next
<1>2. CASE Enter(c) \/ Exit(c)
  BY <1>2, EnterProper, ExitProper
<1>3. CASE \E k \in Keys : Include(c, k) \/ Exclude(c, k) \/ RemoveKey(c, k)
  BY <1>3, IncludeProper, ExcludeProper, RemoveKeyProper
<1>4. CASE Clear(c) \/ RefillBox(c)
  BY <1>4, ClearProper, RefillBoxProper
<1>5. CASE \E arg \in Arguments :
            Update(c, arg) \/ RefillKeySet(c, arg) \/ RefillPairMap(c, arg) \/ RefillProperty(c, arg)
  BY <1>5, UpdateProper, RefillKeySetProper, RefillMapProper
<1>6. CASE \E arg \in Arguments :
            \/ DifferenceUpdate(c, arg)
            \/ IntersectionUpdate(c, arg)
            \/ \E once \in BOOLEAN : SymmetricDifferenceUpdate(c, arg, once)
  BY <1>6, DifferenceUpdateProper, IntersectionUpdateProper, SymmetricDifferenceUpdateProper
<1>7. CASE \E arg \in Arguments : \E k \in Keys \ Range(arg) :
            RefillGroup(c, arg, <<k>>) \/ RefillPairSet(c, arg, <<k>>)
  BY <1>7, RefillPairsProper
<1>8. CASE \/ \E n \in {-1, 1} : IncrementBy(c, n)
           \/ \E n \in {0, 1} : ClearTotal(c, n)
           \/ SubtractTotal(c)
  BY <1>8, IncrementByProper, ClearTotalProper, SubtractTotalProper
<1>9. CASE TestElement(c) \/ LookFor(c) \/ CommitRemoval(c)
  BY <1>9, TestElementProper, LookForProper, CommitRemovalProper
<1>10. CASE ListKeys(c) \/ Probe(c)
  BY <1>10, ListKeysProper, ProbeProper
<1>11. CASE Unite(c) \/ SubtractElement(c) \/ ListRemovals(c) \/ UpdateWithDifference(c)
  BY <1>11, UniteProper, SubtractElementProper, ListRemovalsProper, UpdateWithDifferenceProper
<1>12. QED
  BY <1>1, <1>2, <1>3, <1>4, <1>5, <1>6, <1>7, <1>8, <1>9, <1>10, <1>11

LEMMA InitSound == Init => IInv
<1> SUFFICES ASSUME Init
             PROVE  IInv
  OBVIOUS
<1>1. 0 \in -MaxTotal .. MaxTotal /\ <<>> \in Seq(Change)
  BY ConstantsAssumption
<1>2. TypeOK
  BY <1>1 DEF Init, TypeOK
<1>3. ASSUME NEW c \in Client
      PROVE  Sound(c)
  BY <1>3 DEF Init, Sound, ProcessSound
<1>4. QED
  BY <1>2, <1>3 DEF IInv

\* A step keeps the invariant and is exact, as far as it ends an operation.
LEMMA StepSound ==
    ASSUME IInv, [Next]_vars
    PROVE  IInv' /\ \A c \in Client : Exact(c)
<1>1. CASE Next
  BY <1>1, NextProper, ProperStep
<1>2. CASE UNCHANGED vars
  <2>1. IInv'
    BY <1>2 DEF IInv, TypeOK, Sound, vars
  <2>2. op' = op
    BY <1>2 DEF vars
  <2>3. \A c \in Client : Exact(c)
    BY <2>2 DEF Exact, EndsQuietly
  <2>4. QED
    BY <2>1, <2>3
<1>3. QED
  BY <1>1, <1>2

(***************************************************************************)
(* Each operation stays at a place that belongs to it, and while nobody    *)
(* has disturbed it, what it knows of the container is true.               *)
(***************************************************************************)
THEOREM AlwaysSound == Spec => []IInv
<1>1. Init => IInv
  BY InitSound
<1>2. IInv /\ [Next]_vars => IInv'
  BY StepSound
<1>3. QED
  BY <1>1, <1>2, PTL DEF Spec

(***************************************************************************)
(* Keys, totals, changes and operations in progress stay what the code     *)
(* makes them, in particular what is left of an argument and of the keys   *)
(* that are iterated stays a list of keys.                                 *)
(***************************************************************************)
THEOREM TypesAreRight == Spec => []TypeOK
<1>1. IInv => TypeOK
  BY DEF IInv
<1>2. QED
  BY <1>1, AlwaysSound, PTL

(***************************************************************************)
(* Nothing that is done to a KeySet, a Box or an Accumulator within a      *)
(* "with" block is committed before the block ends: each operation passes  *)
(* the bundler of the block to all that it calls.                          *)
(***************************************************************************)
THEOREM BlocksHold == Spec => []BlocksAreAtomic
<1>1. IInv => BlocksAreAtomic
  BY DEF IInv, Sound, ProcessSound, BlocksAreAtomic
<1>2. QED
  BY <1>1, AlwaysSound, PTL

(***************************************************************************)
(* difference_update, intersection_update, symmetric_difference_update,    *)
(* remove and the clear of an accumulator leave what they are meant to     *)
(* leave, through all their reads and commits, if nobody else commits      *)
(* between their start and their end: for arguments of any length, that    *)
(* yield keys more than once, or can be iterated only once.                *)
(***************************************************************************)
THEOREM QuietOperations == Spec => QuietOperationsAreExact
<1>1. IInv /\ [Next]_vars =>
        [ \A c \in Client : EndsQuietly(c) =>
            CASE op[c].name = "clear" -> total' = op[c].then
              [] op[c].name = "intersection_update" ->
                    /\ Members' \subseteq Meant(op[c])
                    /\ op[c].was \subseteq Range(op[c].arg) /\ op[c].arg = Listed(Range(op[c].arg))
                        => Members' = op[c].was
              [] OTHER -> Members' = Meant(op[c]) ]_vars
  BY StepSound DEF Exact
<1>2. QED
  BY <1>1, AlwaysSound, PTL DEF Spec, QuietOperationsAreExact
=============================================================================
