-------------------------- MODULE SharedLogProofs --------------------------
(***************************************************************************)
(* Proofs about SharedLog, for any processes and chains: whatever order    *)
(* openings, commits, takeovers, received bundles and crashes come in, a   *)
(* chain has one writer, its link is the end of the chain, and the file    *)
(* holds every chain in order.                                             *)
(*                                                                         *)
(* The inductive invariant says what a process knows of the file: while    *)
(* _processed_to is right, its memory is that of the records before it.    *)
(* Inside a locked section only keys can have been written since, because  *)
(* save_signing_key is the one writer that takes no lock.  A process that  *)
(* has lost its place knows less, but it cannot enter a locked section any *)
(* more, so what it last wrote still stands.                               *)
(***************************************************************************)
EXTENDS SharedLog, FiniteSetTheorems, SequenceTheorems, TLAPS

(***************************************************************************)
(* What the first k records of a file f say of a chain.                    *)
(***************************************************************************)

Holds(f, c) == {n \in 1 .. Len(f) : IsBundle(f[n]) /\ f[n].chain = c}

Count(f, c, k) == Cardinality({n \in Holds(f, c) : n <= k})

ClaimAt(f, c, n) == IsClaim(f[n]) /\ f[n].chain = c

ClaimedBy(f, c, k, by) ==
    \E n \in 1 .. k :
        /\ ClaimAt(f, c, n)
        /\ f[n].by = by
        /\ \A m \in (n + 1) .. k : ~ClaimAt(f, c, m)

Unclaimed(f, c, k) == \A n \in 1 .. k : ~ClaimAt(f, c, n)

(***************************************************************************)
(* The parts of the inductive invariant.                                   *)
(***************************************************************************)

\* The file: chains in order; a chain is claimed after its key was saved.
InOrder(f) ==
    \A c \in Chain : \A n \in Holds(f, c) : f[n].number = Count(f, c, n)

OnlyLocalClaims(f) ==
    \A n \in 1 .. Len(f) : f[n].kind # "bundle" => f[n].chain \in LocalChain

KeyBeforeClaim(f) ==
    \A n \in 1 .. Len(f) : IsClaim(f[n]) =>
        \E m \in 1 .. Len(f) :
            m < n /\ f[m].kind = "key" /\ f[m].chain = f[n].chain

FileIsSound == InOrder(file) /\ OnlyLocalClaims(file) /\ KeyBeforeClaim(file)

\* What p knows of the file.
Placed(p) == upto[p] <= tell[p] /\ tell[p] <= Len(file)

HoldsLogged(p) == \A c \in Chain : mem[p][c] <= Count(file, c, Len(file))

HasRead(p) ==
    /\ \A c \in Chain :
          /\ mem[p][c] = Count(file, c, upto[p])
          /\ claims[p][c] = NoOne => Unclaimed(file, c, upto[p])
          /\ claims[p][c] # NoOne => ClaimedBy(file, c, upto[p], claims[p][c])
    /\ \A n \in 1 .. upto[p] : file[n].kind = "key" => file[n].chain \in keys[p]

View(p) == Placed(p) /\ HoldsLogged(p) /\ (Accurate(p) => HasRead(p))

\* A process in a locked section has read all but keys.
OnlyKeysAfter(f, k) == \A n \in (k + 1) .. Len(f) : f[n].kind = "key"

Locked(p) ==
    pc[p] \in {"reusing", "applying"} =>
        lock = p /\ Accurate(p) /\ OnlyKeysAfter(file, upto[p])

\* The link of a process.
OwnsLink(p) ==
    link[p] # NoLink =>
        /\ Up(p)
        /\ link[p].chain \in LocalChain
        /\ link[p].number >= 1
        /\ link[p].number = Count(file, link[p].chain, Len(file))
        /\ link[p].chain \in keys[p]
        /\ ClaimedBy(file, link[p].chain, Len(file), p)

HasLink(p) ==
    (\/ pc[p] \in {"reused", "linked"}
     \/ pc[p] = "clearing" /\ pending[p].chain \in LocalChain /\ pending[p].number = 1)
        => link[p] # NoLink

DownIsFresh(p) == pc[p] = "down" => Accurate(p) /\ link[p] = NoLink

\* A chain that p is about to start is in the file with p's key only.
OnlyKeyOf(f, c, p) ==
    /\ \E n \in 1 .. Len(f) : f[n].chain = c
    /\ \A n \in 1 .. Len(f) : f[n].chain = c => f[n].kind = "key" /\ f[n].by = p

StartsNew(p) ==
    (\/ pc[p] = "starting"
     \/ pc[p] = "applying" /\ pending[p].chain \in LocalChain /\ pending[p].number = 1)
        =>  /\ pending[p].chain \in LocalChain
            /\ pending[p].number = 1
            /\ pending[p].chain \in keys[p]
            /\ OnlyKeyOf(file, pending[p].chain, p)

AppliesNext(p) ==
    pc[p] = "applying" =>
        /\ pending[p].chain \in Chain
        /\ pending[p].number >= 1
        /\ (pending[p].chain \in LocalChain /\ pending[p].number # 1) =>
              /\ link[p].chain = pending[p].chain
              /\ pending[p].number = link[p].number + 1

Sound(p) ==
    /\ View(p)
    /\ Locked(p)
    /\ OwnsLink(p)
    /\ HasLink(p)
    /\ DownIsFresh(p)
    /\ StartsNew(p)
    /\ AppliesNext(p)

IInv == TypeOK /\ FileIsSound /\ \A p \in Proc : Sound(p)
-----------------------------------------------------------------------------
(***************************************************************************)
(* Sets of positions: the last one, and counting up to one.                *)
(***************************************************************************)

\* A set of positions that is not empty has a last one.
LEMMA LastPosition ==
    ASSUME NEW N \in Nat, NEW S, S \subseteq 1 .. N, S # {}
    PROVE  \E x \in S : \A y \in S : y <= x
<1> DEFINE From(n) == {m \in S : m >= n}
           Tails == {From(n) : n \in S}
           R == StrictSubsetOrdering(1 .. N)
<1>1. IsFiniteSet(1 .. N)
  BY FS_Interval
<1>2. FiniteSubsetsOf(1 .. N) = SUBSET (1 .. N)
  BY <1>1, FS_FiniteSubsetsOfFinite
<1>3. IsWellFoundedOn(R, FiniteSubsetsOf(1 .. N))
  BY FS_StrictSubsetOrderingWellFounded
<1>4. Tails \subseteq FiniteSubsetsOf(1 .. N) /\ Tails # {}
  <2>1. ASSUME NEW n \in S
        PROVE  From(n) \in FiniteSubsetsOf(1 .. N)
    BY <1>2
  <2>2. Tails # {}
    OBVIOUS
  <2>3. QED
    BY <2>1, <2>2
<1> HIDE DEF Tails, R
<1>5. PICK T \in Tails : \A U \in Tails : ~(<<U, T>> \in R)
  BY <1>3, <1>4, WFMin
<1> USE DEF Tails, R
<1>6. PICK x \in S : T = From(x)
  BY <1>5
<1>7. ASSUME NEW y \in S, ~(y <= x)
      PROVE  FALSE
  <2>1. x \in Int /\ y \in Int /\ x < y
    BY <1>7
  <2>2. From(y) \in Tails /\ x \in T /\ x \notin From(y)
    BY <1>6, <2>1
  <2>3. ASSUME NEW m \in From(y)
        PROVE  m \in T
    <3>1. m \in S /\ m \in Int /\ m >= y
      OBVIOUS
    <3>2. m >= x
      BY <2>1, <3>1
    <3>3. QED
      BY <1>6, <3>1, <3>2
  <2>4. From(y) \subseteq 1 .. N /\ T \subseteq 1 .. N
    BY <1>6
  <2>5. <<From(y), T>> \in R
    BY <2>2, <2>3, <2>4 DEF StrictSubsetOrdering
  <2>6. QED
    BY <1>5, <2>2, <2>5
<1>8. QED
  BY <1>6, <1>7

\* Max of a set that has a greatest element is that element.
LEMMA MaxIsGreatest ==
    ASSUME NEW S, S \subseteq Int, NEW x \in S, \A y \in S : y <= x
    PROVE  Max(S) = x
<1>1. \E z \in S : \A y \in S : z >= y
  OBVIOUS
<1>2. Max(S) \in S /\ \A y \in S : Max(S) >= y
  BY <1>1 DEF Max
<1>3. Max(S) \in Int /\ Max(S) >= x /\ Max(S) <= x
  BY <1>2
<1>4. QED
  BY <1>3

LEMMA CountType ==
    ASSUME NEW f \in Seq(Record), NEW c, NEW k \in Nat
    PROVE  /\ IsFiniteSet({n \in Holds(f, c) : n <= k})
           /\ Count(f, c, k) \in Nat
           /\ IsFiniteSet(Holds(f, c))
<1>1. IsFiniteSet(1 .. Len(f))
  BY FS_Interval, LenProperties
<1>2. IsFiniteSet(Holds(f, c))
  BY <1>1, FS_Subset DEF Holds
<1>3. IsFiniteSet({n \in Holds(f, c) : n <= k})
  BY <1>2, FS_Subset
<1>4. QED
  BY <1>2, <1>3, FS_CardinalityType DEF Count

LEMMA CountMonotone ==
    ASSUME NEW f \in Seq(Record), NEW c, NEW j \in Nat, NEW k \in Nat, j <= k
    PROVE  Count(f, c, j) <= Count(f, c, k)
<1>1. {n \in Holds(f, c) : n <= j} \subseteq {n \in Holds(f, c) : n <= k}
  BY LenProperties DEF Holds
<1>2. QED
  BY <1>1, CountType, FS_Subset DEF Count

\* Counting on over records that are no bundles of the chain changes nothing.
LEMMA CountSame ==
    ASSUME NEW f \in Seq(Record), NEW c, NEW j \in Nat, NEW k \in Nat, j <= k,
           \A n \in (j + 1) .. k : n \notin Holds(f, c)
    PROVE  Count(f, c, j) = Count(f, c, k)
<1>1. \A n \in Holds(f, c) : n \in Nat
  BY LenProperties DEF Holds
<1>2. {n \in Holds(f, c) : n <= j} = {n \in Holds(f, c) : n <= k}
  BY <1>1
<1>3. QED
  BY <1>2 DEF Count

\* All bundles of the chain, and none.
LEMMA CountAll ==
    ASSUME NEW f \in Seq(Record), NEW c
    PROVE  Count(f, c, Len(f)) = Cardinality(Holds(f, c))
<1>1. {n \in Holds(f, c) : n <= Len(f)} = Holds(f, c)
  BY LenProperties DEF Holds
<1>2. QED
  BY <1>1 DEF Count

LEMMA CountNone ==
    ASSUME NEW f \in Seq(Record), NEW c, NEW k \in Nat,
           \A n \in 1 .. k : n \notin Holds(f, c)
    PROVE  Count(f, c, k) = 0
<1>1. {n \in Holds(f, c) : n <= k} = {}
  BY LenProperties DEF Holds
<1>2. QED
  BY <1>1, FS_EmptySet DEF Count

LEMMA CountPositive ==
    ASSUME NEW f \in Seq(Record), NEW c, NEW k \in Nat,
           NEW n \in Holds(f, c), n <= k
    PROVE  Count(f, c, k) >= 1
<1>1. {m \in Holds(f, c) : m <= k} # {}
  OBVIOUS
<1> DEFINE T == {m \in Holds(f, c) : m <= k}
<1>2. IsFiniteSet(T) /\ Cardinality(T) \in Nat /\ Count(f, c, k) = Cardinality(T)
  BY CountType DEF Count
<1>3. T # {} => Cardinality(T) # 0
  BY <1>2, FS_EmptySet
<1>4. QED
  BY <1>1, <1>2, <1>3
-----------------------------------------------------------------------------
(***************************************************************************)
(* A file to which a record is appended.                                   *)
(***************************************************************************)

Extends(g, f, r) == g = Append(f, r)

LEMMA Appended ==
    ASSUME NEW f \in Seq(Record), NEW r \in Record, NEW g, Extends(g, f, r)
    PROVE  /\ g \in Seq(Record)
           /\ Len(f) \in Nat
           /\ Len(g) = Len(f) + 1
           /\ \A n \in 1 .. Len(f) : g[n] = f[n]
           /\ g[Len(f) + 1] = r
BY AppendProperties, LenProperties DEF Extends

LEMMA HoldsAppended ==
    ASSUME NEW f \in Seq(Record), NEW r \in Record, NEW g, Extends(g, f, r), NEW c
    PROVE  /\ IsBundle(r) /\ r.chain = c => Holds(g, c) = Holds(f, c) \cup {Len(f) + 1}
           /\ ~(IsBundle(r) /\ r.chain = c) => Holds(g, c) = Holds(f, c)
<1>1. /\ Len(f) \in Nat
      /\ Len(g) = Len(f) + 1
      /\ \A n \in 1 .. Len(f) : g[n] = f[n]
      /\ g[Len(f) + 1] = r
  BY Appended
<1>2. 1 .. Len(g) = (1 .. Len(f)) \cup {Len(f) + 1}
  BY <1>1
<1>3. \A n : n \in Holds(g, c) <=>
              \/ n \in Holds(f, c)
              \/ n = Len(f) + 1 /\ IsBundle(r) /\ r.chain = c
  BY <1>1, <1>2 DEF Holds
<1>4. QED
  BY <1>3

LEMMA CountAppended ==
    ASSUME NEW f \in Seq(Record), NEW r \in Record, NEW g, Extends(g, f, r), NEW c
    PROVE  /\ \A k \in 0 .. Len(f) : Count(g, c, k) = Count(f, c, k)
           /\ IsBundle(r) /\ r.chain = c =>
                  Count(g, c, Len(g)) = Count(f, c, Len(f)) + 1
           /\ ~(IsBundle(r) /\ r.chain = c) =>
                  Count(g, c, Len(g)) = Count(f, c, Len(f))
<1>1. Len(f) \in Nat /\ Len(g) = Len(f) + 1 /\ g \in Seq(Record)
  BY Appended
<1>2. Holds(f, c) \subseteq 1 .. Len(f)
  BY DEF Holds
<1> DEFINE More == IsBundle(r) /\ r.chain = c
<1>3. /\ More => Holds(g, c) = Holds(f, c) \cup {Len(f) + 1}
      /\ ~More => Holds(g, c) = Holds(f, c)
  BY HoldsAppended
<1> HIDE DEF More
<1>4. ASSUME NEW k \in 0 .. Len(f)
      PROVE  Count(g, c, k) = Count(f, c, k)
  <2>1. k \in Int /\ ~(Len(f) + 1 <= k)
    BY <1>1
  <2>2. {n \in Holds(g, c) : n <= k} = {n \in Holds(f, c) : n <= k}
    BY <1>3, <2>1
  <2>3. QED
    BY <2>2 DEF Count
<1>5. /\ Count(g, c, Len(g)) = Cardinality(Holds(g, c))
      /\ Count(f, c, Len(f)) = Cardinality(Holds(f, c))
  BY <1>1, CountAll
<1>6. IsFiniteSet(Holds(f, c))
  BY <1>1, CountType
<1>7. Len(f) + 1 \notin Holds(f, c)
  BY <1>1, <1>2
<1>8. Cardinality(Holds(f, c) \cup {Len(f) + 1}) = Cardinality(Holds(f, c)) + 1
  BY <1>6, <1>7, FS_AddElement
<1>9. QED
  BY <1>3, <1>4, <1>5, <1>8 DEF More

LEMMA InOrderAppended ==
    ASSUME NEW f \in Seq(Record), NEW r \in Record, NEW g, Extends(g, f, r),
           InOrder(f),
           IsBundle(r) => r.number = Count(f, r.chain, Len(f)) + 1
    PROVE  InOrder(g)
<1> SUFFICES ASSUME NEW c \in Chain, NEW n \in Holds(g, c)
             PROVE  g[n].number = Count(g, c, n)
  BY DEF InOrder
<1>1. /\ Len(f) \in Nat
      /\ Len(g) = Len(f) + 1
      /\ \A m \in 1 .. Len(f) : g[m] = f[m]
      /\ g[Len(f) + 1] = r
  BY Appended
<1>2. \/ n \in Holds(f, c)
      \/ n = Len(f) + 1 /\ IsBundle(r) /\ r.chain = c
  BY HoldsAppended
<1>3. CASE n \in Holds(f, c)
  <2>1. n \in 1 .. Len(f) /\ n \in 0 .. Len(f)
    BY <1>1, <1>3 DEF Holds
  <2>2. Count(g, c, n) = Count(f, c, n)
    BY <2>1, CountAppended
  <2>3. QED
    BY <1>1, <1>3, <2>1, <2>2 DEF InOrder
<1>4. CASE n = Len(f) + 1 /\ IsBundle(r) /\ r.chain = c
  <2>1. Count(g, c, Len(g)) = Count(f, c, Len(f)) + 1
    BY <1>4, CountAppended
  <2>2. QED
    BY <1>1, <1>4, <2>1
<1>5. QED
  BY <1>2, <1>3, <1>4

LEMMA ClaimsAppended ==
    ASSUME NEW f \in Seq(Record), NEW r \in Record, NEW g, Extends(g, f, r),
           NEW c, NEW k \in 0 .. Len(f)
    PROVE  /\ Unclaimed(f, c, k) => Unclaimed(g, c, k)
           /\ \A by : ClaimedBy(f, c, k, by) => ClaimedBy(g, c, k, by)
<1>1. /\ Len(f) \in Nat
      /\ \A n \in 1 .. Len(f) : g[n] = f[n]
  BY Appended
<1>2. \A n \in 1 .. k : g[n] = f[n]
  BY <1>1
<1>3. Unclaimed(f, c, k) => Unclaimed(g, c, k)
  BY <1>2 DEF Unclaimed, ClaimAt
<1>4. ASSUME NEW by, ClaimedBy(f, c, k, by)
      PROVE  ClaimedBy(g, c, k, by)
  <2>1. PICK n \in 1 .. k : /\ ClaimAt(f, c, n)
                            /\ f[n].by = by
                            /\ \A m \in (n + 1) .. k : ~ClaimAt(f, c, m)
    BY <1>4 DEF ClaimedBy
  <2>2. \A m \in (n + 1) .. k : m \in 1 .. k
    BY <1>1
  <2>3. QED
    BY <1>2, <2>1, <2>2 DEF ClaimedBy, ClaimAt
<1>5. QED
  BY <1>3, <1>4

\* Whoever has claimed a chain last is its claimant until the next claim.
LEMMA ClaimStands ==
    ASSUME NEW f, NEW c, NEW j \in Nat, NEW k \in Nat, j <= k,
           \A n \in (j + 1) .. k : ~ClaimAt(f, c, n)
    PROVE  /\ Unclaimed(f, c, j) => Unclaimed(f, c, k)
           /\ \A by : ClaimedBy(f, c, j, by) => ClaimedBy(f, c, k, by)
<1>1. Unclaimed(f, c, j) => Unclaimed(f, c, k)
  BY DEF Unclaimed
<1>2. ASSUME NEW by, ClaimedBy(f, c, j, by)
      PROVE  ClaimedBy(f, c, k, by)
  <2>1. PICK n \in 1 .. j : /\ ClaimAt(f, c, n)
                            /\ f[n].by = by
                            /\ \A m \in (n + 1) .. j : ~ClaimAt(f, c, m)
    BY <1>2 DEF ClaimedBy
  <2>2. n \in 1 .. k
    OBVIOUS
  <2>3. \A m \in (n + 1) .. k : ~ClaimAt(f, c, m)
    BY <2>1
  <2>4. QED
    BY <2>1, <2>2, <2>3 DEF ClaimedBy
<1>3. QED
  BY <1>1, <1>2

LEMMA OneClaimant ==
    ASSUME NEW f, NEW c, NEW k \in Nat, NEW a, NEW b,
           ClaimedBy(f, c, k, a), ClaimedBy(f, c, k, b)
    PROVE  a = b
<1>1. PICK m \in 1 .. k : /\ ClaimAt(f, c, m)
                          /\ f[m].by = a
                          /\ \A i \in (m + 1) .. k : ~ClaimAt(f, c, i)
  BY DEF ClaimedBy
<1>2. PICK n \in 1 .. k : /\ ClaimAt(f, c, n)
                          /\ f[n].by = b
                          /\ \A i \in (n + 1) .. k : ~ClaimAt(f, c, i)
  BY DEF ClaimedBy
<1>3. ~(m < n) /\ ~(n < m)
  BY <1>1, <1>2
<1>4. QED
  BY <1>1, <1>2, <1>3
-----------------------------------------------------------------------------
(***************************************************************************)
(* Reading the file.                                                       *)
(***************************************************************************)

\* A process that has its place in the file holds, once it has read the
\* rest, every chain as far as the file has it.
LEMMA MemReadIsAll ==
    ASSUME TypeOK, FileIsSound, NEW p \in Proc, View(p), Accurate(p), NEW c \in Chain
    PROVE  MemRead(p)[c] = Count(file, c, Len(file))
<1> DEFINE D == {m \in Unread(p) : IsBundle(file[m]) /\ file[m].chain = c}
           S == {mem[p][c]} \cup {file[n].number : n \in D}
           total == Count(file, c, Len(file))
<1>1. file \in Seq(Record) /\ Len(file) \in Nat /\ upto[p] \in Nat /\ upto[p] <= Len(file)
  BY LenProperties DEF TypeOK, View, Placed, Accurate
<1>2. mem[p][c] = Count(file, c, upto[p]) /\ mem[p][c] \in Nat /\ mem[p][c] <= total
  BY <1>1, CountType, CountMonotone DEF View, HasRead
<1>3. total \in Nat
  BY <1>1, CountType
<1>4. D = {n \in Holds(file, c) : n \in (upto[p] + 1) .. Len(file)}
  BY <1>1 DEF Unread, Holds
<1>5. ASSUME NEW n \in D
      PROVE  /\ file[n].number = Count(file, c, n)
             /\ n \in Nat /\ n <= Len(file)
             /\ file[n].number \in Nat
             /\ file[n].number <= total
  <2>1. n \in Holds(file, c) /\ n \in Nat /\ n <= Len(file)
    BY <1>1, <1>4
  <2>2. file[n].number = Count(file, c, n)
    BY <2>1 DEF FileIsSound, InOrder
  <2>3. QED
    BY <1>1, <2>1, <2>2, CountType, CountMonotone
<1>6. total \in S
  <2>1. CASE D = {}
    <3>1. \A n \in (upto[p] + 1) .. Len(file) : n \notin Holds(file, c)
      BY <1>4, <2>1
    <3>2. Count(file, c, upto[p]) = total
      BY <1>1, <3>1, CountSame
    <3>3. QED
      BY <1>2, <3>2
  <2>2. CASE D # {}
    <3>1. D \subseteq 1 .. Len(file)
      BY <1>1, <1>4
    <3>2. PICK x \in D : \A y \in D : y <= x
      BY <1>1, <2>2, <3>1, LastPosition
    <3>3. x \in Nat /\ x <= Len(file) /\ x >= upto[p] + 1
      BY <1>1, <1>4
    <3>4. \A n \in (x + 1) .. Len(file) : n \notin Holds(file, c)
      <4> SUFFICES ASSUME NEW n \in (x + 1) .. Len(file), n \in Holds(file, c)
                   PROVE  FALSE
        OBVIOUS
      <4>1. n \in (upto[p] + 1) .. Len(file) /\ ~(n <= x)
        BY <1>1, <3>3
      <4>2. n \in D
        BY <1>4, <4>1
      <4>3. QED
        BY <3>2, <4>1, <4>2
    <3>5. Count(file, c, x) = total
      BY <1>1, <3>3, <3>4, CountSame
    <3>6. QED
      BY <1>5, <3>5
  <2>3. QED
    BY <2>1, <2>2
<1>7. S \subseteq Int /\ \A y \in S : y <= total
  BY <1>2, <1>5
<1> HIDE DEF S, total
<1>8. Max(S) = total
  BY <1>6, <1>7, MaxIsGreatest
<1>9. MemRead(p)[c] = Max(S)
  BY DEF MemRead, S, D
<1>10. QED
  BY <1>8, <1>9 DEF total

\* The same of the claims: the last one in the file counts.
LEMMA ClaimsReadAreLast ==
    ASSUME TypeOK, NEW p \in Proc, View(p), Accurate(p), NEW c \in Chain
    PROVE  /\ ClaimsRead(p)[c] \in Proc \cup {NoOne}
           /\ ClaimsRead(p)[c] = NoOne => Unclaimed(file, c, Len(file))
           /\ ClaimsRead(p)[c] # NoOne =>
                  ClaimedBy(file, c, Len(file), ClaimsRead(p)[c])
<1> DEFINE found == {n \in Unread(p) : IsClaim(file[n]) /\ file[n].chain = c}
<1>1. file \in Seq(Record) /\ Len(file) \in Nat /\ upto[p] \in Nat /\ upto[p] <= Len(file)
  BY LenProperties DEF TypeOK, View, Placed, Accurate
<1>2. found = {n \in (upto[p] + 1) .. Len(file) : ClaimAt(file, c, n)}
  BY DEF Unread, ClaimAt
<1>3. ClaimsRead(p)[c] = IF found = {} THEN claims[p][c] ELSE file[Max(found)].by
  BY DEF ClaimsRead
<1> HIDE DEF found
<1>4. CASE found = {}
  <2>1. ClaimsRead(p)[c] = claims[p][c] /\ claims[p][c] \in Proc \cup {NoOne}
    BY <1>3, <1>4 DEF TypeOK
  <2>2. \A n \in (upto[p] + 1) .. Len(file) : ~ClaimAt(file, c, n)
    BY <1>2, <1>4
  <2>3. /\ claims[p][c] = NoOne => Unclaimed(file, c, upto[p])
        /\ claims[p][c] # NoOne => ClaimedBy(file, c, upto[p], claims[p][c])
    BY DEF View, HasRead
  <2>4. QED
    BY <1>1, <2>1, <2>2, <2>3, ClaimStands
<1>5. CASE found # {}
  <2>1. found \subseteq 1 .. Len(file)
    BY <1>1, <1>2
  <2>2. PICK x \in found : \A y \in found : y <= x
    BY <1>1, <1>5, <2>1, LastPosition
  <2>3. Max(found) = x
    <3>1. found \subseteq Int /\ x \in found
      BY <2>1
    <3>2. QED
      BY <2>2, <3>1, MaxIsGreatest
  <2>4. x \in 1 .. Len(file) /\ ClaimAt(file, c, x)
    BY <1>2, <2>1
  <2>5. \A m \in (x + 1) .. Len(file) : ~ClaimAt(file, c, m)
    <3> SUFFICES ASSUME NEW m \in (x + 1) .. Len(file), ClaimAt(file, c, m)
                 PROVE  FALSE
      OBVIOUS
    <3>1. m \in (upto[p] + 1) .. Len(file) /\ ~(m <= x)
      BY <1>1, <1>2, <2>2
    <3>2. QED
      BY <1>2, <2>2, <3>1
  <2>6. file[x].by \in Proc
    <3>1. file[x] \in Record
      BY <1>1, <2>4, ElementOfSeq
    <3>2. QED
      BY <3>1 DEF Record
  <2>7. ClaimsRead(p)[c] = file[x].by
    BY <1>3, <1>5, <2>3
  <2>8. ClaimedBy(file, c, Len(file), file[x].by)
    BY <2>4, <2>5 DEF ClaimedBy
  <2>9. QED
    BY <2>6, <2>7, <2>8, ConstantsAssumption
<1>6. QED
  BY <1>4, <1>5

LEMMA KeysReadAreAll ==
    ASSUME TypeOK, NEW p \in Proc, View(p), Accurate(p)
    PROVE  /\ KeysRead(p) \in SUBSET Chain
           /\ keys[p] \subseteq KeysRead(p)
           /\ \A n \in 1 .. Len(file) :
                 file[n].kind = "key" => file[n].chain \in KeysRead(p)
<1>1. file \in Seq(Record) /\ Len(file) \in Nat /\ upto[p] \in Nat /\ upto[p] <= Len(file)
  BY LenProperties DEF TypeOK, View, Placed, Accurate
<1>2. \A n \in 1 .. Len(file) : file[n].chain \in Chain
  <2>1. \A n \in 1 .. Len(file) : file[n] \in Record
    BY <1>1, ElementOfSeq
  <2>2. QED
    BY <2>1 DEF Record
<1>3. \A n \in Unread(p) : n \in 1 .. Len(file)
  BY <1>1 DEF Unread
<1>4. \A n \in 1 .. Len(file) : n \in Unread(p) \/ n \in 1 .. upto[p]
  BY <1>1 DEF Unread
<1>5. keys[p] \in SUBSET Chain
  BY DEF TypeOK
<1>6. KeysRead(p) \in SUBSET Chain
  BY <1>2, <1>3, <1>5 DEF KeysRead
<1>7. ASSUME NEW n \in 1 .. Len(file), file[n].kind = "key"
      PROVE  file[n].chain \in KeysRead(p)
  BY <1>4, <1>7 DEF KeysRead, View, HasRead
<1>8. QED
  BY <1>6, <1>7 DEF KeysRead
-----------------------------------------------------------------------------
(***************************************************************************)
(* What the steps have in common: a process keeps its copy, its place and  *)
(* its link (SameCopy, Same), it reads the file (Refreshes).               *)
(***************************************************************************)

SameCopy(q) ==
    /\ upto'[q] = upto[q]
    /\ tell'[q] = tell[q]
    /\ mem'[q] = mem[q]
    /\ claims'[q] = claims[q]
    /\ keys'[q] = keys[q]

Same(q) ==
    /\ SameCopy(q)
    /\ link'[q] = link[q]
    /\ pending'[q] = pending[q]
    /\ pc'[q] = pc[q]

CopyTypeOK ==
    /\ upto \in [Proc -> Nat]
    /\ tell \in [Proc -> Nat]
    /\ mem \in [Proc -> HasMaps]
    /\ claims \in [Proc -> [Chain -> Proc \cup {NoOne}]]
    /\ keys \in [Proc -> SUBSET Chain]

Refreshes(p) ==
    /\ file' = file
    /\ upto' = [upto EXCEPT ![p] = Len(file)]
    /\ tell' = [tell EXCEPT ![p] = Len(file)]
    /\ mem' = [mem EXCEPT ![p] = MemRead(p)]
    /\ claims' = [claims EXCEPT ![p] = ClaimsRead(p)]
    /\ keys' = [keys EXCEPT ![p] = KeysRead(p)]

LEMMA RefreshedCopy ==
    ASSUME TypeOK, FileIsSound, NEW p \in Proc, View(p), Accurate(p), Refreshes(p)
    PROVE  /\ CopyTypeOK'
           /\ upto'[p] = Len(file)
           /\ tell'[p] = Len(file)
           /\ \A c \in Chain : mem'[p][c] = Count(file, c, Len(file))
           /\ keys[p] \subseteq keys'[p]
           /\ View(p)'
           /\ \A q \in Proc : q # p => SameCopy(q)
<1>1. file \in Seq(Record) /\ Len(file) \in Nat
  BY LenProperties DEF TypeOK
<1>2. /\ upto'[p] = Len(file) /\ tell'[p] = Len(file)
      /\ mem'[p] = MemRead(p)
      /\ claims'[p] = ClaimsRead(p)
      /\ keys'[p] = KeysRead(p)
      /\ file' = file
  BY DEF Refreshes, TypeOK
<1>3. \A q \in Proc : q # p => SameCopy(q)
  BY DEF Refreshes, TypeOK, SameCopy
<1>4. \A c \in Chain : MemRead(p)[c] = Count(file, c, Len(file))
  BY MemReadIsAll
<1>5. \A c \in Chain : Count(file, c, Len(file)) \in Nat
  BY <1>1, CountType
<1>6. MemRead(p) \in HasMaps
  <2>1. \A c \in Chain : MemRead(p)[c] \in Nat
    BY <1>4, <1>5
  <2>2. MemRead(p) = [c \in Chain |-> MemRead(p)[c]]
    BY DEF MemRead
  <2>3. QED
    BY <2>1, <2>2 DEF HasMaps
<1>7. ClaimsRead(p) \in [Chain -> Proc \cup {NoOne}]
  <2>1. \A c \in Chain : ClaimsRead(p)[c] \in Proc \cup {NoOne}
    BY ClaimsReadAreLast
  <2>2. ClaimsRead(p) = [c \in Chain |-> ClaimsRead(p)[c]]
    BY DEF ClaimsRead
  <2>3. QED
    BY <2>1, <2>2
<1>8. /\ KeysRead(p) \in SUBSET Chain
      /\ keys[p] \subseteq KeysRead(p)
      /\ \A n \in 1 .. Len(file) : file[n].kind = "key" => file[n].chain \in KeysRead(p)
  BY KeysReadAreAll
<1>9. CopyTypeOK'
  BY <1>1, <1>6, <1>7, <1>8 DEF CopyTypeOK, Refreshes, TypeOK
<1>10. View(p)'
  <2>1. Placed(p)'
    BY <1>1, <1>2 DEF Placed
  <2>2. HoldsLogged(p)'
    BY <1>2, <1>4, <1>5 DEF HoldsLogged
  <2>3. ASSUME NEW c \in Chain
        PROVE  /\ mem'[p][c] = Count(file', c, upto'[p])
               /\ claims'[p][c] = NoOne => Unclaimed(file', c, upto'[p])
               /\ claims'[p][c] # NoOne => ClaimedBy(file', c, upto'[p], claims'[p][c])
    BY <1>2, <1>4, ClaimsReadAreLast
  <2>4. HasRead(p)'
    BY <1>2, <1>8, <2>3 DEF HasRead
  <2>5. QED
    BY <2>1, <2>2, <2>4 DEF View
<1>11. QED
  BY <1>2, <1>3, <1>4, <1>8, <1>9, <1>10

\* The file as others see it does not change.
LEMMA KeptView ==
    ASSUME NEW q \in Proc, View(q), SameCopy(q), file' = file
    PROVE  View(q)'
<1>1. Placed(q)'
  BY DEF View, Placed, SameCopy
<1>2. HoldsLogged(q)'
  BY DEF View, HoldsLogged, SameCopy
<1>3. Accurate(q)' => HasRead(q)'
  BY DEF View, HasRead, SameCopy, Accurate
<1>4. QED
  BY <1>1, <1>2, <1>3 DEF View

\* Nor does a record that is appended change what lies before it.
LEMMA AppendedView ==
    ASSUME TypeOK, NEW q \in Proc, View(q), SameCopy(q),
           NEW r \in Record, Extends(file', file, r)
    PROVE  View(q)'
<1> DEFINE g == file'
<1>1. /\ file \in Seq(Record)
      /\ Len(file) \in Nat
      /\ Len(g) = Len(file) + 1
      /\ \A n \in 1 .. Len(file) : g[n] = file[n]
      /\ upto[q] \in Nat /\ tell[q] \in Nat
      /\ upto[q] <= Len(file)
      /\ upto[q] \in 0 .. Len(file)
  BY Appended DEF TypeOK, View, Placed
<1>2. Placed(q)'
  BY <1>1 DEF View, Placed, SameCopy
<1>3. ASSUME NEW c \in Chain
      PROVE  mem'[q][c] <= Count(g, c, Len(g))
  <2>1. Count(file, c, Len(file)) \in Nat /\ mem[q][c] \in Nat
    BY <1>1, CountType DEF TypeOK, HasMaps
  <2>2. Count(g, c, Len(g)) \in {Count(file, c, Len(file)), Count(file, c, Len(file)) + 1}
    BY <1>1, CountAppended
  <2>3. mem'[q][c] <= Count(file, c, Len(file)) /\ mem'[q] = mem[q]
    BY DEF View, HoldsLogged, SameCopy
  <2>4. QED
    BY <2>1, <2>2, <2>3
<1>4. ASSUME Accurate(q)'
      PROVE  HasRead(q)'
  <2>1. HasRead(q) /\ upto'[q] = upto[q] /\ mem'[q] = mem[q]
        /\ claims'[q] = claims[q] /\ keys'[q] = keys[q]
    BY <1>4 DEF View, SameCopy, Accurate
  <2>2. ASSUME NEW c \in Chain
        PROVE  /\ mem[q][c] = Count(g, c, upto[q])
               /\ claims[q][c] = NoOne => Unclaimed(g, c, upto[q])
               /\ claims[q][c] # NoOne => ClaimedBy(g, c, upto[q], claims[q][c])
    <3>1. Count(g, c, upto[q]) = Count(file, c, upto[q])
      BY <1>1, CountAppended
    <3>2. /\ Unclaimed(file, c, upto[q]) => Unclaimed(g, c, upto[q])
          /\ \A by : ClaimedBy(file, c, upto[q], by) => ClaimedBy(g, c, upto[q], by)
      BY <1>1, ClaimsAppended
    <3>3. QED
      BY <2>1, <3>1, <3>2 DEF HasRead
  <2>3. \A n \in 1 .. upto[q] : g[n].kind = "key" => g[n].chain \in keys[q]
    BY <1>1, <2>1 DEF HasRead
  <2>4. QED
    BY <2>1, <2>2, <2>3 DEF HasRead
<1>5. HoldsLogged(q)'
  BY <1>3 DEF HoldsLogged
<1>6. QED
  BY <1>2, <1>4, <1>5 DEF View
-----------------------------------------------------------------------------
(***************************************************************************)
(* What a step of another process leaves of Sound(q).                      *)
(***************************************************************************)

LEMMA OthersKept ==
    ASSUME NEW q \in Proc, Sound(q), Same(q), file' = file,
           pc[q] \in {"reusing", "applying"} => lock' = q
    PROVE  Sound(q)'
<1>1. View(q)'
  BY KeptView DEF Sound, Same
<1>2. Locked(q)'
  BY DEF Sound, Same, SameCopy, Locked, Accurate
<1>3. OwnsLink(q)'
  BY DEF Sound, Same, SameCopy, OwnsLink, Up
<1>4. HasLink(q)' /\ DownIsFresh(q)'
  BY DEF Sound, Same, SameCopy, HasLink, DownIsFresh, Accurate
<1>5. StartsNew(q)'
  BY DEF Sound, Same, SameCopy, StartsNew
<1>6. AppliesNext(q)'
  BY DEF Sound, Same, SameCopy, AppliesNext
<1>7. QED
  BY <1>1, <1>2, <1>3, <1>4, <1>5, <1>6 DEF Sound

\* A link stays the end of its chain if the record belongs to another chain.
LEMMA LinkAppended ==
    ASSUME TypeOK, NEW q \in Proc, OwnsLink(q),
           NEW r \in Record, Extends(file', file, r),
           link'[q] = link[q], keys[q] \subseteq keys'[q],
           link[q] # NoLink => Up(q)' /\ r.chain # link[q].chain
    PROVE  OwnsLink(q)'
<1> DEFINE g == file'
           c == link[q].chain
<1>1. /\ file \in Seq(Record)
      /\ Len(file) \in Nat
      /\ Len(g) = Len(file) + 1
      /\ g[Len(file) + 1] = r
      /\ Len(file) \in 0 .. Len(file)
  BY Appended DEF TypeOK
<1> SUFFICES ASSUME link[q] # NoLink
             PROVE  /\ Up(q)'
                    /\ c \in LocalChain
                    /\ link[q].number >= 1
                    /\ link[q].number = Count(g, c, Len(g))
                    /\ c \in keys'[q]
                    /\ ClaimedBy(g, c, Len(g), q)
  BY DEF OwnsLink
<1>2. /\ c \in LocalChain /\ link[q].number >= 1
      /\ link[q].number = Count(file, c, Len(file))
      /\ c \in keys[q]
      /\ ClaimedBy(file, c, Len(file), q)
  BY DEF OwnsLink
<1>3. Count(g, c, Len(g)) = Count(file, c, Len(file))
  BY <1>1, CountAppended
<1>4. ClaimedBy(g, c, Len(file), q)
  BY <1>1, <1>2, ClaimsAppended
<1>5. \A n \in (Len(file) + 1) .. Len(g) : ~ClaimAt(g, c, n)
  BY <1>1 DEF ClaimAt
<1>6. ClaimedBy(g, c, Len(g), q)
  <2>1. Len(g) \in Nat /\ Len(file) <= Len(g)
    BY <1>1
  <2> HIDE DEF c, g
  <2>2. QED
    BY <1>1, <1>4, <1>5, <2>1, ClaimStands
<1>7. QED
  BY <1>2, <1>3, <1>6

AboutToStart(q) ==
    \/ pc[q] = "starting"
    \/ pc[q] = "applying" /\ pending[q].chain \in LocalChain /\ pending[q].number = 1

LEMMA OthersAppended ==
    ASSUME TypeOK, NEW q \in Proc, Sound(q), Same(q),
           NEW r \in Record, Extends(file', file, r),
           pc[q] \in {"reusing", "applying"} => lock' = q /\ r.kind = "key",
           link[q] # NoLink => r.chain # link[q].chain,
           AboutToStart(q) => r.chain # pending[q].chain
    PROVE  Sound(q)'
<1> DEFINE g == file'
<1>1. /\ file \in Seq(Record)
      /\ Len(file) \in Nat
      /\ Len(g) = Len(file) + 1
      /\ \A n \in 1 .. Len(file) : g[n] = file[n]
      /\ g[Len(file) + 1] = r
      /\ upto[q] \in Nat
      /\ Len(file) \in 0 .. Len(file)
  BY Appended DEF TypeOK
<1>2. View(q)'
  BY AppendedView DEF Sound, Same
<1>3. Locked(q)'
  <2> SUFFICES ASSUME pc[q] \in {"reusing", "applying"}
               PROVE  lock' = q /\ Accurate(q)' /\ OnlyKeysAfter(g, upto[q])
    BY DEF Locked, Same, SameCopy
  <2>1. Accurate(q) /\ OnlyKeysAfter(file, upto[q])
    BY DEF Sound, Locked
  <2>2. OnlyKeysAfter(g, upto[q])
    BY <1>1, <2>1 DEF OnlyKeysAfter
  <2>3. QED
    BY <2>1, <2>2 DEF Accurate, Same, SameCopy
<1>4. OwnsLink(q)'
  <2>1. OwnsLink(q) /\ (link[q] # NoLink => Up(q)')
    BY DEF Sound, OwnsLink, Up, Same
  <2>2. QED
    BY <2>1, LinkAppended DEF Same, SameCopy
<1>5. HasLink(q)' /\ DownIsFresh(q)'
  BY DEF Sound, Same, SameCopy, HasLink, DownIsFresh, Accurate
<1>6. StartsNew(q)'
  <2> SUFFICES ASSUME AboutToStart(q)
               PROVE  /\ pending[q].chain \in LocalChain
                      /\ pending[q].number = 1
                      /\ pending[q].chain \in keys'[q]
                      /\ OnlyKeyOf(g, pending[q].chain, q)
    BY DEF StartsNew, AboutToStart, Same
  <2>1. /\ pending[q].chain \in LocalChain
        /\ pending[q].number = 1
        /\ pending[q].chain \in keys[q]
        /\ OnlyKeyOf(file, pending[q].chain, q)
    BY DEF Sound, StartsNew, AboutToStart
  <2>2. OnlyKeyOf(g, pending[q].chain, q)
    <3>1. PICK n \in 1 .. Len(file) : file[n].chain = pending[q].chain
      BY <2>1 DEF OnlyKeyOf
    <3>2. n \in 1 .. Len(g) /\ g[n].chain = pending[q].chain
      BY <1>1, <3>1
    <3>3. ASSUME NEW m \in 1 .. Len(g), g[m].chain = pending[q].chain
          PROVE  g[m].kind = "key" /\ g[m].by = q
      <4>1. m \in 1 .. Len(file)
        BY <1>1, <3>3
      <4>2. QED
        BY <1>1, <2>1, <3>3, <4>1 DEF OnlyKeyOf
    <3>4. QED
      BY <3>2, <3>3 DEF OnlyKeyOf
  <2>3. QED
    BY <2>1, <2>2 DEF Same, SameCopy
<1>7. AppliesNext(q)'
  BY DEF Sound, Same, SameCopy, AppliesNext
<1>8. QED
  BY <1>2, <1>3, <1>4, <1>5, <1>6, <1>7 DEF Sound

(***************************************************************************)
(* A claimed chain is nobody's new chain, a new chain is one process's,    *)
(* and so is a chain with a link.                                          *)
(***************************************************************************)

LEMMA ClaimedIsNotNew ==
    ASSUME NEW f, NEW c, NEW p, NEW q, NEW k \in 0 .. Len(f),
           ClaimedBy(f, c, k, p), OnlyKeyOf(f, c, q), Len(f) \in Nat
    PROVE  FALSE
<1>1. PICK n \in 1 .. k : ClaimAt(f, c, n)
  BY DEF ClaimedBy
<1>2. n \in 1 .. Len(f)
  OBVIOUS
<1>3. QED
  BY <1>1, <1>2 DEF OnlyKeyOf, ClaimAt, IsClaim

LEMMA NewIsOnes ==
    ASSUME NEW f, NEW c, NEW p, NEW q, OnlyKeyOf(f, c, p), OnlyKeyOf(f, c, q)
    PROVE  p = q
BY DEF OnlyKeyOf

LEMMA LinkIsOnes ==
    ASSUME TypeOK, NEW p \in Proc, NEW q \in Proc, Sound(p), Sound(q),
           link[p] # NoLink, link[q] # NoLink, link[p].chain = link[q].chain
    PROVE  p = q
<1>1. Len(file) \in Nat
  BY LenProperties DEF TypeOK
<1>2. /\ ClaimedBy(file, link[p].chain, Len(file), p)
      /\ ClaimedBy(file, link[p].chain, Len(file), q)
  BY DEF Sound, OwnsLink
<1>3. QED
  BY <1>1, <1>2, OneClaimant
-----------------------------------------------------------------------------
(***************************************************************************)
(* Steps that leave the file alone: the process ends, reads, or only moves *)
(* on.                                                                     *)
(***************************************************************************)

LEMMA DeadIsSound ==
    ASSUME IInv, NEW p \in Proc, Dies(p)
    PROVE  IInv'
<1>1. file \in Seq(Record) /\ Len(file) \in Nat /\ file' = file
  BY LenProperties DEF IInv, TypeOK, Dies
<1>2. TypeOK'
  <2>1. EmptyMap \in HasMaps /\ NoClaims \in [Chain -> Proc \cup {NoOne}] /\ NoLink \in Links
    BY DEF EmptyMap, HasMaps, NoClaims, Links
  <2>2. QED
    BY <2>1 DEF IInv, TypeOK, Dies, Goes, Places
<1>3. FileIsSound'
  BY <1>1 DEF IInv, FileIsSound
<1>4. ASSUME NEW q \in Proc, q # p
      PROVE  Sound(q)'
  <2>1. Same(q)
    BY <1>4 DEF Same, SameCopy, Dies, Goes, IInv, TypeOK
  <2>2. pc[q] \in {"reusing", "applying"} => lock' = q
    BY <1>4 DEF Dies, IInv, Sound, Locked
  <2>3. QED
    BY <1>1, <2>1, <2>2, OthersKept DEF IInv
<1>5. Sound(p)'
  <2>1. /\ upto'[p] = 0 /\ tell'[p] = 0 /\ pc'[p] = "down"
        /\ mem'[p] = EmptyMap /\ claims'[p] = NoClaims
        /\ link'[p] = NoLink
    BY DEF Dies, Goes, IInv, TypeOK
  <2>2. ASSUME NEW c \in Chain
        PROVE  Count(file, c, 0) = 0 /\ Count(file, c, Len(file)) \in Nat
    <3>1. 0 \in Nat /\ \A n \in 1 .. 0 : n \notin Holds(file, c)
      OBVIOUS
    <3>2. Count(file, c, 0) = 0
      BY <1>1, <3>1, CountNone
    <3>3. QED
      BY <1>1, <3>2, CountType
  <2>3. View(p)'
    <3>1. \A c \in Chain : mem'[p][c] = 0 /\ claims'[p][c] = NoOne
      BY <2>1 DEF EmptyMap, NoClaims
    <3>2. Placed(p)'
      BY <1>1, <2>1 DEF Placed
    <3>3. HoldsLogged(p)'
      BY <1>1, <2>2, <3>1 DEF HoldsLogged
    <3>4. HasRead(p)'
      BY <1>1, <2>1, <2>2, <3>1 DEF HasRead, Unclaimed
    <3>5. QED
      BY <3>2, <3>3, <3>4 DEF View
  <2>4. QED
    BY <2>1, <2>3 DEF Sound, Locked, OwnsLink, HasLink, DownIsFresh, Accurate,
                      StartsNew, AppliesNext
<1>6. QED
  BY <1>2, <1>3, <1>4, <1>5 DEF IInv

\* What _on_bundle is told when the file is read never moves _last_link:
\* it is the end of its chain already.
LEMMA RelinkedIsLink ==
    ASSUME IInv, NEW p \in Proc, Accurate(p)
    PROVE  Relinked(p, MemRead(p)) = link[p]
<1>1. CASE link[p] = NoLink
  BY <1>1 DEF Relinked
<1>2. CASE link[p] # NoLink
  <2>1. link[p] \in [chain : Chain, number : Nat]
    BY <1>2 DEF IInv, TypeOK, Links
  <2>2. link[p].number = Count(file, link[p].chain, Len(file)) /\ link[p].chain \in Chain
    BY <1>2, <2>1 DEF IInv, Sound, OwnsLink
  <2>3. MemRead(p)[link[p].chain] = link[p].number
    BY <2>2, MemReadIsAll DEF IInv, Sound
  <2>4. [link[p] EXCEPT !.number = link[p].number] = link[p]
    BY <2>1
  <2>5. QED
    BY <1>2, <2>3, <2>4 DEF Relinked
<1>3. QED
  BY <1>1, <1>2

LEMMA LoadsRefreshes ==
    ASSUME IInv, NEW p \in Proc, Accurate(p), file' = file,
           Loads(p, TRUE) \/ Loads(p, FALSE)
    PROVE  /\ Refreshes(p)
           /\ link' = link
           /\ silent' \in [Proc -> SUBSET (Chain \X Nat)]
<1>1. Refreshes(p)
  BY DEF Loads, Refreshes
<1>2. link' = link
  <2>1. [link EXCEPT ![p] = link[p]] = link
    BY DEF IInv, TypeOK
  <2>2. QED
    BY <2>1, RelinkedIsLink DEF Loads
<1>3. silent' \in [Proc -> SUBSET (Chain \X Nat)]
  <2>1. Novel(p) \subseteq Chain \X Nat
    BY DEF Novel
  <2>2. silent' = silent \/ silent' = [silent EXCEPT ![p] = @ \cup Novel(p)]
    BY DEF Loads
  <2>3. silent \in [Proc -> SUBSET (Chain \X Nat)]
    BY DEF IInv, TypeOK
  <2>4. QED
    BY <2>1, <2>2, <2>3
<1>4. QED
  BY <1>1, <1>2, <1>3

LEMMA ReadingIsSound ==
    ASSUME IInv, NEW p \in Proc, Accurate(p), lock = NoOne,
           Refreshes(p), link' = link,
           silent' \in [Proc -> SUBSET (Chain \X Nat)],
           pc' \in [Proc -> Places], pending' \in [Proc -> Links],
           alarm' \in [Proc -> BOOLEAN], lock' \in Proc \cup {NoOne},
           \A q \in Proc : q # p => pc'[q] = pc[q] /\ pending'[q] = pending[q],
           pc'[p] # "down",
           pc'[p] \in {"reusing", "applying"} => lock' = p,
           HasLink(p)', StartsNew(p)', AppliesNext(p)'
    PROVE  IInv'
<1>1. file \in Seq(Record) /\ Len(file) \in Nat /\ file' = file
  BY LenProperties DEF IInv, TypeOK, Refreshes
<1>2. /\ CopyTypeOK'
      /\ upto'[p] = Len(file)
      /\ tell'[p] = Len(file)
      /\ keys[p] \subseteq keys'[p]
      /\ View(p)'
      /\ \A q \in Proc : q # p => SameCopy(q)
  BY RefreshedCopy DEF IInv, Sound
<1>3. TypeOK'
  BY <1>1, <1>2 DEF IInv, TypeOK, CopyTypeOK
<1>4. FileIsSound'
  BY <1>1 DEF IInv, FileIsSound
<1>5. ASSUME NEW q \in Proc, q # p
      PROVE  Sound(q)'
  <2>1. Same(q)
    BY <1>2, <1>5 DEF Same
  <2>2. pc[q] \notin {"reusing", "applying"}
    BY ConstantsAssumption DEF IInv, Sound, Locked
  <2>3. QED
    BY <1>1, <2>1, <2>2, OthersKept DEF IInv
<1>6. Sound(p)'
  <2>1. Locked(p)'
    BY <1>1, <1>2 DEF Locked, Accurate, OnlyKeysAfter
  <2>2. OwnsLink(p)'
    <3>1. OwnsLink(p)
      BY DEF IInv, Sound
    <3>2. QED
      BY <1>1, <1>2, <3>1 DEF OwnsLink, Up
  <2>3. DownIsFresh(p)'
    BY DEF DownIsFresh
  <2>4. QED
    BY <1>2, <2>1, <2>2, <2>3 DEF Sound
<1>7. QED
  BY <1>3, <1>4, <1>5, <1>6 DEF IInv

LEMMA QuietIsSound ==
    ASSUME IInv, NEW p \in Proc,
           UNCHANGED <<file, copy, link, silent>>,
           pc' \in [Proc -> Places], pending' \in [Proc -> Links],
           alarm' \in [Proc -> BOOLEAN], lock' \in Proc \cup {NoOne},
           \A q \in Proc : q # p => pc'[q] = pc[q] /\ pending'[q] = pending[q],
           \A q \in Proc : q # p /\ pc[q] \in {"reusing", "applying"} => lock' = q,
           pc[p] # "down",
           pc'[p] \notin {"down", "reusing", "applying", "starting"},
           HasLink(p)'
    PROVE  IInv'
<1>1. file' = file
  OBVIOUS
<1>2. TypeOK'
  BY DEF IInv, TypeOK, copy
<1>3. FileIsSound'
  BY <1>1 DEF IInv, FileIsSound
<1>4. ASSUME NEW q \in Proc
      PROVE  SameCopy(q)
  BY DEF SameCopy, copy
<1>5. ASSUME NEW q \in Proc, q # p
      PROVE  Sound(q)'
  <2>1. Same(q)
    BY <1>4, <1>5 DEF Same
  <2>2. QED
    BY <1>1, <1>5, <2>1, OthersKept DEF IInv
<1>6. Sound(p)'
  <2>1. View(p)'
    BY <1>1, <1>4, KeptView DEF IInv, Sound
  <2>2. OwnsLink(p)'
    <3>1. OwnsLink(p) /\ keys' = keys
      BY DEF IInv, Sound, copy
    <3>2. QED
      BY <3>1 DEF OwnsLink, Up
  <2>3. QED
    BY <2>1, <2>2 DEF Sound, Locked, DownIsFresh, StartsNew, AppliesNext
<1>7. QED
  BY <1>2, <1>3, <1>5, <1>6 DEF IInv
-----------------------------------------------------------------------------
(***************************************************************************)
(* Steps that write a record.                                              *)
(***************************************************************************)

\* A process that keeps its place when it writes had read all of the file.
LEMMA WrittenView ==
    ASSUME TypeOK, NEW p \in Proc, View(p),
           NEW r \in Record, Extends(file', file, r), r.by = p,
           upto'[p] = upto[p] + 1, tell'[p] = Len(file) + 1,
           \A c \in Chain :
              /\ IsBundle(r) /\ r.chain = c => mem'[p][c] = mem[p][c] + 1
              /\ ~(IsBundle(r) /\ r.chain = c) => mem'[p][c] = mem[p][c]
              /\ IsClaim(r) /\ r.chain = c => claims'[p][c] = p
              /\ ~(IsClaim(r) /\ r.chain = c) => claims'[p][c] = claims[p][c],
           keys[p] \subseteq keys'[p],
           r.kind = "key" => r.chain \in keys'[p]
    PROVE  View(p)'
<1> DEFINE g == file'
           N == Len(file)
<1>1. /\ file \in Seq(Record) /\ N \in Nat
      /\ Len(g) = N + 1
      /\ \A n \in 1 .. N : g[n] = file[n]
      /\ g[N + 1] = r
      /\ upto[p] \in Nat /\ tell[p] \in Nat
      /\ N \in 0 .. N
  BY Appended DEF TypeOK
<1>2. upto[p] <= tell[p] /\ tell[p] <= N
  BY DEF View, Placed
<1>3. Placed(p)'
  BY <1>1, <1>2 DEF Placed
<1>4. ASSUME NEW c \in Chain
      PROVE  /\ IsBundle(r) /\ r.chain = c => Count(g, c, Len(g)) = Count(file, c, N) + 1
             /\ ~(IsBundle(r) /\ r.chain = c) => Count(g, c, Len(g)) = Count(file, c, N)
             /\ Count(file, c, N) \in Nat
             /\ mem[p][c] \in Nat
             /\ mem[p][c] <= Count(file, c, N)
  <2>1. mem[p][c] \in Nat /\ mem[p][c] <= Count(file, c, N)
    BY DEF TypeOK, HasMaps, View, HoldsLogged
  <2>2. Count(file, c, N) \in Nat
    BY <1>1, CountType
  <2>3. /\ IsBundle(r) /\ r.chain = c => Count(g, c, Len(g)) = Count(file, c, N) + 1
        /\ ~(IsBundle(r) /\ r.chain = c) => Count(g, c, Len(g)) = Count(file, c, N)
    BY <1>1, CountAppended
  <2>4. QED
    BY <2>1, <2>2, <2>3
<1>5. HoldsLogged(p)'
  <2> SUFFICES ASSUME NEW c \in Chain
               PROVE  mem'[p][c] <= Count(g, c, Len(g))
    BY DEF HoldsLogged
  <2>1. QED
    BY <1>4
<1>6. ASSUME Accurate(p)'
      PROVE  HasRead(p)'
  <2>1. upto[p] = N /\ tell[p] = N /\ upto'[p] = Len(g)
    BY <1>1, <1>2, <1>6 DEF Accurate
  <2>2. HasRead(p)
    BY <2>1 DEF View, Accurate
  <2>3. ASSUME NEW c \in Chain
        PROVE  mem'[p][c] = Count(g, c, Len(g))
    BY <1>4, <2>1, <2>2 DEF HasRead
  <2>4. ASSUME NEW c \in Chain
        PROVE  /\ claims'[p][c] = NoOne => Unclaimed(g, c, Len(g))
               /\ claims'[p][c] # NoOne => ClaimedBy(g, c, Len(g), claims'[p][c])
    <3>1. CASE IsClaim(r) /\ r.chain = c
      <4>1. claims'[p][c] = p /\ p # NoOne
        BY <3>1, ConstantsAssumption
      <4>2. ClaimAt(g, c, N + 1) /\ g[N + 1].by = p
        BY <1>1, <3>1 DEF ClaimAt
      <4>3. N + 1 \in 1 .. Len(g) /\ ((N + 1) + 1) .. Len(g) = {}
        BY <1>1
      <4>4. ClaimedBy(g, c, Len(g), p)
        BY <4>2, <4>3 DEF ClaimedBy
      <4>5. QED
        BY <4>1, <4>4
    <3>2. CASE ~(IsClaim(r) /\ r.chain = c)
      <4>1. claims'[p][c] = claims[p][c]
        BY <3>2
      <4>2. /\ Unclaimed(file, c, N) => Unclaimed(g, c, N)
            /\ \A by : ClaimedBy(file, c, N, by) => ClaimedBy(g, c, N, by)
        BY <1>1, ClaimsAppended
      <4>3. \A n \in (N + 1) .. Len(g) : ~ClaimAt(g, c, n)
        BY <1>1, <3>2 DEF ClaimAt
      <4>4. N <= Len(g) /\ Len(g) \in Nat
        BY <1>1
      <4> HIDE DEF g, N
      <4>5. /\ Unclaimed(g, c, N) => Unclaimed(g, c, Len(g))
            /\ \A by : ClaimedBy(g, c, N, by) => ClaimedBy(g, c, Len(g), by)
        BY <1>1, <4>3, <4>4, ClaimStands
      <4>6. /\ claims[p][c] = NoOne => Unclaimed(file, c, N)
            /\ claims[p][c] # NoOne => ClaimedBy(file, c, N, claims[p][c])
        BY <2>1, <2>2 DEF HasRead
      <4>7. QED
        BY <4>1, <4>2, <4>5, <4>6
    <3>3. QED
      BY <3>1, <3>2
  <2>5. \A n \in 1 .. Len(g) : g[n].kind = "key" => g[n].chain \in keys'[p]
    <3>1. \A n \in 1 .. N : file[n].kind = "key" => file[n].chain \in keys'[p]
      BY <2>1, <2>2 DEF HasRead
    <3>2. \A n \in 1 .. Len(g) : n \in 1 .. N \/ n = N + 1
      BY <1>1
    <3>3. QED
      BY <1>1, <3>1, <3>2
  <2>6. QED
    BY <2>1, <2>3, <2>4, <2>5 DEF HasRead
<1>7. QED
  BY <1>3, <1>5, <1>6 DEF View

LEMMA WrittenFile ==
    ASSUME TypeOK, FileIsSound, NEW r \in Record, Extends(file', file, r),
           IsBundle(r) => r.number = Count(file, r.chain, Len(file)) + 1,
           r.kind # "bundle" => r.chain \in LocalChain,
           IsClaim(r) => \E m \in 1 .. Len(file) :
                            file[m].kind = "key" /\ file[m].chain = r.chain
    PROVE  file' \in Seq(Record) /\ FileIsSound'
<1> DEFINE g == file'
<1>1. /\ file \in Seq(Record) /\ Len(file) \in Nat
      /\ g \in Seq(Record)
      /\ Len(g) = Len(file) + 1
      /\ \A n \in 1 .. Len(file) : g[n] = file[n]
      /\ g[Len(file) + 1] = r
  BY Appended DEF TypeOK
<1>2. \A n \in 1 .. Len(g) : n \in 1 .. Len(file) \/ n = Len(file) + 1
  BY <1>1
<1>3. \A n \in 1 .. Len(file) : n \in 1 .. Len(g)
  BY <1>1
<1>4. InOrder(g)
  BY <1>1, InOrderAppended DEF FileIsSound
<1>5. OnlyLocalClaims(g)
  BY <1>1, <1>2 DEF FileIsSound, OnlyLocalClaims
<1>6. KeyBeforeClaim(g)
  <2> SUFFICES ASSUME NEW n \in 1 .. Len(g), IsClaim(g[n])
               PROVE  \E m \in 1 .. Len(g) :
                         m < n /\ g[m].kind = "key" /\ g[m].chain = g[n].chain
    BY DEF KeyBeforeClaim
  <2>1. CASE n \in 1 .. Len(file)
    <3>1. PICK m \in 1 .. Len(file) :
                m < n /\ file[m].kind = "key" /\ file[m].chain = file[n].chain
      BY <1>1, <2>1 DEF FileIsSound, KeyBeforeClaim
    <3>2. QED
      BY <1>1, <1>3, <2>1, <3>1
  <2>2. CASE n = Len(file) + 1
    <3>1. PICK m \in 1 .. Len(file) : file[m].kind = "key" /\ file[m].chain = r.chain
      BY <1>1, <2>2
    <3>2. m < n
      BY <1>1, <2>2
    <3>3. QED
      BY <1>1, <1>3, <2>2, <3>1, <3>2
  <2>3. QED
    BY <1>2, <2>1, <2>2
<1>7. QED
  BY <1>1, <1>4, <1>5, <1>6 DEF FileIsSound

LEMMA WritingIsSound ==
    ASSUME IInv, NEW p \in Proc, NEW r \in Record, Extends(file', file, r),
           file' \in Seq(Record), FileIsSound', View(p)',
           CopyTypeOK', silent' = silent,
           pc' \in [Proc -> Places], pending' \in [Proc -> Links],
           link' \in [Proc -> Links],
           alarm' \in [Proc -> BOOLEAN], lock' \in Proc \cup {NoOne},
           \A q \in Proc : q # p =>
              /\ Same(q)
              /\ pc[q] \in {"reusing", "applying"} => lock' = q /\ r.kind = "key"
              /\ link[q] # NoLink => r.chain # link[q].chain
              /\ AboutToStart(q) => r.chain # pending[q].chain,
           pc'[p] \notin {"down", "reusing", "applying"},
           OwnsLink(p)', HasLink(p)', StartsNew(p)'
    PROVE  IInv'
<1>1. TypeOK'
  BY DEF IInv, TypeOK, CopyTypeOK
<1>2. ASSUME NEW q \in Proc, q # p
      PROVE  Sound(q)'
  BY <1>2, OthersAppended DEF IInv
<1>3. Sound(p)'
  BY DEF Sound, Locked, DownIsFresh, AppliesNext
<1>4. QED
  BY <1>1, <1>2, <1>3 DEF IInv

\* What a process in a locked section knows is still so.
LEMMA LockedKnows ==
    ASSUME IInv, NEW p \in Proc, pc[p] \in {"reusing", "applying"}, NEW c \in Chain
    PROVE  /\ lock = p
           /\ mem[p][c] = Count(file, c, Len(file))
           /\ claims[p][c] # NoOne => ClaimedBy(file, c, Len(file), claims[p][c])
           /\ claims[p][c] # NoOne => c \in LocalChain /\ c \in keys[p]
           /\ claims[p][c] # NoOne => \E m \in 1 .. Len(file) :
                                         file[m].kind = "key" /\ file[m].chain = c
<1>1. /\ file \in Seq(Record) /\ Len(file) \in Nat
      /\ upto[p] \in Nat /\ upto[p] <= Len(file)
      /\ lock = p
      /\ HasRead(p)
      /\ OnlyKeysAfter(file, upto[p])
  BY LenProperties DEF IInv, TypeOK, Sound, View, Placed, Locked, Accurate
<1>2. \A n \in (upto[p] + 1) .. Len(file) :
          n \notin Holds(file, c) /\ ~ClaimAt(file, c, n)
  BY <1>1 DEF OnlyKeysAfter, Holds, ClaimAt, IsBundle, IsClaim
<1>3. mem[p][c] = Count(file, c, Len(file))
  <2>1. Count(file, c, upto[p]) = Count(file, c, Len(file))
    BY <1>1, <1>2, CountSame
  <2>2. QED
    BY <1>1, <2>1 DEF HasRead
<1>4. ASSUME claims[p][c] # NoOne
      PROVE  /\ ClaimedBy(file, c, Len(file), claims[p][c])
             /\ c \in LocalChain /\ c \in keys[p]
             /\ \E m \in 1 .. Len(file) : file[m].kind = "key" /\ file[m].chain = c
  <2>1. ClaimedBy(file, c, upto[p], claims[p][c])
    BY <1>1, <1>4 DEF HasRead
  <2>2. ClaimedBy(file, c, Len(file), claims[p][c])
    BY <1>1, <1>2, <2>1, ClaimStands
  <2>3. PICK n \in 1 .. upto[p] : ClaimAt(file, c, n)
    BY <2>1 DEF ClaimedBy
  <2>4. n \in 1 .. Len(file) /\ file[n].kind # "bundle" /\ file[n].chain = c /\ IsClaim(file[n])
    BY <1>1, <2>3 DEF ClaimAt, IsClaim
  <2>5. c \in LocalChain
    BY <2>4 DEF IInv, FileIsSound, OnlyLocalClaims
  <2>6. PICK m \in 1 .. Len(file) : m < n /\ file[m].kind = "key" /\ file[m].chain = c
    BY <2>4 DEF IInv, FileIsSound, KeyBeforeClaim
  <2>7. m \in 1 .. upto[p]
    BY <1>1, <2>6
  <2>8. c \in keys[p]
    BY <1>1, <2>6, <2>7 DEF HasRead
  <2>9. QED
    BY <2>2, <2>5, <2>6, <2>8
<1>5. QED
  BY <1>1, <1>3, <1>4

\* A write of p, as far as its place and the others are concerned.
LEMMA WritesByOne ==
    ASSUME TypeOK, NEW p \in Proc, NEW r \in Record, Writes(p, r)
    PROVE  /\ Extends(file', file, r)
           /\ upto' \in [Proc -> Nat] /\ tell' \in [Proc -> Nat]
           /\ upto'[p] = upto[p] + 1 /\ tell'[p] = Len(file) + 1
           /\ \A q \in Proc : q # p => upto'[q] = upto[q] /\ tell'[q] = tell[q]
           /\ alarm' \in [Proc -> BOOLEAN]
<1>1. Len(file) + 1 \in Nat
  BY LenProperties DEF TypeOK
<1>2. QED
  BY <1>1 DEF Writes, Extends, TypeOK

LEMMA ReuseChainIsSound ==
    ASSUME IInv, NEW p \in Proc, NEW c \in Chain, ReuseChain(p, c)
    PROVE  IInv'
<1> DEFINE r == [kind |-> "claim", chain |-> c, number |-> 0, by |-> p]
           g == file'
<1>1. r \in Record /\ r.chain = c /\ r.by = p /\ r.kind = "claim"
      /\ ~IsBundle(r) /\ IsClaim(r)
  BY DEF Record, IsBundle, IsClaim
<1>2. pc[p] = "reusing" /\ c \in Reusable(p) /\ Writes(p, r)
  BY DEF ReuseChain
<1>3. TypeOK /\ FileIsSound /\ \A q \in Proc : Sound(q)
  BY DEF IInv
<1> HIDE DEF r
<1>4. /\ Extends(g, file, r)
      /\ upto' \in [Proc -> Nat] /\ tell' \in [Proc -> Nat]
      /\ upto'[p] = upto[p] + 1 /\ tell'[p] = Len(file) + 1
      /\ \A q \in Proc : q # p => upto'[q] = upto[q] /\ tell'[q] = tell[q]
      /\ alarm' \in [Proc -> BOOLEAN]
  BY <1>1, <1>2, <1>3, WritesByOne
<1>5. /\ file \in Seq(Record) /\ Len(file) \in Nat
      /\ Len(file) \in 0 .. Len(file)
      /\ Len(g) = Len(file) + 1
      /\ g[Len(file) + 1] = r
  BY <1>1, <1>3, <1>4, Appended DEF TypeOK
<1>6. /\ claims[p][c] # NoOne
      /\ ~Up(claims[p][c])
      /\ \E n \in 1 .. Len(file) : file[n].kind = "start" /\ file[n].chain = c
  BY <1>2 DEF Reusable
<1>7. /\ lock = p
      /\ mem[p][c] = Count(file, c, Len(file))
      /\ ClaimedBy(file, c, Len(file), claims[p][c])
      /\ c \in LocalChain /\ c \in keys[p]
      /\ \E m \in 1 .. Len(file) : file[m].kind = "key" /\ file[m].chain = c
  BY <1>2, <1>6, LockedKnows
<1>8. mem[p][c] >= 1 /\ mem[p][c] \in Nat
  <2>1. PICK n \in 1 .. Len(file) : file[n].kind = "start" /\ file[n].chain = c
    BY <1>6
  <2>2. n \in Holds(file, c) /\ n <= Len(file)
    BY <1>5, <2>1 DEF Holds, IsBundle
  <2>3. QED
    BY <1>5, <1>7, <2>2, CountPositive, CountType
<1>9. file' \in Seq(Record) /\ FileIsSound'
  BY <1>1, <1>3, <1>4, <1>7, WrittenFile
<1>10. /\ claims' \in [Proc -> [Chain -> Proc \cup {NoOne}]]
       /\ claims'[p][c] = p
       /\ \A d \in Chain : d # c => claims'[p][d] = claims[p][d]
       /\ \A q \in Proc : q # p => claims'[q] = claims[q]
       /\ mem' = mem /\ keys' = keys /\ pending' = pending /\ silent' = silent
       /\ lock' = NoOne
       /\ pc' = [pc EXCEPT ![p] = "reused"]
       /\ link' = [link EXCEPT ![p] = [chain |-> c, number |-> mem[p][c]]]
  BY <1>3 DEF ReuseChain, Goes, TypeOK
<1>11. View(p)'
  <2>1. View(p)
    BY <1>3 DEF Sound
  <2>2. QED
    BY <1>1, <1>3, <1>4, <1>10, <2>1, WrittenView
<1>12. CopyTypeOK'
  BY <1>3, <1>4, <1>10 DEF CopyTypeOK, TypeOK
<1>13. [chain |-> c, number |-> mem[p][c]] \in Links
  BY <1>8 DEF Links
<1>14. /\ link' \in [Proc -> Links]
       /\ link'[p].chain = c /\ link'[p].number = mem[p][c]
       /\ link'[p] # NoLink
       /\ \A q \in Proc : q # p => link'[q] = link[q]
  BY <1>3, <1>8, <1>10, <1>13 DEF TypeOK, NoLink
<1>15. /\ pc' \in [Proc -> Places]
       /\ pc'[p] = "reused"
       /\ \A q \in Proc : q # p => pc'[q] = pc[q]
  BY <1>3, <1>10 DEF TypeOK, Places
<1>16. ASSUME NEW q \in Proc, q # p
       PROVE  /\ Same(q)
              /\ pc[q] \in {"reusing", "applying"} => lock' = q /\ r.kind = "key"
              /\ link[q] # NoLink => r.chain # link[q].chain
              /\ AboutToStart(q) => r.chain # pending[q].chain
  <2>1. Same(q)
    BY <1>4, <1>10, <1>14, <1>15, <1>16 DEF Same, SameCopy
  <2>2. pc[q] \notin {"reusing", "applying"}
    BY <1>3, <1>7, <1>16 DEF Sound, Locked
  <2>3. ASSUME link[q] # NoLink, c = link[q].chain
        PROVE  FALSE
    <3>1. ClaimedBy(file, c, Len(file), q) /\ Up(q)
      BY <1>3, <2>3 DEF Sound, OwnsLink
    <3>2. q = claims[p][c]
      BY <1>5, <1>7, <3>1, OneClaimant
    <3>3. QED
      BY <1>6, <3>1, <3>2
  <2>4. ASSUME AboutToStart(q), c = pending[q].chain
        PROVE  FALSE
    <3>1. OnlyKeyOf(file, c, q)
      BY <1>3, <2>4 DEF Sound, StartsNew, AboutToStart
    <3>2. QED
      BY <1>5, <1>7, <3>1, ClaimedIsNotNew
  <2>5. QED
    BY <1>1, <2>1, <2>2, <2>3, <2>4
<1>17. OwnsLink(p)'
  <2>1. Count(g, c, Len(g)) = Count(file, c, Len(file))
    BY <1>1, <1>4, <1>5, CountAppended
  <2>2. ClaimedBy(g, c, Len(g), p)
    <3>1. ClaimAt(g, c, Len(file) + 1) /\ g[Len(file) + 1].by = p
      BY <1>1, <1>5 DEF ClaimAt
    <3>2. Len(file) + 1 \in 1 .. Len(g) /\ ((Len(file) + 1) + 1) .. Len(g) = {}
      BY <1>5
    <3>3. QED
      BY <3>1, <3>2 DEF ClaimedBy
  <2>3. QED
    BY <1>7, <1>8, <1>10, <1>14, <1>15, <2>1, <2>2 DEF OwnsLink, Up
<1>18. HasLink(p)' /\ StartsNew(p)'
  BY <1>14, <1>15 DEF HasLink, StartsNew
<1>19. pending' \in [Proc -> Links] /\ lock' \in Proc \cup {NoOne}
  BY <1>3, <1>10 DEF TypeOK
<1>20. pc'[p] \notin {"down", "reusing", "applying"} /\ silent' = silent
  BY <1>10, <1>15
<1>21. /\ r \in Record /\ Extends(file', file, r)
       /\ file' \in Seq(Record) /\ FileIsSound' /\ View(p)'
       /\ CopyTypeOK' /\ silent' = silent
       /\ pc' \in [Proc -> Places] /\ pending' \in [Proc -> Links]
       /\ link' \in [Proc -> Links]
       /\ alarm' \in [Proc -> BOOLEAN] /\ lock' \in Proc \cup {NoOne}
  BY <1>1, <1>4, <1>9, <1>11, <1>12, <1>14, <1>15, <1>19, <1>20
<1>22. QED
  BY <1>16, <1>17, <1>18, <1>20, <1>21, WritingIsSound

LEMMA SaveSigningKeyIsSound ==
    ASSUME IInv, NEW p \in Proc, NEW c \in LocalChain, SaveSigningKey(p, c)
    PROVE  IInv'
<1> DEFINE r == [kind |-> "key", chain |-> c, number |-> 0, by |-> p]
           g == file'
<1>1. r \in Record /\ r.chain = c /\ r.by = p /\ r.kind = "key"
      /\ ~IsBundle(r) /\ ~IsClaim(r)
  BY DEF Record, IsBundle, IsClaim, Chain
<1>2. /\ pc[p] = "keying" /\ Writes(p, r)
      /\ \A n \in 1 .. Len(file) : file[n].chain # c
  BY DEF SaveSigningKey
<1>3. TypeOK /\ FileIsSound /\ \A q \in Proc : Sound(q)
  BY DEF IInv
<1> HIDE DEF r
<1>4. /\ Extends(g, file, r)
      /\ upto' \in [Proc -> Nat] /\ tell' \in [Proc -> Nat]
      /\ upto'[p] = upto[p] + 1 /\ tell'[p] = Len(file) + 1
      /\ \A q \in Proc : q # p => upto'[q] = upto[q] /\ tell'[q] = tell[q]
      /\ alarm' \in [Proc -> BOOLEAN]
  BY <1>1, <1>2, <1>3, WritesByOne
<1>5. /\ file \in Seq(Record) /\ Len(file) \in Nat
      /\ Len(g) = Len(file) + 1
      /\ \A n \in 1 .. Len(file) : g[n] = file[n]
      /\ g[Len(file) + 1] = r
  BY <1>1, <1>3, <1>4, Appended DEF TypeOK
<1>6. /\ mem' = mem /\ claims' = claims /\ link' = link /\ silent' = silent
      /\ lock' = lock
      /\ keys' \in [Proc -> SUBSET Chain]
      /\ keys'[p] = keys[p] \cup {c}
      /\ pending' \in [Proc -> Links]
      /\ pending'[p] = [chain |-> c, number |-> 1]
      /\ pc' \in [Proc -> Places]
      /\ pc'[p] = "starting"
      /\ \A q \in Proc : q # p =>
            keys'[q] = keys[q] /\ pending'[q] = pending[q] /\ pc'[q] = pc[q]
  BY <1>3 DEF SaveSigningKey, Goes, TypeOK, Places, Links, Chain
<1>7. file' \in Seq(Record) /\ FileIsSound'
  BY <1>1, <1>3, <1>4, WrittenFile
<1>8. View(p)'
  <2>1. View(p)
    BY <1>3 DEF Sound
  <2>2. QED
    BY <1>1, <1>3, <1>4, <1>6, <2>1, WrittenView
<1>9. CopyTypeOK'
  BY <1>3, <1>4, <1>6 DEF CopyTypeOK, TypeOK
<1>10. ASSUME NEW q \in Proc, link[q] # NoLink
       PROVE  r.chain # link[q].chain
  <2>1. ClaimedBy(file, link[q].chain, Len(file), q)
    BY <1>3, <1>10 DEF Sound, OwnsLink
  <2>2. \E n \in 1 .. Len(file) : file[n].chain = link[q].chain
    BY <2>1 DEF ClaimedBy, ClaimAt
  <2>3. QED
    BY <1>1, <1>2, <2>2
<1>11. ASSUME NEW q \in Proc, q # p
       PROVE  /\ Same(q)
              /\ pc[q] \in {"reusing", "applying"} => lock' = q /\ r.kind = "key"
              /\ link[q] # NoLink => r.chain # link[q].chain
              /\ AboutToStart(q) => r.chain # pending[q].chain
  <2>1. Same(q)
    BY <1>4, <1>6, <1>11 DEF Same, SameCopy
  <2>2. pc[q] \in {"reusing", "applying"} => lock' = q
    BY <1>3, <1>6 DEF Sound, Locked
  <2>3. ASSUME AboutToStart(q)
        PROVE  r.chain # pending[q].chain
    <3>1. OnlyKeyOf(file, pending[q].chain, q)
      BY <1>3, <2>3 DEF Sound, StartsNew, AboutToStart
    <3>2. QED
      BY <1>1, <1>2, <3>1 DEF OnlyKeyOf
  <2>4. QED
    BY <1>1, <1>10, <2>1, <2>2, <2>3
<1>12. OwnsLink(p)'
  <2>1. OwnsLink(p) /\ Up(p)'
    BY <1>3, <1>6 DEF Sound, Up
  <2>2. QED
    BY <1>1, <1>3, <1>4, <1>6, <1>10, <2>1, LinkAppended
<1>13. StartsNew(p)'
  <2>1. \A n \in 1 .. Len(g) : n \in 1 .. Len(file) \/ n = Len(file) + 1
    BY <1>5
  <2>2. Len(file) + 1 \in 1 .. Len(g)
    BY <1>5
  <2>3. OnlyKeyOf(g, c, p)
    BY <1>1, <1>2, <1>5, <2>1, <2>2 DEF OnlyKeyOf
  <2>4. QED
    BY <1>6, <2>3 DEF StartsNew
<1>14. HasLink(p)'
  BY <1>6 DEF HasLink
<1>15. /\ r \in Record /\ Extends(file', file, r)
       /\ CopyTypeOK' /\ silent' = silent
       /\ pc' \in [Proc -> Places] /\ pending' \in [Proc -> Links]
       /\ link' \in [Proc -> Links]
       /\ alarm' \in [Proc -> BOOLEAN] /\ lock' \in Proc \cup {NoOne}
       /\ pc'[p] \notin {"down", "reusing", "applying"}
  BY <1>1, <1>3, <1>4, <1>6, <1>9 DEF TypeOK
<1>16. QED
  BY <1>7, <1>8, <1>11, <1>12, <1>13, <1>14, <1>15, WritingIsSound

LEMMA AppliedIsSound ==
    ASSUME IInv, NEW p \in Proc, Applied(p)
    PROVE  IInv'
<1> DEFINE c == pending[p].chain
           i == pending[p].number
           Starts == i = 1 /\ c \in LocalChain
           r == [kind |-> IF Starts THEN "start" ELSE "bundle",
                 chain |-> c, number |-> i, by |-> p]
           g == file'
<1>1. /\ pc[p] = "applying" /\ is_needed(mem[p][c], i) /\ Writes(p, r)
      /\ mem' = [mem EXCEPT ![p][c] = i]
      /\ Starts => claims' = [claims EXCEPT ![p][c] = p]
      /\ ~Starts => claims' = claims
      /\ c \in LocalChain => link' = [link EXCEPT ![p] = pending[p]]
      /\ c \notin LocalChain => link' = link
      /\ lock' = NoOne
      /\ pc' = [pc EXCEPT ![p] = "clearing"]
      /\ keys' = keys /\ pending' = pending /\ silent' = silent
  BY DEF Applied, Goes
<1>2. TypeOK /\ FileIsSound /\ \A q \in Proc : Sound(q)
  BY DEF IInv
<1>3. /\ c \in Chain /\ i >= 1 /\ i \in Nat /\ pending[p] \in Links
      /\ pending[p] # NoLink
      /\ c \in LocalChain /\ i # 1 => link[p].chain = c /\ i = link[p].number + 1
  <2>1. pending[p] \in Links /\ i \in Nat
    BY <1>2 DEF TypeOK, Links, NoLink
  <2>2. AppliesNext(p)
    BY <1>2 DEF Sound
  <2>3. QED
    BY <1>1, <2>1, <2>2 DEF AppliesNext, NoLink
<1>4. /\ r \in Record /\ r.chain = c /\ r.by = p /\ r.number = i /\ IsBundle(r)
      /\ r.kind # "key"
      /\ r.kind # "bundle" => c \in LocalChain
      /\ IsClaim(r) <=> Starts
  BY <1>3 DEF Record, IsBundle, IsClaim
<1> HIDE DEF r
<1>5. /\ Extends(g, file, r)
      /\ upto' \in [Proc -> Nat] /\ tell' \in [Proc -> Nat]
      /\ upto'[p] = upto[p] + 1 /\ tell'[p] = Len(file) + 1
      /\ \A q \in Proc : q # p => upto'[q] = upto[q] /\ tell'[q] = tell[q]
      /\ alarm' \in [Proc -> BOOLEAN]
  BY <1>1, <1>2, <1>4, WritesByOne
<1>6. /\ file \in Seq(Record) /\ Len(file) \in Nat
      /\ Len(file) \in 0 .. Len(file)
      /\ Len(g) = Len(file) + 1
      /\ g[Len(file) + 1] = r
  BY <1>2, <1>4, <1>5, Appended DEF TypeOK
<1>7. lock = p /\ mem[p][c] = Count(file, c, Len(file)) /\ mem[p][c] \in Nat
  BY <1>1, <1>2, <1>3, LockedKnows DEF TypeOK, HasMaps
<1>8. i = mem[p][c] + 1
  BY <1>1, <1>3, <1>7 DEF is_needed, AlreadySeen, MissingPrior
<1>9. Starts => OnlyKeyOf(file, c, p) /\ c \in keys[p]
  BY <1>1, <1>2 DEF Sound, StartsNew
<1>10. c \in LocalChain /\ ~Starts =>
          /\ link[p] # NoLink /\ c \in keys[p]
          /\ ClaimedBy(file, c, Len(file), p)
  <2> SUFFICES ASSUME c \in LocalChain, ~Starts
               PROVE  /\ link[p] # NoLink /\ c \in keys[p]
                      /\ ClaimedBy(file, c, Len(file), p)
    OBVIOUS
  <2>1. link[p].chain = c /\ link[p] # NoLink
    BY <1>3, ConstantsAssumption DEF NoLink
  <2>2. OwnsLink(p)
    BY <1>2 DEF Sound
  <2>3. QED
    BY <2>1, <2>2 DEF OwnsLink
<1>11. /\ mem' \in [Proc -> HasMaps]
       /\ \A d \in Chain : mem'[p][d] = IF d = c THEN mem[p][d] + 1 ELSE mem[p][d]
       /\ \A q \in Proc : q # p => mem'[q] = mem[q]
  BY <1>1, <1>2, <1>3, <1>8 DEF TypeOK, HasMaps
<1>12. /\ claims' \in [Proc -> [Chain -> Proc \cup {NoOne}]]
       /\ Starts => claims'[p][c] = p
       /\ \A d \in Chain : ~(Starts /\ d = c) => claims'[p][d] = claims[p][d]
       /\ \A q \in Proc : q # p => claims'[q] = claims[q]
  <2>1. claims \in [Proc -> [Chain -> Proc \cup {NoOne}]]
    BY <1>2 DEF TypeOK
  <2>2. CASE Starts
    <3> HIDE DEF c, Starts
    <3>1. claims' = [claims EXCEPT ![p][c] = p] /\ c \in Chain
      BY <1>1, <1>3, <2>2
    <3>2. claims' \in [Proc -> [Chain -> Proc \cup {NoOne}]]
      BY <2>1, <3>1
    <3>3. QED
      BY <2>1, <2>2, <3>1, <3>2
  <2>3. CASE ~Starts
    BY <1>1, <2>1, <2>3
  <2>4. QED
    BY <2>2, <2>3
<1>13. /\ link' \in [Proc -> Links]
       /\ c \in LocalChain => link'[p] = pending[p]
       /\ c \notin LocalChain => link'[p] = link[p]
       /\ \A q \in Proc : q # p => link'[q] = link[q]
  BY <1>1, <1>2, <1>3 DEF TypeOK
<1>14. /\ pc' \in [Proc -> Places]
       /\ pc'[p] = "clearing"
       /\ \A q \in Proc : q # p => pc'[q] = pc[q]
  BY <1>1, <1>2 DEF TypeOK, Places
<1>15. file' \in Seq(Record) /\ FileIsSound'
  <2>1. IsClaim(r) => \E m \in 1 .. Len(file) :
                          file[m].kind = "key" /\ file[m].chain = r.chain
    BY <1>4, <1>9 DEF OnlyKeyOf
  <2>2. r.number = Count(file, r.chain, Len(file)) + 1
    BY <1>4, <1>7, <1>8
  <2>3. QED
    BY <1>2, <1>4, <1>5, <2>1, <2>2, WrittenFile
<1> HIDE DEF Starts
<1>16. View(p)'
  <2>1. View(p)
    BY <1>2 DEF Sound
  <2>2. \A d \in Chain :
              /\ IsBundle(r) /\ r.chain = d => mem'[p][d] = mem[p][d] + 1
              /\ ~(IsBundle(r) /\ r.chain = d) => mem'[p][d] = mem[p][d]
              /\ IsClaim(r) /\ r.chain = d => claims'[p][d] = p
              /\ ~(IsClaim(r) /\ r.chain = d) => claims'[p][d] = claims[p][d]
    BY <1>4, <1>11, <1>12
  <2>3. keys' = keys
    BY <1>1
  <2>4. QED
    BY <1>2, <1>4, <1>5, <2>1, <2>2, <2>3, WrittenView
<1>17. CopyTypeOK'
  BY <1>1, <1>2, <1>5, <1>11, <1>12 DEF CopyTypeOK, TypeOK
<1>18. ASSUME NEW q \in Proc, q # p
       PROVE  /\ Same(q)
              /\ pc[q] \in {"reusing", "applying"} => lock' = q /\ r.kind = "key"
              /\ link[q] # NoLink => r.chain # link[q].chain
              /\ AboutToStart(q) => r.chain # pending[q].chain
  <2>1. Same(q)
    BY <1>1, <1>5, <1>11, <1>12, <1>13, <1>14, <1>18 DEF Same, SameCopy
  <2>2. pc[q] \notin {"reusing", "applying"}
    BY <1>2, <1>7, <1>18 DEF Sound, Locked
  <2>3. ASSUME link[q] # NoLink, c = link[q].chain
        PROVE  FALSE
    <3>1. ClaimedBy(file, c, Len(file), q) /\ c \in LocalChain
      BY <1>2, <2>3 DEF Sound, OwnsLink
    <3>2. CASE Starts
      BY <1>6, <1>9, <3>1, <3>2, ClaimedIsNotNew
    <3>3. CASE ~Starts
      BY <1>6, <1>10, <1>18, <3>1, <3>3, OneClaimant
    <3>4. QED
      BY <3>2, <3>3
  <2>4. ASSUME AboutToStart(q), c = pending[q].chain
        PROVE  FALSE
    <3>1. OnlyKeyOf(file, c, q) /\ c \in LocalChain
      BY <1>2, <2>4 DEF Sound, StartsNew, AboutToStart
    <3>2. CASE Starts
      BY <1>9, <1>18, <3>1, <3>2, NewIsOnes
    <3>3. CASE ~Starts
      BY <1>6, <1>10, <3>1, <3>3, ClaimedIsNotNew
    <3>4. QED
      BY <3>2, <3>3
  <2>5. QED
    BY <1>4, <2>1, <2>2, <2>3, <2>4
<1>19. OwnsLink(p)'
  <2>1. CASE c \in LocalChain
    <3>1. Count(g, c, Len(g)) = Count(file, c, Len(file)) + 1
      BY <1>4, <1>5, <1>6, CountAppended
    <3>2. ClaimedBy(g, c, Len(g), p)
      <4>1. CASE Starts
        <5>1. ClaimAt(g, c, Len(file) + 1) /\ g[Len(file) + 1].by = p
          BY <1>4, <1>6, <4>1 DEF ClaimAt
        <5>2. Len(file) + 1 \in 1 .. Len(g) /\ ((Len(file) + 1) + 1) .. Len(g) = {}
          BY <1>6
        <5>3. QED
          BY <5>1, <5>2 DEF ClaimedBy
      <4>2. CASE ~Starts
        <5>1. ClaimedBy(file, c, Len(file), p)
          BY <1>10, <2>1, <4>2
        <5>2. \A n \in (Len(file) + 1) .. Len(g) : ~ClaimAt(g, c, n)
          BY <1>4, <1>6, <4>2 DEF ClaimAt
        <5>3. /\ file \in Seq(Record) /\ r \in Record /\ Extends(g, file, r)
              /\ Len(file) \in 0 .. Len(file)
              /\ Len(file) \in Nat /\ Len(g) \in Nat /\ Len(file) <= Len(g)
          BY <1>4, <1>5, <1>6
        <5> HIDE DEF c, g
        <5>4. ClaimedBy(g, c, Len(file), p)
          BY <5>1, <5>3, ClaimsAppended
        <5>5. QED
          BY <5>2, <5>3, <5>4, ClaimStands
      <4>3. QED
        BY <4>1, <4>2
    <3>3. c \in keys'[p]
      BY <1>1, <1>9, <1>10, <2>1
    <3>4. link'[p].chain = c /\ link'[p].number = i
      BY <1>13, <2>1
    <3>5. QED
      BY <1>3, <1>7, <1>8, <1>14, <2>1, <3>1, <3>2, <3>3, <3>4 DEF OwnsLink, Up
  <2>2. CASE c \notin LocalChain
    <3>1. OwnsLink(p) /\ Up(p)'
      BY <1>2, <1>14 DEF Sound, Up
    <3>2. link[p] # NoLink => r.chain # link[p].chain
      BY <1>4, <2>2, <3>1 DEF OwnsLink
    <3>3. link'[p] = link[p] /\ keys' = keys
      BY <1>1, <1>13, <2>2
    <3>4. QED
      BY <1>2, <1>4, <1>5, <3>1, <3>2, <3>3, LinkAppended
  <2>3. QED
    BY <2>1, <2>2
<1>20. HasLink(p)' /\ StartsNew(p)'
  BY <1>1, <1>3, <1>13, <1>14 DEF HasLink, StartsNew
<1>21. /\ r \in Record /\ Extends(file', file, r)
       /\ silent' = silent
       /\ pc' \in [Proc -> Places] /\ pending' \in [Proc -> Links]
       /\ link' \in [Proc -> Links]
       /\ alarm' \in [Proc -> BOOLEAN] /\ lock' \in Proc \cup {NoOne}
       /\ pc'[p] \notin {"down", "reusing", "applying"}
  BY <1>1, <1>2, <1>4, <1>5, <1>13, <1>14 DEF TypeOK
<1>22. QED
  BY <1>15, <1>16, <1>17, <1>18, <1>19, <1>20, <1>21, WritingIsSound
-----------------------------------------------------------------------------
(***************************************************************************)
(* The other actions.                                                      *)
(***************************************************************************)

LEMMA OpenIsSound ==
    ASSUME IInv, NEW p \in Proc, Open(p)
    PROVE  IInv'
<1>1. /\ TypeOK /\ Accurate(p) /\ lock = NoOne /\ file' = file /\ Loads(p, TRUE)
      /\ lock' = lock /\ pending' = pending /\ alarm' = alarm
      /\ pc' = [pc EXCEPT ![p] = "opening"]
  BY DEF Open, Goes, IInv, Sound, DownIsFresh
<1>2. /\ Refreshes(p) /\ link' = link
      /\ silent' \in [Proc -> SUBSET (Chain \X Nat)]
  BY <1>1, LoadsRefreshes
<1>3. /\ pc' \in [Proc -> Places] /\ pending' \in [Proc -> Links]
      /\ alarm' \in [Proc -> BOOLEAN] /\ lock' \in Proc \cup {NoOne}
      /\ pc'[p] = "opening"
      /\ \A q \in Proc : q # p => pc'[q] = pc[q] /\ pending'[q] = pending[q]
  BY <1>1 DEF TypeOK, Places
<1>4. HasLink(p)' /\ StartsNew(p)' /\ AppliesNext(p)'
  BY <1>3 DEF HasLink, StartsNew, AppliesNext
<1>5. QED
  BY <1>1, <1>2, <1>3, <1>4, ReadingIsSound

LEMMA ReadIsSound ==
    ASSUME IInv, NEW p \in Proc, Read(p) \/ OnStoreReady(p)
    PROVE  IInv'
<1>1. /\ TypeOK /\ Accurate(p) /\ lock = NoOne /\ file' = file
      /\ Loads(p, TRUE) \/ Loads(p, FALSE)
      /\ lock' = lock /\ pending' = pending /\ pc' = pc /\ pc[p] = "idle"
  BY DEF Read, OnStoreReady, IInv
<1>2. /\ Refreshes(p) /\ link' = link
      /\ silent' \in [Proc -> SUBSET (Chain \X Nat)]
  BY <1>1, LoadsRefreshes
<1>3. alarm' \in [Proc -> BOOLEAN]
  <2>1. alarm \in [Proc -> BOOLEAN]
    BY <1>1 DEF TypeOK
  <2>2. CASE Read(p)
    BY <2>1, <2>2 DEF Read
  <2>3. CASE OnStoreReady(p)
    <3> DEFINE b == ~\E n \in Unread(p) : IsBundle(file[n])
    <3>1. b \in BOOLEAN /\ alarm' = [alarm EXCEPT ![p] = b]
      BY <2>3 DEF OnStoreReady
    <3> HIDE DEF b
    <3>2. QED
      BY <2>1, <3>1
  <2>4. QED
    BY <2>2, <2>3
<1>4. /\ pc' \in [Proc -> Places] /\ pending' \in [Proc -> Links]
      /\ lock' \in Proc \cup {NoOne}
      /\ pc'[p] = "idle"
      /\ \A q \in Proc : q # p => pc'[q] = pc[q] /\ pending'[q] = pending[q]
  BY <1>1 DEF TypeOK, Places
<1>5. HasLink(p)' /\ StartsNew(p)' /\ AppliesNext(p)'
  BY <1>4 DEF HasLink, StartsNew, AppliesNext
<1>6. QED
  BY <1>1, <1>2, <1>3, <1>4, <1>5, ReadingIsSound

LEMMA BeginCommitIsSound ==
    ASSUME IInv, NEW p \in Proc, BeginCommit(p)
    PROVE  IInv'
<1>1. /\ TypeOK /\ Accurate(p) /\ lock = NoOne /\ file' = file /\ Loads(p, FALSE)
      /\ lock' = p /\ pending' = pending /\ alarm' = alarm
      /\ pc' = [pc EXCEPT ![p] = "reusing"]
  BY DEF BeginCommit, Goes, Locks, IInv
<1>2. /\ Refreshes(p) /\ link' = link
      /\ silent' \in [Proc -> SUBSET (Chain \X Nat)]
  BY <1>1, LoadsRefreshes
<1>3. /\ pc' \in [Proc -> Places] /\ pending' \in [Proc -> Links]
      /\ alarm' \in [Proc -> BOOLEAN] /\ lock' \in Proc \cup {NoOne}
      /\ pc'[p] = "reusing"
      /\ \A q \in Proc : q # p => pc'[q] = pc[q] /\ pending'[q] = pending[q]
  BY <1>1 DEF TypeOK, Places
<1>4. HasLink(p)' /\ StartsNew(p)' /\ AppliesNext(p)'
  BY <1>3 DEF HasLink, StartsNew, AppliesNext
<1>5. QED
  BY <1>1, <1>2, <1>3, <1>4, ReadingIsSound

LEMMA LookUpIsSound ==
    ASSUME IInv, NEW p \in Proc, LookUp(p)
    PROVE  IInv'
<1> DEFINE next == IF pc[p] = "reused" THEN "linked" ELSE "keying"
<1>1. /\ TypeOK /\ Accurate(p) /\ file' = file /\ pc[p] \in {"reused", "seeking"}
      /\ lock' = lock /\ pending' = pending /\ alarm' = alarm
      /\ pc' = [pc EXCEPT ![p] = next]
  BY DEF LookUp, Goes, IInv
<1>2. /\ pc' \in [Proc -> Places] /\ pending' \in [Proc -> Links]
      /\ alarm' \in [Proc -> BOOLEAN] /\ lock' \in Proc \cup {NoOne}
      /\ pc'[p] = next
      /\ pc'[p] \notin {"down", "reusing", "applying", "starting"}
      /\ \A q \in Proc : q # p => pc'[q] = pc[q] /\ pending'[q] = pending[q]
  BY <1>1 DEF TypeOK, Places
<1>3. pc[p] = "reused" => link[p] # NoLink
  BY DEF IInv, Sound, HasLink
<1>4. CASE Unread(p) = {}
  <2>1. UNCHANGED <<copy, link, silent>>
    BY <1>4 DEF LookUp
  <2>2. HasLink(p)'
    BY <1>2, <1>3, <2>1 DEF HasLink
  <2>3. \A q \in Proc : q # p /\ pc[q] \in {"reusing", "applying"} => lock' = q
    BY <1>1 DEF IInv, Sound, Locked
  <2>4. UNCHANGED <<file, copy, link, silent>> /\ pc[p] # "down"
    BY <1>1, <2>1
  <2>5. QED
    BY <1>2, <2>2, <2>3, <2>4, QuietIsSound
<1>5. CASE Unread(p) # {}
  <2>1. lock = NoOne /\ Loads(p, FALSE)
    BY <1>5 DEF LookUp
  <2>2. /\ Refreshes(p) /\ link' = link
        /\ silent' \in [Proc -> SUBSET (Chain \X Nat)]
    BY <1>1, <2>1, LoadsRefreshes
  <2>3. HasLink(p)' /\ StartsNew(p)' /\ AppliesNext(p)'
    BY <1>2, <1>3, <2>2 DEF HasLink, StartsNew, AppliesNext
  <2>4. QED
    BY <1>1, <1>2, <2>1, <2>2, <2>3, ReadingIsSound
<1>6. QED
  BY <1>4, <1>5

LEMMA StartChainIsSound ==
    ASSUME IInv, NEW p \in Proc, StartChain(p)
    PROVE  IInv'
<1>1. /\ TypeOK /\ Accurate(p) /\ lock = NoOne /\ file' = file /\ Loads(p, TRUE)
      /\ lock' = p /\ pending' = [pending EXCEPT ![p] = pending[p]] /\ alarm' = alarm
      /\ pc' = [pc EXCEPT ![p] = "applying"] /\ pc[p] = "starting"
  BY DEF StartChain, BeginApply, Goes, Locks, IInv
<1>2. /\ Refreshes(p) /\ link' = link
      /\ silent' \in [Proc -> SUBSET (Chain \X Nat)]
  BY <1>1, LoadsRefreshes
<1>3. /\ pc' \in [Proc -> Places] /\ pending' = pending /\ pending' \in [Proc -> Links]
      /\ alarm' \in [Proc -> BOOLEAN] /\ lock' \in Proc \cup {NoOne}
      /\ pc'[p] = "applying"
      /\ \A q \in Proc : q # p => pc'[q] = pc[q] /\ pending'[q] = pending[q]
  BY <1>1 DEF TypeOK, Places
<1>4. /\ pending[p].chain \in LocalChain
      /\ pending[p].number = 1
      /\ pending[p].chain \in keys[p]
      /\ OnlyKeyOf(file, pending[p].chain, p)
  BY <1>1 DEF IInv, Sound, StartsNew
<1>5. keys[p] \subseteq keys'[p]
  BY <1>1, <1>2, RefreshedCopy DEF IInv, Sound
<1>6. StartsNew(p)'
  BY <1>1, <1>3, <1>4, <1>5 DEF StartsNew
<1>7. HasLink(p)' /\ AppliesNext(p)'
  BY <1>3, <1>4 DEF HasLink, AppliesNext, Chain
<1>8. QED
  BY <1>1, <1>2, <1>3, <1>6, <1>7, ReadingIsSound

LEMMA CommitIsSound ==
    ASSUME IInv, NEW p \in Proc, Commit(p)
    PROVE  IInv'
<1> DEFINE bundle == [link[p] EXCEPT !.number = @ + 1]
<1>1. /\ TypeOK /\ Accurate(p) /\ lock = NoOne /\ file' = file /\ Loads(p, TRUE)
      /\ lock' = p /\ pending' = [pending EXCEPT ![p] = bundle] /\ alarm' = alarm
      /\ pc' = [pc EXCEPT ![p] = "applying"]
  BY DEF Commit, BeginApply, Goes, Locks, IInv
<1>2. link[p] # NoLink
  BY DEF Commit, IInv, Sound, HasLink
<1>3. link[p].chain \in LocalChain /\ link[p].number >= 1
  BY <1>2 DEF IInv, Sound, OwnsLink
<1>4. link[p] \in [chain : Chain, number : Nat]
  BY <1>1, <1>2 DEF TypeOK, Links
<1>5. /\ bundle \in Links
      /\ bundle.chain = link[p].chain
      /\ bundle.number = link[p].number + 1
      /\ bundle.number >= 1 /\ bundle.number # 1
  BY <1>3, <1>4 DEF Links
<1> HIDE DEF bundle
<1>6. /\ Refreshes(p) /\ link' = link
      /\ silent' \in [Proc -> SUBSET (Chain \X Nat)]
  BY <1>1, LoadsRefreshes
<1>7. /\ pc' \in [Proc -> Places] /\ pending' \in [Proc -> Links]
      /\ alarm' \in [Proc -> BOOLEAN] /\ lock' \in Proc \cup {NoOne}
      /\ pc'[p] = "applying" /\ pending'[p] = bundle
      /\ \A q \in Proc : q # p => pc'[q] = pc[q] /\ pending'[q] = pending[q]
  BY <1>1, <1>5 DEF TypeOK, Places
<1>8. HasLink(p)' /\ StartsNew(p)' /\ AppliesNext(p)'
  BY <1>3, <1>4, <1>5, <1>6, <1>7 DEF HasLink, StartsNew, AppliesNext
<1>9. QED
  BY <1>1, <1>6, <1>7, <1>8, ReadingIsSound

LEMMA ReceiveBundleIsSound ==
    ASSUME IInv, NEW p \in Proc, NEW c \in RemoteChain, NEW i \in 1 .. MaxBundles,
           ReceiveBundle(p, c, i)
    PROVE  IInv'
<1> DEFINE bundle == [chain |-> c, number |-> i]
<1>1. /\ TypeOK /\ Accurate(p) /\ lock = NoOne /\ file' = file /\ Loads(p, TRUE)
      /\ lock' = p /\ pending' = [pending EXCEPT ![p] = bundle] /\ alarm' = alarm
      /\ pc' = [pc EXCEPT ![p] = "applying"]
  BY DEF ReceiveBundle, BeginApply, Goes, Locks, IInv
<1>2. /\ bundle \in Links
      /\ bundle.chain \in Chain /\ bundle.chain \notin LocalChain
      /\ bundle.number >= 1
  BY ConstantsAssumption DEF Links, Chain
<1> HIDE DEF bundle
<1>3. /\ Refreshes(p) /\ link' = link
      /\ silent' \in [Proc -> SUBSET (Chain \X Nat)]
  BY <1>1, LoadsRefreshes
<1>4. /\ pc' \in [Proc -> Places] /\ pending' \in [Proc -> Links]
      /\ alarm' \in [Proc -> BOOLEAN] /\ lock' \in Proc \cup {NoOne}
      /\ pc'[p] = "applying" /\ pending'[p] = bundle
      /\ \A q \in Proc : q # p => pc'[q] = pc[q] /\ pending'[q] = pending[q]
  BY <1>1, <1>2 DEF TypeOK, Places
<1>5. HasLink(p)' /\ StartsNew(p)' /\ AppliesNext(p)'
  BY <1>2, <1>4 DEF HasLink, StartsNew, AppliesNext
<1>6. QED
  BY <1>1, <1>3, <1>4, <1>5, ReadingIsSound

\* The actions that move a process on and touch nothing else but the lock,
\* the bundle in hand and the notifications.
LEMMA MovingOnIsSound ==
    ASSUME IInv, NEW p \in Proc,
           \/ Watch(p) \/ NoChainToReuse(p) \/ AlreadyApplied(p)
           \/ ClearNotifications(p) \/ CommitRaises(p)
    PROVE  IInv'
<1>1. TypeOK /\ \A q \in Proc : Sound(q)
  BY DEF IInv
<1>2. \A q \in Proc : pc[q] \in {"reusing", "applying"} => lock = q /\ Accurate(q)
  BY <1>1 DEF Sound, Locked
<1>3. NoOne \notin Proc /\ lock \in Proc \cup {NoOne}
  BY <1>1, ConstantsAssumption DEF TypeOK
<1>4. CASE Watch(p)
  <2>1. /\ UNCHANGED <<file, copy, link, silent>>
        /\ pc' = [pc EXCEPT ![p] = "idle"] /\ pc[p] = "opening"
        /\ pending' = pending /\ alarm' = alarm /\ lock' = lock
    BY <1>4 DEF Watch, Goes
  <2>2. /\ pc' \in [Proc -> Places] /\ pending' \in [Proc -> Links]
        /\ alarm' \in [Proc -> BOOLEAN] /\ lock' \in Proc \cup {NoOne}
        /\ \A q \in Proc : q # p => pc'[q] = pc[q] /\ pending'[q] = pending[q]
        /\ pc'[p] = "idle"
    BY <1>1, <2>1 DEF TypeOK, Places
  <2>3. HasLink(p)'
    BY <2>2 DEF HasLink
  <2>4. QED
    BY <1>2, <2>1, <2>2, <2>3, QuietIsSound
<1>5. CASE NoChainToReuse(p)
  <2>1. /\ UNCHANGED <<file, copy, link, silent>>
        /\ pc' = [pc EXCEPT ![p] = "seeking"] /\ pc[p] = "reusing"
        /\ pending' = pending /\ alarm' = alarm /\ lock' = NoOne
    BY <1>5 DEF NoChainToReuse, Goes
  <2>2. /\ pc' \in [Proc -> Places] /\ pending' \in [Proc -> Links]
        /\ alarm' \in [Proc -> BOOLEAN] /\ lock' \in Proc \cup {NoOne}
        /\ \A q \in Proc : q # p => pc'[q] = pc[q] /\ pending'[q] = pending[q]
        /\ pc'[p] = "seeking"
    BY <1>1, <2>1 DEF TypeOK, Places
  <2>3. HasLink(p)'
    BY <2>2 DEF HasLink
  <2>4. \A q \in Proc : q # p => pc[q] \notin {"reusing", "applying"}
    BY <1>2, <2>1
  <2>5. QED
    BY <2>1, <2>2, <2>3, <2>4, QuietIsSound
<1>6. CASE AlreadyApplied(p)
  <2>1. /\ UNCHANGED <<file, copy, link, silent>>
        /\ pc' = [pc EXCEPT ![p] = "clearing"] /\ pc[p] = "applying"
        /\ pending' = pending /\ alarm' = alarm /\ lock' = NoOne
        /\ mem[p][pending[p].chain] >= pending[p].number
    BY <1>6 DEF AlreadyApplied, Goes, AlreadySeen
  <2>2. /\ pc' \in [Proc -> Places] /\ pending' \in [Proc -> Links]
        /\ alarm' \in [Proc -> BOOLEAN] /\ lock' \in Proc \cup {NoOne}
        /\ \A q \in Proc : q # p => pc'[q] = pc[q] /\ pending'[q] = pending[q]
        /\ pc'[p] = "clearing"
    BY <1>1, <2>1 DEF TypeOK, Places
  <2>3. ~(pending[p].chain \in LocalChain /\ pending[p].number = 1)
    <3> SUFFICES ASSUME pending[p].chain \in LocalChain, pending[p].number = 1
                 PROVE  FALSE
      OBVIOUS
    <3> DEFINE c == pending[p].chain
    <3>1. OnlyKeyOf(file, c, p) /\ c \in Chain
      BY <1>1, <2>1 DEF Sound, StartsNew, Chain
    <3>2. \A n \in 1 .. Len(file) : n \notin Holds(file, c)
      BY <3>1 DEF OnlyKeyOf, Holds, IsBundle
    <3>3. file \in Seq(Record) /\ Len(file) \in Nat
      BY <1>1, LenProperties DEF TypeOK
    <3>4. Count(file, c, Len(file)) = 0
      BY <3>2, <3>3, CountNone
    <3>5. mem[p][c] = 0
      BY <2>1, <3>1, <3>4, LockedKnows
    <3>6. QED
      BY <2>1, <3>5
  <2>4. HasLink(p)'
    BY <2>1, <2>2, <2>3 DEF HasLink
  <2>5. \A q \in Proc : q # p => pc[q] \notin {"reusing", "applying"}
    BY <1>2, <2>1
  <2>6. QED
    BY <2>1, <2>2, <2>4, <2>5, QuietIsSound
<1>7. CASE ClearNotifications(p)
  <2> DEFINE next == IF pending[p].chain \in LocalChain /\ pending[p].number = 1
                     THEN "linked" ELSE "idle"
  <2>1. /\ UNCHANGED <<file, copy, link, silent>>
        /\ pc' = [pc EXCEPT ![p] = next] /\ pc[p] = "clearing"
        /\ pending' = [pending EXCEPT ![p] = NoLink]
        /\ alarm' = [alarm EXCEPT ![p] = FALSE] /\ lock' = lock
    BY <1>7 DEF ClearNotifications, Goes
  <2>2. /\ pc' \in [Proc -> Places]
        /\ lock' \in Proc \cup {NoOne}
        /\ \A q \in Proc : q # p => pc'[q] = pc[q] /\ pending'[q] = pending[q]
        /\ pc'[p] = next /\ next \in {"linked", "idle"}
    BY <1>1, <2>1 DEF TypeOK, Places
  <2>3. pending' \in [Proc -> Links] /\ alarm' \in [Proc -> BOOLEAN]
    BY <1>1, <2>1 DEF TypeOK, Links
  <2>4. next = "linked" => link[p] # NoLink
    BY <1>1, <2>1 DEF Sound, HasLink
  <2>5. HasLink(p)'
    BY <2>1, <2>2, <2>4 DEF HasLink
  <2> HIDE DEF next
  <2>6. QED
    BY <1>2, <2>1, <2>2, <2>3, <2>5, QuietIsSound
<1>8. CASE CommitRaises(p)
  <2>1. /\ UNCHANGED <<file, copy, link, silent>>
        /\ pc' = [pc EXCEPT ![p] = "stuck"]
        /\ pc[p] \in {"starting", "linked", "idle", "reused", "seeking"}
        /\ pending' = pending /\ alarm' = alarm
        /\ \/ lock' = lock
           \/ lock = NoOne /\ lock' = p
    BY <1>8 DEF CommitRaises, Goes, Locks
  <2>2. /\ pc' \in [Proc -> Places] /\ pending' \in [Proc -> Links]
        /\ alarm' \in [Proc -> BOOLEAN] /\ lock' \in Proc \cup {NoOne}
        /\ \A q \in Proc : q # p => pc'[q] = pc[q] /\ pending'[q] = pending[q]
        /\ pc'[p] = "stuck"
    BY <1>1, <2>1 DEF TypeOK, Places
  <2>3. HasLink(p)'
    BY <2>2 DEF HasLink
  <2>4. \A q \in Proc : pc[q] \in {"reusing", "applying"} => lock' = q
    BY <1>2, <1>3, <2>1
  <2>5. QED
    BY <2>1, <2>2, <2>3, <2>4, QuietIsSound
<1>9. QED
  BY <1>4, <1>5, <1>6, <1>7, <1>8

LEMMA InitIsSound == Init => IInv
<1> SUFFICES ASSUME Init
             PROVE  IInv
  OBVIOUS
<1>1. TypeOK
  <2>1. EmptyMap \in HasMaps /\ NoClaims \in [Chain -> Proc \cup {NoOne}] /\ NoLink \in Links
    BY DEF EmptyMap, HasMaps, NoClaims, Links
  <2>2. file \in Seq(Record)
    BY DEF Init
  <2>3. QED
    BY <2>1, <2>2 DEF Init, TypeOK, Places
<1>2. file \in Seq(Record) /\ Len(file) = 0
  BY DEF Init
<1>3. FileIsSound
  BY <1>2 DEF FileIsSound, InOrder, OnlyLocalClaims, KeyBeforeClaim, Holds
<1>4. ASSUME NEW p \in Proc
      PROVE  Sound(p)
  <2>1. /\ upto[p] = 0 /\ tell[p] = 0 /\ pc[p] = "down" /\ link[p] = NoLink
        /\ \A c \in Chain : mem[p][c] = 0 /\ claims[p][c] = NoOne
    BY DEF Init, EmptyMap, NoClaims
  <2>2. ASSUME NEW c \in Chain
        PROVE  Count(file, c, 0) = 0
    <3>1. 0 \in Nat /\ \A n \in 1 .. 0 : n \notin Holds(file, c)
      OBVIOUS
    <3>2. QED
      BY <1>2, <3>1, CountNone
  <2>3. View(p)
    BY <1>2, <2>1, <2>2 DEF View, Placed, HoldsLogged, HasRead, Unclaimed
  <2>4. QED
    BY <2>1, <2>3 DEF Sound, Locked, OwnsLink, HasLink, DownIsFresh, Accurate,
                      StartsNew, AppliesNext
<1>5. QED
  BY <1>1, <1>3, <1>4 DEF IInv

LEMMA NextIsSound == IInv /\ [Next]_vars => IInv'
<1> SUFFICES ASSUME IInv, [Next]_vars
             PROVE  IInv'
  OBVIOUS
<1>1. CASE UNCHANGED vars
  <2>1. /\ file' = file /\ lock' = lock /\ pc' = pc /\ upto' = upto /\ tell' = tell
        /\ mem' = mem /\ claims' = claims /\ keys' = keys /\ link' = link
        /\ pending' = pending /\ alarm' = alarm /\ silent' = silent
    BY <1>1 DEF vars, copy
  <2>2. TypeOK' /\ FileIsSound'
    BY <2>1 DEF IInv, TypeOK, FileIsSound
  <2>3. ASSUME NEW q \in Proc
        PROVE  Sound(q)'
    <3>1. Same(q)
      BY <2>1 DEF Same, SameCopy
    <3>2. pc[q] \in {"reusing", "applying"} => lock' = q
      BY <2>1 DEF IInv, Sound, Locked
    <3>3. QED
      BY <2>1, <3>1, <3>2, OthersKept DEF IInv
  <2>4. QED
    BY <2>2, <2>3 DEF IInv
<1>2. CASE Next
  <2>1. PICK p \in Proc : Step(p)
    BY <1>2 DEF Next
  <2>2. CASE Open(p)
    BY <2>2, OpenIsSound
  <2>3. CASE Watch(p) \/ NoChainToReuse(p) \/ AlreadyApplied(p)
             \/ ClearNotifications(p) \/ CommitRaises(p)
    BY <2>3, MovingOnIsSound
  <2>4. CASE Read(p) \/ OnStoreReady(p)
    BY <2>4, ReadIsSound
  <2>5. CASE BeginCommit(p)
    BY <2>5, BeginCommitIsSound
  <2>6. CASE \E c \in Chain : ReuseChain(p, c)
    BY <2>6, ReuseChainIsSound
  <2>7. CASE LookUp(p)
    BY <2>7, LookUpIsSound
  <2>8. CASE \E c \in LocalChain : SaveSigningKey(p, c)
    BY <2>8, SaveSigningKeyIsSound
  <2>9. CASE StartChain(p)
    BY <2>9, StartChainIsSound
  <2>10. CASE Commit(p)
    BY <2>10, CommitIsSound
  <2>11. CASE \E c \in RemoteChain, i \in 1 .. MaxBundles : ReceiveBundle(p, c, i)
    BY <2>11, ReceiveBundleIsSound
  <2>12. CASE Applied(p)
    BY <2>12, AppliedIsSound
  <2>13. CASE LoopRaises(p) \/ Crash(p)
    BY <2>13, DeadIsSound DEF LoopRaises, Crash
  <2>14. QED
    BY <2>1, <2>2, <2>3, <2>4, <2>5, <2>6, <2>7, <2>8, <2>9, <2>10, <2>11, <2>12, <2>13
       DEF Step
<1>3. QED
  BY <1>1, <1>2
-----------------------------------------------------------------------------
(***************************************************************************)
(* The theorems.                                                           *)
(***************************************************************************)

LEMMA AlwaysSound == Spec => []IInv
BY InitIsSound, NextIsSound, PTL DEF Spec

\* Types: in particular what a process reads, adds and claims are records
\* of the file, and the bundle it is adding is one of a chain.
THEOREM TypesAreRight == Spec => []TypeOK
<1>1. IInv => TypeOK
  BY DEF IInv
<1>2. QED
  BY <1>1, AlwaysSound, PTL

\* maybe_reuse_chain never takes over a chain that a running process still
\* extends, and no two processes start the same one.
THEOREM ChainsHaveOneWriter == Spec => []OneWriterPerChain
<1>1. IInv => OneWriterPerChain
  <2> SUFFICES ASSUME IInv, NEW p \in Proc, NEW q \in Proc,
                      link[p] # NoLink, link[p].chain = link[q].chain
               PROVE  p = q
    BY DEF OneWriterPerChain
  <2>1. link[p].chain \in Chain
    BY DEF IInv, Sound, OwnsLink, Chain
  <2>2. link[q] # NoLink
    BY <2>1, ConstantsAssumption DEF NoLink
  <2>3. QED
    BY <2>2, LinkIsOnes DEF IInv
<1>2. QED
  BY <1>1, AlwaysSound, PTL

\* The "previous" of the next commit is the last bundle of its chain in the
\* file, and the key to sign it with has been read.
THEOREM LinksAreEnds == Spec => []LinkIsTheEnd
<1>1. IInv => LinkIsTheEnd
  <2> SUFFICES ASSUME IInv, NEW p \in Proc, link[p] # NoLink
               PROVE  /\ link[p].number = Cardinality(BundlesOf(link[p].chain))
                      /\ link[p].chain \in keys[p]
    BY DEF LinkIsTheEnd
  <2>1. /\ link[p].number = Count(file, link[p].chain, Len(file))
        /\ link[p].chain \in keys[p]
    BY DEF IInv, Sound, OwnsLink
  <2>2. Count(file, link[p].chain, Len(file)) = Cardinality(Holds(file, link[p].chain))
    BY CountAll DEF IInv, TypeOK
  <2>3. QED
    BY <2>1, <2>2 DEF BundlesOf, Holds
<1>2. QED
  BY <1>1, AlwaysSound, PTL

\* Opening the file never finds a bundle without its predecessor.
THEOREM FileHoldsChains == Spec => []FileIsChains
<1>1. IInv => FileIsChains
  <2> SUFFICES ASSUME IInv, NEW c \in Chain, NEW n \in BundlesOf(c)
               PROVE  file[n].number = Cardinality({m \in BundlesOf(c) : m <= n})
    BY DEF FileIsChains
  <2>1. BundlesOf(c) = Holds(file, c)
    BY DEF BundlesOf, Holds
  <2>2. file[n].number = Count(file, c, n)
    BY <2>1 DEF IInv, FileIsSound, InOrder
  <2>3. QED
    BY <2>1, <2>2 DEF Count
<1>2. QED
  BY <1>1, AlwaysSound, PTL

\* What a process holds is in the file, and while it has its place it holds
\* just what lies before it.
THEOREM MemoryIsInTheFile == Spec => []MemoryIsLogged
<1>1. IInv => MemoryIsLogged
  <2> SUFFICES ASSUME IInv, NEW p \in Proc, NEW c \in Chain
               PROVE  /\ mem[p][c] <= Cardinality(BundlesOf(c))
                      /\ Accurate(p) =>
                           mem[p][c] = Cardinality({n \in BundlesOf(c) : n <= upto[p]})
    BY DEF MemoryIsLogged
  <2>1. BundlesOf(c) = Holds(file, c)
    BY DEF BundlesOf, Holds
  <2>2. Count(file, c, Len(file)) = Cardinality(Holds(file, c))
    BY CountAll DEF IInv, TypeOK
  <2>3. /\ mem[p][c] <= Count(file, c, Len(file))
        /\ Accurate(p) => mem[p][c] = Count(file, c, upto[p])
    BY DEF IInv, Sound, View, HoldsLogged, HasRead
  <2>4. QED
    BY <2>1, <2>2, <2>3 DEF Count
<1>2. QED
  BY <1>1, AlwaysSound, PTL
=============================================================================
