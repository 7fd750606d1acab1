-------------------------- MODULE KeyedStoreProofs --------------------------
(***************************************************************************)
(* Proofs about KeyedStore, for any instances, stores, keys and times: the *)
(* last writer wins as of every time whose history is kept, and            *)
(* drop_history meets no removal that it cannot carry out.                 *)
(*                                                                         *)
(* The parts of the inductive invariant speak of a store as it is: A are   *)
(* the changes it has received, H the entries and C the clearances it      *)
(* holds, R its removals.                                                  *)
(***************************************************************************)
EXTENDS KeyedStore, FiniteSetTheorems, WellFoundedInduction, TLAPS

\* A time names one change.
OnePerTime(S) == \A ch, other \in S : ch.time = other.time => ch = other

IssuedSound == OnePerTime(issued) /\ \A r \in Replica : applied[r] \subseteq issued

\* What a store holds it has received; a memory store keeps every clearance.
HeldIsReceived(A, H) ==
    \A e \in H : \E ch \in A : ch.type = "entry" /\ ch.time = e.time /\ ch.key = e.key

ClearsAreReceived(A, C) == \A t \in C : \E ch \in A : ch.type = "clear" /\ ch.time = t

ClearsAreHeld(A, C) == \A ch \in A : ch.type = "clear" => ch.time \in C

\* What a store has received it holds, unless a later change of the kind came by
\* the time up to which history was dropped.
EntriesKept(A, H, upto) ==
    \A ch \in A : ch.type = "entry" =>
        \/ \E e \in H : e.time = ch.time /\ e.key = ch.key
        \/ \E later \in A : /\ later.type = "entry"
                            /\ later.key = ch.key
                            /\ ch.time < later.time
                            /\ later.time <= upto

ClearsKept(A, C, upto) ==
    \A ch \in A : ch.type = "clear" =>
        ch.time \in C \/ \E t \in C : ch.time < t /\ t <= upto

\* A removal leads from an entry that is held to a later one that is held, and it
\* is the only one of its entry.
Supersede(H, rm) ==
    \E a, b \in H : /\ a.time = rm.removing
                    /\ b.time = rm.movement
                    /\ a.key = b.key
                    /\ a.time < b.time

Linked(H, R) ==
    /\ \A rm \in R : Supersede(H, rm)
    /\ \A rm, other \in R : rm.removing = other.removing => rm = other

OnTime(A, now) == \A ch \in A : ch.time < now

\* What holds while changes arrive on time.
Orderly(impl, A, H, R, T, retain, now) ==
    /\ Linked(H, R)
    /\ OnTime(A, now)
    /\ ~retain => R = {}
    /\ impl = "lmdb" => T = R

\* A store; T are the removals by time.
SoundStore(impl, A, H, R, T, C, retain, now, order, upto) ==
    /\ HeldIsReceived(A, H)
    /\ ClearsAreReceived(A, C)
    /\ impl = "memory" => ClearsAreHeld(A, C)
    /\ upto = 0 \/ order => EntriesKept(A, H, upto) /\ ClearsKept(A, C, upto)
    /\ order => Orderly(impl, A, H, R, T, retain, now)

Sound(r) ==
    SoundStore(Impl[r], applied[r], held[r], removals[r], removalsByTime[r],
               clearances[r], retaining[r], clock[r], orderly[r], horizon[r])

IInv == TypeOK /\ IssuedSound /\ \A r \in Replica : Sound(r)
-----------------------------------------------------------------------------
(***************************************************************************)
(* The last of some times, changes or entries.                             *)
(***************************************************************************)

\* A set of times that is not empty has a last one.
LEMMA LastTime ==
    ASSUME NEW S, S \subseteq Time, S # {}
    PROVE  \E t \in S : \A u \in S : u <= t
<1> DEFINE T == {MaxTime - t : t \in S}
<1>1. MaxTime \in Nat /\ S \subseteq 1 .. MaxTime
  BY ConstantsAssumption DEF Time
<1>2. T \subseteq Nat /\ T # {}
  <2>1. ASSUME NEW t \in S
        PROVE  MaxTime - t \in Nat
    BY <1>1
  <2>2. QED
    BY <2>1
<1>3. PICK x \in T : \A y \in T : ~(<<y, x>> \in OpToRel(<, Nat))
  <2> HIDE DEF T
  <2> QED
    BY <1>2, NatLessThanWellFounded, WFMin
<1>4. \A y \in T : ~(y < x)
  BY <1>2, <1>3 DEF OpToRel
<1>5. PICK t \in S : x = MaxTime - t
  OBVIOUS
<1>6. ASSUME NEW u \in S
      PROVE  u <= t
  <2>1. MaxTime - u \in T
    OBVIOUS
  <2>2. ~(MaxTime - u < MaxTime - t)
    BY <1>4, <1>5, <2>1
  <2>3. QED
    BY <1>1, <2>2
<1>7. QED
  BY <1>6

\* A set of things with times has a last one, and it is Latest if no other thing
\* has its time.
LEMMA LastExists ==
    ASSUME NEW S, \A x \in S : x.time \in Time, S # {}
    PROVE  \E x \in S : \A y \in S : y.time <= x.time
<1> DEFINE T == {x.time : x \in S}
<1>1. T \subseteq Time /\ T # {}
  OBVIOUS
<1>2. PICK t \in T : \A u \in T : u <= t
  <2> HIDE DEF T
  <2> QED
    BY <1>1, LastTime
<1>3. QED
  BY <1>2

LEMMA LatestIs ==
    ASSUME NEW S, \A x \in S : x.time \in Time, OnePerTime(S), NEW x \in S
    PROVE  x = Latest(S) <=> \A y \in S : y.time <= x.time
<1>1. Latest(S) \in S /\ \A y \in S : y.time <= Latest(S).time
  BY LastExists DEF Latest
<1>2. ASSUME \A y \in S : y.time <= x.time
      PROVE  x = Latest(S)
  <2>1. PICK z : z = Latest(S)
    OBVIOUS
  <2>2. z.time <= x.time /\ x.time <= z.time /\ z \in S
    BY <1>1, <1>2, <2>1
  <2>3. z.time \in Nat /\ x.time \in Nat
    BY <2>2, ConstantsAssumption DEF Time
  <2>4. z.time = x.time
    BY <2>2, <2>3
  <2>5. QED
    BY <2>1, <2>2, <2>4 DEF OnePerTime
<1>3. QED
  BY <1>1, <1>2

\* The later of two times.
LEMMA MaxOfTwo ==
    ASSUME NEW a \in Nat, NEW b \in Nat
    PROVE  Max({a, b}) \in {a, b} /\ a <= Max({a, b}) /\ b <= Max({a, b})
<1>1. \E x \in {a, b} : \A y \in {a, b} : x >= y
  OBVIOUS
<1>2. Max({a, b}) \in {a, b} /\ \A y \in {a, b} : Max({a, b}) >= y
  BY <1>1 DEF Max
<1>3. QED
  BY <1>2

LEMMA TimeIsNat == Time \subseteq Nat \ {0} /\ \A t \in Time : t < Ever
BY ConstantsAssumption DEF Time, Ever

-----------------------------------------------------------------------------
(***************************************************************************)
(* What a change does to a sound store.                                    *)
(***************************************************************************)

\* A change that is new to a store with the changes A, and one that is later than
\* them all.
Fresh(A, ch) == ch \in Change /\ \A other \in A : other.time # ch.time

Newest(A, ch) == \A other \in A : other.time < ch.time

\* The entry that _add_entry enters, and the entries F that it supersedes.
EntryOf(ch) == [time |-> ch.time, key |-> ch.key]

Superseded(H, F, k) ==
    /\ F \subseteq H
    /\ \A e \in F : e.key = k /\ \A x \in H : x.key = k => x.time <= e.time

LEMMA EntryOfIs ==
    ASSUME NEW ch \in Change, ch.type = "entry"
    PROVE  /\ EntryOf(ch) \in Entry
           /\ EntryOf(ch).time = ch.time
           /\ EntryOf(ch).key = ch.key
BY DEF Change, EntryOf, Entry

\* Times of what a store holds are those of changes, so they are as unique.
LEMMA HeldTimes ==
    ASSUME NEW A, OnePerTime(A), NEW H, H \subseteq Entry, HeldIsReceived(A, H)
    PROVE  OnePerTime(H)
<1> SUFFICES ASSUME NEW a \in H, NEW b \in H, a.time = b.time
             PROVE  a = b
  BY DEF OnePerTime
<1>1. PICK ch \in A : ch.type = "entry" /\ ch.time = a.time /\ ch.key = a.key
  BY DEF HeldIsReceived
<1>2. PICK other \in A : other.type = "entry" /\ other.time = b.time /\ other.key = b.key
  BY DEF HeldIsReceived
<1>3. ch = other
  BY <1>1, <1>2 DEF OnePerTime
<1>4. QED
  BY <1>1, <1>2, <1>3 DEF Entry

\* An entry with history: nothing is forgotten.
LEMMA EntryKept ==
    ASSUME NEW A, NEW H, NEW ch \in Change, ch.type = "entry",
           NEW upto, EntriesKept(A, H, upto)
    PROVE  EntriesKept(A \cup {ch}, H \cup {EntryOf(ch)}, upto)
BY EntryOfIs DEF EntriesKept

\* An entry without history: what it supersedes is older, and it is no later than
\* the new horizon.
LEMMA EntryReplaced ==
    ASSUME NEW A, A \subseteq Change, NEW H, H \subseteq Entry,
           OnePerTime(A), HeldIsReceived(A, H),
           NEW ch \in Change, ch.type = "entry", Newest(A, ch),
           NEW F, F \subseteq H, \A e \in F : e.key = ch.key,
           NEW upto \in Nat, NEW upto1 \in Nat, upto <= upto1, ch.time <= upto1,
           EntriesKept(A, H, upto)
    PROVE  EntriesKept(A \cup {ch}, (H \ F) \cup {EntryOf(ch)}, upto1)
<1> SUFFICES ASSUME NEW x \in A, x.type = "entry"
             PROVE  \/ \E e \in (H \ F) \cup {EntryOf(ch)} :
                           e.time = x.time /\ e.key = x.key
                    \/ \E later \in A \cup {ch} :
                           /\ later.type = "entry"
                           /\ later.key = x.key
                           /\ x.time < later.time
                           /\ later.time <= upto1
  BY EntryOfIs DEF EntriesKept
<1>1. CASE \E e \in H : e.time = x.time /\ e.key = x.key
  <2>1. PICK e \in H : e.time = x.time /\ e.key = x.key
    BY <1>1
  <2>2. CASE e \in F
    BY <2>1, <2>2 DEF Newest
  <2>3. CASE e \notin F
    BY <2>1, <2>3
  <2>4. QED
    BY <2>2, <2>3
<1>2. CASE \E later \in A : /\ later.type = "entry"
                            /\ later.key = x.key
                            /\ x.time < later.time
                            /\ later.time <= upto
  <2>1. PICK later \in A : /\ later.type = "entry"
                           /\ later.key = x.key
                           /\ x.time < later.time
                           /\ later.time <= upto
    BY <1>2
  <2>2. later.time \in Nat
    BY TimeIsNat DEF Change
  <2>3. later.time <= upto1
    BY <2>1, <2>2
  <2>4. QED
    BY <2>1, <2>3
<1>3. QED
  BY <1>1, <1>2 DEF EntriesKept

\* The removals that an entry brings, with history.
LEMMA EntryLinked ==
    ASSUME NEW A, NEW H, H \subseteq Entry, OnePerTime(H), HeldIsReceived(A, H),
           NEW R, Linked(H, R),
           NEW ch \in Change, ch.type = "entry", Newest(A, ch),
           NEW F, Superseded(H, F, ch.key)
    PROVE  Linked(H \cup {EntryOf(ch)}, R \cup RemovalsBy(ch, F))
<1>1. \A x \in H : x.time \in Nat
  BY TimeIsNat DEF Entry
<1>2. \A x \in H : x.time < ch.time
  BY DEF HeldIsReceived, Newest
<1>3. PICK new : new = EntryOf(ch)
  OBVIOUS
<1>4. new.time = ch.time /\ new.key = ch.key
  BY <1>3, EntryOfIs
<1>5. ASSUME NEW rm \in RemovalsBy(ch, F)
      PROVE  \E e \in F : rm.removing = e.time /\ rm.movement = ch.time
             /\ rm = [removing |-> e.time, movement |-> ch.time]
  BY DEF RemovalsBy
<1>6. ASSUME NEW rm \in R \cup RemovalsBy(ch, F)
      PROVE  Supersede(H \cup {new}, rm)
  <2>1. CASE rm \in R
    BY <2>1 DEF Linked, Supersede
  <2>2. CASE rm \in RemovalsBy(ch, F)
    <3>1. PICK e \in F : rm.removing = e.time /\ rm.movement = ch.time
      BY <1>5, <2>2
    <3>2. e \in H /\ e.key = new.key /\ e.time < new.time
      BY <1>2, <1>4 DEF Superseded
    <3>3. QED
      BY <1>4, <3>1, <3>2 DEF Supersede
  <2>3. QED
    BY <2>1, <2>2
<1>7. ASSUME NEW rm \in RemovalsBy(ch, F), NEW other \in R, rm.removing = other.removing
      PROVE  FALSE
  <2>1. PICK e \in F : rm.removing = e.time
    BY <1>5
  <2>2. PICK a \in H, b \in H : /\ a.time = other.removing
                                /\ a.key = b.key
                                /\ a.time < b.time
    BY DEF Linked, Supersede
  <2>3. a = e
    BY <1>7, <2>1, <2>2 DEF OnePerTime, Superseded
  <2>4. b.time <= e.time
    BY <2>2, <2>3 DEF Superseded
  <2>5. QED
    BY <1>1, <2>2, <2>3, <2>4
<1>8. ASSUME NEW rm \in RemovalsBy(ch, F), NEW other \in RemovalsBy(ch, F)
      PROVE  rm = other
  <2>1. PICK e \in F : rm = [removing |-> e.time, movement |-> ch.time]
    BY <1>5
  <2>2. PICK d \in F : other = [removing |-> d.time, movement |-> ch.time]
    BY <1>5
  <2>3. e \in H /\ d \in H /\ e.time <= d.time /\ d.time <= e.time
    BY DEF Superseded
  <2>4. e.time = d.time
    BY <1>1, <2>3
  <2>5. QED
    BY <2>1, <2>2, <2>4
<1>9. QED
  BY <1>3, <1>6, <1>7, <1>8 DEF Linked

\* The clock, the order and the horizon of a store after a change.
Timed(A, ch, retain, now, now1, order, order1, upto, upto1) ==
    /\ now \in Nat /\ now1 \in Nat /\ now <= now1
    /\ order \in BOOLEAN /\ order1 \in BOOLEAN
    /\ order1 => order /\ ch.time < now1 /\ Newest(A, ch)
    /\ upto \in Nat /\ upto1 \in Nat /\ upto <= upto1
    /\ retain => upto1 = upto
    /\ ~retain => ch.time <= upto1

\* _add_entry of either store: the entries F are superseded.
EntryAdded(impl, A, ch, order1, H, R, T, retain, F, H1, R1, T1) ==
    /\ A \subseteq Change /\ OnePerTime(A) /\ H \subseteq Entry /\ retain \in BOOLEAN
    /\ ch \in Change /\ ch.type = "entry"
    /\ F \subseteq H
    /\ \A e \in F : e.key = ch.key
    /\ order1 => Superseded(H, F, ch.key)
    /\ H1 = (IF retain THEN H ELSE H \ F) \cup {EntryOf(ch)}
    /\ R1 = IF retain THEN R \cup RemovalsBy(ch, F) ELSE R
    /\ impl = "lmdb" => T1 = IF retain THEN T \cup RemovalsBy(ch, F) ELSE T

LEMMA EntrySound ==
    ASSUME NEW impl, NEW A, NEW H, NEW R, NEW T, NEW C, NEW retain,
           NEW now, NEW now1, NEW order, NEW order1, NEW upto, NEW upto1,
           NEW ch, NEW F, NEW H1, NEW R1, NEW T1,
           SoundStore(impl, A, H, R, T, C, retain, now, order, upto),
           Timed(A, ch, retain, now, now1, order, order1, upto, upto1),
           EntryAdded(impl, A, ch, order1, H, R, T, retain, F, H1, R1, T1)
    PROVE  SoundStore(impl, A \cup {ch}, H1, R1, T1, C, retain, now1, order1, upto1)
<1> USE DEF Timed, EntryAdded
<1>1. /\ HeldIsReceived(A, H)
      /\ ClearsAreReceived(A, C)
      /\ impl = "memory" => ClearsAreHeld(A, C)
  BY DEF SoundStore
<1>2. HeldIsReceived(A \cup {ch}, H1)
  <2>1. H1 \subseteq H \cup {EntryOf(ch)}
    OBVIOUS
  <2>2. QED
    BY <1>1, <2>1, EntryOfIs DEF HeldIsReceived
<1>3. ClearsAreReceived(A \cup {ch}, C)
  BY <1>1 DEF ClearsAreReceived
<1>4. impl = "memory" => ClearsAreHeld(A \cup {ch}, C)
  BY <1>1 DEF ClearsAreHeld
<1>5. ch.time \in Nat \ {0} /\ \A x \in A : x.time \in Nat
  BY TimeIsNat DEF Change
<1>6. ASSUME upto1 = 0 \/ order1
      PROVE  EntriesKept(A \cup {ch}, H1, upto1) /\ ClearsKept(A \cup {ch}, C, upto1)
  <2>1. CASE retain
    <3>1. upto1 = upto /\ H1 = H \cup {EntryOf(ch)}
      BY <2>1
    <3>2. EntriesKept(A, H, upto) /\ ClearsKept(A, C, upto)
      BY <1>6, <3>1 DEF SoundStore
    <3>3. EntriesKept(A \cup {ch}, H \cup {EntryOf(ch)}, upto)
      BY <3>2, EntryKept
    <3>4. QED
      BY <3>1, <3>2, <3>3 DEF ClearsKept
  <2>2. CASE ~retain
    <3>1. order1 /\ order /\ Newest(A, ch)
      BY <1>5, <1>6, <2>2
    <3>2. EntriesKept(A, H, upto) /\ ClearsKept(A, C, upto)
      BY <3>1 DEF SoundStore
    <3>3. EntriesKept(A \cup {ch}, (H \ F) \cup {EntryOf(ch)}, upto1)
      BY <1>1, <2>2, <3>1, <3>2, EntryReplaced
    <3>4. ClearsKept(A \cup {ch}, C, upto1)
      <4>1. \A t \in C : t \in Nat
        BY <1>1, <1>5 DEF ClearsAreReceived
      <4>2. \A t \in C : t <= upto => t <= upto1
        BY <4>1
      <4>3. QED
        BY <3>2, <4>2 DEF ClearsKept
    <3>5. QED
      BY <2>2, <3>3, <3>4
  <2>3. QED
    BY <2>1, <2>2
<1>7. ASSUME order1
      PROVE  Orderly(impl, A \cup {ch}, H1, R1, T1, retain, now1)
  <2>1. Orderly(impl, A, H, R, T, retain, now)
    BY <1>7 DEF SoundStore
  <2>2. OnTime(A \cup {ch}, now1)
    BY <1>5, <1>7, <2>1 DEF Orderly, OnTime
  <2>3. CASE retain
    <3>1. OnePerTime(H)
      BY <1>1, HeldTimes
    <3>2. Linked(H \cup {EntryOf(ch)}, R \cup RemovalsBy(ch, F))
      BY <1>1, <1>7, <2>1, <3>1, EntryLinked DEF Orderly
    <3>3. H1 = H \cup {EntryOf(ch)} /\ R1 = R \cup RemovalsBy(ch, F)
      BY <2>3
    <3>4. impl = "lmdb" => T1 = R1
      BY <2>1, <2>3 DEF Orderly
    <3>5. QED
      BY <2>2, <2>3, <3>2, <3>3, <3>4 DEF Orderly
  <2>4. CASE ~retain
    <3>1. R1 = {} /\ (impl = "lmdb" => T1 = {})
      BY <2>1, <2>4 DEF Orderly
    <3>2. Linked(H1, R1)
      BY <3>1 DEF Linked
    <3>3. QED
      BY <2>2, <3>1, <3>2 DEF Orderly
  <2>5. QED
    BY <2>3, <2>4
<1>8. QED
  BY <1>2, <1>3, <1>4, <1>6, <1>7 DEF SoundStore

\* _add_clearance and _apply_clearance.
Cleared(impl, A, ch, R, C, retain, forget, R1, C1) ==
    /\ A \subseteq Change /\ retain \in BOOLEAN
    /\ ch \in Change /\ ch.type = "clear"
    /\ forget => impl # "memory" /\ ~retain
    /\ C1 = (IF forget THEN {} ELSE C) \cup {ch.time}
    /\ R1 = IF forget THEN {} ELSE R

LEMMA ClearSound ==
    ASSUME NEW impl, NEW A, NEW H, NEW R, NEW T, NEW C, NEW retain,
           NEW now, NEW now1, NEW order, NEW order1, NEW upto, NEW upto1,
           NEW ch, NEW forget, NEW R1, NEW C1,
           SoundStore(impl, A, H, R, T, C, retain, now, order, upto),
           Timed(A, ch, retain, now, now1, order, order1, upto, upto1),
           Cleared(impl, A, ch, R, C, retain, forget, R1, C1)
    PROVE  SoundStore(impl, A \cup {ch}, H, R1, T, C1, retain, now1, order1, upto1)
<1> USE DEF Timed, Cleared
<1>1. /\ HeldIsReceived(A, H)
      /\ ClearsAreReceived(A, C)
      /\ impl = "memory" => ClearsAreHeld(A, C)
  BY DEF SoundStore
<1>2. HeldIsReceived(A \cup {ch}, H)
  BY <1>1 DEF HeldIsReceived
<1>3. ClearsAreReceived(A \cup {ch}, C1)
  BY <1>1 DEF ClearsAreReceived
<1>4. impl = "memory" => ClearsAreHeld(A \cup {ch}, C1)
  BY <1>1 DEF ClearsAreHeld
<1>5. ch.time \in Nat \ {0} /\ \A x \in A : x.time \in Nat
  BY TimeIsNat DEF Change
<1>6. \A t \in C : t \in Nat
  BY <1>1, <1>5 DEF ClearsAreReceived
<1>7. ASSUME upto1 = 0 \/ order1
      PROVE  EntriesKept(A \cup {ch}, H, upto1) /\ ClearsKept(A \cup {ch}, C1, upto1)
  <2>1. EntriesKept(A, H, upto) /\ ClearsKept(A, C, upto)
    BY <1>7 DEF SoundStore
  <2>2. EntriesKept(A \cup {ch}, H, upto1)
    <3>1. \A x \in A : x.time <= upto => x.time <= upto1
      BY <1>5
    <3>2. QED
      BY <2>1, <3>1 DEF EntriesKept
  <2>3. ASSUME NEW x \in A, x.type = "clear"
        PROVE  x.time \in C1 \/ \E t \in C1 : x.time < t /\ t <= upto1
    <3>1. CASE forget
      <4>1. ~retain /\ ch.time <= upto1 /\ Newest(A, ch) /\ ch.time \in C1
        BY <1>5, <1>7, <3>1
      <4>2. QED
        BY <4>1 DEF Newest
    <3>2. CASE ~forget
      <4>1. C \subseteq C1
        BY <3>2
      <4>2. \A t \in C : t <= upto => t <= upto1
        BY <1>6
      <4>3. QED
        BY <2>1, <2>3, <4>1, <4>2 DEF ClearsKept
    <3>3. QED
      BY <3>1, <3>2
  <2>4. QED
    BY <2>2, <2>3 DEF ClearsKept
<1>8. ASSUME order1
      PROVE  Orderly(impl, A \cup {ch}, H, R1, T, retain, now1)
  <2>1. Orderly(impl, A, H, R, T, retain, now)
    BY <1>8 DEF SoundStore
  <2>2. OnTime(A \cup {ch}, now1)
    BY <1>5, <1>8, <2>1 DEF Orderly, OnTime
  <2>3. R1 = R
    BY <2>1 DEF Orderly
  <2>4. QED
    BY <2>1, <2>2, <2>3 DEF Orderly
<1>9. QED
  BY <1>2, <1>3, <1>4, <1>7, <1>8 DEF SoundStore

\* drop_history, with the removals D, up to the time asof.
DropIs(A, H, R, retain, retain1, now, order, upto, upto1, asof, D, H1) ==
    /\ A \subseteq Change /\ H \subseteq Entry /\ OnePerTime(H)
    /\ retain \in BOOLEAN /\ retain1 \in BOOLEAN /\ now \in Nat /\ order \in BOOLEAN
    /\ upto \in Nat /\ upto1 \in Nat /\ asof \in Nat
    /\ upto <= upto1 /\ asof <= upto1
    /\ D \subseteq Removal
    /\ \A d \in D : d.movement <= asof
    /\ order => D \subseteq R
    /\ order => \A rm \in R, d \in D :
           rm.movement = d.removing /\ rm.removing < rm.movement => rm \in D
    /\ order /\ ~retain1 => R \ D = {}
    /\ H1 = {e \in H : \A d \in D : d.removing # e.time}

LEMMA DropSound ==
    ASSUME NEW impl, NEW A, NEW H, NEW R, NEW T, NEW C, NEW retain, NEW retain1,
           NEW now, NEW order, NEW upto, NEW upto1, NEW asof, NEW D, NEW H1,
           SoundStore(impl, A, H, R, T, C, retain, now, order, upto),
           DropIs(A, H, R, retain, retain1, now, order, upto, upto1, asof, D, H1)
    PROVE  SoundStore(impl, A, H1, R \ D, T \ D, C, retain1, now, order, upto1)
<1> USE DEF DropIs
<1>1. /\ HeldIsReceived(A, H)
      /\ ClearsAreReceived(A, C)
      /\ impl = "memory" => ClearsAreHeld(A, C)
  BY DEF SoundStore
<1>2. HeldIsReceived(A, H1)
  BY <1>1 DEF HeldIsReceived
<1>3. \A x \in A : x.time \in Nat
  BY TimeIsNat DEF Change
<1>4. \A d \in D : d.movement \in Nat \ {0} /\ d.removing \in Nat
  BY TimeIsNat DEF Removal
<1>5. ASSUME order
      PROVE  Linked(H, R)
  BY <1>5 DEF SoundStore, Orderly
<1>6. ASSUME upto1 = 0 \/ order
      PROVE  EntriesKept(A, H1, upto1) /\ ClearsKept(A, C, upto1)
  <2>1. upto = 0 \/ order
    BY <1>6
  <2>2. EntriesKept(A, H, upto) /\ ClearsKept(A, C, upto)
    BY <2>1 DEF SoundStore
  <2>3. ClearsKept(A, C, upto1)
    <3>1. \A t \in C : t <= upto => t <= upto1
      BY <1>1, <1>3 DEF ClearsAreReceived
    <3>2. QED
      BY <2>2, <3>1 DEF ClearsKept
  <2>4. ASSUME NEW x \in A, x.type = "entry"
        PROVE  \/ \E e \in H1 : e.time = x.time /\ e.key = x.key
               \/ \E later \in A : /\ later.type = "entry"
                                   /\ later.key = x.key
                                   /\ x.time < later.time
                                   /\ later.time <= upto1
    <3>1. CASE \E e \in H : e.time = x.time /\ e.key = x.key
      <4>1. PICK e \in H : e.time = x.time /\ e.key = x.key
        BY <3>1
      <4>2. CASE e \in H1
        BY <4>1, <4>2
      <4>3. CASE e \notin H1
        <5>1. PICK d \in D : d.removing = e.time
          BY <4>3
        <5>2. order
          BY <1>4, <1>6
        <5>3. PICK a \in H, b \in H : /\ a.time = d.removing
                                      /\ b.time = d.movement
                                      /\ a.key = b.key
                                      /\ a.time < b.time
          BY <1>5, <5>2 DEF Linked, Supersede
        <5>4. a = e
          BY <5>1, <5>3 DEF OnePerTime
        <5>5. PICK later \in A :
                  later.type = "entry" /\ later.time = b.time /\ later.key = b.key
          BY <1>1 DEF HeldIsReceived
        <5>6. later.time <= upto1
          BY <1>4, <5>3, <5>5
        <5>7. QED
          BY <4>1, <5>3, <5>4, <5>5, <5>6
      <4>4. QED
        BY <4>2, <4>3
    <3>2. CASE \E later \in A : /\ later.type = "entry"
                                /\ later.key = x.key
                                /\ x.time < later.time
                                /\ later.time <= upto
      BY <1>3, <3>2
    <3>3. QED
      BY <2>2, <2>4, <3>1, <3>2 DEF EntriesKept
  <2>5. QED
    BY <2>3, <2>4 DEF EntriesKept
<1>7. ASSUME order
      PROVE  Orderly(impl, A, H1, R \ D, T \ D, retain1, now)
  <2>1. Orderly(impl, A, H, R, T, retain, now)
    BY <1>7 DEF SoundStore
  <2>2. ASSUME NEW rm \in R \ D
        PROVE  Supersede(H1, rm)
    <3>1. PICK a \in H, b \in H : /\ a.time = rm.removing
                                  /\ b.time = rm.movement
                                  /\ a.key = b.key
                                  /\ a.time < b.time
      BY <1>5, <1>7 DEF Linked, Supersede
    <3>2. a \in H1
      BY <1>5, <1>7, <3>1 DEF Linked
    <3>3. b \in H1
      BY <1>7, <3>1
    <3>4. QED
      BY <3>1, <3>2, <3>3 DEF Supersede
  <2>3. Linked(H1, R \ D)
    BY <1>5, <1>7, <2>2 DEF Linked
  <2>4. QED
    BY <1>7, <2>1, <2>3 DEF Orderly
<1>8. QED
  BY <1>1, <1>2, <1>6, <1>7 DEF SoundStore

-----------------------------------------------------------------------------
(***************************************************************************)
(* Every step keeps the invariant.                                         *)
(***************************************************************************)

LEMMA InitSound == Init => IInv
<1> SUFFICES ASSUME Init
             PROVE  IInv
  OBVIOUS
<1>1. TypeOK
  BY ConstantsAssumption DEF Init, TypeOK, Ever
<1>2. IssuedSound
  BY DEF Init, IssuedSound, OnePerTime
<1>3. ASSUME NEW r \in Replica
      PROVE  Sound(r)
  <2>1. /\ applied[r] = {} /\ held[r] = {} /\ removals[r] = {} /\ removalsByTime[r] = {}
        /\ clearances[r] = {} /\ retaining[r] = TRUE
    BY <1>3 DEF Init
  <2>2. QED
    BY <2>1 DEF Sound, SoundStore, HeldIsReceived, ClearsAreReceived, ClearsAreHeld,
                EntriesKept, ClearsKept, Orderly, Linked, OnTime
<1>4. QED
  BY <1>1, <1>2, <1>3 DEF IInv

\* What a sound state says of one store.
LEMMA StoreIs ==
    ASSUME IInv, NEW r \in Replica
    PROVE  /\ applied[r] \subseteq Change /\ OnePerTime(applied[r])
           /\ held[r] \subseteq Entry /\ OnePerTime(held[r])
           /\ HeldIsReceived(applied[r], held[r])
           /\ removals[r] \subseteq Removal /\ removalsByTime[r] \subseteq Removal
           /\ clearances[r] \subseteq Time
           /\ retaining[r] \in BOOLEAN /\ orderly[r] \in BOOLEAN
           /\ clock[r] \in 1 .. Ever /\ clock[r] \in Nat
           /\ horizon[r] \in 0 .. MaxTime /\ horizon[r] \in Nat
           /\ Sound(r)
<1>1. TypeOK /\ IssuedSound /\ Sound(r)
  BY DEF IInv
<1>2. applied[r] \subseteq Change /\ OnePerTime(applied[r])
  BY <1>1 DEF TypeOK, IssuedSound, OnePerTime
<1>3. held[r] \subseteq Entry /\ HeldIsReceived(applied[r], held[r])
  BY <1>1 DEF TypeOK, Sound, SoundStore
<1>4. OnePerTime(held[r])
  BY <1>2, <1>3, HeldTimes
<1>5. clock[r] \in 1 .. Ever /\ horizon[r] \in 0 .. MaxTime
  BY <1>1 DEF TypeOK
<1>6. clock[r] \in Nat /\ horizon[r] \in Nat
  BY <1>5, ConstantsAssumption DEF Ever
<1>7. /\ removals[r] \subseteq Removal /\ removalsByTime[r] \subseteq Removal
      /\ clearances[r] \subseteq Time
      /\ retaining[r] \in BOOLEAN /\ orderly[r] \in BOOLEAN
  BY <1>1 DEF TypeOK
<1>8. QED
  BY <1>1, <1>2, <1>3, <1>4, <1>5, <1>6, <1>7

\* What get_entry_by_key finds is the last entry of the key before the time.
LEMMA FoundIs ==
    ASSUME IInv, NEW r \in Replica, NEW k, NEW asof, NEW cleared,
           NEW e \in LastSince(r, k, asof, cleared)
    PROVE  /\ e \in held[r] /\ e.key = k /\ e.time < asof /\ e.time >= cleared
           /\ \A x \in held[r] : x.key = k /\ x.time < asof => x.time <= e.time
<1> DEFINE before == {x \in held[r] : x.key = k /\ x.time < asof}
<1>1. e \in before /\ e = Latest(before) /\ e.time >= cleared
  BY DEF LastSince
<1>2. (\A x \in before : x.time \in Time) /\ OnePerTime(before)
  BY StoreIs DEF Entry, OnePerTime
<1>3. \A y \in before : y.time <= e.time
  <2> HIDE DEF before
  <2> QED
    BY <1>1, <1>2, LatestIs
<1>4. QED
  BY <1>1, <1>3

LEMMA FoundIsSuperseded ==
    ASSUME IInv, NEW r \in Replica, NEW k, NEW asof, NEW cleared,
           NEW F, F = LastSince(r, k, asof, cleared)
    PROVE  /\ F \subseteq held[r]
           /\ \A e \in F : e.key = k
           /\ (\A x \in held[r] : x.time < asof) => Superseded(held[r], F, k)
BY FoundIs DEF Superseded

\* A step that is one of r's store alone.
Only(r) ==
    \A q \in Replica \ {r} :
        /\ applied'[q] = applied[q] /\ held'[q] = held[q]
        /\ removals'[q] = removals[q] /\ removalsByTime'[q] = removalsByTime[q]
        /\ clearances'[q] = clearances[q] /\ retaining'[q] = retaining[q]
        /\ clock'[q] = clock[q] /\ orderly'[q] = orderly[q] /\ horizon'[q] = horizon[q]

LEMMA OthersSound ==
    ASSUME IInv, NEW r \in Replica, Only(r), Sound(r)'
    PROVE  \A q \in Replica : Sound(q)'
<1>1. ASSUME NEW q \in Replica, q # r
      PROVE  Sound(q)'
  <2>1. Sound(q)
    BY DEF IInv
  <2>2. QED
    BY <1>1, <2>1 DEF Only, Sound
<1>2. QED
  BY <1>1

\* The new horizon of a store.
LEMMA HorizonIs ==
    ASSUME NEW a \in 0 .. MaxTime, NEW b \in 0 .. MaxTime
    PROVE  /\ Max({a, b}) \in 0 .. MaxTime /\ Max({a, b}) \in Nat
           /\ a <= Max({a, b}) /\ b <= Max({a, b})
<1>1. a \in Nat /\ b \in Nat
  BY ConstantsAssumption DEF Ever
<1>2. QED
  BY <1>1, MaxOfTwo

\* The tables after apply_bundle.
Stores(r, H, R, T, C) ==
    /\ held' = [held EXCEPT ![r] = H]
    /\ removals' = [removals EXCEPT ![r] = R]
    /\ removalsByTime' = [removalsByTime EXCEPT ![r] = T]
    /\ clearances' = [clearances EXCEPT ![r] = C]

\* _add_entry of the two stores.
LEMMA EntryResult ==
    ASSUME IInv, NEW r \in Replica, NEW ch \in Change, ch.type = "entry",
           clock'[r] \in Nat, clock[r] <= clock'[r],
           \/ Impl[r] = "memory" /\ MemoryAddEntry(r, ch)
           \/ Impl[r] = "lmdb" /\ LmdbAddEntry(r, ch)
    PROVE  \E F, T :
              /\ F \subseteq held[r]
              /\ \A e \in F : e.key = ch.key
              /\ orderly[r] => Superseded(held[r], F, ch.key)
              /\ T \subseteq Removal
              /\ Impl[r] = "lmdb" => T = IF retaining[r] THEN removalsByTime[r] \cup RemovalsBy(ch, F)
                                         ELSE removalsByTime[r]
              /\ Stores(r, (IF retaining[r] THEN held[r] ELSE held[r] \ F) \cup {EntryOf(ch)},
                           IF retaining[r] THEN removals[r] \cup RemovalsBy(ch, F) ELSE removals[r],
                           T, clearances[r])
<1>1. /\ removalsByTime = [removalsByTime EXCEPT ![r] = removalsByTime[r]]
      /\ clearances = [clearances EXCEPT ![r] = clearances[r]]
  BY DEF IInv, TypeOK
<1>2. removalsByTime[r] \subseteq Removal /\ clock[r] \in Nat /\ held[r] \subseteq Entry
  BY StoreIs
<1>3. orderly[r] => \A x \in held[r] : x.time < clock'[r]
  <2>1. SUFFICES ASSUME orderly[r], NEW x \in held[r]
                 PROVE  x.time < clock'[r]
    OBVIOUS
  <2>2. PICK c \in applied[r] : c.time = x.time
    BY StoreIs DEF HeldIsReceived
  <2>3. c.time < clock[r]
    BY <2>1, StoreIs DEF Sound, SoundStore, Orderly, OnTime
  <2>4. x.time \in Nat
    BY <1>2, TimeIsNat DEF Entry
  <2>5. QED
    BY <1>2, <2>2, <2>3, <2>4
<1>4. \A x \in held[r] : x.time < Ever
  BY <1>2, TimeIsNat DEF Entry
<1>5. CASE Impl[r] = "memory" /\ MemoryAddEntry(r, ch)
  <2>1. PICK asof : asof = clock'[r]
    OBVIOUS
  <2>2. PICK F : F = LastSince(r, ch.key, asof, MemoryPriorClear(r, asof))
    OBVIOUS
  <2>3. Supersedes(r, ch, F) /\ removalsByTime' = removalsByTime
    BY <1>5, <2>1, <2>2 DEF MemoryAddEntry, MemoryGet
  <2>4. /\ F \subseteq held[r]
        /\ \A e \in F : e.key = ch.key
        /\ (\A x \in held[r] : x.time < asof) => Superseded(held[r], F, ch.key)
    BY <2>2, FoundIsSuperseded
  <2>5. Stores(r, (IF retaining[r] THEN held[r] ELSE held[r] \ F) \cup {EntryOf(ch)},
                  IF retaining[r] THEN removals[r] \cup RemovalsBy(ch, F) ELSE removals[r],
                  removalsByTime[r], clearances[r])
    BY <1>1, <2>3 DEF Supersedes, Stores, EntryOf
  <2>6. Impl[r] # "lmdb"
    BY <1>5
  <2>7. orderly[r] => Superseded(held[r], F, ch.key)
    BY <1>3, <2>1, <2>4
  <2>8. QED
    BY <1>2, <2>4, <2>5, <2>6, <2>7
<1>6. CASE Impl[r] = "lmdb" /\ LmdbAddEntry(r, ch)
  <2>1. PICK F : F = LastSince(r, ch.key, Ever, LmdbPriorClear(r, Ever))
    OBVIOUS
  <2>2. PICK T : T = IF retaining[r] THEN removalsByTime[r] \cup RemovalsBy(ch, F)
                     ELSE removalsByTime[r]
    OBVIOUS
  <2>3. Supersedes(r, ch, F) /\ removalsByTime' = [removalsByTime EXCEPT ![r] = T]
    BY <1>6, <2>1, <2>2 DEF LmdbAddEntry, LmdbGet
  <2>4. /\ F \subseteq held[r]
        /\ \A e \in F : e.key = ch.key
        /\ (\A x \in held[r] : x.time < Ever) => Superseded(held[r], F, ch.key)
    BY <2>1, FoundIsSuperseded
  <2>5. Stores(r, (IF retaining[r] THEN held[r] ELSE held[r] \ F) \cup {EntryOf(ch)},
                  IF retaining[r] THEN removals[r] \cup RemovalsBy(ch, F) ELSE removals[r],
                  T, clearances[r])
    BY <1>1, <2>3 DEF Supersedes, Stores, EntryOf
  <2>6. T \subseteq Removal
    <3>1. RemovalsBy(ch, F) \subseteq Removal
      BY <1>2, <2>4 DEF RemovalsBy, Removal, Entry, Change
    <3>2. QED
      BY <1>2, <2>2, <3>1
  <2>7. QED
    BY <1>4, <2>2, <2>4, <2>5, <2>6
<1>7. QED
  BY <1>5, <1>6

\* apply_bundle, while the clock stands or goes on.
Typed ==
    /\ applied \in [Replica -> SUBSET Change]
    /\ held \in [Replica -> SUBSET Entry]
    /\ removals \in [Replica -> SUBSET Removal]
    /\ removalsByTime \in [Replica -> SUBSET Removal]
    /\ clearances \in [Replica -> SUBSET Time]
    /\ retaining \in [Replica -> BOOLEAN]
    /\ clock \in [Replica -> 1 .. Ever]
    /\ orderly \in [Replica -> BOOLEAN]
    /\ horizon \in [Replica -> 0 .. MaxTime]

LEMMA TypeIs == TypeOK <=> issued \subseteq Change /\ Typed
BY DEF TypeOK, Typed

\* The tables are sound whatever the clock, the order and the horizon become.
Permits(r, ch, H, R, T, C) ==
    \A now1, order1, upto1 :
        Timed(applied[r], ch, retaining[r], clock[r], now1, orderly[r], order1,
              horizon[r], upto1) =>
            SoundStore(Impl[r], applied[r] \cup {ch}, H, R, T, C, retaining[r],
                       now1, order1, upto1)

LEMMA StoresSound ==
    ASSUME IInv, NEW r \in Replica, NEW ch \in Change, Fresh(applied[r], ch),
           clock' \in [Replica -> 1 .. Ever], clock[r] <= clock'[r],
           \A q \in Replica \ {r} : clock'[q] = clock[q],
           Apply(r, ch),
           NEW H \in SUBSET Entry, NEW R \in SUBSET Removal, NEW T \in SUBSET Removal,
           NEW C \in SUBSET Time, Stores(r, H, R, T, C),
           Permits(r, ch, H, R, T, C)
    PROVE  Typed' /\ \A q \in Replica : Sound(q)'
<1>1. Typed
  BY TypeIs DEF IInv
<1>2. /\ applied' = [applied EXCEPT ![r] = @ \cup {ch}]
      /\ orderly' = [orderly EXCEPT ![r] =
                        @ /\ ch.time < clock'[r] /\ Newest(applied[r], ch)]
      /\ horizon' = [horizon EXCEPT ![r] = IF retaining[r] THEN @ ELSE Max({@, ch.time})]
      /\ retaining' = retaining
  BY DEF Apply, Newest
<1>3. PICK upto1 : upto1 = IF retaining[r] THEN horizon[r] ELSE Max({horizon[r], ch.time})
  OBVIOUS
<1>4. PICK order1 \in BOOLEAN :
          order1 <=> orderly[r] /\ ch.time < clock'[r] /\ Newest(applied[r], ch)
  OBVIOUS
<1>5. /\ upto1 \in 0 .. MaxTime /\ upto1 \in Nat /\ horizon[r] <= upto1
      /\ retaining[r] => upto1 = horizon[r]
      /\ ~retaining[r] => ch.time <= upto1
  <2>1. horizon[r] \in 0 .. MaxTime /\ horizon[r] \in Nat /\ ch.time \in 0 .. MaxTime
    BY StoreIs, ConstantsAssumption DEF Change, Time, Ever
  <2>2. PICK m : m = Max({horizon[r], ch.time})
    OBVIOUS
  <2>3. m \in 0 .. MaxTime /\ m \in Nat /\ horizon[r] <= m /\ ch.time <= m
    BY <2>1, <2>2, HorizonIs
  <2>4. CASE retaining[r]
    BY <1>3, <2>1, <2>4
  <2>5. CASE ~retaining[r]
    BY <1>3, <2>2, <2>3, <2>5
  <2>6. QED
    BY <2>4, <2>5
<1>6. orderly' = [orderly EXCEPT ![r] = order1] /\ horizon' = [horizon EXCEPT ![r] = upto1]
  <2>1. orderly[r] \in BOOLEAN
    BY StoreIs
  <2>2. (orderly[r] /\ ch.time < clock'[r] /\ Newest(applied[r], ch)) = order1
    BY <1>4, <2>1
  <2>3. orderly' = [orderly EXCEPT ![r] = order1]
    BY <1>2, <2>2
  <2>4. horizon' = [horizon EXCEPT ![r] = upto1]
    BY <1>2, <1>3
  <2>5. QED
    BY <2>3, <2>4
<1>7. Typed'
  <2>1. applied' \in [Replica -> SUBSET Change]
    BY <1>1, <1>2 DEF Typed
  <2>2. held' \in [Replica -> SUBSET Entry] /\ removals' \in [Replica -> SUBSET Removal]
    BY <1>1 DEF Typed, Stores
  <2>3. removalsByTime' \in [Replica -> SUBSET Removal] /\ clearances' \in [Replica -> SUBSET Time]
    BY <1>1 DEF Typed, Stores
  <2>4. retaining' \in [Replica -> BOOLEAN] /\ orderly' \in [Replica -> BOOLEAN]
    BY <1>1, <1>2, <1>4, <1>6 DEF Typed
  <2>5. horizon' \in [Replica -> 0 .. MaxTime]
    BY <1>1, <1>5, <1>6 DEF Typed
  <2>6. QED
    BY <2>1, <2>2, <2>3, <2>4, <2>5 DEF Typed
<1>8. Only(r)
  BY <1>1, <1>2, <1>6 DEF Only, Stores, Typed
<1>9. Sound(r)'
  <2>1. clock'[r] \in Nat
    BY ConstantsAssumption DEF Ever
  <2>2. SoundStore(Impl[r], applied[r] \cup {ch}, H, R, T, C, retaining[r],
                   clock'[r], order1, upto1)
    <3>1. Timed(applied[r], ch, retaining[r], clock[r], clock'[r], orderly[r], order1,
                horizon[r], upto1)
      BY <1>4, <1>5, <2>1, StoreIs DEF Timed
    <3>2. QED
      BY <3>1 DEF Permits
  <2>3. /\ applied'[r] = applied[r] \cup {ch} /\ held'[r] = H /\ removals'[r] = R
        /\ removalsByTime'[r] = T /\ clearances'[r] = C
    BY <1>1, <1>2 DEF Typed, Stores
  <2>4. retaining'[r] = retaining[r] /\ horizon'[r] = upto1
    BY <1>1, <1>2, <1>6 DEF Typed
  <2>5. orderly'[r] = order1
    BY <1>1, <1>6 DEF Typed
  <2>6. QED
    BY <2>2, <2>3, <2>4, <2>5 DEF Sound
<1>10. QED
  BY <1>7, <1>8, <1>9, OthersSound

LEMMA ApplySound ==
    ASSUME IInv, NEW r \in Replica, NEW ch \in Change, Fresh(applied[r], ch),
           clock' \in [Replica -> 1 .. Ever], clock[r] <= clock'[r],
           \A q \in Replica \ {r} : clock'[q] = clock[q],
           Apply(r, ch)
    PROVE  Typed' /\ \A q \in Replica : Sound(q)'
<1>1. PICK A : A = applied[r]
  OBVIOUS
<1>2. PICK H : H = held[r]
  OBVIOUS
<1>3. PICK R : R = removals[r]
  OBVIOUS
<1>4. PICK S : S = removalsByTime[r]
  OBVIOUS
<1>5. PICK C : C = clearances[r]
  OBVIOUS
<1>6. /\ A \subseteq Change /\ OnePerTime(A) /\ H \subseteq Entry
      /\ R \subseteq Removal /\ S \subseteq Removal /\ C \subseteq Time
      /\ retaining[r] \in BOOLEAN /\ orderly[r] \in BOOLEAN
      /\ clock[r] \in Nat /\ horizon[r] \in Nat
  BY <1>1, <1>2, <1>3, <1>4, <1>5, StoreIs
<1>7. SoundStore(Impl[r], A, H, R, S, C, retaining[r], clock[r], orderly[r], horizon[r])
  BY <1>1, <1>2, <1>3, <1>4, <1>5, StoreIs DEF Sound
<1>8. clock'[r] \in Nat
  BY ConstantsAssumption DEF Ever
<1>9. CASE ch.type = "entry"
  <2>1. \/ Impl[r] = "memory" /\ MemoryAddEntry(r, ch)
        \/ Impl[r] = "lmdb" /\ LmdbAddEntry(r, ch)
    BY <1>9 DEF Apply, MemoryApply, LmdbApply
  <2>2. PICK F, T :
            /\ F \subseteq H
            /\ \A e \in F : e.key = ch.key
            /\ orderly[r] => Superseded(H, F, ch.key)
            /\ T \subseteq Removal
            /\ Impl[r] = "lmdb" => T = IF retaining[r] THEN S \cup RemovalsBy(ch, F) ELSE S
            /\ Stores(r, (IF retaining[r] THEN H ELSE H \ F) \cup {EntryOf(ch)},
                         IF retaining[r] THEN R \cup RemovalsBy(ch, F) ELSE R,
                         T, C)
    BY <1>2, <1>3, <1>4, <1>5, <1>8, <1>9, <2>1, EntryResult, ZenonT(60)
  <2>3. PICK H1 : H1 = (IF retaining[r] THEN H ELSE H \ F) \cup {EntryOf(ch)}
    OBVIOUS
  <2>4. PICK R1 : R1 = IF retaining[r] THEN R \cup RemovalsBy(ch, F) ELSE R
    OBVIOUS
  <2>5. H1 \in SUBSET Entry
    BY <1>6, <1>9, <2>3, EntryOfIs
  <2>6. R1 \in SUBSET Removal
    <3>1. RemovalsBy(ch, F) \subseteq Removal
      BY <1>6, <2>2 DEF RemovalsBy, Removal, Entry, Change
    <3>2. QED
      BY <1>6, <2>4, <3>1
  <2>7. Stores(r, H1, R1, T, C)
    BY <2>2, <2>3, <2>4
  <2>8. ASSUME NEW now1, NEW order1, NEW upto1,
               Timed(A, ch, retaining[r], clock[r], now1, orderly[r], order1, horizon[r], upto1)
        PROVE  SoundStore(Impl[r], A \cup {ch}, H1, R1, T, C, retaining[r], now1, order1, upto1)
    <3>1. EntryAdded(Impl[r], A, ch, order1, H, R, S, retaining[r], F, H1, R1, T)
      BY <1>6, <1>9, <2>2, <2>3, <2>4, <2>8 DEF EntryAdded, Timed
    <3>2. QED
      BY <1>7, <2>8, <3>1, EntrySound
  <2>9. Permits(r, ch, H1, R1, T, C)
    BY <1>1, <2>8 DEF Permits
  <2>10. QED
    BY <1>6, <2>2, <2>5, <2>6, <2>7, <2>9, StoresSound
<1>10. CASE ch.type = "clear"
  <2>1. \/ Impl[r] = "memory" /\ MemoryAddClearance(r, ch)
        \/ Impl[r] = "lmdb" /\ LmdbAddClearance(r, ch)
    BY <1>10 DEF Apply, MemoryApply, LmdbApply
  <2>2. PICK forget \in BOOLEAN : forget <=> Impl[r] # "memory" /\ ~retaining[r]
    OBVIOUS
  <2>3. PICK C1 : C1 = (IF forget THEN {} ELSE C) \cup {ch.time}
    OBVIOUS
  <2>4. PICK R1 : R1 = IF forget THEN {} ELSE R
    OBVIOUS
  <2>5. C1 \in SUBSET Time /\ R1 \in SUBSET Removal
    BY <1>6, <2>3, <2>4 DEF Change
  <2>6. Stores(r, H, R1, S, C1)
    <3>1. /\ held = [held EXCEPT ![r] = H] /\ removals = [removals EXCEPT ![r] = R]
          /\ removalsByTime = [removalsByTime EXCEPT ![r] = S]
      BY <1>2, <1>3, <1>4 DEF IInv, TypeOK
    <3>2. CASE Impl[r] = "memory" /\ MemoryAddClearance(r, ch)
      BY <1>5, <2>2, <2>3, <2>4, <3>1, <3>2 DEF MemoryAddClearance, Stores
    <3>3. CASE Impl[r] = "lmdb" /\ LmdbAddClearance(r, ch)
      <4>1. Impl[r] # "memory"
        BY <3>3
      <4>2. clearances' = [clearances EXCEPT ![r] = C1]
        BY <1>5, <2>2, <2>3, <3>3, <4>1 DEF LmdbAddClearance
      <4>3. removals' = [removals EXCEPT ![r] = R1]
        BY <1>3, <2>2, <2>4, <3>3, <4>1 DEF LmdbAddClearance
      <4>4. held' = held /\ removalsByTime' = removalsByTime
        BY <3>3 DEF LmdbAddClearance
      <4>5. QED
        BY <3>1, <4>2, <4>3, <4>4 DEF Stores
    <3>4. QED
      BY <2>1, <3>2, <3>3
  <2>7. ASSUME NEW now1, NEW order1, NEW upto1,
               Timed(A, ch, retaining[r], clock[r], now1, orderly[r], order1, horizon[r], upto1)
        PROVE  SoundStore(Impl[r], A \cup {ch}, H, R1, S, C1, retaining[r], now1, order1, upto1)
    <3>1. Cleared(Impl[r], A, ch, R, C, retaining[r], forget, R1, C1)
      BY <1>6, <1>10, <2>2, <2>3, <2>4 DEF Cleared
    <3>2. QED
      BY <1>7, <2>7, <3>1, ClearSound
  <2>8. Permits(r, ch, H, R1, S, C1)
    BY <1>1, <2>7 DEF Permits
  <2>9. QED
    BY <1>6, <2>5, <2>6, <2>8, StoresSound
<1>11. QED
  BY <1>9, <1>10 DEF Change

\* Removals are ordered by what they remove.
LEMMA BeforeOrders ==
    /\ \A rm \in Removal : ~Before(rm, rm)
    /\ \A rm, d, end \in Removal :
           rm.removing < d.removing /\ Before(d, end) => Before(rm, end)
<1>1. \A rm \in Removal : rm.removing \in Nat /\ rm.movement \in Nat
  BY TimeIsNat DEF Removal
<1>2. QED
  BY <1>1 DEF Before

\* While changes arrive on time, drop_history can carry out every removal.
LEMMA NoneRaises ==
    ASSUME IInv, NEW r \in Replica, orderly[r], NEW rm \in removals[r]
    PROVE  ~RemoveRaises(r, rm)
<1>1. Linked(held[r], removals[r]) /\ removals[r] \subseteq Removal
  BY StoreIs DEF Sound, SoundStore, Orderly
<1>2. \E e \in held[r] : e.time = rm.removing
  BY <1>1 DEF Linked, Supersede
<1>3. ASSUME NEW other \in removals[r], other.removing = rm.removing
      PROVE  ~Before(other, rm)
  BY <1>1, <1>3, BeforeOrders DEF Linked
<1>4. QED
  BY <1>2, <1>3 DEF RemoveRaises

\* The removals that drop_history carries out are no later than the time it is
\* given, and with a removal goes the one that led to its entry.
Dropped(r, asof) == IF Impl[r] = "memory" THEN MemoryDrops(r, asof) ELSE LmdbDrops(r, asof)

LEMMA DroppedIs ==
    ASSUME IInv, NEW r \in Replica, NEW asof \in Nat
    PROVE  /\ Dropped(r, asof) \subseteq Removal
           /\ \A d \in Dropped(r, asof) : d.movement <= asof
           /\ orderly[r] => Dropped(r, asof) \subseteq removals[r]
           /\ orderly[r] => \A rm \in removals[r], d \in Dropped(r, asof) :
                  rm.movement = d.removing /\ rm.removing < rm.movement => rm \in Dropped(r, asof)
           /\ orderly[r] /\ asof = clock[r] - 1 => removals[r] \ Dropped(r, asof) = {}
<1>1. /\ removals[r] \subseteq Removal /\ removalsByTime[r] \subseteq Removal
      /\ clock[r] \in Nat
      /\ \A rm \in Removal : rm.removing \in Nat /\ rm.movement \in Nat
  BY StoreIs, TimeIsNat DEF Removal
<1>2. orderly[r] => /\ Linked(held[r], removals[r])
                    /\ Impl[r] = "lmdb" => removalsByTime[r] = removals[r]
  BY StoreIs DEF Sound, SoundStore, Orderly
<1>3. ASSUME orderly[r], NEW rm \in removals[r]
      PROVE  rm.removing < rm.movement /\ rm.movement < clock[r]
  <2>1. PICK a \in held[r], b \in held[r] :
            a.time = rm.removing /\ b.time = rm.movement /\ a.time < b.time
    BY <1>2, <1>3 DEF Linked, Supersede
  <2>2. PICK ch \in applied[r] : ch.time = b.time
    BY StoreIs DEF HeldIsReceived
  <2>3. ch.time < clock[r]
    BY <1>3, StoreIs DEF Sound, SoundStore, Orderly, OnTime
  <2>4. QED
    BY <2>1, <2>2, <2>3
<1>4. CASE Impl[r] = "memory"
  <2> DEFINE ends == {rm \in removals[r] : rm.movement > asof \/ RemoveRaises(r, rm)}
  <2>1. Dropped(r, asof) = {rm \in removals[r] : \A end \in ends : Before(rm, end)}
    BY <1>4 DEF Dropped, MemoryDrops
  <2>2. ASSUME NEW d \in Dropped(r, asof)
        PROVE  d.movement <= asof
    <3>1. d \in Removal /\ d \notin ends
      BY <1>1, <2>1, BeforeOrders
    <3>2. QED
      BY <1>1, <2>1, <3>1
  <2>3. ASSUME NEW rm \in removals[r], NEW d \in Dropped(r, asof),
               rm.movement = d.removing, rm.removing < rm.movement
        PROVE  rm \in Dropped(r, asof)
    <3>1. \A end \in ends : Before(d, end) /\ end \in Removal
      BY <1>1, <2>1
    <3>2. rm \in Removal /\ d \in Removal
      BY <1>1, <2>1
    <3> HIDE DEF ends
    <3>3. \A end \in ends : Before(rm, end)
      BY <2>3, <3>1, <3>2, BeforeOrders
    <3>4. QED
      BY <2>1, <3>3
  <2>4. ASSUME orderly[r], asof = clock[r] - 1
        PROVE  removals[r] \ Dropped(r, asof) = {}
    <3>1. \A rm \in removals[r] : ~(rm.movement > asof)
      BY <1>1, <1>3, <2>4
    <3>2. \A rm \in removals[r] : ~RemoveRaises(r, rm)
      BY <2>4, NoneRaises
    <3>3. ends = {}
      BY <3>1, <3>2
    <3>4. QED
      BY <2>1, <3>3
  <2>5. QED
    BY <1>1, <2>1, <2>2, <2>3, <2>4
<1>5. CASE Impl[r] # "memory"
  <2>1. Impl[r] = "lmdb"
    BY <1>5, ConstantsAssumption
  <2>2. Dropped(r, asof) = {rm \in removalsByTime[r] : rm.movement <= asof}
    BY <1>5 DEF Dropped, LmdbDrops
  <2>3. ASSUME orderly[r], NEW rm \in removals[r], NEW d \in Dropped(r, asof),
               rm.movement = d.removing
        PROVE  rm \in Dropped(r, asof)
    <3>1. d \in removals[r] /\ rm \in removalsByTime[r]
      BY <1>2, <2>1, <2>2, <2>3
    <3>2. d.removing < d.movement /\ d.movement <= asof
      BY <1>3, <2>2, <2>3, <3>1
    <3>3. rm.movement <= asof
      BY <1>1, <2>3, <3>1, <3>2
    <3>4. QED
      BY <2>2, <3>1, <3>3
  <2>4. ASSUME orderly[r], asof = clock[r] - 1, NEW rm \in removals[r]
        PROVE  rm \in Dropped(r, asof)
    <3>1. rm.movement <= asof
      BY <1>1, <1>3, <2>4
    <3>2. QED
      BY <1>2, <2>1, <2>2, <2>4, <3>1
  <2>5. QED
    BY <1>1, <1>2, <2>1, <2>2, <2>3, <2>4
<1>6. QED
  BY <1>4, <1>5

\* DropSound for the store of r.
LEMMA DropKeeps ==
    ASSUME IInv, NEW r \in Replica, NEW asof \in 0 .. MaxTime, NEW retain1 \in BOOLEAN,
           retaining' = [retaining EXCEPT ![r] = retain1],
           retain1 = retaining[r] \/ asof = clock[r] - 1,
           Drop(r, asof)
    PROVE  IInv'
<1>1. TypeOK /\ IssuedSound
  BY DEF IInv
<1>2. PICK D : D = Dropped(r, asof)
  OBVIOUS
<1>3. PICK H1 : H1 = {e \in held[r] : \A d \in D : d.removing # e.time}
  OBVIOUS
<1>4. PICK upto1 : upto1 = Max({horizon[r], asof})
  OBVIOUS
<1>5. /\ held' = [held EXCEPT ![r] = H1]
      /\ removals' = [removals EXCEPT ![r] = removals[r] \ D]
      /\ removalsByTime' = [removalsByTime EXCEPT ![r] = removalsByTime[r] \ D]
      /\ horizon' = [horizon EXCEPT ![r] = upto1]
      /\ issued' = issued /\ applied' = applied /\ clearances' = clearances
      /\ clock' = clock /\ orderly' = orderly
  BY <1>2, <1>3, <1>4 DEF Drop, Dropped
<1>6. asof \in Nat /\ asof \in 0 .. MaxTime
  BY ConstantsAssumption DEF Ever
<1>7. /\ D \subseteq Removal
      /\ \A d \in D : d.movement <= asof
      /\ orderly[r] => D \subseteq removals[r]
      /\ orderly[r] => \A rm \in removals[r], d \in D :
             rm.movement = d.removing /\ rm.removing < rm.movement => rm \in D
      /\ orderly[r] /\ asof = clock[r] - 1 => removals[r] \ D = {}
  BY <1>2, <1>6, DroppedIs
<1>8. upto1 \in 0 .. MaxTime /\ upto1 \in Nat /\ horizon[r] <= upto1 /\ asof <= upto1
  <2>1. horizon[r] \in 0 .. MaxTime
    BY StoreIs
  <2>2. QED
    BY <1>4, <1>6, <2>1, HorizonIs
<1>9. TypeOK'
  <2>1. held' \in [Replica -> SUBSET Entry]
    BY <1>1, <1>3, <1>5 DEF TypeOK
  <2>2. removals' \in [Replica -> SUBSET Removal] /\ removalsByTime' \in [Replica -> SUBSET Removal]
    BY <1>1, <1>5 DEF TypeOK
  <2>3. horizon' \in [Replica -> 0 .. MaxTime]
    BY <1>1, <1>5, <1>8 DEF TypeOK
  <2>4. retaining' \in [Replica -> BOOLEAN]
    BY <1>1 DEF TypeOK
  <2>5. QED
    BY <1>1, <1>5, <2>1, <2>2, <2>3, <2>4 DEF TypeOK
<1>10. IssuedSound'
  BY <1>1, <1>5 DEF IssuedSound
<1>11. Only(r)
  BY <1>1, <1>5 DEF Only, TypeOK
<1>12. Sound(r)'
  <2>1. PICK impl, A, H, R, T, C, retain, now, order, upto :
            /\ impl = Impl[r] /\ A = applied[r] /\ H = held[r] /\ R = removals[r]
            /\ T = removalsByTime[r] /\ C = clearances[r] /\ retain = retaining[r]
            /\ now = clock[r] /\ order = orderly[r] /\ upto = horizon[r]
    OBVIOUS
  <2>2. SoundStore(impl, A, H, R, T, C, retain, now, order, upto)
    BY <2>1, StoreIs DEF Sound
  <2>3. order /\ ~retain1 => R \ D = {}
    <3>1. ASSUME order, ~retain1, retain1 = retain
          PROVE  R = {}
      BY <2>2, <3>1 DEF SoundStore, Orderly
    <3>2. QED
      BY <1>7, <2>1, <3>1
  <2>4. DropIs(A, H, R, retain, retain1, now, order, upto, upto1, asof, D, H1)
    <3>1. /\ A \subseteq Change /\ H \subseteq Entry /\ OnePerTime(H)
          /\ retain \in BOOLEAN /\ now \in Nat /\ order \in BOOLEAN /\ upto \in Nat
      BY <2>1, StoreIs
    <3>2. QED
      BY <1>3, <1>6, <1>7, <1>8, <2>1, <2>3, <3>1 DEF DropIs
  <2>5. SoundStore(impl, A, H1, R \ D, T \ D, C, retain1, now, order, upto1)
    BY <2>2, <2>4, DropSound
  <2>6. /\ held'[r] = H1 /\ removals'[r] = R \ D /\ removalsByTime'[r] = T \ D
        /\ horizon'[r] = upto1 /\ retaining'[r] = retain1
    BY <1>1, <1>5, <2>1 DEF TypeOK
  <2>7. QED
    BY <1>5, <2>1, <2>5, <2>6 DEF Sound
<1>13. QED
  BY <1>9, <1>10, <1>11, <1>12, OthersSound DEF IInv

\* A change of r: it is new, and the clock goes on.
LEMMA IssueSound ==
    ASSUME IInv, NEW r \in Replica, NEW ch \in Change, Issue(r, ch)
    PROVE  IInv'
<1>1. TypeOK /\ IssuedSound
  BY DEF IInv
<1>2. /\ clock[r] \in Time
      /\ \A other \in issued : other.time # ch.time
      /\ clock' = [clock EXCEPT ![r] = @ + 1]
      /\ issued' = issued \cup {ch}
      /\ Apply(r, ch)
  BY DEF Issue
<1>3. clock[r] + 1 \in 1 .. Ever /\ clock[r] <= clock[r] + 1
  BY <1>2, ConstantsAssumption DEF Time, Ever
<1>4. /\ clock' \in [Replica -> 1 .. Ever]
      /\ clock[r] <= clock'[r]
      /\ \A q \in Replica \ {r} : clock'[q] = clock[q]
  BY <1>1, <1>2, <1>3 DEF TypeOK
<1>5. Fresh(applied[r], ch)
  BY <1>1, <1>2 DEF Fresh, IssuedSound
<1>6. Typed' /\ \A q \in Replica : Sound(q)'
  BY <1>2, <1>4, <1>5, ApplySound
<1>7. TypeOK'
  BY <1>1, <1>2, <1>6 DEF Typed, TypeOK
<1>8. IssuedSound'
  <2>1. OnePerTime(issued)'
    BY <1>1, <1>2 DEF IssuedSound, OnePerTime
  <2>2. \A q \in Replica : applied'[q] \subseteq issued'
    BY <1>1, <1>2 DEF IssuedSound, Apply, TypeOK
  <2>3. QED
    BY <2>1, <2>2 DEF IssuedSound
<1>9. QED
  BY <1>6, <1>7, <1>8 DEF IInv

LEMMA ReceiveSound ==
    ASSUME IInv, NEW r \in Replica, NEW ch \in issued, Receive(r, ch)
    PROVE  IInv'
<1>1. TypeOK /\ IssuedSound
  BY DEF IInv
<1>2. ch \notin applied[r] /\ clock' = clock /\ issued' = issued /\ Apply(r, ch)
  BY DEF Receive
<1>3. ch \in Change /\ Fresh(applied[r], ch)
  BY <1>1, <1>2 DEF Fresh, IssuedSound, OnePerTime, TypeOK
<1>4. /\ clock' \in [Replica -> 1 .. Ever]
      /\ clock[r] <= clock'[r]
      /\ \A q \in Replica \ {r} : clock'[q] = clock[q]
  <2>1. clock[r] \in Nat
    BY StoreIs
  <2>2. QED
    BY <1>1, <1>2, <2>1 DEF TypeOK
<1>5. Typed' /\ \A q \in Replica : Sound(q)'
  BY <1>2, <1>3, <1>4, ApplySound
<1>6. TypeOK'
  BY <1>1, <1>2, <1>5 DEF Typed, TypeOK
<1>7. IssuedSound'
  <2>1. \A q \in Replica : applied'[q] \subseteq issued
    BY <1>1, <1>2 DEF IssuedSound, Apply, TypeOK
  <2>2. QED
    BY <1>1, <1>2, <2>1 DEF IssuedSound, OnePerTime
<1>8. QED
  BY <1>5, <1>6, <1>7 DEF IInv

LEMMA TickSound ==
    ASSUME IInv, NEW r \in Replica, Tick(r)
    PROVE  IInv'
<1>1. TypeOK /\ IssuedSound /\ Sound(r)
  BY DEF IInv
<1>2. /\ clock[r] < Ever /\ clock' = [clock EXCEPT ![r] = @ + 1]
      /\ issued' = issued /\ applied' = applied /\ held' = held /\ removals' = removals
      /\ removalsByTime' = removalsByTime /\ clearances' = clearances
      /\ retaining' = retaining /\ orderly' = orderly /\ horizon' = horizon
  BY DEF Tick, stores
<1>3. clock[r] + 1 \in 1 .. Ever /\ clock[r] \in Nat
  BY <1>2, StoreIs, ConstantsAssumption DEF Ever
<1>4. TypeOK' /\ IssuedSound'
  BY <1>1, <1>2, <1>3 DEF TypeOK, IssuedSound
<1>5. Only(r)
  BY <1>1, <1>2 DEF Only, TypeOK
<1>6. Sound(r)'
  <2>1. clock'[r] = clock[r] + 1
    BY <1>1, <1>2 DEF TypeOK
  <2>2. OnTime(applied[r], clock[r]) => OnTime(applied[r], clock[r] + 1)
    <3>1. \A ch \in applied[r] : ch.time \in Nat
      BY StoreIs, TimeIsNat DEF Change
    <3>2. QED
      BY <1>3, <3>1 DEF OnTime
  <2>3. QED
    BY <1>1, <1>2, <2>1, <2>2 DEF Sound, SoundStore, Orderly
<1>7. QED
  BY <1>4, <1>5, <1>6, OthersSound DEF IInv

LEMMA StartSound ==
    ASSUME IInv, NEW r \in Replica, StartHistory(r)
    PROVE  IInv'
<1>1. TypeOK /\ IssuedSound /\ Sound(r)
  BY DEF IInv
<1>2. /\ retaining' = [retaining EXCEPT ![r] = TRUE] /\ clock' = clock
      /\ issued' = issued /\ applied' = applied /\ held' = held /\ removals' = removals
      /\ removalsByTime' = removalsByTime /\ clearances' = clearances
      /\ orderly' = orderly /\ horizon' = horizon
  BY DEF StartHistory, stores
<1>3. TypeOK' /\ IssuedSound'
  BY <1>1, <1>2 DEF TypeOK, IssuedSound
<1>4. Only(r)
  BY <1>1, <1>2 DEF Only, TypeOK
<1>5. Sound(r)'
  <2>1. retaining'[r] = TRUE
    BY <1>1, <1>2 DEF TypeOK
  <2>2. QED
    BY <1>1, <1>2, <2>1 DEF Sound, SoundStore, Orderly
<1>6. QED
  BY <1>3, <1>4, <1>5, OthersSound DEF IInv

LEMMA NextSound == IInv /\ [Next]_vars => IInv'
<1> SUFFICES ASSUME IInv, [Next]_vars
             PROVE  IInv'
  OBVIOUS
<1>1. CASE UNCHANGED vars
  <2>1. /\ issued' = issued /\ applied' = applied /\ held' = held /\ removals' = removals
        /\ removalsByTime' = removalsByTime /\ clearances' = clearances
        /\ retaining' = retaining /\ clock' = clock /\ orderly' = orderly
        /\ horizon' = horizon
    BY <1>1 DEF vars, stores
  <2>2. TypeOK' /\ IssuedSound'
    BY <2>1 DEF IInv, TypeOK, IssuedSound
  <2>3. ASSUME NEW r \in Replica
        PROVE  Sound(r)'
    <3>1. Sound(r)
      BY DEF IInv
    <3>2. QED
      BY <2>1, <3>1 DEF Sound
  <2>4. QED
    BY <2>2, <2>3 DEF IInv
<1>2. ASSUME NEW r \in Replica, NEW k \in Key, Set(r, k)
      PROVE  IInv'
  <2>1. PICK ch : ch = [type |-> "entry", time |-> clock[r], author |-> r, key |-> k]
    OBVIOUS
  <2>2. Issue(r, ch)
    BY <1>2, <2>1 DEF Set, Issue, Apply, MemoryApply, LmdbApply, MemoryAddEntry,
                      LmdbAddEntry, Supersedes
  <2>3. ch \in Change
    BY <2>1, <2>2 DEF Change, Issue
  <2>4. QED
    BY <2>2, <2>3, IssueSound
<1>3. ASSUME NEW r \in Replica, Clear(r)
      PROVE  IInv'
  <2>1. PICK ch : ch = [type |-> "clear", time |-> clock[r], author |-> r]
    OBVIOUS
  <2>2. Issue(r, ch)
    BY <1>3, <2>1 DEF Clear, Issue, Apply, MemoryApply, LmdbApply, MemoryAddClearance,
                      LmdbAddClearance
  <2>3. ch \in Change
    BY <2>1, <2>2 DEF Change, Issue
  <2>4. QED
    BY <2>2, <2>3, IssueSound
<1>4. ASSUME NEW r \in Replica, NEW asof \in Time, DropHistory(r, asof)
      PROVE  IInv'
  <2>1. retaining[r] \in BOOLEAN /\ retaining' = [retaining EXCEPT ![r] = retaining[r]]
    BY <1>4 DEF DropHistory, IInv, TypeOK
  <2>2. asof \in 0 .. MaxTime /\ Drop(r, asof)
    BY <1>4, ConstantsAssumption DEF DropHistory, Time
  <2>3. QED
    BY <2>1, <2>2, DropKeeps
<1>5. ASSUME NEW r \in Replica, StopHistory(r)
      PROVE  IInv'
  <2>1. retaining' = [retaining EXCEPT ![r] = FALSE] /\ Drop(r, clock[r] - 1)
    BY <1>5 DEF StopHistory
  <2>2. clock[r] - 1 \in 0 .. MaxTime
    BY StoreIs, ConstantsAssumption DEF Ever
  <2>3. QED
    BY <2>1, <2>2, DropKeeps
<1>6. ASSUME NEW r \in Replica, NEW ch \in issued, Receive(r, ch)
      PROVE  IInv'
  BY <1>6, ReceiveSound
<1>7. ASSUME NEW r \in Replica, Tick(r) \/ StartHistory(r)
      PROVE  IInv'
  BY <1>7, TickSound, StartSound
<1>8. QED
  BY <1>1, <1>2, <1>3, <1>4, <1>5, <1>6, <1>7 DEF Next
-----------------------------------------------------------------------------
(***************************************************************************)
(* The properties.                                                         *)
(***************************************************************************)

\* Every store is sound as IInv says, after any changes, drops and switches of
\* retention in any order.
THEOREM AlwaysSound == Spec => []IInv
<1>1. Init => IInv
  BY InitSound
<1>2. IInv /\ [Next]_vars => IInv'
  BY NextSound
<1>3. QED
  BY <1>1, <1>2, PTL DEF Spec

\* Type correctness: the tables hold what they are made for, and the horizon stays
\* a time.
THEOREM TypesAreRight == Spec => []TypeOK
<1>1. IInv => TypeOK
  BY DEF IInv
<1>2. QED
  BY <1>1, AlwaysSound, PTL

\* While changes arrive on time, drop_history does not raise and removes no entry
\* twice.
THEOREM DropsAreValid == Spec => []RemovalsAreValid
<1>1. IInv => RemovalsAreValid
  BY NoneRaises DEF RemovalsAreValid
<1>2. QED
  BY <1>1, AlwaysSound, PTL

\* What an answer as of a time depends on: the tables have everything that matters
\* after the horizon.
Complete(r) ==
    /\ EntriesKept(applied[r], held[r], horizon[r])
    /\ ClearsKept(applied[r], clearances[r], horizon[r])
    /\ Impl[r] = "memory" => \A t, u \in clearances[r] : t = u

\* The time before which entries do not count as of asof.
Cutoff(r, asof) == IF Impl[r] = "memory" THEN MemoryPriorClear(r, asof) ELSE LmdbPriorClear(r, asof)

\* It is that of the last clearance that was received before asof, if there was one.
LEMMA CutoffIs ==
    ASSUME IInv, NEW r \in Replica, Complete(r), NEW asof \in Nat, horizon[r] < asof
    PROVE  /\ Cutoff(r, asof) \in Nat
           /\ \/ Cutoff(r, asof) = 0
              \/ \E ch \in applied[r] :
                     ch.type = "clear" /\ ch.time = Cutoff(r, asof) /\ ch.time < asof
           /\ \A ch \in applied[r] :
                  ch.type = "clear" /\ ch.time < asof => ch.time <= Cutoff(r, asof)
<1>1. PICK B : B = ClearsBefore(r, asof)
  OBVIOUS
<1>2. /\ B \subseteq clearances[r] /\ B \subseteq Time
      /\ \A t \in B : t < asof
      /\ \A t \in clearances[r] : t < asof => t \in B
  BY <1>1, StoreIs DEF ClearsBefore
<1>3. /\ \A t \in B : t \in Nat
      /\ horizon[r] \in Nat
      /\ \A ch \in applied[r] : ch.time \in Nat
      /\ \A t \in clearances[r] : t \in Nat
  BY <1>2, StoreIs, TimeIsNat DEF Change
<1>4. ASSUME NEW ch \in applied[r], ch.type = "clear", ch.time < asof
      PROVE  \E t \in B : ch.time <= t
  <2>1. CASE ch.time \in clearances[r]
    BY <1>2, <1>3, <1>4, <2>1
  <2>2. CASE \E t \in clearances[r] : ch.time < t /\ t <= horizon[r]
    <3>1. PICK t \in clearances[r] : ch.time < t /\ t <= horizon[r]
      BY <2>2
    <3>2. t < asof /\ ch.time <= t
      BY <1>3, <3>1
    <3>3. QED
      BY <1>2, <3>2
  <2>3. QED
    BY <1>4, <2>1, <2>2 DEF Complete, ClearsKept
<1>5. CASE B = {}
  <2>1. Cutoff(r, asof) = 0
    BY <1>1, <1>5 DEF Cutoff, MemoryPriorClear, LmdbPriorClear
  <2>2. QED
    BY <1>4, <1>5, <2>1
<1>6. CASE B # {}
  <2>1. PICK last \in B : \A t \in B : t <= last
    BY <1>2, <1>6, LastTime
  <2>2. Max(B) \in B /\ \A t \in B : t <= Max(B)
    <3>1. \A t \in B : last >= t
      BY <1>3, <2>1
    <3>2. Max(B) \in B /\ \A t \in B : Max(B) >= t
      BY <3>1 DEF Max
    <3>3. QED
      BY <1>3, <3>2
  <2>3. ASSUME Impl[r] = "memory"
        PROVE  Min(B) \in B /\ \A t \in B : t <= Min(B)
    <3>1. \A t, u \in B : t = u
      BY <1>2, <2>3 DEF Complete
    <3>2. \A t \in B : last =< t
      BY <1>3, <3>1
    <3>3. Min(B) \in B
      BY <3>2 DEF Min
    <3>4. QED
      BY <2>1, <3>1, <3>3
  <2>4. /\ Cutoff(r, asof) \in B
        /\ \A t \in B : t <= Cutoff(r, asof)
    BY <1>1, <1>6, <2>2, <2>3 DEF Cutoff, MemoryPriorClear, LmdbPriorClear
  <2>5. \E ch \in applied[r] :
            ch.type = "clear" /\ ch.time = Cutoff(r, asof) /\ ch.time < asof
    BY <1>2, <2>4, StoreIs DEF Sound, SoundStore, ClearsAreReceived
  <2>6. ASSUME NEW ch \in applied[r], ch.type = "clear", ch.time < asof
        PROVE  ch.time <= Cutoff(r, asof)
    <3>1. PICK t \in B : ch.time <= t
      BY <1>4, <2>6
    <3>2. t <= Cutoff(r, asof) /\ t \in Nat /\ Cutoff(r, asof) \in Nat /\ ch.time \in Nat
      BY <1>3, <2>4
    <3>3. QED
      BY <3>1, <3>2
  <2>7. QED
    BY <1>3, <2>4, <2>5, <2>6
<1>7. QED
  BY <1>5, <1>6

\* The changes that are about a key as of a time.
About(r, k, asof) == {ch \in applied[r] : ch.time < asof /\ (ch.type = "clear" \/ ch.key = k)}

LEMMA AboutIs ==
    ASSUME IInv, NEW r \in Replica, NEW k, NEW asof
    PROVE  /\ \A ch \in About(r, k, asof) : ch.time \in Time
           /\ OnePerTime(About(r, k, asof))
BY StoreIs DEF About, Change, OnePerTime

\* An entry that is the last change about its key is held.
LEMMA WinnerIsHeld ==
    ASSUME IInv, NEW r \in Replica, Complete(r), NEW k, NEW asof \in Nat, horizon[r] < asof,
           NEW S, S \subseteq About(r, k, asof),
           NEW x \in S, x.type = "entry", \A y \in S : y.time <= x.time,
           \A y \in About(r, k, asof) : y.type = "entry" => y \in S
    PROVE  \E e \in held[r] : e.time = x.time /\ e.key = k
<1>1. x \in applied[r] /\ x.key = k /\ x.time < asof
  BY DEF About
<1>2. /\ \A ch \in applied[r] : ch.time \in Nat
      /\ horizon[r] \in Nat
  BY StoreIs, TimeIsNat DEF Change
<1>3. ASSUME NEW later \in applied[r],
             later.type = "entry", later.key = k, x.time < later.time, later.time <= horizon[r]
      PROVE  FALSE
  <2>1. later.time < asof
    BY <1>2, <1>3
  <2>2. later \in S
    BY <1>3, <2>1 DEF About
  <2>3. later.time <= x.time
    BY <2>2
  <2>4. QED
    BY <1>1, <1>2, <1>3, <2>3
<1>4. QED
  BY <1>1, <1>3 DEF Complete, EntriesKept

\* The answer of a complete store is what the changes say.
LEMMA AnswerIsRight ==
    ASSUME IInv, NEW r \in Replica, Complete(r), NEW k \in Key,
           NEW asof \in Nat, horizon[r] < asof
    PROVE  Answer(r, k, asof) = Wins(r, k, asof)
<1>1. PICK cleared : cleared = Cutoff(r, asof)
  OBVIOUS
<1>2. Answer(r, k, asof) = {e.time : e \in LastSince(r, k, asof, cleared)}
  BY <1>1 DEF Answer, GetEntryByKey, MemoryGet, LmdbGet, Cutoff
<1>3. PICK B : B = About(r, k, asof)
  OBVIOUS
<1>4. Wins(r, k, asof) = {ch.time : ch \in {x \in B : x = Latest(B) /\ x.type = "entry"}}
  BY <1>3 DEF Wins, About
<1>5. /\ cleared \in Nat
      /\ \/ cleared = 0
         \/ \E ch \in applied[r] : ch.type = "clear" /\ ch.time = cleared /\ ch.time < asof
      /\ \A ch \in applied[r] : ch.type = "clear" /\ ch.time < asof => ch.time <= cleared
  BY <1>1, CutoffIs
<1>6. (\A x \in B : x.time \in Time) /\ OnePerTime(B)
  BY <1>3, AboutIs
<1>7. /\ held[r] \subseteq Entry /\ OnePerTime(held[r])
      /\ HeldIsReceived(applied[r], held[r])
      /\ \A ch \in applied[r] : ch.type \in {"entry", "clear"} /\ ch.time \in Nat
      /\ \A e \in held[r] : e.time \in Nat
  BY StoreIs, TimeIsNat DEF Change, Entry
<1>8. ASSUME NEW e \in LastSince(r, k, asof, cleared)
      PROVE  \E x \in B : x = Latest(B) /\ x.type = "entry" /\ x.time = e.time
  <2>1. /\ e \in held[r] /\ e.key = k /\ e.time < asof /\ e.time >= cleared
        /\ \A x \in held[r] : x.key = k /\ x.time < asof => x.time <= e.time
    BY <1>8, FoundIs
  <2>2. PICK x \in applied[r] : x.type = "entry" /\ x.time = e.time /\ x.key = k
    BY <1>7, <2>1 DEF HeldIsReceived
  <2>3. x \in B
    BY <1>3, <2>1, <2>2 DEF About
  <2>4. PICK S : S = {y \in B : y.type = "entry"}
    OBVIOUS
  <2>5. PICK z \in S : \A y \in S : y.time <= z.time
    <3>1. S # {} /\ \A y \in S : y.time \in Time
      BY <1>6, <2>2, <2>3, <2>4
    <3>2. QED
      BY <3>1, LastExists
  <2>6. PICK d \in held[r] : d.time = z.time /\ d.key = k
    <3>1. /\ S \subseteq About(r, k, asof) /\ z.type = "entry"
          /\ \A y \in About(r, k, asof) : y.type = "entry" => y \in S
      BY <1>3, <2>4
    <3>2. QED
      BY <2>5, <3>1, WinnerIsHeld
  <2>7. z.time <= e.time
    BY <1>3, <2>1, <2>4, <2>5, <2>6 DEF About
  <2>8. ASSUME NEW y \in B
        PROVE  y.time <= x.time
    <3>1. y \in applied[r] /\ y.time < asof
      BY <1>3 DEF About
    <3>2. CASE y.type = "entry"
      <4>1. y.time <= z.time /\ z \in applied[r]
        BY <1>3, <2>4, <2>5, <3>2 DEF About
      <4>2. QED
        BY <1>7, <2>1, <2>2, <2>7, <3>1, <4>1
    <3>3. CASE y.type = "clear"
      <4>1. y.time <= cleared
        BY <1>5, <3>1, <3>3
      <4>2. QED
        BY <1>5, <1>7, <2>1, <2>2, <3>1, <4>1
    <3>4. QED
      BY <1>7, <3>1, <3>2, <3>3
  <2>9. x = Latest(B)
    BY <1>6, <2>3, <2>8, LatestIs
  <2>10. QED
    BY <2>2, <2>3, <2>9
<1>9. ASSUME NEW x \in B, x = Latest(B), x.type = "entry"
      PROVE  \E e \in LastSince(r, k, asof, cleared) : e.time = x.time
  <2>1. \A y \in B : y.time <= x.time
    BY <1>6, <1>9, LatestIs
  <2>2. x \in applied[r] /\ x.time < asof
    BY <1>3 DEF About
  <2>3. PICK e \in held[r] : e.time = x.time /\ e.key = k
    BY <1>3, <1>9, <2>1, WinnerIsHeld
  <2>4. PICK before : before = {y \in held[r] : y.key = k /\ y.time < asof}
    OBVIOUS
  <2>5. e \in before /\ (\A y \in before : y.time \in Time) /\ OnePerTime(before)
    BY <1>7, <2>2, <2>3, <2>4 DEF Entry, OnePerTime
  <2>6. ASSUME NEW y \in before
        PROVE  y.time <= e.time
    <3>1. PICK c \in applied[r] : c.type = "entry" /\ c.time = y.time /\ c.key = k
      BY <1>7, <2>4 DEF HeldIsReceived
    <3>2. c \in B
      BY <1>3, <2>4, <3>1 DEF About
    <3>3. QED
      BY <2>1, <2>3, <3>1, <3>2
  <2>7. e = Latest(before)
    BY <2>5, <2>6, LatestIs
  <2>8. e.time >= cleared
    <3>1. CASE cleared = 0
      BY <1>7, <2>3, <3>1
    <3>2. CASE \E ch \in applied[r] : ch.type = "clear" /\ ch.time = cleared /\ ch.time < asof
      <4>1. PICK ch \in B : ch.time = cleared
        BY <1>3, <3>2 DEF About
      <4>2. cleared <= x.time
        BY <2>1, <4>1
      <4>3. QED
        BY <1>5, <1>7, <2>3, <4>2
    <3>3. QED
      BY <1>5, <3>1, <3>2
  <2>9. e \in LastSince(r, k, asof, cleared)
    BY <2>4, <2>5, <2>7, <2>8 DEF LastSince
  <2>10. QED
    BY <2>3, <2>9
<1>10. QED
  BY <1>2, <1>4, <1>8, <1>9

\* A set of at most one time.
LEMMA AtMostOne ==
    ASSUME NEW S, S \subseteq Time, Cardinality(S) <= 1, NEW t \in S, NEW u \in S
    PROVE  t = u
<1>1. IsFiniteSet(S)
  <2>1. IsFiniteSet(Time)
    BY FS_Interval, ConstantsAssumption DEF Time
  <2>2. QED
    BY <2>1, FS_Subset
<1>2. IsFiniteSet(S \ {t}) /\ Cardinality(S \ {t}) = Cardinality(S) - 1
  BY <1>1, FS_RemoveElement
<1>3. Cardinality(S \ {t}) = 0
  BY <1>1, <1>2, FS_CardinalityType
<1>4. S \ {t} = {}
  BY <1>2, <1>3, FS_EmptySet
<1>5. QED
  BY <1>4

\* The last writer wins as of every time after the horizon: with full history
\* whatever the order and the clocks, and after drops of history as long as
\* changes arrive on time.
THEOREM LastWriter == Spec => []LastWriterWins
<1>1. ASSUME IInv
      PROVE  LastWriterWins
  <2> SUFFICES ASSUME NEW r \in Replica,
                      horizon[r] = 0 \/ orderly[r],
                      Impl[r] = "memory" => Cardinality(clearances[r]) <= 1,
                      NEW k \in Key, NEW asof \in horizon[r] + 1 .. Ever
               PROVE  Answer(r, k, asof) = Wins(r, k, asof)
    BY DEF LastWriterWins
  <2>1. horizon[r] \in Nat /\ Ever \in Nat
    BY <1>1, StoreIs, ConstantsAssumption DEF Ever
  <2>2. asof \in Nat /\ horizon[r] < asof
    BY <2>1
  <2>3. Impl[r] = "memory" => \A t, u \in clearances[r] : t = u
    <3>1. clearances[r] \subseteq Time
      BY <1>1, StoreIs
    <3>2. QED
      BY <3>1, AtMostOne
  <2>4. Complete(r)
    BY <1>1, <2>3 DEF IInv, Sound, SoundStore, Complete
  <2>5. QED
    BY <1>1, <2>2, <2>4, AnswerIsRight
<1>2. QED
  BY <1>1, AlwaysSound, PTL

\* Where the documented convergence holds: two instances with the same changes
\* give the same answers about the present, in memory or LMDB stores, if each of
\* them has its full history or got the changes on time.  Both answers are what
\* the changes say, and horizons are in the past.
Trusted(r) ==
    /\ horizon[r] = 0 \/ orderly[r]
    /\ Impl[r] = "memory" => Cardinality(clearances[r]) <= 1

TrustedConverge ==
    \A r, q \in Replica, k \in Key :
        Trusted(r) /\ Trusted(q) /\ applied[r] = applied[q] =>
            Answer(r, k, Ever) = Answer(q, k, Ever)

\* The answers of the stores that can be trusted about the present converge.
THEOREM TrustedKeysConverge == Spec => []TrustedConverge
<1>1. ASSUME TypeOK, LastWriterWins
      PROVE  TrustedConverge
  <2> SUFFICES ASSUME NEW r \in Replica, NEW q \in Replica, NEW k \in Key,
                      Trusted(r), Trusted(q), applied[r] = applied[q]
               PROVE  Answer(r, k, Ever) = Answer(q, k, Ever)
    BY DEF TrustedConverge
  <2>1. /\ Ever \in horizon[r] + 1 .. Ever
        /\ Ever \in horizon[q] + 1 .. Ever
    <3>1. horizon[r] \in 0 .. MaxTime /\ horizon[q] \in 0 .. MaxTime
      BY <1>1 DEF TypeOK
    <3>2. QED
      BY <3>1, ConstantsAssumption DEF Ever
  <2>2. Answer(r, k, Ever) = Wins(r, k, Ever) /\ Answer(q, k, Ever) = Wins(q, k, Ever)
    BY <1>1, <2>1 DEF LastWriterWins, Trusted
  <2>3. Wins(r, k, Ever) = Wins(q, k, Ever)
    BY DEF Wins
  <2>4. QED
    BY <2>2, <2>3
<1>2. QED
  BY <1>1, LastWriter, TypesAreRight, PTL
=============================================================================
