------------------------ MODULE SequenceStoreProofs ------------------------
(***************************************************************************)
(* Proofs about SequenceStore, for any instances with any mix of memory    *)
(* and LMDB stores, any times, positions and expiries, with and without    *)
(* history: in whatever order changes arrive, an entry is at one place at  *)
(* a time, its place is shown unless something hides it, and instances     *)
(* that have the same changes show it at the same place.                   *)
(*                                                                         *)
(* The parts of the inductive invariant speak of a store as it is: A are   *)
(* the changes it has received, P its places, R its removals and C its     *)
(* clearances.  The lemmas about them are about sets, not about states.    *)
(***************************************************************************)
EXTENDS SequenceStore, FiniteSetTheorems, WellFoundedInduction, TLAPS

\* Where changes come from: a time names one change.
OnePerTime(S) == \A ch, other \in S : ch.time = other.time => ch = other

IssuedSound ==
    /\ OnePerTime(issued)
    /\ \A ch \in issued : ch.type = "add" => ch.entry = ch.time
    /\ \A r \in Replica : applied[r] \subseteq issued

\* A place is where a change of its entry has put it, and its expiry is that of
\* the entry.
Added(A, pl) ==
    \E ch \in A : ch.type = "add" /\ ch.time = pl.entry /\ ch.expiry = pl.expiry

PlacedBy(pl, ch) ==
    /\ ch.time = pl.placer
    /\ ch.entry = pl.entry
    /\ pl.entry <= pl.placer
    /\ \/ /\ ch.type = "add"
          /\ pl.pos = IF ch.dest = 0 THEN ch.time ELSE ch.dest
       \/ /\ ch.type = "move"
          /\ pl.pos = ch.dest
          /\ pl.expiry = 0 \/ ch.time <= pl.expiry

PlacesSound(A, P) ==
    \A pl \in P : Added(A, pl) /\ \E ch \in A : PlacedBy(pl, ch)

OnePerPlacer(P) == \A pl, other \in P : pl.placer = other.placer => pl = other

\* A removal leads from a place of an entry to the next one, and there is one
\* for every place that has a next one.
Follows(P, a, b) ==
    /\ a.entry = b.entry
    /\ a.placer < b.placer
    /\ \A c \in P : c.entry = a.entry => c.placer <= a.placer \/ b.placer <= c.placer

RemovalsLink(P, R) ==
    \A rm \in R : \E a, b \in P :
        a.placer = rm.removing /\ b.placer = rm.movement /\ Follows(P, a, b)

LeftAreRemoved(P, R) ==
    \A a, b \in P : a.entry = b.entry /\ a.placer < b.placer =>
        \E rm \in R : rm.removing = a.placer

\* Without history there is one place of an entry, and no removal.
Forgets(P, R, retain) ==
    ~retain => R = {} /\ \A a, b \in P : a.entry = b.entry => a = b

\* An entry that no change removes has a place, at least as late as every
\* movement of it that was not too late.
TakenOut(A, e) ==
    \E ch \in A : ch.entry = e /\ ch.type = "move" /\ ch.dest = Nowhere

Keeps(A, P) ==
    \A ch \in A : ch.type = "add" /\ ~TakenOut(A, ch.time) =>
        \E pl \in P : pl.entry = ch.time

Heeds(A, P) ==
    \A ch \in A : ch.type = "move" /\ ~TakenOut(A, ch.entry) =>
        \E pl \in P : /\ pl.entry = ch.entry
                      /\ ch.time <= pl.placer \/ (pl.expiry # 0 /\ pl.expiry < ch.time)

\* The clearances are some of those received, at least one of them.
ClearancesSound(A, C) ==
    /\ \A t \in C : \E ch \in A : ch.type = "clear" /\ ch.time = t
    /\ (\E ch \in A : ch.type = "clear") => C # {}

Located(A, P, R, retain) ==
    /\ PlacesSound(A, P)
    /\ OnePerPlacer(P)
    /\ RemovalsLink(P, R)
    /\ LeftAreRemoved(P, R)
    /\ Forgets(P, R, retain)
    /\ Keeps(A, P)
    /\ Heeds(A, P)

Sound(r) ==
    /\ Located(applied[r], places[r], removals[r], retains[r])
    /\ ClearancesSound(applied[r], clearances[r])

IInv ==
    /\ TypeOK
    /\ IssuedSound
    /\ \A r \in Replica \ Lmdb : retains[r]
    /\ \A r \in Replica : Sound(r)
-----------------------------------------------------------------------------
(***************************************************************************)
(* The last of some places.                                                *)
(***************************************************************************)

\* A set of times that is not empty has a last one.
LEMMA LastTime ==
    ASSUME NEW S, S \subseteq Time, S # {}
    PROVE  \E t \in S : \A u \in S : u <= t
<1> DEFINE T == {MaxTime - t : t \in S}
<1>1. MaxTime \in Nat /\ S \subseteq 1 .. MaxTime
  BY ConstantsAssumption DEF Time
<1>2. T \subseteq Nat /\ T # {}
  <2>1. ASSUME NEW t \in S
        PROVE  MaxTime - t \in Nat
    BY <1>1
  <2>2. QED
    BY <2>1
<1>3. PICK x \in T : \A y \in T : ~(<<y, x>> \in OpToRel(<, Nat))
  <2> HIDE DEF T
  <2> QED
    BY <1>2, NatLessThanWellFounded, WFMin
<1>4. \A y \in T : ~(y < x)
  BY <1>2, <1>3 DEF OpToRel
<1>5. PICK t \in S : x = MaxTime - t
  OBVIOUS
<1>6. ASSUME NEW u \in S
      PROVE  u <= t
  <2>1. MaxTime - u \in T
    OBVIOUS
  <2>2. ~(MaxTime - u < MaxTime - t)
    BY <1>4, <1>5, <2>1
  <2>3. QED
    BY <1>1, <2>2
<1>7. QED
  BY <1>6

\* Some places have a last one.
LEMMA LastPlace ==
    ASSUME NEW P, P \subseteq Place, P # {}
    PROVE  \E pl \in P : \A other \in P : other.placer <= pl.placer
<1> DEFINE S == {pl.placer : pl \in P}
<1>1. S \subseteq Time /\ S # {}
  BY DEF Place
<1>2. PICK t \in S : \A u \in S : u <= t
  <2> HIDE DEF S
  <2> QED
    BY <1>1, LastTime
<1>3. QED
  BY <1>2

\* _get_location returns the last place of the entry before the time.
LEMMA LocationIsLast ==
    ASSUME TypeOK, NEW r \in Replica, NEW e, NEW asof, PlacesOf(r, e, asof) # {}
    PROVE  /\ Location(r, e, asof) \in PlacesOf(r, e, asof)
           /\ \A other \in PlacesOf(r, e, asof) :
                  other.placer <= Location(r, e, asof).placer
<1>1. PlacesOf(r, e, asof) \subseteq Place
  BY DEF TypeOK, PlacesOf
<1>2. \E pl \in PlacesOf(r, e, asof) :
          \A other \in PlacesOf(r, e, asof) : other.placer <= pl.placer
  BY <1>1, LastPlace
<1>3. QED
  BY <1>2 DEF Location

-----------------------------------------------------------------------------
(***************************************************************************)
(* What a change does to a sound store.                                    *)
(***************************************************************************)

\* A change that is new to a store with the changes A.
Fresh(A, ch) == ch \in Change /\ \A other \in A : other.time # ch.time

\* A change that leaves the places alone: nothing but what it says of movements
\* and additions has to be looked at again.
LEMMA PlacesStay ==
    ASSUME NEW A, NEW P, NEW R, NEW retain, NEW ch,
           Located(A, P, R, retain),
           ch.type # "add",
           ch.type = "move" /\ ~TakenOut(A \cup {ch}, ch.entry) =>
               \E pl \in P : /\ pl.entry = ch.entry
                             /\ \/ ch.time <= pl.placer
                                \/ pl.expiry # 0 /\ pl.expiry < ch.time
    PROVE  Located(A \cup {ch}, P, R, retain)
<1>1. PlacesSound(A \cup {ch}, P)
  BY DEF Located, PlacesSound, Added
<1>2. \A e : ~TakenOut(A \cup {ch}, e) => ~TakenOut(A, e)
  BY DEF TakenOut
<1>3. Keeps(A \cup {ch}, P)
  BY <1>2 DEF Located, Keeps
<1>4. Heeds(A \cup {ch}, P)
  BY <1>2 DEF Located, Heeds
<1>5. QED
  BY <1>1, <1>3, <1>4 DEF Located

\* A new entry has no place yet.
LEMMA EntryIsNew ==
    ASSUME NEW A, NEW P, NEW ch, Fresh(A, ch), PlacesSound(A, P)
    PROVE  \A pl \in P : pl.placer # ch.time /\ pl.entry # ch.time
BY DEF Fresh, PlacesSound, Added, PlacedBy

\* _add_entry.
LEMMA EntryIsAdded ==
    ASSUME NEW A, NEW P, P \subseteq Place, NEW R, NEW retain,
           Located(A, P, R, retain),
           NEW ch, Fresh(A, ch), ch.type = "add", ch.entry = ch.time,
           NEW new \in Place,
           new.entry = ch.time, new.placer = ch.time, new.expiry = ch.expiry,
           new.pos = IF ch.dest = 0 THEN ch.time ELSE ch.dest
    PROVE  Located(A \cup {ch}, P \cup {new}, R, retain)
<1>1. \A pl \in P : pl.placer # new.placer /\ pl.entry # new.entry
  BY EntryIsNew DEF Located
<1>2. new.placer \in Nat /\ \A pl \in P : pl.placer \in Nat
  BY ConstantsAssumption DEF Place, Time
<1>3. PlacesSound(A \cup {ch}, P \cup {new})
  <2>1. Added(A \cup {ch}, new)
    BY DEF Added
  <2>2. PlacedBy(new, ch)
    BY <1>2 DEF PlacedBy
  <2>3. QED
    BY <2>1, <2>2 DEF Located, PlacesSound, Added
<1>4. OnePerPlacer(P \cup {new})
  BY <1>1 DEF Located, OnePerPlacer
<1>5. RemovalsLink(P \cup {new}, R)
  <2>1. ASSUME NEW rm \in R
        PROVE  \E a, b \in P \cup {new} : /\ a.placer = rm.removing
                                          /\ b.placer = rm.movement
                                          /\ Follows(P \cup {new}, a, b)
    <3>1. PICK a \in P, b \in P :
              a.placer = rm.removing /\ b.placer = rm.movement /\ Follows(P, a, b)
      BY DEF Located, RemovalsLink
    <3>2. Follows(P \cup {new}, a, b)
      BY <1>1, <3>1 DEF Follows
    <3>3. QED
      BY <3>1, <3>2
  <2>2. QED
    BY <2>1 DEF RemovalsLink
<1>6. LeftAreRemoved(P \cup {new}, R)
  BY <1>1, <1>2 DEF Located, LeftAreRemoved
<1>7. Forgets(P \cup {new}, R, retain)
  BY <1>1 DEF Located, Forgets
<1>8. \A e : ~TakenOut(A \cup {ch}, e) => ~TakenOut(A, e)
  BY DEF TakenOut
<1>9. Keeps(A \cup {ch}, P \cup {new})
  BY <1>8 DEF Located, Keeps
<1>10. Heeds(A \cup {ch}, P \cup {new})
  BY <1>8 DEF Located, Heeds
<1>11. QED
  BY <1>3, <1>4, <1>5, <1>6, <1>7, <1>9, <1>10 DEF Located

\* A movement that goes ahead, from the last place of its entry.
Leaves(P, old, ch) ==
    /\ old \in P
    /\ old.entry = ch.entry
    /\ \A other \in P : other.entry = old.entry => other.placer <= old.placer
    /\ old.placer < ch.time
    /\ old.expiry = 0 \/ ch.time <= old.expiry

Arrives(old, next, ch) ==
    /\ next \in Place
    /\ next.entry = old.entry
    /\ next.placer = ch.time
    /\ next.pos = ch.dest
    /\ next.expiry = old.expiry

\* The place it arrives at is sound, and later than the others of the entry.
LEMMA ArrivalIsSound ==
    ASSUME NEW A, NEW P, P \subseteq Place, PlacesSound(A, P),
           NEW ch, Fresh(A, ch), ch.type = "move",
           NEW old, Leaves(P, old, ch), NEW next, Arrives(old, next, ch)
    PROVE  /\ Added(A \cup {ch}, next)
           /\ PlacedBy(next, ch)
           /\ \A pl \in P : pl.placer # next.placer
           /\ \A pl \in P : pl.entry = next.entry => pl.placer < next.placer
<1>1. ch.time \in Nat /\ old.placer \in Nat /\ old.entry \in Nat
      /\ \A pl \in P : pl.placer \in Nat
  BY ConstantsAssumption DEF Place, Time, Leaves, Arrives
<1>2. Added(A \cup {ch}, next)
  BY DEF Leaves, Arrives, PlacesSound, Added
<1>3. old.entry <= old.placer
  BY DEF Leaves, PlacesSound, PlacedBy
<1>4. PlacedBy(next, ch)
  BY <1>1, <1>3 DEF Leaves, Arrives, PlacedBy
<1>5. \A pl \in P : pl.placer # next.placer
  BY DEF Fresh, PlacesSound, PlacedBy, Arrives
<1>6. \A pl \in P : pl.entry = next.entry => pl.placer < next.placer
  BY <1>1 DEF Leaves, Arrives
<1>7. QED
  BY <1>2, <1>4, <1>5, <1>6

\* The rest of what holds after a movement: its entry has a place that is as late
\* as it, if it has a place at all.
LEMMA MovementIsHeeded ==
    ASSUME NEW A, A \subseteq Change, NEW P, P \subseteq Place, NEW ch \in Change, ch.type = "move",
           Keeps(A, P), Heeds(A, P),
           NEW old, Leaves(P, old, ch), NEW next, Arrives(old, next, ch),
           NEW Q, P \ {old} \subseteq Q, ch.dest # Nowhere => next \in Q
    PROVE  Keeps(A \cup {ch}, Q) /\ Heeds(A \cup {ch}, Q)
<1>1. ch.time \in Nat /\ old.placer \in Nat /\ old.placer < ch.time
  BY ConstantsAssumption DEF Change, Place, Time, Leaves
<1>2. \A e : ~TakenOut(A \cup {ch}, e) => ~TakenOut(A, e)
  BY DEF TakenOut
<1>3. ASSUME NEW e, ~TakenOut(A \cup {ch}, e), NEW pl \in P, pl.entry = e
      PROVE  pl \in Q \/ (pl = old /\ next \in Q)
  <2>1. pl = old => ch.dest # Nowhere
    BY <1>3 DEF TakenOut, Leaves
  <2>2. QED
    BY <2>1
<1>4. Keeps(A \cup {ch}, Q)
  <2>1. ASSUME NEW c \in A \cup {ch}, c.type = "add", ~TakenOut(A \cup {ch}, c.time)
        PROVE  \E pl \in Q : pl.entry = c.time
    <3>1. c \in A /\ ~TakenOut(A, c.time)
      BY <1>2, <2>1
    <3>2. PICK pl \in P : pl.entry = c.time
      BY <2>1, <3>1 DEF Keeps
    <3>3. QED
      BY <1>3, <2>1, <3>2 DEF Arrives
  <2>2. QED
    BY <2>1 DEF Keeps
<1>5. Heeds(A \cup {ch}, Q)
  <2>1. ASSUME NEW c \in A, c.type = "move", ~TakenOut(A \cup {ch}, c.entry)
        PROVE  \E pl \in Q : /\ pl.entry = c.entry
                             /\ c.time <= pl.placer \/ (pl.expiry # 0 /\ pl.expiry < c.time)
    <3>1. PICK pl \in P :
              /\ pl.entry = c.entry
              /\ c.time <= pl.placer \/ (pl.expiry # 0 /\ pl.expiry < c.time)
      BY <1>2, <2>1 DEF Heeds
    <3>2. CASE pl \in Q
      BY <3>1, <3>2
    <3>3. CASE pl = old /\ next \in Q
      <4>1. next.entry = c.entry /\ next.expiry = pl.expiry /\ next.placer = ch.time
        BY <3>1, <3>3 DEF Arrives
      <4>2. CASE pl.expiry # 0 /\ pl.expiry < c.time
        BY <3>3, <4>1, <4>2
      <4>3. CASE c.time <= pl.placer
        <5>1. c.time \in Nat
          BY ConstantsAssumption DEF Change, Time
        <5>2. QED
          BY <1>1, <3>3, <4>1, <4>3, <5>1
      <4>4. QED
        BY <3>1, <4>2, <4>3
    <3>4. QED
      BY <1>3, <2>1, <3>1, <3>2, <3>3
  <2>2. ASSUME ~TakenOut(A \cup {ch}, ch.entry)
        PROVE  \E pl \in Q : pl.entry = ch.entry /\ ch.time <= pl.placer
    <3>1. ch.dest # Nowhere
      BY <2>2 DEF TakenOut
    <3>2. next \in Q /\ next.entry = ch.entry /\ next.placer = ch.time
      BY <3>1 DEF Leaves, Arrives
    <3>3. QED
      BY <1>1, <3>2
  <2>3. QED
    BY <2>1, <2>2 DEF Heeds
<1>6. QED
  BY <1>4, <1>5

\* A movement in a store with history.
LEMMA EntryIsMoved ==
    ASSUME NEW A, A \subseteq Change, NEW P, P \subseteq Place, NEW R, Located(A, P, R, TRUE),
           NEW ch, Fresh(A, ch), ch.type = "move",
           NEW old, Leaves(P, old, ch), NEW next, Arrives(old, next, ch),
           NEW rm, rm.removing = old.placer, rm.movement = ch.time
    PROVE  Located(A \cup {ch}, P \cup {next}, R \cup {rm}, TRUE)
<1>1. next.placer \in Nat /\ \A pl \in P : pl.placer \in Nat
  BY ConstantsAssumption DEF Place, Time, Arrives
<1>2. /\ Added(A \cup {ch}, next)
      /\ PlacedBy(next, ch)
      /\ \A pl \in P : pl.placer # next.placer
      /\ \A pl \in P : pl.entry = next.entry => pl.placer < next.placer
  BY ArrivalIsSound DEF Located
<1>3. PlacesSound(A \cup {ch}, P \cup {next})
  BY <1>2 DEF Located, PlacesSound, Added
<1>4. OnePerPlacer(P \cup {next})
  BY <1>2 DEF Located, OnePerPlacer
<1>5. RemovalsLink(P \cup {next}, R \cup {rm})
  <2>1. ASSUME NEW x \in R
        PROVE  \E a, b \in P \cup {next} : /\ a.placer = x.removing
                                           /\ b.placer = x.movement
                                           /\ Follows(P \cup {next}, a, b)
    <3>1. PICK a \in P, b \in P :
              a.placer = x.removing /\ b.placer = x.movement /\ Follows(P, a, b)
      BY DEF Located, RemovalsLink
    <3>2. next.entry = a.entry => b.placer <= next.placer
      BY <1>1, <1>2, <3>1 DEF Follows
    <3>3. Follows(P \cup {next}, a, b)
      BY <3>1, <3>2 DEF Follows
    <3>4. QED
      BY <3>1, <3>3
  <2>2. Follows(P \cup {next}, old, next)
    BY <1>1, <1>2 DEF Follows, Leaves, Arrives
  <2>3. \E a, b \in P \cup {next} : /\ a.placer = rm.removing
                                    /\ b.placer = rm.movement
                                    /\ Follows(P \cup {next}, a, b)
    BY <2>2 DEF Leaves, Arrives
  <2>4. QED
    BY <2>1, <2>3 DEF RemovalsLink
<1>6. LeftAreRemoved(P \cup {next}, R \cup {rm})
  <2>1. ASSUME NEW a \in P \cup {next}, NEW b \in P \cup {next},
               a.entry = b.entry, a.placer < b.placer
        PROVE  \E x \in R \cup {rm} : x.removing = a.placer
    <3>1. a \in P
      BY <1>1, <1>2, <2>1
    <3>2. CASE b \in P
      BY <2>1, <3>1, <3>2 DEF Located, LeftAreRemoved
    <3>3. CASE b = next /\ a.placer = old.placer
      BY <3>3
    <3>4. CASE b = next /\ a.placer # old.placer
      <4>1. a.placer < old.placer /\ a.entry = old.entry /\ old \in P
        BY <1>1, <2>1, <3>1, <3>4 DEF Leaves, Arrives
      <4>2. QED
        BY <3>1, <4>1 DEF Located, LeftAreRemoved
    <3>5. QED
      BY <3>2, <3>3, <3>4
  <2>2. QED
    BY <2>1 DEF LeftAreRemoved
<1>7. Forgets(P \cup {next}, R \cup {rm}, TRUE)
  BY DEF Forgets
<1>8. Keeps(A \cup {ch}, P \cup {next}) /\ Heeds(A \cup {ch}, P \cup {next})
  <2>1. PICK Q : Q = P \cup {next}
    OBVIOUS
  <2>2. P \ {old} \subseteq Q /\ next \in Q /\ ch \in Change
    BY <2>1 DEF Fresh
  <2>3. Keeps(A, P) /\ Heeds(A, P)
    BY DEF Located
  <2>4. Keeps(A \cup {ch}, Q) /\ Heeds(A \cup {ch}, Q)
    BY <2>2, <2>3, MovementIsHeeded
  <2>5. QED
    BY <2>1, <2>4
<1>9. QED
  BY <1>3, <1>4, <1>5, <1>6, <1>7, <1>8 DEF Located

\* A movement in a store without history.
LEMMA EntryIsTaken ==
    ASSUME NEW A, A \subseteq Change, NEW P, P \subseteq Place, NEW R, Located(A, P, R, FALSE),
           NEW ch, Fresh(A, ch), ch.type = "move",
           NEW old, Leaves(P, old, ch), NEW next, Arrives(old, next, ch),
           NEW Q, Q = (P \ {old}) \cup IF ch.dest = Nowhere THEN {} ELSE {next}
    PROVE  Located(A \cup {ch}, Q, R, FALSE)
<1>1. /\ Added(A \cup {ch}, next)
      /\ PlacedBy(next, ch)
      /\ \A pl \in P : pl.placer # next.placer
  BY ArrivalIsSound DEF Located
<1>2. Q \subseteq (P \ {old}) \cup {next}
  OBVIOUS
<1>3. PlacesSound(A \cup {ch}, Q)
  BY <1>1, <1>2 DEF Located, PlacesSound, Added
<1>4. OnePerPlacer(Q)
  BY <1>1, <1>2 DEF Located, OnePerPlacer
<1>5. R = {} /\ \A a, b \in P : a.entry = b.entry => a = b
  BY DEF Located, Forgets
<1>6. \A a, b \in Q : a.entry = b.entry => a = b
  BY <1>2, <1>5 DEF Leaves, Arrives
<1>7. RemovalsLink(Q, R) /\ Forgets(Q, R, FALSE)
  BY <1>5, <1>6 DEF RemovalsLink, Forgets
<1>8. LeftAreRemoved(Q, R)
  <2>1. ASSUME NEW a \in Q, NEW b \in Q, a.entry = b.entry
        PROVE  ~(a.placer < b.placer)
    <3>1. a = b /\ a \in Place
      BY <1>2, <1>6, <2>1 DEF Arrives
    <3>2. QED
      BY <3>1, ConstantsAssumption DEF Place, Time
  <2>2. QED
    BY <2>1 DEF LeftAreRemoved
<1>9. Keeps(A \cup {ch}, Q) /\ Heeds(A \cup {ch}, Q)
  <2>1. PICK X : X = Q
    OBVIOUS
  <2>2. P \ {old} \subseteq X
    BY <2>1
  <2>3. ch.dest # Nowhere => next \in X
    BY <2>1
  <2>4. ch \in Change
    BY DEF Fresh
  <2>5. Keeps(A, P) /\ Heeds(A, P)
    BY DEF Located
  <2>6. Keeps(A \cup {ch}, X) /\ Heeds(A \cup {ch}, X)
    BY <2>2, <2>3, <2>4, <2>5, MovementIsHeeded, ZenonT(60)
  <2>7. QED
    BY <2>1, <2>6
<1>10. QED
  BY <1>3, <1>4, <1>7, <1>8, <1>9 DEF Located

\* A movement of an entry with a place that is later, or expired, changes nothing,
\* and one of an entry without a place is one of an entry that was removed.
LEMMA EntryStays ==
    ASSUME NEW A, NEW P, P \subseteq Place, NEW R, NEW retain,
           Located(A, P, R, retain),
           NEW ch, Fresh(A, ch), ch.type = "move",
           \E add \in A : add.type = "add" /\ add.time = ch.entry,
           \A pl \in P : pl.entry = ch.entry =>
               \E old \in P : /\ old.entry = ch.entry
                              /\ \/ old.pos = Nowhere
                                 \/ old.expiry # 0 /\ old.expiry < ch.time
                                 \/ ch.time <= old.placer
    PROVE  Located(A \cup {ch}, P, R, retain)
<1>1. ASSUME ~TakenOut(A \cup {ch}, ch.entry)
      PROVE  \E pl \in P : /\ pl.entry = ch.entry
                           /\ \/ ch.time <= pl.placer
                              \/ pl.expiry # 0 /\ pl.expiry < ch.time
  <2>1. ~TakenOut(A, ch.entry)
    BY <1>1 DEF TakenOut
  <2>2. PICK pl \in P : pl.entry = ch.entry
    BY <2>1 DEF Located, Keeps
  <2>3. PICK old \in P : /\ old.entry = ch.entry
                         /\ \/ old.pos = Nowhere
                            \/ old.expiry # 0 /\ old.expiry < ch.time
                            \/ ch.time <= old.placer
    BY <2>2
  <2>4. old.pos # Nowhere
    <3>1. PICK c \in A : PlacedBy(old, c)
      BY DEF Located, PlacesSound
    <3>2. old.placer \in Nat \ {0}
      BY ConstantsAssumption DEF Place, Time
    <3>3. CASE c.type = "add"
      BY <3>1, <3>2, <3>3 DEF PlacedBy, Nowhere
    <3>4. CASE c.type = "move"
      BY <2>1, <2>3, <3>1, <3>4 DEF PlacedBy, TakenOut
    <3>5. QED
      BY <3>1, <3>3, <3>4 DEF PlacedBy
  <2>5. QED
    BY <2>3, <2>4
<1>2. QED
  BY <1>1, PlacesStay

-----------------------------------------------------------------------------
(***************************************************************************)
(* Every step keeps the invariant.                                         *)
(***************************************************************************)

LEMMA InitSound == Init => IInv
<1> SUFFICES ASSUME Init
             PROVE  IInv
  OBVIOUS
<1>1. TypeOK
  BY DEF Init, TypeOK
<1>2. IssuedSound
  BY DEF Init, IssuedSound, OnePerTime
<1>3. \A r \in Replica \ Lmdb : retains[r]
  BY DEF Init
<1>4. ASSUME NEW r \in Replica
      PROVE  Sound(r)
  <2>1. applied[r] = {} /\ places[r] = {} /\ removals[r] = {} /\ clearances[r] = {}
    BY DEF Init
  <2>2. QED
    BY <2>1 DEF Sound, Located, PlacesSound, OnePerPlacer, RemovalsLink,
                LeftAreRemoved, Forgets, Keeps, Heeds, ClearancesSound
<1>5. QED
  BY <1>1, <1>2, <1>3, <1>4 DEF IInv

\* A change as r may get it: new to it, an entry before its movements.
Due(r, ch) ==
    /\ Fresh(applied[r], ch)
    /\ ch.type = "add" => ch.entry = ch.time
    /\ ch.type = "move" => Known(r, ch.entry)

\* What a step of r makes of r's store.
Becomes(r, ch, P, R, C) ==
    /\ applied' = [applied EXCEPT ![r] = @ \cup {ch}]
    /\ places' = [places EXCEPT ![r] = P]
    /\ removals' = [removals EXCEPT ![r] = R]
    /\ clearances' = [clearances EXCEPT ![r] = C]
    /\ UNCHANGED retains

\* r's store becomes a sound one: then everything but the changes issued is sound.
LEMMA BecomesSound ==
    ASSUME IInv, NEW r \in Replica, NEW ch, Fresh(applied[r], ch),
           NEW P \in SUBSET Place, NEW R \in SUBSET Removal, NEW C \in SUBSET Time,
           Becomes(r, ch, P, R, C),
           Located(applied[r] \cup {ch}, P, R, retains[r]),
           ClearancesSound(applied[r] \cup {ch}, C)
    PROVE  /\ applied' \in [Replica -> SUBSET Change]
           /\ places' \in [Replica -> SUBSET Place]
           /\ removals' \in [Replica -> SUBSET Removal]
           /\ clearances' \in [Replica -> SUBSET Time]
           /\ retains' \in [Replica -> BOOLEAN]
           /\ \A q \in Replica \ Lmdb : retains'[q]
           /\ \A q \in Replica : Sound(q)'
<1>1. TypeOK
  BY DEF IInv
<1>2. applied' \in [Replica -> SUBSET Change]
  <2>1. applied[r] \cup {ch} \in SUBSET Change
    BY <1>1 DEF TypeOK, Fresh
  <2>2. QED
    BY <1>1, <2>1 DEF TypeOK, Becomes
<1>3. places' \in [Replica -> SUBSET Place]
  BY <1>1 DEF TypeOK, Becomes
<1>4. removals' \in [Replica -> SUBSET Removal]
  BY <1>1 DEF TypeOK, Becomes
<1>5. clearances' \in [Replica -> SUBSET Time]
  BY <1>1 DEF TypeOK, Becomes
<1>6. retains' \in [Replica -> BOOLEAN] /\ \A q \in Replica \ Lmdb : retains'[q]
  BY <1>1 DEF TypeOK, Becomes, IInv
<1>7. ASSUME NEW q \in Replica
      PROVE  Sound(q)'
  <2>1. CASE q = r
    <3>1. /\ applied'[q] = applied[r] \cup {ch}
          /\ places'[q] = P
          /\ removals'[q] = R
          /\ clearances'[q] = C
          /\ retains'[q] = retains[r]
      BY <1>1, <2>1 DEF TypeOK, Becomes
    <3>2. QED
      BY <3>1 DEF Sound
  <2>2. CASE q # r
    <3>1. /\ applied'[q] = applied[q]
          /\ places'[q] = places[q]
          /\ removals'[q] = removals[q]
          /\ clearances'[q] = clearances[q]
          /\ retains'[q] = retains[q]
      BY <1>1, <2>2 DEF TypeOK, Becomes
    <3>2. Sound(q)
      BY DEF IInv
    <3>3. QED
      BY <3>1, <3>2 DEF Sound
  <2>3. QED
    BY <2>1, <2>2
<1>8. QED
  BY <1>2, <1>3, <1>4, <1>5, <1>6, <1>7

\* What a movement may do to the places and removals of a sound store.
MovedTo(r, ch, P, R) ==
    \/ /\ P = places[r]
       /\ R = removals[r]
       /\ \A pl \in places[r] : pl.entry = ch.entry =>
              \E old \in places[r] : /\ old.entry = ch.entry
                                     /\ \/ old.pos = Nowhere
                                        \/ old.expiry # 0 /\ old.expiry < ch.time
                                        \/ ch.time <= old.placer
    \/ \E old \in places[r], next \in Place :
          /\ Leaves(places[r], old, ch)
          /\ Arrives(old, next, ch)
          /\ \/ /\ retains[r]
                /\ P = places[r] \cup {next}
                /\ R = removals[r] \cup {[removing |-> old.placer, movement |-> ch.time]}
             \/ /\ ~retains[r]
                /\ P = (places[r] \ {old}) \cup IF ch.dest = Nowhere THEN {} ELSE {next}
                /\ R = removals[r]

\* The result is a sound store.
LEMMA MovedIsSound ==
    ASSUME IInv, NEW r \in Replica, NEW ch, Due(r, ch), ch.type = "move",
           NEW P, NEW R, MovedTo(r, ch, P, R)
    PROVE  /\ P \in SUBSET Place
           /\ R \in SUBSET Removal
           /\ Located(applied[r] \cup {ch}, P, R, retains[r])
<1>1. PICK A : A = applied[r]
  OBVIOUS
<1>2. PICK Q : Q = places[r]
  OBVIOUS
<1>3. PICK S : S = removals[r]
  OBVIOUS
<1>4. A \subseteq Change /\ Q \subseteq Place /\ S \subseteq Removal /\ retains[r] \in BOOLEAN
  BY <1>1, <1>2, <1>3 DEF IInv, TypeOK
<1>5. Located(A, Q, S, retains[r])
  BY <1>1, <1>2, <1>3 DEF IInv, Sound
<1>6. Fresh(A, ch) /\ ch \in Change
  BY <1>1 DEF Due, Fresh
<1>7. \E add \in A : add.type = "add" /\ add.time = ch.entry
  BY <1>1 DEF Due, Known
<1>8. CASE /\ P = Q
           /\ R = S
           /\ \A pl \in Q : pl.entry = ch.entry =>
                  \E old \in Q : /\ old.entry = ch.entry
                                 /\ \/ old.pos = Nowhere
                                    \/ old.expiry # 0 /\ old.expiry < ch.time
                                    \/ ch.time <= old.placer
  <2>1. Located(A \cup {ch}, Q, S, retains[r])
    BY <1>4, <1>5, <1>6, <1>7, <1>8, EntryStays
  <2>2. QED
    BY <1>1, <1>4, <1>8, <2>1
<1>9. ASSUME NEW old \in Q, NEW next \in Place,
             Leaves(Q, old, ch), Arrives(old, next, ch),
             \/ /\ retains[r]
                /\ P = Q \cup {next}
                /\ R = S \cup {[removing |-> old.placer, movement |-> ch.time]}
             \/ /\ ~retains[r]
                /\ P = (Q \ {old}) \cup IF ch.dest = Nowhere THEN {} ELSE {next}
                /\ R = S
      PROVE  P \in SUBSET Place /\ R \in SUBSET Removal /\ Located(A \cup {ch}, P, R, retains[r])
  <2>1. CASE retains[r]
    <3>1. retains[r] = TRUE
      BY <1>4, <2>1
    <3>2. PICK rm : rm = [removing |-> old.placer, movement |-> ch.time]
      OBVIOUS
    <3>3. rm.removing = old.placer /\ rm.movement = ch.time /\ rm \in Removal
      BY <1>4, <1>6, <3>2 DEF Removal, Place, Change
    <3>4. P = Q \cup {next} /\ R = S \cup {rm}
      BY <1>9, <2>1, <3>2
    <3>5. Located(A, Q, S, TRUE)
      BY <1>5, <3>1
    <3>6. Located(A \cup {ch}, Q \cup {next}, S \cup {rm}, TRUE)
      BY <1>4, <1>6, <1>9, <3>3, <3>5, EntryIsMoved, ZenonT(60)
    <3>7. QED
      BY <1>4, <3>1, <3>3, <3>4, <3>6
  <2>2. CASE ~retains[r]
    <3>1. retains[r] = FALSE
      BY <1>4, <2>2
    <3>2. P = (Q \ {old}) \cup (IF ch.dest = Nowhere THEN {} ELSE {next}) /\ R = S
      BY <1>9, <2>2
    <3>3. Located(A, Q, S, FALSE)
      BY <1>5, <3>1
    <3>4. Located(A \cup {ch}, P, S, FALSE)
      BY <1>4, <1>6, <1>9, <3>2, <3>3, EntryIsTaken, ZenonT(60)
    <3>5. QED
      BY <1>4, <3>1, <3>2, <3>4
  <2>3. QED
    BY <2>1, <2>2
<1>10. QED
  BY <1>1, <1>2, <1>3, <1>8, <1>9 DEF MovedTo

\* The last place of an entry, and what a movement makes of it.
LEMMA FromLast ==
    ASSUME TypeOK, NEW r \in Replica, NEW ch \in Change, ch.type = "move",
           NEW old, old = Location(r, ch.entry, Now),
           NEW next, next = [old EXCEPT !.placer = ch.time, !.pos = ch.dest],
           PlacesOf(r, ch.entry, Now) # {}
    PROVE  /\ old \in places[r]
           /\ old.entry = ch.entry
           /\ \A other \in places[r] : other.entry = old.entry => other.placer <= old.placer
           /\ Arrives(old, next, ch)
<1>1. \A pl \in places[r] : pl \in Place /\ pl.placer < Now
  BY ConstantsAssumption DEF TypeOK, Place, Time, Now
<1>2. /\ old \in PlacesOf(r, ch.entry, Now)
      /\ \A other \in PlacesOf(r, ch.entry, Now) : other.placer <= old.placer
  BY LocationIsLast
<1>3. old \in places[r] /\ old.entry = ch.entry /\ old \in Place
  BY <1>1, <1>2 DEF PlacesOf
<1>4. \A other \in places[r] : other.entry = old.entry => other.placer <= old.placer
  BY <1>1, <1>2, <1>3 DEF PlacesOf
<1>5. Arrives(old, next, ch)
  <2>1. ch.time \in Time /\ ch.dest \in Positions \cup {0}
    BY DEF Change
  <2>2. /\ next.entry = old.entry
        /\ next.placer = ch.time
        /\ next.pos = ch.dest
        /\ next.expiry = old.expiry
        /\ next \in Place
    BY <1>3, <2>1 DEF Place, Nowhere
  <2>3. QED
    BY <2>2 DEF Arrives
<1>6. QED
  BY <1>3, <1>4, <1>5

\* _add_movement and _apply_movement.
LEMMA MovementResult ==
    ASSUME IInv, NEW r \in Replica, NEW ch, Due(r, ch), ch.type = "move",
           \/ r \notin Lmdb /\ AddMovement(r, ch)
           \/ r \in Lmdb /\ ApplyMovement(r, ch)
    PROVE  \E P, R : /\ MovedTo(r, ch, P, R)
                     /\ places' = [places EXCEPT ![r] = P]
                     /\ removals' = [removals EXCEPT ![r] = R]
                     /\ clearances' = clearances
<1>1. TypeOK /\ ch \in Change /\ retains[r] \in BOOLEAN /\ (r \notin Lmdb => retains[r])
  BY DEF IInv, TypeOK, Due, Fresh
<1>2. PICK old : old = Location(r, ch.entry, Now)
  OBVIOUS
<1>3. PICK next : next = [old EXCEPT !.placer = ch.time, !.pos = ch.dest]
  OBVIOUS
<1>4. PICK some \in BOOLEAN : some <=> PlacesOf(r, ch.entry, Now) # {}
  OBVIOUS
<1>5. some => /\ old \in places[r]
              /\ old.entry = ch.entry
              /\ \A other \in places[r] : other.entry = old.entry => other.placer <= old.placer
              /\ Arrives(old, next, ch)
  BY <1>1, <1>2, <1>3, <1>4, FromLast
<1>6. ~some => \A pl \in places[r] : pl.entry # ch.entry
  <2>1. \A pl \in places[r] : pl.placer < Now
    BY <1>1, ConstantsAssumption DEF TypeOK, Place, Time, Now
  <2>2. QED
    BY <1>4, <2>1 DEF PlacesOf
<1>7. some => old.placer \in Nat /\ ch.time \in Nat /\ old.placer # ch.time /\ old.expiry \in Nat
  <2>1. some => old \in Place
    BY <1>1, <1>5 DEF TypeOK
  <2>2. some => old.placer # ch.time
    <3>1. some => \E c \in applied[r] : PlacedBy(old, c)
      BY <1>5 DEF IInv, Sound, Located, PlacesSound
    <3>2. QED
      BY <3>1 DEF Due, Fresh, PlacedBy
  <2>3. ch.time \in Nat
    BY <1>1, ConstantsAssumption DEF Change, Time
  <2>4. \A pl \in Place : pl.placer \in Nat /\ pl.expiry \in Nat
    <3>1. Time \subseteq Nat /\ Expiries \cup {0} \subseteq Nat
      BY ConstantsAssumption DEF Time
    <3>2. \A pl \in Place : pl.placer \in Time /\ pl.expiry \in Expiries \cup {0}
      BY DEF Place
    <3>3. QED
      BY <3>1, <3>2
  <2>5. QED
    BY <2>1, <2>2, <2>3, <2>4
<1> DEFINE Goes == /\ some
                   /\ old.pos # Nowhere
                   /\ ~(old.expiry # 0 /\ old.expiry < ch.time)
                   /\ old.placer < ch.time
           Same == /\ places' = places
                   /\ removals' = removals
           Keep == /\ places' = [places EXCEPT ![r] = @ \cup {next}]
                   /\ removals' = [removals EXCEPT ![r] = @ \cup
                                     {[removing |-> old.placer, movement |-> ch.time]}]
           Lose == /\ places' = [places EXCEPT ![r] = (@ \ {old}) \cup
                                   IF ch.dest = Nowhere THEN {} ELSE {next}]
                   /\ removals' = removals
<1>8. (Goes <=> Moves(r, ch)) /\ (Goes <=> LmdbMoves(r, ch))
  <2>1. CASE some
    <3>1. /\ old.placer < ch.time <=> ~(ch.time < old.placer)
          /\ old.placer < ch.time <=> old.placer <= ch.time
          /\ old.expiry < ch.time <=> ch.time > old.expiry
      BY <1>7, <2>1
    <3>2. QED
      BY <1>2, <1>4, <2>1, <3>1 DEF Moves, LmdbMoves
  <2>2. CASE ~some
    BY <1>4, <2>2 DEF Moves, LmdbMoves
  <2>3. QED
    BY <2>1, <2>2
<1>9. /\ clearances' = clearances
      /\ \/ ~Goes /\ Same
         \/ Goes /\ retains[r] /\ Keep
         \/ Goes /\ ~retains[r] /\ Lose
  <2>1. CASE r \notin Lmdb /\ AddMovement(r, ch)
    <3> HIDE DEF Goes
    <3> QED
      BY <1>1, <1>2, <1>3, <1>8, <2>1 DEF AddMovement
  <2>2. CASE r \in Lmdb /\ ApplyMovement(r, ch)
    <3> HIDE DEF Goes
    <3> QED
      BY <1>1, <1>2, <1>3, <1>8, <2>2 DEF ApplyMovement
  <2>3. QED
    BY <2>1, <2>2
<1>10. Goes => Leaves(places[r], old, ch)
  BY <1>5, <1>7 DEF Leaves
<1>11. places = [places EXCEPT ![r] = places[r]] /\ removals = [removals EXCEPT ![r] = removals[r]]
  BY <1>1 DEF TypeOK
<1>12. CASE ~Goes /\ Same
  <2>1. ASSUME NEW pl \in places[r], pl.entry = ch.entry
        PROVE  \E o \in places[r] : /\ o.entry = ch.entry
                                    /\ \/ o.pos = Nowhere
                                       \/ o.expiry # 0 /\ o.expiry < ch.time
                                       \/ ch.time <= o.placer
    <3>1. some
      BY <1>6, <2>1
    <3>2. QED
      BY <1>5, <1>7, <1>12, <3>1
  <2>2. MovedTo(r, ch, places[r], removals[r])
    BY <2>1 DEF MovedTo
  <2>3. QED
    BY <1>9, <1>11, <1>12, <2>2
<1>13. CASE Goes /\ retains[r] /\ Keep
  <2>1. MovedTo(r, ch, places[r] \cup {next},
                removals[r] \cup {[removing |-> old.placer, movement |-> ch.time]})
    <3>1. next \in Place
      BY <1>5, <1>13 DEF Arrives
    <3>2. QED
      BY <1>5, <1>10, <1>13, <3>1 DEF MovedTo
  <2>2. QED
    BY <1>9, <1>13, <2>1
<1>14. CASE Goes /\ ~retains[r] /\ Lose
  <2>1. MovedTo(r, ch, (places[r] \ {old}) \cup IF ch.dest = Nowhere THEN {} ELSE {next},
                removals[r])
    <3>1. next \in Place
      BY <1>5, <1>14 DEF Arrives
    <3>2. QED
      BY <1>5, <1>10, <1>14, <3>1 DEF MovedTo
  <2>2. QED
    BY <1>9, <1>11, <1>14, <2>1
<1>15. QED
  BY <1>9, <1>12, <1>13, <1>14

\* apply_bundle.
LEMMA ApplySound ==
    ASSUME IInv, NEW r \in Replica, NEW ch, Due(r, ch), Apply(r, ch)
    PROVE  /\ applied' \in [Replica -> SUBSET Change]
           /\ places' \in [Replica -> SUBSET Place]
           /\ removals' \in [Replica -> SUBSET Removal]
           /\ clearances' \in [Replica -> SUBSET Time]
           /\ retains' \in [Replica -> BOOLEAN]
           /\ \A q \in Replica \ Lmdb : retains'[q]
           /\ \A q \in Replica : Sound(q)'
<1>1. TypeOK /\ Fresh(applied[r], ch) /\ ch \in Change /\ ch.time \in Time
  BY DEF IInv, Due, Fresh, Change
<1>2. /\ Located(applied[r], places[r], removals[r], retains[r])
      /\ ClearancesSound(applied[r], clearances[r])
  BY DEF IInv, Sound
<1>3. /\ places[r] \in SUBSET Place /\ removals[r] \in SUBSET Removal
      /\ clearances[r] \in SUBSET Time /\ retains[r] \in BOOLEAN
  BY <1>1 DEF TypeOK
<1>4. /\ places = [places EXCEPT ![r] = places[r]]
      /\ removals = [removals EXCEPT ![r] = removals[r]]
      /\ clearances = [clearances EXCEPT ![r] = clearances[r]]
  BY <1>1 DEF TypeOK
<1>5. applied' = [applied EXCEPT ![r] = @ \cup {ch}] /\ UNCHANGED retains
  BY DEF Apply
<1>6. SUFFICES \E P \in SUBSET Place, R \in SUBSET Removal, C \in SUBSET Time :
                  /\ Becomes(r, ch, P, R, C)
                  /\ Located(applied[r] \cup {ch}, P, R, retains[r])
                  /\ ClearancesSound(applied[r] \cup {ch}, C)
  BY <1>1, <1>6, BecomesSound, ZenonT(60)
<1>7. ch.type # "clear" => ClearancesSound(applied[r] \cup {ch}, clearances[r])
  BY <1>2 DEF ClearancesSound
<1>8. CASE ch.type = "add" /\ AddEntry(r, ch)
  <2>1. PICK new : new = [entry |-> ch.time, placer |-> ch.time,
                          pos |-> IF ch.dest = 0 THEN ch.time ELSE ch.dest,
                          expiry |-> ch.expiry]
    OBVIOUS
  <2>2. /\ new.entry = ch.time /\ new.placer = ch.time /\ new.expiry = ch.expiry
        /\ new.pos = IF ch.dest = 0 THEN ch.time ELSE ch.dest
    BY <2>1
  <2>3. new \in Place
    BY <1>1, <2>1 DEF Change, Place, Nowhere
  <2>4. ch.entry = ch.time
    BY <1>8 DEF Due
  <2>5. PICK A : A = applied[r]
    OBVIOUS
  <2>6. PICK Q : Q = places[r]
    OBVIOUS
  <2>7. PICK S : S = removals[r]
    OBVIOUS
  <2>8. Q \subseteq Place /\ Located(A, Q, S, retains[r]) /\ Fresh(A, ch)
    BY <1>1, <1>2, <1>3, <2>5, <2>6, <2>7
  <2>9. Located(A \cup {ch}, Q \cup {new}, S, retains[r])
    BY <1>8, <2>2, <2>3, <2>4, <2>8, EntryIsAdded, ZenonT(60)
  <2>10. Becomes(r, ch, Q \cup {new}, S, clearances[r])
    <3>1. places' = [places EXCEPT ![r] = Q \cup {new}]
      BY <1>8, <2>1, <2>6 DEF AddEntry
    <3>2. removals' = removals /\ clearances' = clearances
      BY <1>8 DEF AddEntry
    <3>3. QED
      BY <1>4, <1>5, <2>7, <3>1, <3>2 DEF Becomes
  <2>11. Q \cup {new} \in SUBSET Place /\ S \in SUBSET Removal
    BY <1>3, <2>3, <2>7, <2>8
  <2>12. ClearancesSound(A \cup {ch}, clearances[r])
    BY <1>7, <1>8, <2>5
  <2>13. QED
    BY <1>3, <2>5, <2>9, <2>10, <2>11, <2>12
<1>9. CASE ch.type = "move" /\ \/ r \notin Lmdb /\ AddMovement(r, ch)
                               \/ r \in Lmdb /\ ApplyMovement(r, ch)
  <2>1. PICK P, R : /\ MovedTo(r, ch, P, R)
                    /\ places' = [places EXCEPT ![r] = P]
                    /\ removals' = [removals EXCEPT ![r] = R]
                    /\ clearances' = clearances
    BY <1>9, MovementResult
  <2>2. /\ P \in SUBSET Place
        /\ R \in SUBSET Removal
        /\ Located(applied[r] \cup {ch}, P, R, retains[r])
    BY <1>9, <2>1, MovedIsSound
  <2>3. Becomes(r, ch, P, R, clearances[r])
    BY <1>4, <1>5, <2>1 DEF Becomes
  <2>4. QED
    BY <1>3, <1>7, <1>9, <2>2, <2>3
<1>10. CASE ch.type = "clear" /\ \/ r \notin Lmdb /\ AddClearance(r, ch)
                                 \/ r \in Lmdb /\ ApplyClearance(r, ch)
  <2>1. PICK C : C = (IF r \in Lmdb /\ ~retains[r] THEN {} ELSE clearances[r]) \cup {ch.time}
    OBVIOUS
  <2>2. C \in SUBSET Time
    BY <1>1, <1>3, <2>1
  <2>3. ClearancesSound(applied[r] \cup {ch}, C)
    BY <1>2, <1>10, <2>1 DEF ClearancesSound
  <2>4. Located(applied[r] \cup {ch}, places[r], removals[r], retains[r])
    BY <1>2, <1>10, PlacesStay
  <2>5. ~retains[r] => removals[r] = {}
    BY <1>2 DEF Located, Forgets
  <2>6. Becomes(r, ch, places[r], removals[r], C)
    <3>1. CASE r \notin Lmdb /\ AddClearance(r, ch)
      BY <1>4, <1>5, <2>1, <3>1 DEF AddClearance, Becomes
    <3>2. CASE r \in Lmdb /\ ApplyClearance(r, ch)
      <4>1. clearances' = [clearances EXCEPT ![r] = C]
        BY <2>1, <3>2 DEF ApplyClearance
      <4>2. removals' = [removals EXCEPT ![r] = removals[r]] /\ places' = places
        BY <2>5, <3>2 DEF ApplyClearance
      <4>3. QED
        BY <1>4, <1>5, <4>1, <4>2 DEF Becomes
    <3>3. QED
      BY <1>10, <3>1, <3>2
  <2>7. QED
    BY <1>3, <2>2, <2>3, <2>4, <2>6
<1>11. QED
  BY <1>8, <1>9, <1>10 DEF Apply

\* A change that r issues.
LEMMA IssueSound ==
    ASSUME IInv, NEW r \in Replica, NEW ch \in Change, Issue(r, ch),
           ch.type = "add" => ch.entry = ch.time,
           ch.type = "move" => Known(r, ch.entry)
    PROVE  IInv'
<1>1. /\ \A other \in issued : ch.time # other.time
      /\ issued' = issued \cup {ch}
      /\ Apply(r, ch)
  BY DEF Issue
<1>2. TypeOK /\ IssuedSound
  BY DEF IInv
<1>3. Due(r, ch)
  BY <1>1, <1>2 DEF Due, Fresh, IssuedSound
<1>4. /\ applied' \in [Replica -> SUBSET Change]
      /\ places' \in [Replica -> SUBSET Place]
      /\ removals' \in [Replica -> SUBSET Removal]
      /\ clearances' \in [Replica -> SUBSET Time]
      /\ retains' \in [Replica -> BOOLEAN]
      /\ \A q \in Replica \ Lmdb : retains'[q]
      /\ \A q \in Replica : Sound(q)'
  BY <1>1, <1>3, ApplySound
<1>5. TypeOK'
  BY <1>1, <1>2, <1>4 DEF TypeOK
<1>6. IssuedSound'
  <2>1. OnePerTime(issued)'
    BY <1>1, <1>2 DEF IssuedSound, OnePerTime
  <2>2. \A q \in Replica : applied'[q] \subseteq issued'
    BY <1>1, <1>2 DEF IssuedSound, Apply, TypeOK
  <2>3. QED
    BY <1>1, <1>2, <2>1, <2>2 DEF IssuedSound
<1>7. QED
  BY <1>4, <1>5, <1>6 DEF IInv

\* A change that r receives.
LEMMA ReceiveSound ==
    ASSUME IInv, NEW r \in Replica, NEW ch \in issued, Receive(r, ch)
    PROVE  IInv'
<1>1. /\ ch \notin applied[r]
      /\ ch.type = "move" => Known(r, ch.entry)
      /\ Apply(r, ch)
      /\ issued' = issued
  BY DEF Receive
<1>2. TypeOK /\ IssuedSound
  BY DEF IInv
<1>3. Due(r, ch)
  BY <1>1, <1>2 DEF Due, Fresh, IssuedSound, OnePerTime, TypeOK
<1>4. /\ applied' \in [Replica -> SUBSET Change]
      /\ places' \in [Replica -> SUBSET Place]
      /\ removals' \in [Replica -> SUBSET Removal]
      /\ clearances' \in [Replica -> SUBSET Time]
      /\ retains' \in [Replica -> BOOLEAN]
      /\ \A q \in Replica \ Lmdb : retains'[q]
      /\ \A q \in Replica : Sound(q)'
  BY <1>1, <1>3, ApplySound
<1>5. TypeOK'
  BY <1>1, <1>2, <1>4 DEF TypeOK
<1>6. IssuedSound'
  <2>1. \A q \in Replica : applied'[q] \subseteq issued
    BY <1>1, <1>2 DEF IssuedSound, Apply, TypeOK
  <2>2. QED
    BY <1>1, <1>2, <2>1 DEF IssuedSound, OnePerTime
<1>7. QED
  BY <1>4, <1>5, <1>6 DEF IInv

LEMMA NextSound == IInv /\ [Next]_vars => IInv'
<1> SUFFICES ASSUME IInv, [Next]_vars
             PROVE  IInv'
  OBVIOUS
<1>1. CASE UNCHANGED vars
  <2>1. /\ issued' = issued /\ applied' = applied /\ places' = places
        /\ removals' = removals /\ clearances' = clearances /\ retains' = retains
    BY <1>1 DEF vars
  <2>2. TypeOK' /\ IssuedSound'
    BY <2>1 DEF IInv, TypeOK, IssuedSound, OnePerTime
  <2>3. ASSUME NEW r \in Replica
        PROVE  Sound(r)'
    <3>1. Sound(r)
      BY DEF IInv
    <3>2. QED
      BY <2>1, <3>1 DEF Sound
  <2>4. QED
    BY <2>1, <2>2, <2>3 DEF IInv
<1>2. ASSUME NEW r \in Replica, NEW t \in Time, NEW new \in Additions,
             AppendEntry(r, t, new[1], new[2])
      PROVE  IInv'
  <2>1. PICK ch : ch = [type |-> "add", time |-> t, author |-> r, entry |-> t,
                        dest |-> new[1], expiry |-> new[2]]
    OBVIOUS
  <2>2. new[1] \in Positions \cup {0} /\ new[2] \in Expiries \cup {0}
    BY ConstantsAssumption
  <2>3. ch \in Change /\ ch.type = "add" /\ ch.entry = ch.time
    BY <2>1, <2>2 DEF Change
  <2>4. Issue(r, ch)
    BY <1>2, <2>1 DEF AppendEntry
  <2>5. QED
    BY <2>3, <2>4, IssueSound
<1>3. ASSUME NEW r \in Replica, NEW t \in Time, NEW e \in Time,
             NEW dest \in Positions \cup {Nowhere}, Yank(r, t, e, dest)
      PROVE  IInv'
  <2>1. PICK ch : ch = [type |-> "move", time |-> t, author |-> r, entry |-> e,
                        dest |-> dest, expiry |-> 0]
    OBVIOUS
  <2>2. ch \in Change /\ ch.type = "move" /\ ch.entry = e
    BY <2>1 DEF Change, Nowhere
  <2>3. Issue(r, ch) /\ Known(r, e)
    BY <1>3, <2>1 DEF Yank
  <2>4. QED
    BY <2>2, <2>3, IssueSound
<1>4. ASSUME NEW r \in Replica, NEW t \in Time, Clear(r, t)
      PROVE  IInv'
  <2>1. PICK ch : ch = [type |-> "clear", time |-> t, author |-> r, entry |-> 0,
                        dest |-> Nowhere, expiry |-> 0]
    OBVIOUS
  <2>2. ch \in Change /\ ch.type = "clear"
    BY <2>1 DEF Change, Nowhere
  <2>3. Issue(r, ch)
    BY <1>4, <2>1 DEF Clear
  <2>4. QED
    BY <2>2, <2>3, IssueSound
<1>5. ASSUME NEW r \in Replica, NEW ch \in issued, Receive(r, ch)
      PROVE  IInv'
  BY <1>5, ReceiveSound
<1>6. QED
  BY <1>1, <1>2, <1>3, <1>4, <1>5 DEF Next

-----------------------------------------------------------------------------
(***************************************************************************)
(* The properties.                                                         *)
(***************************************************************************)

\* The changes, places and removals of every store are linked as IInv says, after
\* any sequence of changes in any order of arrival.
THEOREM AlwaysSound == Spec => []IInv
<1>1. Init => IInv
  BY InitSound
<1>2. IInv /\ [Next]_vars => IInv'
  BY NextSound
<1>3. QED
  BY <1>1, <1>2, PTL DEF Spec

\* Type correctness: what _add_entry, _add_movement, _apply_movement and the
\* clearances enter in the tables are places, removals and times.
THEOREM TypesAreRight == Spec => []TypeOK
<1>1. IInv => TypeOK
  BY DEF IInv
<1>2. QED
  BY <1>1, AlwaysSound, PTL

\* A place was removed before a time if its entry has a later place before it.
LEMMA RemovedIsLeft ==
    ASSUME IInv, NEW r \in Replica, NEW pl \in places[r], NEW asof \in Nat
    PROVE  Removed(r, pl, asof) <=>
               \E b \in places[r] : /\ b.entry = pl.entry
                                    /\ pl.placer < b.placer
                                    /\ b.placer < asof
<1> DEFINE found == {rm.movement : rm \in {x \in removals[r] : x.removing = pl.placer}}
<1>1. /\ OnePerPlacer(places[r])
      /\ RemovalsLink(places[r], removals[r])
      /\ LeftAreRemoved(places[r], removals[r])
  BY DEF IInv, Sound, Located
<1>2. \A x \in places[r] : x.placer \in Nat
  BY ConstantsAssumption DEF IInv, TypeOK, Place, Time
<1>3. ASSUME NEW t \in found
      PROVE  \E b \in places[r] : b.placer = t /\ Follows(places[r], pl, b)
  <2>1. PICK rm \in removals[r] : rm.removing = pl.placer /\ rm.movement = t
    BY <1>3
  <2>2. PICK a \in places[r], b \in places[r] :
            a.placer = rm.removing /\ b.placer = rm.movement /\ Follows(places[r], a, b)
    BY <1>1 DEF RemovalsLink
  <2>3. a = pl
    BY <1>1, <2>1, <2>2 DEF OnePerPlacer
  <2>4. QED
    BY <2>1, <2>2, <2>3
<1>4. ASSUME NEW t \in found, NEW u \in found
      PROVE  t = u
  <2>1. PICK b \in places[r] : b.placer = t /\ Follows(places[r], pl, b)
    BY <1>3
  <2>2. PICK c \in places[r] : c.placer = u /\ Follows(places[r], pl, c)
    BY <1>3
  <2>3. b.placer \in Nat /\ c.placer \in Nat /\ pl.placer \in Nat
    BY <1>2
  <2>4. /\ b.entry = pl.entry /\ pl.placer < b.placer
        /\ c.entry = pl.entry /\ pl.placer < c.placer
        /\ c.placer <= pl.placer \/ b.placer <= c.placer
        /\ b.placer <= pl.placer \/ c.placer <= b.placer
    BY <2>1, <2>2 DEF Follows
  <2>5. b.placer = c.placer
    BY <2>3, <2>4
  <2>6. QED
    BY <2>1, <2>2, <2>5
<1>5. ASSUME NEW t \in found
      PROVE  Max(found) = t
  <2>1. t \in Nat
    BY <1>2, <1>3
  <2>2. \A y \in found : t >= y
    BY <1>4, <2>1
  <2>3. \E x \in found : \A y \in found : x >= y
    BY <2>2
  <2>4. Max(found) \in found
    BY <2>3 DEF Max
  <2>5. QED
    BY <1>4, <2>4
<1>6. Removed(r, pl, asof) <=> found # {} /\ Max(found) < asof
  BY DEF Removed
<1>7. ASSUME Removed(r, pl, asof)
      PROVE  \E b \in places[r] : /\ b.entry = pl.entry
                                  /\ pl.placer < b.placer
                                  /\ b.placer < asof
  <2> HIDE DEF found
  <2>1. PICK t \in found : TRUE
    BY <1>6, <1>7
  <2>2. PICK b \in places[r] : b.placer = t /\ Follows(places[r], pl, b)
    BY <1>3
  <2>3. t < asof
    BY <1>5, <1>6, <1>7
  <2>4. QED
    BY <2>2, <2>3 DEF Follows
<1>8. ASSUME NEW b \in places[r],
             b.entry = pl.entry, pl.placer < b.placer, b.placer < asof
      PROVE  Removed(r, pl, asof)
  <2>1. PICK rm \in removals[r] : rm.removing = pl.placer
    BY <1>1, <1>8 DEF LeftAreRemoved
  <2>2. rm.movement \in found
    BY <2>1
  <2> HIDE DEF found
  <2>3. PICK c \in places[r] : c.placer = rm.movement /\ Follows(places[r], pl, c)
    BY <1>3, <2>2
  <2>4. c.placer <= b.placer
    BY <1>2, <1>8, <2>3 DEF Follows
  <2>5. c.placer < asof
    BY <1>2, <1>8, <2>4
  <2>6. Max(found) = rm.movement
    BY <1>5, <2>2
  <2>7. QED
    BY <1>6, <2>2, <2>3, <2>5, <2>6
<1>9. QED
  BY <1>7, <1>8

\* The last place of an entry before a time is its location.
LEMMA LastIsLocation ==
    ASSUME IInv, NEW r \in Replica, NEW asof \in Nat,
           NEW pl \in places[r], pl.placer < asof,
           \A b \in places[r] : b.entry = pl.entry /\ b.placer < asof => b.placer <= pl.placer
    PROVE  pl = Location(r, pl.entry, asof)
<1>1. TypeOK /\ OnePerPlacer(places[r])
  BY DEF IInv, Sound, Located
<1>2. PICK last : last = Location(r, pl.entry, asof)
  OBVIOUS
<1>3. pl \in PlacesOf(r, pl.entry, asof)
  BY DEF PlacesOf
<1>4. /\ last \in PlacesOf(r, pl.entry, asof)
      /\ \A other \in PlacesOf(r, pl.entry, asof) : other.placer <= last.placer
  BY <1>1, <1>2, <1>3, LocationIsLast
<1>5. last \in places[r] /\ last.placer <= pl.placer /\ pl.placer <= last.placer
  BY <1>3, <1>4 DEF PlacesOf
<1>6. last.placer \in Nat /\ pl.placer \in Nat
  BY <1>1, <1>5, ConstantsAssumption DEF TypeOK, Place, Time
<1>7. last = pl
  BY <1>1, <1>5, <1>6 DEF OnePerPlacer
<1>8. QED
  BY <1>2, <1>7

LEMMA AsOfIsNat == \A r : AsOf(r) \subseteq Nat
BY ConstantsAssumption DEF AsOf, Now

\* What both stores' get_ordered_entries have in common.
LEMMA VisibleIs ==
    ASSUME NEW r, NEW asof, NEW pl
    PROVE  /\ pl \in Visible(r, asof) =>
                 /\ pl \in places[r]
                 /\ pl.pos # Nowhere
                 /\ pl.pos <= asof \/ pl.pos < asof
                 /\ ~Hidden(pl, PriorClear(r, asof), asof)
                 /\ ~Removed(r, pl, asof)
           /\ /\ pl \in places[r]
              /\ pl.pos # Nowhere
              /\ pl.pos < asof /\ pl.pos <= asof
              /\ ~Hidden(pl, PriorClear(r, asof), asof)
              /\ ~Removed(r, pl, asof)
              => pl \in Visible(r, asof)
BY DEF Visible, MemoryVisible, LmdbVisible

\* As of any time, an entry is at one place of the sequence at most, and the
\* location that get_positioned_entry finds is the place that get_ordered_entries
\* shows: what IInv says of removals makes a place that was left a removed one.
THEOREM OnePlace == Spec => []OnePlaceAtATime
<1>1. ASSUME IInv
      PROVE  OnePlaceAtATime
  <2> SUFFICES ASSUME NEW r \in Replica, NEW asof \in AsOf(r), NEW pl \in Visible(r, asof)
               PROVE  Positioned(r, pl.entry, asof) = {pl}
    BY DEF OnePlaceAtATime
  <2>1. asof \in Nat
    BY AsOfIsNat
  <2>2. /\ pl \in places[r]
        /\ pl.pos # Nowhere
        /\ ~Hidden(pl, PriorClear(r, asof), asof)
        /\ ~Removed(r, pl, asof)
    BY VisibleIs
  <2>3. \A x \in places[r] : x.placer \in Nat
    BY <1>1, ConstantsAssumption DEF IInv, TypeOK, Place, Time
  <2>4. pl.placer < asof
    BY <2>1, <2>2, <2>3 DEF Hidden
  <2>5. \A b \in places[r] : b.entry = pl.entry /\ b.placer < asof => b.placer <= pl.placer
    BY <1>1, <2>1, <2>2, <2>3, RemovedIsLeft
  <2>6. pl = Location(r, pl.entry, asof)
    BY <1>1, <2>1, <2>2, <2>4, <2>5, LastIsLocation
  <2>7. pl \in PlacesOf(r, pl.entry, asof)
    BY <2>2, <2>4 DEF PlacesOf
  <2>8. QED
    BY <2>2, <2>6, <2>7 DEF Positioned
<1>2. QED
  BY <1>1, AlwaysSound, PTL

\* A movement never makes an entry disappear: its location is shown by
\* get_ordered_entries as of any time unless a clearance, the expiry or the time
\* itself hides it.
THEOREM LocationsAreShown == Spec => []LocatedIsVisible
<1>1. ASSUME IInv
      PROVE  LocatedIsVisible
  <2> SUFFICES ASSUME NEW r \in Replica, NEW asof \in AsOf(r),
                      NEW pl \in places[r], pl \notin Visible(r, asof),
                      pl.pos # Nowhere, ~(pl.pos >= asof),
                      ~Hidden(pl, PriorClear(r, asof), asof)
               PROVE  pl # Location(r, pl.entry, asof)
    BY DEF LocatedIsVisible
  <2>1. asof \in Nat
    BY AsOfIsNat
  <2>2. \A x \in places[r] : x.placer \in Nat /\ x.pos \in Nat
    <3>1. Time \subseteq Nat /\ Positions \cup Time \cup {Nowhere} \subseteq Nat
      BY ConstantsAssumption DEF Time, Nowhere
    <3>2. \A x \in places[r] :
              x.placer \in Time /\ x.pos \in Positions \cup Time \cup {Nowhere}
      BY <1>1 DEF IInv, TypeOK, Place
    <3>3. QED
      BY <3>1, <3>2
  <2>3. pl.pos < asof /\ pl.pos <= asof
    BY <2>1, <2>2
  <2>4. Removed(r, pl, asof)
    BY <2>3, VisibleIs
  <2>5. PICK b \in places[r] : /\ b.entry = pl.entry
                               /\ pl.placer < b.placer
                               /\ b.placer < asof
    BY <1>1, <2>1, <2>4, RemovedIsLeft
  <2>6. b \in PlacesOf(r, pl.entry, asof)
    BY <2>5 DEF PlacesOf
  <2>7. b.placer <= Location(r, pl.entry, asof).placer
    BY <1>1, <2>6, LocationIsLast DEF IInv
  <2>8. QED
    BY <2>2, <2>5, <2>7
<1>2. QED
  BY <1>1, AlwaysSound, PTL

\* Two stores with the same changes, of which at most one is a clearance, have the
\* same clearances, and both implementations of _get_time_of_prior_clear return
\* the same.
LEMMA ClearsAgree ==
    ASSUME IInv, NEW r \in Replica, NEW q \in Replica, applied[r] = applied[q],
           ~ClearedTwice(r)
    PROVE  PriorClear(r, Now) = PriorClear(q, Now)
<1>1. /\ ClearancesSound(applied[r], clearances[r])
      /\ ClearancesSound(applied[q], clearances[q])
  BY DEF IInv, Sound
<1>2. /\ clearances[r] \subseteq Time
      /\ clearances[q] \subseteq Time
  BY DEF IInv, TypeOK
<1>3. ASSUME NEW t \in clearances[r] \cup clearances[q], NEW u \in clearances[r] \cup clearances[q]
      PROVE  t = u
  <2>1. PICK ch \in applied[r] : ch.type = "clear" /\ ch.time = t
    BY <1>1 DEF ClearancesSound
  <2>2. PICK other \in applied[r] : other.type = "clear" /\ other.time = u
    BY <1>1 DEF ClearancesSound
  <2>3. ch = other
    BY <2>1, <2>2 DEF ClearedTwice
  <2>4. QED
    BY <2>1, <2>2, <2>3
<1>4. clearances[r] # {} <=> clearances[q] # {}
  BY <1>1 DEF ClearancesSound
<1>5. PICK C : C = clearances[r]
  OBVIOUS
<1>6. clearances[q] = C
  BY <1>3, <1>4, <1>5
<1>7. ClearsBefore(r, Now) = C /\ ClearsBefore(q, Now) = C
  <2>1. \A t \in Time : t < Now
    BY ConstantsAssumption DEF Time, Now
  <2>2. QED
    BY <1>2, <1>5, <1>6, <2>1 DEF ClearsBefore
<1>8. ASSUME C # {}
      PROVE  Max(C) = Min(C)
  <2>1. PICK t \in C : \A u \in C : u = t
    BY <1>3, <1>5, <1>8
  <2>2. t \in Nat
    BY <1>2, <1>5, ConstantsAssumption DEF Time
  <2>3. \A y \in C : t >= y /\ t =< y
    BY <2>1, <2>2
  <2>4. Max(C) \in C
    BY <2>3 DEF Max
  <2>5. Min(C) \in C
    BY <2>3 DEF Min
  <2>6. QED
    BY <2>1, <2>4, <2>5
<1>9. QED
  BY <1>7, <1>8 DEF PriorClear, FirstClear, LastClear

\* The last place of an entry that no change removes is decided by the changes: q
\* has, of an entry that it has, a place at least as late as any place that r has.
LEMMA PlacesAgree ==
    ASSUME IInv, NEW r \in Replica, NEW q \in Replica, applied[r] = applied[q],
           NEW a \in places[r], ~TakenOut(applied[r], a.entry)
    PROVE  /\ \E b \in places[q] : b.entry = a.entry
           /\ \E b \in places[q] : b.entry = a.entry /\ a.placer <= b.placer
           /\ \A b \in places[q] : b.entry = a.entry /\ b.placer = a.placer => b = a
<1>1. /\ PlacesSound(applied[r], places[r])
      /\ PlacesSound(applied[q], places[q])
      /\ Keeps(applied[q], places[q])
      /\ Heeds(applied[q], places[q])
      /\ OnePerTime(applied[r])
  BY DEF IInv, Sound, Located, IssuedSound, OnePerTime
<1>2. places[r] \subseteq Place /\ places[q] \subseteq Place
  BY DEF IInv, TypeOK
<1>3. PICK add \in applied[r] :
          add.type = "add" /\ add.time = a.entry /\ add.expiry = a.expiry
  BY <1>1 DEF PlacesSound, Added
<1>4. PICK c \in applied[r] : PlacedBy(a, c)
  BY <1>1 DEF PlacesSound
<1>5. PICK d \in places[q] : d.entry = a.entry
  BY <1>1, <1>3 DEF Keeps
<1>6. ASSUME NEW b \in places[q], b.entry = a.entry
      PROVE  b.expiry = a.expiry
  <2>1. PICK x \in applied[r] :
            x.type = "add" /\ x.time = b.entry /\ x.expiry = b.expiry
    BY <1>1 DEF PlacesSound, Added
  <2>2. x = add
    BY <1>1, <1>3, <1>6, <2>1 DEF OnePerTime
  <2>3. QED
    BY <1>3, <2>1, <2>2
<1>7. \E b \in places[q] : b.entry = a.entry /\ a.placer <= b.placer
  <2>1. CASE c.type = "add"
    <3>1. a.placer = a.entry
      <4>1. c \in issued
        BY DEF IInv, IssuedSound
      <4>2. c.entry = c.time
        BY <2>1, <4>1 DEF IInv, IssuedSound
      <4>3. QED
        BY <1>4, <4>2 DEF PlacedBy
    <3>2. d.entry <= d.placer
      BY <1>1 DEF PlacesSound, PlacedBy
    <3>3. QED
      BY <1>5, <3>1, <3>2
  <2>2. CASE c.type = "move"
    <3>1. c.entry = a.entry /\ c.time = a.placer /\ (a.expiry = 0 \/ c.time <= a.expiry)
      BY <1>4, <2>2 DEF PlacedBy
    <3>2. PICK b \in places[q] :
              /\ b.entry = a.entry
              /\ c.time <= b.placer \/ (b.expiry # 0 /\ b.expiry < c.time)
      BY <1>1, <2>2, <3>1 DEF Heeds
    <3>3. b.expiry = a.expiry
      BY <1>6, <3>2
    <3>4. a.expiry \in Nat /\ c.time \in Nat
      <4>1. Expiries \cup {0} \subseteq Nat /\ Time \subseteq Nat
        BY ConstantsAssumption DEF Time
      <4>2. a.expiry \in Expiries \cup {0} /\ a.placer \in Time
        BY <1>2 DEF Place
      <4>3. QED
        BY <3>1, <4>1, <4>2
    <3>5. c.time <= b.placer
      BY <3>1, <3>2, <3>3, <3>4
    <3>6. QED
      BY <3>1, <3>2, <3>5
  <2>3. QED
    BY <1>4, <2>1, <2>2 DEF PlacedBy
<1>8. ASSUME NEW b \in places[q], b.entry = a.entry, b.placer = a.placer
      PROVE  b = a
  <2>1. PICK x \in applied[r] : PlacedBy(b, x)
    BY <1>1 DEF PlacesSound
  <2>2. x = c
    BY <1>1, <1>4, <1>8, <2>1 DEF OnePerTime, PlacedBy
  <2>3. b.pos = a.pos
    <3>1. CASE c.type = "add"
      BY <1>4, <2>1, <2>2, <3>1 DEF PlacedBy
    <3>2. CASE c.type = "move"
      BY <1>4, <2>1, <2>2, <3>2 DEF PlacedBy
    <3>3. QED
      BY <1>4, <3>1, <3>2 DEF PlacedBy
  <2>4. b.expiry = a.expiry /\ a \in Place /\ b \in Place
    BY <1>2, <1>6, <1>8
  <2>5. QED
    BY <1>8, <2>3, <2>4 DEF Place
<1>9. QED
  BY <1>5, <1>7, <1>8

\* So what r shows of the entry, q shows as well.
LEMMA ShownAgrees ==
    ASSUME Now \notin Positions, IInv, NEW r \in Replica, NEW q \in Replica,
           applied[r] = applied[q], ~ClearedTwice(r),
           NEW e, ~TakenOut(applied[r], e), NEW a \in Shown(r, e)
    PROVE  a \in Shown(q, e)
<1>1. Now \in Nat
  BY ConstantsAssumption DEF Now
<1>2. /\ a \in places[r] /\ a.entry = e
      /\ a.pos # Nowhere
      /\ a.pos <= Now \/ a.pos < Now
      /\ ~Hidden(a, PriorClear(r, Now), Now)
      /\ ~Removed(r, a, Now)
  BY VisibleIs DEF Shown
<1>3. /\ \A x \in places[r] : x \in Place
      /\ \A x \in places[q] : x \in Place
  BY DEF IInv, TypeOK
<1>4. \A x \in Place : x.placer \in Nat /\ x.placer < Now
  BY ConstantsAssumption DEF Place, Time, Now
<1>5. \A b \in places[r] : b.entry = e => b.placer <= a.placer
  BY <1>1, <1>2, <1>3, <1>4, RemovedIsLeft
<1>6. PICK b \in places[q] : b.entry = e /\ a.placer <= b.placer
  BY <1>2, PlacesAgree
<1>7. ASSUME NEW c \in places[q], c.entry = e
      PROVE  c.placer <= a.placer
  <2>1. ~TakenOut(applied[q], c.entry)
    BY <1>7
  <2>2. PICK d \in places[r] : d.entry = c.entry /\ c.placer <= d.placer
    BY <2>1, PlacesAgree
  <2>3. d.placer <= a.placer
    BY <1>5, <1>7, <2>2
  <2>4. QED
    BY <1>2, <1>3, <1>4, <2>2, <2>3
<1>8. b.placer = a.placer
  BY <1>2, <1>3, <1>4, <1>6, <1>7
<1>9. a \in places[q]
  <2>1. \A x \in places[q] : x.entry = a.entry /\ x.placer = a.placer => x = a
    BY <1>2, PlacesAgree
  <2>2. b = a
    BY <1>2, <1>6, <1>8, <2>1
  <2>3. QED
    BY <2>2
<1>10. ~Removed(q, a, Now)
  <2>1. \A c \in places[q] : c.entry = a.entry => ~(a.placer < c.placer)
    BY <1>2, <1>3, <1>4, <1>7
  <2>2. QED
    BY <1>1, <1>9, <2>1, RemovedIsLeft
<1>11. ~Hidden(a, PriorClear(q, Now), Now)
  BY <1>2, ClearsAgree
<1>12. a.pos < Now /\ a.pos <= Now
  <2>1. a.pos \in Positions \cup Time \cup {Nowhere}
    BY <1>2, <1>3 DEF Place
  <2>2. Positions \cup Time \cup {Nowhere} \subseteq Nat /\ Now \notin Time
    BY ConstantsAssumption DEF Time, Now, Nowhere
  <2>3. a.pos \in Nat /\ a.pos # Now
    BY <1>2, <2>1, <2>2
  <2>4. QED
    BY <1>1, <1>2, <2>3
<1>13. a \in Visible(q, Now)
  BY <1>2, <1>9, <1>10, <1>11, <1>12, VisibleIs
<1>14. QED
  BY <1>2, <1>13 DEF Shown

\* Movements converge: instances with the same changes show an entry at the same
\* place, in memory and LMDB stores, with and without history, whatever the order
\* of arrival was.  No entry may be put at the very time that the stores are
\* asked about, as the memory store leaves out a position equal to it and LMDB
\* does not.
THEOREM PlacesConverge ==
    ASSUME Now \notin Positions
    PROVE  Spec => []MovementsConverge
<1>1. ASSUME IInv
      PROVE  MovementsConverge
  <2> SUFFICES ASSUME NEW r \in Replica, NEW q \in Replica, applied[r] = applied[q],
                      NEW e \in Time, ~TakenOut(applied[r], e), ~ClearedTwice(r)
               PROVE  Shown(r, e) = Shown(q, e)
    BY DEF MovementsConverge, TakenOut
  <2>1. ~TakenOut(applied[q], e) /\ ~ClearedTwice(q)
    BY DEF ClearedTwice
  <2>2. \A a \in Shown(r, e) : a \in Shown(q, e)
    BY <1>1, ShownAgrees
  <2>3. \A a \in Shown(q, e) : a \in Shown(r, e)
    BY <1>1, <2>1, ShownAgrees
  <2>4. QED
    BY <2>2, <2>3
<1>2. QED
  BY <1>1, AlwaysSound, PTL
=============================================================================
