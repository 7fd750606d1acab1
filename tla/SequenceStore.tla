--------------------------- MODULE SequenceStore ---------------------------
(***************************************************************************)
(* One Sequence container as the stores of several gink instances          *)
(* materialise it (python/gink/impl/memory_store.py and lmdb_store.py):    *)
(* entries are added, moved, removed and cleared by changes that every     *)
(* instance receives, in an order of its own.  An LMDB store may have been *)
(* created without history (retain_entries=False).                         *)
(*                                                                         *)
(* A change is named by its muid; muids are totally ordered, timestamp     *)
(* first, so a change is named by a Time that no other change has.  An     *)
(* instance writes one chain: it issues changes with growing times, and    *)
(* the others get them in that order.  Clocks are not synchronised, so a   *)
(* change may be issued with a time before that of a change its author has *)
(* received.  A movement reaches an instance after the entry it moves      *)
(* (bundle_store.py: "dependency order").                                  *)
(***************************************************************************)
EXTENDS Naturals, FiniteSets, FiniteSetsExt

CONSTANTS Replica,      \* gink instances
          Lmdb,         \* those with an LMDB store; the others have memory stores
          MaxTime,      \* bound: times of changes
          Positions,    \* bound: positions (effective times) entries are put at
          Expiries,     \* bound: expiries an entry may be given; 0 is none
          Additions     \* bound: the pairs of a position and an expiry that
                        \* entries are added with; 0 is none

ASSUME ConstantsAssumption ==
    /\ Lmdb \subseteq Replica
    /\ MaxTime \in Nat
    /\ Positions \subseteq Nat \ {0}
    /\ Expiries \subseteq Nat
    /\ Additions \subseteq (Positions \cup {0}) \X (Expiries \cup {0})

Time == 1 .. MaxTime

\* As of this time, everything has happened.
Now == MaxTime + 1

Nowhere == 0    \* movement.dest is 0: the entry is removed

VARIABLES
    issued,     \* the changes in the world
    applied,    \* applied[r]: the changes r has received
    places,     \* places[r]: _placements and _locations, see Place
    removals,   \* removals[r]: _removals
    clearances, \* clearances[r]: _clearances
    retains     \* retains[r]: whether the store keeps history

vars == <<issued, applied, places, removals, clearances, retains>>

Change == [type : {"add", "move", "clear"}, time : Time, author : Replica,
           entry : Time \cup {0}, dest : Positions \cup {0}, expiry : Expiries \cup {0}]

(***************************************************************************)
(* A Place is where the change "placer" put an entry: a location of the    *)
(* entry and, unless it is Nowhere, the placement the location names.      *)
(***************************************************************************)
Place == [entry : Time, placer : Time, pos : Positions \cup Time \cup {Nowhere},
          expiry : Expiries \cup {0}]

Removal == [removing : Time, movement : Time]

TypeOK ==
    /\ issued \subseteq Change
    /\ applied \in [Replica -> SUBSET Change]
    /\ places \in [Replica -> SUBSET Place]
    /\ removals \in [Replica -> SUBSET Removal]
    /\ clearances \in [Replica -> SUBSET Time]
    /\ retains \in [Replica -> BOOLEAN]

Init ==
    /\ issued = {}
    /\ applied = [r \in Replica |-> {}]
    /\ places = [r \in Replica |-> {}]
    /\ removals = [r \in Replica |-> {}]
    /\ clearances = [r \in Replica |-> {}]
    /\ retains \in {f \in [Replica -> BOOLEAN] : \A r \in Replica \ Lmdb : f[r]}
-----------------------------------------------------------------------------
(***************************************************************************)
(* What the store does with a change.                                      *)
(***************************************************************************)

\* The places of an entry placed before asof.
PlacesOf(r, e, asof) == {pl \in places[r] : pl.entry = e /\ pl.placer < asof}

\* _get_location: the last of them.
Location(r, e, asof) ==
    CHOOSE pl \in PlacesOf(r, e, asof) :
        \A other \in PlacesOf(r, e, asof) : other.placer <= pl.placer

\* _add_entry for a behaviour whose entries do not replace one another.  An
\* entry without a position of its own is put at its time.
AddEntry(r, ch) ==
    /\ places' = [places EXCEPT ![r] = @ \cup
                    {[entry |-> ch.time, placer |-> ch.time,
                      pos |-> IF ch.dest = 0 THEN ch.time ELSE ch.dest,
                      expiry |-> ch.expiry]}]
    /\ UNCHANGED <<removals, clearances>>

\* Faulty: a movement that comes after a later one is not ignored.
MovesLate(r, ch) ==
    LET old == Location(r, ch.entry, Now)
    IN  /\ PlacesOf(r, ch.entry, Now) # {}
        /\ old.pos # Nowhere
        /\ ~(old.expiry # 0 /\ old.expiry < ch.time)

\* _add_movement goes ahead unless the entry has no location or is expired,
\* or the movement is older than its location.
Moves(r, ch) ==
    LET old == Location(r, ch.entry, Now)
    IN  /\ PlacesOf(r, ch.entry, Now) # {}
        /\ old.pos # Nowhere
        /\ ~(old.expiry # 0 /\ old.expiry < ch.time)
        /\ ~(ch.time < old.placer)

\* Faulty: the entry is not removed from where it was.
MovementWithoutRemoval(r, ch) ==
    LET old == Location(r, ch.entry, Now)
    IN  /\ places' = IF Moves(r, ch)
                     THEN [places EXCEPT ![r] = @ \cup
                             {[old EXCEPT !.placer = ch.time, !.pos = ch.dest]}]
                     ELSE places
        /\ UNCHANGED <<removals, clearances>>

\* _add_movement.
AddMovement(r, ch) ==
    LET old == Location(r, ch.entry, Now)
    IN  /\ IF Moves(r, ch)
           THEN /\ removals' = [removals EXCEPT ![r] = @ \cup
                                  {[removing |-> old.placer, movement |-> ch.time]}]
                /\ places' = [places EXCEPT ![r] = @ \cup
                                {[old EXCEPT !.placer = ch.time, !.pos = ch.dest]}]
           ELSE UNCHANGED <<removals, places>>
        /\ UNCHANGED clearances

\* _apply_movement goes ahead unless the entry or its location is gone, or the
\* location is later, or the entry is expired.
LmdbMoves(r, ch) ==
    LET old == Location(r, ch.entry, Now)
    IN  /\ PlacesOf(r, ch.entry, Now) # {}
        /\ old.placer <= ch.time
        /\ old.pos # Nowhere
        /\ ~(old.expiry # 0 /\ ch.time > old.expiry)

(***************************************************************************)
(* _apply_movement.  Without history the entry is taken away from its old  *)
(* location, and altogether if it is removed; nothing is left of it.       *)
(***************************************************************************)
ApplyMovement(r, ch) ==
    LET old  == Location(r, ch.entry, Now)
        next == [old EXCEPT !.placer = ch.time, !.pos = ch.dest]
    IN  /\ IF LmdbMoves(r, ch)
           THEN IF retains[r]
                THEN /\ removals' = [removals EXCEPT ![r] = @ \cup
                                       {[removing |-> old.placer, movement |-> ch.time]}]
                     /\ places' = [places EXCEPT ![r] = @ \cup {next}]
                ELSE /\ places' = [places EXCEPT ![r] =
                                     (@ \ {old}) \cup IF ch.dest = Nowhere THEN {} ELSE {next}]
                     /\ UNCHANGED removals
           ELSE UNCHANGED <<removals, places>>
        /\ UNCHANGED clearances

\* Faulty: the key of the clearance lacks the clearance's own muid.
ClearanceUnnamed(r, ch) ==
    /\ clearances' = [clearances EXCEPT ![r] = @ \cup {ch.entry}]
    /\ UNCHANGED <<places, removals>>

\* _add_clearance.
AddClearance(r, ch) ==
    /\ clearances' = [clearances EXCEPT ![r] = @ \cup {ch.time}]
    /\ UNCHANGED <<places, removals>>

\* _apply_clearance.  Without history the other clearances, later ones too, and
\* the removals are erased; the placements stay, as _entries is searched by the
\* muid of the container, which is not what its keys begin with.
ApplyClearance(r, ch) ==
    /\ clearances' = [clearances EXCEPT ![r] = (IF retains[r] THEN @ ELSE {}) \cup {ch.time}]
    /\ removals' = [removals EXCEPT ![r] = IF retains[r] THEN @ ELSE {}]
    /\ UNCHANGED places

\* apply_bundle, for a bundle of one change.
Apply(r, ch) ==
    /\ applied' = [applied EXCEPT ![r] = @ \cup {ch}]
    /\ UNCHANGED retains
    /\ \/ ch.type = "add" /\ AddEntry(r, ch)
       \/ ch.type = "move" /\ r \notin Lmdb /\ AddMovement(r, ch)
       \/ ch.type = "move" /\ r \in Lmdb /\ ApplyMovement(r, ch)
       \/ ch.type = "clear" /\ r \notin Lmdb /\ AddClearance(r, ch)
       \/ ch.type = "clear" /\ r \in Lmdb /\ ApplyClearance(r, ch)
-----------------------------------------------------------------------------
(***************************************************************************)
(* Where changes come from.                                                *)
(***************************************************************************)

\* r has received the entry, whether it still has it or not.
Known(r, e) == \E ch \in applied[r] : ch.type = "add" /\ ch.time = e

\* A new change of r: its time is new and later than those r has issued.
Issue(r, ch) ==
    /\ ch.author = r
    /\ \A other \in issued : ch.time # other.time /\ (other.author = r => other.time < ch.time)
    /\ issued' = issued \cup {ch}
    /\ Apply(r, ch)

\* Sequence.append (pos is 0) and insert.
AppendEntry(r, t, pos, expiry) ==
    Issue(r, [type |-> "add", time |-> t, author |-> r, entry |-> t, dest |-> pos,
              expiry |-> expiry])

\* Sequence.yank of an entry that r knows.
Yank(r, t, e, dest) ==
    /\ Known(r, e)
    /\ Issue(r, [type |-> "move", time |-> t, author |-> r, entry |-> e, dest |-> dest,
                 expiry |-> 0])

\* Container.clear.
Clear(r, t) ==
    Issue(r, [type |-> "clear", time |-> t, author |-> r, entry |-> 0, dest |-> Nowhere,
              expiry |-> 0])

\* A bundle of another instance arrives.
Receive(r, ch) ==
    /\ ch \notin applied[r]
    /\ \A other \in issued : other.author = ch.author /\ other.time < ch.time =>
            other \in applied[r]
    /\ ch.type = "move" => Known(r, ch.entry)
    /\ Apply(r, ch)
    /\ UNCHANGED issued

Next ==
    \E r \in Replica :
        \/ \E t \in Time, new \in Additions : AppendEntry(r, t, new[1], new[2])
        \/ \E t, e \in Time, dest \in Positions \cup {Nowhere} : Yank(r, t, e, dest)
        \/ \E t \in Time : Clear(r, t)
        \/ \E ch \in issued : Receive(r, ch)

Spec == Init /\ [][Next]_vars
-----------------------------------------------------------------------------
(***************************************************************************)
(* What the store answers.                                                 *)
(***************************************************************************)

\* The clearances before a time.
ClearsBefore(r, asof) == {t \in clearances[r] : t < asof}

\* MemoryStore._get_time_of_prior_clear: the loop runs from the last clearance to
\* the first and keeps what it saw last.
FirstClear(r, asof) == IF ClearsBefore(r, asof) = {} THEN 0 ELSE Min(ClearsBefore(r, asof))

\* LmdbStore._get_time_of_prior_clear: the last.
LastClear(r, asof) == IF ClearsBefore(r, asof) = {} THEN 0 ELSE Max(ClearsBefore(r, asof))

PriorClear(r, asof) == IF r \in Lmdb THEN LastClear(r, asof) ELSE FirstClear(r, asof)

\* Faulty: removals are looked up, but not compared with the time asked for.
RemovedEver(r, pl, asof) == \E rm \in removals[r] : rm.removing = pl.placer

\* _get_last_removal_before_placer, compared with the time asked for.
Removed(r, pl, asof) ==
    LET found == {rm.movement : rm \in {x \in removals[r] : x.removing = pl.placer}}
    IN  found # {} /\ Max(found) < asof

\* The time asked for, or the clearance before it, hides a place.
Hidden(pl, clear, asof) ==
    \/ pl.placer >= asof \/ pl.placer < clear
    \/ pl.expiry # 0 /\ pl.expiry < asof

\* MemoryStore.get_ordered_entries.
MemoryVisible(r, asof) ==
    LET clear == PriorClear(r, asof)
    IN  {pl \in places[r] : /\ pl.pos # Nowhere /\ pl.pos < asof
                            /\ ~Hidden(pl, clear, asof)
                            /\ ~Removed(r, pl, asof)}

\* LmdbStore.get_ordered_entries: positions up to the time itself.
LmdbVisible(r, asof) ==
    LET clear == PriorClear(r, asof)
    IN  {pl \in places[r] : /\ pl.pos # Nowhere /\ pl.pos <= asof
                            /\ ~Hidden(pl, clear, asof)
                            /\ ~Removed(r, pl, asof)}

Visible(r, asof) == IF r \in Lmdb THEN LmdbVisible(r, asof) ELSE MemoryVisible(r, asof)

\* What get_positioned_entry finds, if anything.
Positioned(r, e, asof) ==
    {pl \in PlacesOf(r, e, asof) : pl.pos # Nowhere /\ pl = Location(r, e, asof)}
-----------------------------------------------------------------------------
(***************************************************************************)
(* Properties.                                                             *)
(***************************************************************************)

\* The times that a store can be asked about: without history, the present.
AsOf(r) == IF retains[r] THEN 1 .. Now ELSE {Now}

(***************************************************************************)
(* As of any time, an entry is at one place of the sequence at most, and   *)
(* get_positioned_entry (which asks _locations) and get_ordered_entries    *)
(* (which asks _placements and _removals) agree on it, however many        *)
(* movements of it arrived and in whatever order.                          *)
(***************************************************************************)
OnePlaceAtATime ==
    \A r \in Replica : \A asof \in AsOf(r) :
        \A pl \in Visible(r, asof) : Positioned(r, pl.entry, asof) = {pl}

(***************************************************************************)
(* An entry with a location that nothing hides is in the sequence: a       *)
(* movement never makes an entry disappear from what get_ordered_entries   *)
(* returns as of a time, past or present.                                  *)
(***************************************************************************)
LocatedIsVisible ==
    \A r \in Replica : \A asof \in AsOf(r) :
        LET shown == Visible(r, asof)
        IN  \A pl \in places[r] \ shown :
                \/ pl.pos = Nowhere \/ pl.pos >= asof
                \/ Hidden(pl, PriorClear(r, asof), asof)
                \/ pl # Location(r, pl.entry, asof)

\* What r shows of entry e at present.
Shown(r, e) == {pl \in Visible(r, Now) : pl.entry = e}

\* The stores disagree on which of several clearances counts.
ClearedTwice(r) == \E ch, other \in applied[r] :
    ch.type = "clear" /\ other.type = "clear" /\ ch # other

(***************************************************************************)
(* Movements converge: two instances that have received the same changes   *)
(* show an entry at the same place, whatever stores they have, with or     *)
(* without history, and in whatever order the changes came.  Unless a      *)
(* change removes the entry, or the sequence was cleared twice.            *)
(***************************************************************************)
MovementsConverge ==
    \A r, q \in Replica : r # q /\ applied[r] = applied[q] =>
        \A e \in Time :
            \/ \E ch \in applied[r] : ch.entry = e /\ ch.type = "move" /\ ch.dest = Nowhere
            \/ ClearedTwice(r)
            \/ Shown(r, e) = Shown(q, e)
=============================================================================
