----------------------------- MODULE KeyedStore -----------------------------
(***************************************************************************)
(* One keyed container (a Directory; boxes, groups, properties, key sets   *)
(* and pair maps are stored alike) as the stores of several gink instances *)
(* materialise it: MemoryStore (python/gink/impl/memory_store.py) or       *)
(* LmdbStore (lmdb_store.py), which agree on the tables and differ in how  *)
(* they search, clear and drop them.                                       *)
(*                                                                         *)
(* As in SequenceStore, a change is named by its time, an instance issues  *)
(* changes with growing times, its chain arrives in order, and clocks are  *)
(* not synchronised: an instance may receive a change that is older than   *)
(* what it has, or one from what its own clock calls the future.           *)
(***************************************************************************)
EXTENDS Naturals, FiniteSets, FiniteSetsExt

CONSTANTS Replica,      \* gink instances
          Impl,         \* Impl[r]: the store r uses, "memory" or "lmdb"
          Key,          \* keys of the container
          MaxTime       \* bound: times of changes

ASSUME ConstantsAssumption ==
    /\ Impl \in [Replica -> {"memory", "lmdb"}]
    /\ MaxTime \in Nat

Time == 1 .. MaxTime

\* As of this time, everything has happened.
Ever == MaxTime + 1

VARIABLES
    issued,         \* the changes in the world
    applied,        \* applied[r]: the changes r has received
    held,           \* held[r]: _entries, _placements and _locations, see Entry
    removals,       \* removals[r]: _removals
    removalsByTime, \* removalsByTime[r]: _removals_by_time (lmdb only)
    clearances,     \* clearances[r]: _clearances
    retaining,      \* retaining[r]: _retaining_entries; the "entries" retention
    clock,          \* clock[r]: to r, the times before clock[r] are past
    orderly,        \* history: r got every change after all older ones and on time
    horizon         \* history: r dropped what was superseded by this time

stores == <<held, removals, removalsByTime, clearances>>
vars == <<issued, applied, stores, retaining, clock, orderly, horizon>>

Change == [type : {"entry"}, time : Time, author : Replica, key : Key]
          \cup [type : {"clear"}, time : Time, author : Replica]

(***************************************************************************)
(* An entry under a key is never moved, so it has one location, which names *)
(* its one placement: the three tables hold the same entries.              *)
(***************************************************************************)
Entry == [time : Time, key : Key]

\* The key of a removal: an entry, and the entry that superseded it.
Removal == [removing : Time, movement : Time]

TypeOK ==
    /\ issued \subseteq Change
    /\ applied \in [Replica -> SUBSET Change]
    /\ held \in [Replica -> SUBSET Entry]
    /\ removals \in [Replica -> SUBSET Removal]
    /\ removalsByTime \in [Replica -> SUBSET Removal]
    /\ clearances \in [Replica -> SUBSET Time]
    /\ retaining \in [Replica -> BOOLEAN]
    /\ clock \in [Replica -> 1 .. Ever]
    /\ orderly \in [Replica -> BOOLEAN]
    /\ horizon \in [Replica -> 0 .. MaxTime]

Init ==
    /\ issued = {}
    /\ applied = [r \in Replica |-> {}]
    /\ held = [r \in Replica |-> {}]
    /\ removals = [r \in Replica |-> {}]
    /\ removalsByTime = [r \in Replica |-> {}]
    /\ clearances = [r \in Replica |-> {}]
    /\ retaining = [r \in Replica |-> TRUE]
    /\ clock = [r \in Replica |-> 1]
    /\ orderly = [r \in Replica |-> TRUE]
    /\ horizon = [r \in Replica |-> 0]
-----------------------------------------------------------------------------
(***************************************************************************)
(* Searching.                                                              *)
(***************************************************************************)
Latest(S) == CHOOSE x \in S : \A y \in S : y.time <= x.time

ClearsBefore(r, asof) == {t \in clearances[r] : t < asof}

\* MemoryStore._get_time_of_prior_clear keeps what it saw last in a loop that
\* runs backwards.
MemoryPriorClear(r, asof) ==
    IF ClearsBefore(r, asof) = {} THEN 0 ELSE Min(ClearsBefore(r, asof))

\* LmdbStore._get_time_of_prior_clear seeks the last one.
LmdbPriorClear(r, asof) ==
    IF ClearsBefore(r, asof) = {} THEN 0 ELSE Max(ClearsBefore(r, asof))

\* The last entry under a key before a time, unless a clear came after it: a
\* set of one entry or none.
LastSince(r, k, asof, cleared) ==
    LET before == {e \in held[r] : e.key = k /\ e.time < asof}
    IN  {e \in before : e = Latest(before) /\ e.time >= cleared}

\* get_entry_by_key of the two stores.
MemoryGet(r, k, asof) == LastSince(r, k, asof, MemoryPriorClear(r, asof))
LmdbGet(r, k, asof) == LastSince(r, k, asof, LmdbPriorClear(r, asof))

GetEntryByKey(r, k, asof) ==
    IF Impl[r] = "memory" THEN MemoryGet(r, k, asof) ELSE LmdbGet(r, k, asof)
-----------------------------------------------------------------------------
(***************************************************************************)
(* What the store does with a change.                                      *)
(***************************************************************************)

\* The record that an entry was superseded by change ch.
RemovalsBy(ch, found) == {[removing |-> e.time, movement |-> ch.time] : e \in found}

\* Faulty: what is superseded is looked up under any key.
SupersedesAnyKey(r, ch, found) ==
    LET all == UNION {GetEntryByKey(r, k, Ever) : k \in Key}
    IN  /\ held' = [held EXCEPT ![r] = (IF retaining[r] THEN @ ELSE @ \ all)
                                       \cup {[time |-> ch.time, key |-> ch.key]}]
        /\ removals' = [removals EXCEPT ![r] =
                          IF retaining[r] THEN @ \cup RemovalsBy(ch, all) ELSE @]
        /\ UNCHANGED clearances

\* _add_entry for a behaviour whose entries replace one another: the found
\* entry is marked as removed or, without history, purged; the new one is
\* entered in any case, an older one too.
Supersedes(r, ch, found) ==
    /\ held' = [held EXCEPT ![r] = (IF retaining[r] THEN @ ELSE @ \ found)
                                   \cup {[time |-> ch.time, key |-> ch.key]}]
    /\ removals' = [removals EXCEPT ![r] =
                      IF retaining[r] THEN @ \cup RemovalsBy(ch, found) ELSE @]
    /\ UNCHANGED clearances

\* MemoryStore._add_entry looks for what it supersedes as of its own clock.
MemoryAddEntry(r, ch) ==
    /\ Supersedes(r, ch, MemoryGet(r, ch.key, clock'[r]))
    /\ UNCHANGED removalsByTime

\* LmdbStore._add_entry looks for the last entry there is.
LmdbAddEntry(r, ch) ==
    LET found == LmdbGet(r, ch.key, Ever)
    IN  /\ Supersedes(r, ch, found)
        /\ removalsByTime' = [removalsByTime EXCEPT ![r] =
                                IF retaining[r] THEN @ \cup RemovalsBy(ch, found) ELSE @]

\* Faulty: the clearance keeps the relative muid it has within its bundle.
ClearanceUnresolved(r, ch) ==
    /\ clearances' = [clearances EXCEPT ![r] = @ \cup {0}]
    /\ UNCHANGED <<held, removals, removalsByTime>>

\* MemoryStore._add_clearance.
MemoryAddClearance(r, ch) ==
    /\ clearances' = [clearances EXCEPT ![r] = @ \cup {ch.time}]
    /\ UNCHANGED <<held, removals, removalsByTime>>

\* LmdbStore._apply_clearance: without history it forgets the other clearances
\* and the removals of the container.  (Its loop over the entries finds none:
\* they are not keyed by container.)
LmdbAddClearance(r, ch) ==
    /\ clearances' = [clearances EXCEPT ![r] = (IF retaining[r] THEN @ ELSE {}) \cup {ch.time}]
    /\ removals' = [removals EXCEPT ![r] = IF retaining[r] THEN @ ELSE {}]
    /\ UNCHANGED <<held, removalsByTime>>

\* apply_bundle of the two stores, for a bundle of one change.
MemoryApply(r, ch) ==
    \/ ch.type = "entry" /\ MemoryAddEntry(r, ch)
    \/ ch.type = "clear" /\ MemoryAddClearance(r, ch)

LmdbApply(r, ch) ==
    \/ ch.type = "entry" /\ LmdbAddEntry(r, ch)
    \/ ch.type = "clear" /\ LmdbAddClearance(r, ch)

Apply(r, ch) ==
    /\ \/ Impl[r] = "memory" /\ MemoryApply(r, ch)
       \/ Impl[r] = "lmdb" /\ LmdbApply(r, ch)
    /\ applied' = [applied EXCEPT ![r] = @ \cup {ch}]
    /\ orderly' = [orderly EXCEPT ![r] =
                     @ /\ ch.time < clock'[r] /\ \A other \in applied[r] : other.time < ch.time]
    /\ horizon' = [horizon EXCEPT ![r] = IF retaining[r] THEN @ ELSE Max({@, ch.time})]
    /\ UNCHANGED retaining
-----------------------------------------------------------------------------
(***************************************************************************)
(* Where changes come from.                                                *)
(***************************************************************************)

\* generate_timestamp gives r's new change a time that no change has (muids
\* break ties), and moves on.
Issue(r, ch) ==
    /\ clock[r] \in Time
    /\ ch.time = clock[r]
    /\ \A other \in issued : other.time # ch.time
    /\ clock' = [clock EXCEPT ![r] = @ + 1]
    /\ issued' = issued \cup {ch}
    /\ Apply(r, ch)

\* Directory.set with a single key; Directory.delete, which adds an entry as
\* well, with the deletion flag for a value.
Set(r, k) == Issue(r, [type |-> "entry", time |-> clock[r], author |-> r, key |-> k])

\* Container.clear.
Clear(r) == Issue(r, [type |-> "clear", time |-> clock[r], author |-> r])

\* Time passes.
Tick(r) ==
    /\ clock[r] < Ever
    /\ clock' = [clock EXCEPT ![r] = @ + 1]
    /\ UNCHANGED <<issued, applied, stores, retaining, orderly, horizon>>

\* A bundle of another instance arrives.
Receive(r, ch) ==
    /\ ch \notin applied[r]
    /\ \A other \in issued : other.author = ch.author /\ other.time < ch.time =>
            other \in applied[r]
    /\ UNCHANGED <<clock, issued>>
    /\ Apply(r, ch)
-----------------------------------------------------------------------------
(***************************************************************************)
(* Retention.                                                              *)
(***************************************************************************)

\* The order of _removals.
Before(a, b) ==
    \/ a.removing < b.removing
    \/ a.removing = b.removing /\ a.movement < b.movement

\* _remove_entry of a removal's entry raises KeyError in the memory store: it
\* is gone, or an earlier removal in the loop has removed it.
RemoveRaises(r, rm) ==
    \/ \A e \in held[r] : e.time # rm.removing
    \/ \E other \in removals[r] : other.removing = rm.removing /\ Before(other, rm)

\* Faulty: the time asked for is not looked at.
DropsAll(r, asof) == removals[r]

\* The removals that MemoryStore.drop_history carries out: in the order of
\* _removals, up to the first that is too new or raises.
MemoryDrops(r, asof) ==
    LET ends == {rm \in removals[r] : rm.movement > asof \/ RemoveRaises(r, rm)}
    IN  {rm \in removals[r] : \A end \in ends : Before(rm, end)}

\* LmdbStore.drop_history goes through _removals_by_time; an entry that is
\* already gone only makes it log a warning.
LmdbDrops(r, asof) == {rm \in removalsByTime[r] : rm.movement <= asof}

\* drop_history up to asof, with _remove_entry for each removal.
Drop(r, asof) ==
    LET dropped == IF Impl[r] = "memory" THEN MemoryDrops(r, asof) ELSE LmdbDrops(r, asof)
    IN  /\ held' = [held EXCEPT ![r] = {e \in @ : \A rm \in dropped : rm.removing # e.time}]
        /\ removals' = [removals EXCEPT ![r] = @ \ dropped]
        /\ removalsByTime' = [removalsByTime EXCEPT ![r] = @ \ dropped]
        /\ horizon' = [horizon EXCEPT ![r] = Max({@, asof})]
        /\ UNCHANGED <<issued, applied, clearances, clock, orderly>>

DropHistory(r, asof) == Drop(r, asof) /\ UNCHANGED retaining

\* stop_history drops what is superseded by now.
StopHistory(r) ==
    /\ retaining' = [retaining EXCEPT ![r] = FALSE]
    /\ Drop(r, clock[r] - 1)

StartHistory(r) ==
    /\ retaining' = [retaining EXCEPT ![r] = TRUE]
    /\ UNCHANGED <<issued, applied, stores, clock, orderly, horizon>>

Next ==
    \E r \in Replica :
        \/ \E k \in Key : Set(r, k)
        \/ Clear(r)
        \/ Tick(r)
        \/ \E ch \in issued : Receive(r, ch)
        \/ \E asof \in Time : DropHistory(r, asof)
        \/ StopHistory(r)
        \/ StartHistory(r)

Spec == Init /\ [][Next]_vars
-----------------------------------------------------------------------------
(***************************************************************************)
(* Properties.                                                             *)
(***************************************************************************)

\* What the changes that r has received say of a key as of a time: the last
\* entry, unless the container was cleared after it.
Wins(r, k, asof) ==
    LET before == {ch \in applied[r] : ch.time < asof /\ (ch.type = "clear" \/ ch.key = k)}
    IN  {ch.time : ch \in {x \in before : x = Latest(before) /\ x.type = "entry"}}

Answer(r, k, asof) == {e.time : e \in GetEntryByKey(r, k, asof)}

(***************************************************************************)
(* The last writer wins, now and as of any time whose history r has not    *)
(* dropped: with full history in whatever order changes arrive and however *)
(* clocks are skewed, and after drop_history, stop_history and with        *)
(* retention off as long as changes arrive on time.  The memory store is   *)
(* only held to it for a container that was cleared once at most           *)
(* (SequenceStore's ClearEmpties).                                         *)
(***************************************************************************)
LastWriterWins ==
    \A r \in Replica :
        /\ horizon[r] = 0 \/ orderly[r]
        /\ Impl[r] = "memory" => Cardinality(clearances[r]) <= 1
        => \A k \in Key, asof \in horizon[r] + 1 .. Ever : Answer(r, k, asof) = Wins(r, k, asof)

(***************************************************************************)
(* drop_history does not raise, and removes no entry twice: as long as     *)
(* changes arrive on time, every removal names an entry that the store     *)
(* still has, and no other removal does.                                   *)
(***************************************************************************)
RemovalsAreValid ==
    \A r \in Replica : orderly[r] => \A rm \in removals[r] : ~RemoveRaises(r, rm)

(***************************************************************************)
(* "Clock skew does not prevent convergence, because peers sort the same   *)
(* accepted bundle identifiers the same way" (docs/consistency.md:86):     *)
(* instances with the same changes give the same answers about the         *)
(* present, whatever history they keep.                                    *)
(***************************************************************************)
KeysConverge ==
    \A r, q \in Replica, k \in Key :
        applied[r] = applied[q] => Answer(r, k, Ever) = Answer(q, k, Ever)
=============================================================================
