--------------------------- MODULE DirectoryTree ---------------------------
(***************************************************************************)
(* Directories within directories and the bundlers that change them        *)
(* (python/gink/impl: directory.py, container.py, bundler.py,              *)
(* bound_bundler.py, muid.py), over an LmdbStore.                          *)
(*                                                                         *)
(* An operation turns into changes that are put into a bundler: the one    *)
(* that is passed, else the active one (of a "with" block), else one that  *)
(* is made for the operation and committed at once.  What the operation    *)
(* has to know it reads from the store, which does not have the changes of *)
(* open bundlers.  A directory made within a bundler has no address before *)
(* the bundler is committed: its muid only has an offset, and a bundler to *)
(* ask for the rest.                                                       *)
(***************************************************************************)
EXTENDS Integers, Sequences, FiniteSets, SequencesExt

CONSTANTS Key,          \* keys of directories
          Value,        \* plain values
          Bundler,      \* bundlers that the program makes
          None,         \* no bundler
          MaxBundles,   \* bound: bundles in the store
          MaxChanges,   \* bound: changes in one bundle
          MaxCalls,     \* bound: calls of operations, see CallCount
          Retries       \* whether a bundler may be committed again

ASSUME ConstantsAssumption ==
    /\ None \notin Bundler
    /\ MaxBundles \in Nat
    /\ MaxChanges \in Nat
    /\ MaxCalls \in Nat
    /\ Retries \in BOOLEAN

VARIABLES
    log,        \* the bundles in the store, in the order of their timestamps:
                \* the changes and, as history, the bundler and the calls
    changes,    \* changes[b]: _changes
    opened,     \* opened[b]: _is_open
    stamp,      \* stamp[b]: timestamp, 0 as long as it is None
    active,     \* Bundler._local.active
    calls       \* history: the operations that made changes[b], see Call

vars == <<log, changes, opened, stamp, active, calls>>

(***************************************************************************)
(* A muid is a bundle and an offset in it.  Time 0 stands for the bundle   *)
(* the muid is part of; the root directory has time -1.                    *)
(***************************************************************************)
Muid == [time : -1 .. MaxBundles, offset : 0 .. MaxChanges]
Root == [time |-> -1, offset |-> 0]

\* What is found or put under a key.
Occupant == [type : {"value"}, value : Value] \cup [type : {"pointee"}, muid : Muid]
            \cup [type : {"deletion"}]
Plain(v) == [type |-> "value", value |-> v]

\* Faulty: a deletion is an entry with a null value.
NullValue == Plain(None)
Deletion == [type |-> "deletion"]
Pointee(m) == [type |-> "pointee", muid |-> m]

\* The address of a directory that was made within a bundler, as the program
\* has it; no handle for a directory that was found in the store.
Handle == [bundler : Bundler, offset : 1 .. MaxChanges]
NoHandle == [bundler |-> None, offset |-> 0]

(***************************************************************************)
(* History in a change: "kept" says that the program keeps a handle of the *)
(* new directory; "owner" and "guest" are the handles that the operation   *)
(* had for the container and for the pointee, unless it used them before   *)
(* they had an address and in another bundler than their own.              *)
(***************************************************************************)
Change ==
    [type : {"container"}, kept : BOOLEAN] \cup [type : {"clearance"}, container : Muid]
    \cup [type : {"entry"}, container : Muid, key : Key, occupant : Occupant,
          owner : Handle \cup {NoHandle}, guest : Handle \cup {NoHandle}]

Path == {<<k>> : k \in Key} \cup (Key \X Key)

(***************************************************************************)
(* A Call is an operation on the root directory, or one with another       *)
(* directory ("other").  Its reads are what it found in the store: under a *)
(* key of a directory, the muid of an entry, or none.  "after" is the      *)
(* number of changes that were in the bundler before it; "to" is the time  *)
(* of a reset.                                                             *)
(***************************************************************************)
Call == [op : {"set", "delete", "clear", "reset", "other"}, path : Path \cup {<<>>},
         value : Value \cup {None}, after : 0 .. MaxChanges, to : 0 .. MaxBundles,
         reads : SUBSET [container : Muid, key : Key, found : SUBSET Muid]]

TypeOK ==
    /\ log \in Seq([by : Bundler \cup {None}, changes : Seq(Change), calls : Seq(Call)])
    /\ Len(log) <= MaxBundles
    /\ changes \in [Bundler -> Seq(Change)]
    /\ \A b \in Bundler : Len(changes[b]) <= MaxChanges
    /\ opened \in [Bundler -> BOOLEAN]
    /\ stamp \in [Bundler -> 0 .. MaxBundles]
    /\ active \in Bundler \cup {None}
    /\ calls \in [Bundler -> Seq(Call)]

Init ==
    /\ log = <<>>
    /\ changes = [b \in Bundler |-> <<>>]
    /\ opened = [b \in Bundler |-> TRUE]
    /\ stamp = [b \in Bundler |-> 0]
    /\ active = None
    /\ calls = [b \in Bundler |-> <<>>]
-----------------------------------------------------------------------------
(***************************************************************************)
(* The store.                                                              *)
(***************************************************************************)

\* As of this time, everything has happened.
Now == MaxBundles + 1

Before(m, n) == m.time < n.time \/ (m.time = n.time /\ m.offset < n.offset)

\* The muids of the changes in the store, and the change of a muid.
Muids(store) ==
    UNION {[time : {t}, offset : DOMAIN store[t].changes] : t \in DOMAIN store}
At(store, m) == store[m.time].changes[m.offset]

\* Muid.create: a muid in a change at time t.
Absolute(m, t) == [m EXCEPT !.time = IF @ = 0 THEN t ELSE @]

\* The changes of a type that concern container c, before a time.
About(store, type, c, asof) ==
    {m \in Muids(store) : /\ m.time < asof
                          /\ At(store, m).type = type
                          /\ Absolute(At(store, m).container, m.time) = c}

\* LmdbStore._get_time_of_prior_clear.
PriorClear(store, c, asof) ==
    LET clears == {m.time : m \in About(store, "clearance", c, asof)}
    IN  CHOOSE t \in clears \cup {0} : \A u \in clears : u <= t

\* The last entry under a key before a time, in a set.
LastEntry(store, c, k, asof) ==
    LET entries == {m \in About(store, "entry", c, asof) : At(store, m).key = k}
    IN  {m \in entries : \A n \in entries : ~Before(m, n)}

\* LmdbStore.get_entry_by_key: that entry, unless a bundle with a later time
\* cleared the directory.  A directory without an address has no entries.
GetEntryByKey(store, c, k, asof) ==
    {m \in LastEntry(store, c, k, asof) : m.time >= PriorClear(store, c, asof)}

\* _get_occupant, decode_entry_occupant: what such an entry contains.  A key
\* without entry reads like a deleted one.
OccupantOf(store, found) ==
    IF found = {} THEN Deletion
    ELSE LET m == CHOOSE m \in found : TRUE
             there == At(store, m).occupant
         IN  IF there.type = "pointee" THEN Pointee(Absolute(there.muid, m.time)) ELSE there

Find(store, c, k, asof) == OccupantOf(store, GetEntryByKey(store, c, k, asof))

\* LmdbStore.get_container: whether a muid is that of a container.
IsContainer(store, m) ==
    \/ m = Root
    \/ /\ m.time \in DOMAIN store /\ m.offset \in DOMAIN store[m.time].changes
       /\ At(store, m).type = "container"

\* get_container in Container._get_occupant: a pointee has to be a container, or
\* nothing comes back but an exception.
Lost == [type |-> "lost"]
GetContainer(store, occupant) ==
    IF occupant.type = "pointee" /\ ~IsContainer(store, occupant.muid) THEN Lost ELSE occupant

\* One key of a path: no plain value can be traversed.
Traverse(store, at, k, asof) ==
    CASE at.type = "pointee" -> GetContainer(store, Find(store, at.muid, k, asof))
      [] at.type = "lost"    -> Lost
      [] OTHER               -> Deletion

\* Directory.get with a path.
Get(store, path, asof) ==
    FoldLeft(LAMBDA at, k : Traverse(store, at, k, asof), Pointee(Root), path)
-----------------------------------------------------------------------------
(***************************************************************************)
(* Bundlers.                                                               *)
(***************************************************************************)

\* apply_bundle of the next bundle.
Stored(b, made, by) ==
    /\ Len(log) < MaxBundles
    /\ log' = Append(log, [by |-> b, changes |-> made, calls |-> by])

\* BoundBundler.commit: an empty bundler is skipped; nothing closes it after.
Commits(b) ==
    /\ opened[b]
    /\ IF changes[b] = <<>>
       THEN UNCHANGED <<log, stamp>>
       ELSE /\ Retries \/ stamp[b] = 0
            /\ Stored(b, changes[b], calls[b])
            /\ stamp' = [stamp EXCEPT ![b] = Len(log) + 1]

Commit(b) ==
    /\ changes[b] # <<>>
    /\ Commits(b)
    /\ UNCHANGED <<changes, opened, active, calls>>

\* BoundBundler.rollback.
Rollback(b) ==
    /\ opened[b]
    /\ opened' = [opened EXCEPT ![b] = FALSE]
    /\ UNCHANGED <<log, changes, stamp, active, calls>>

\* Bundler.__enter__.
Enter(b) ==
    /\ active = None
    /\ active' = b
    /\ UNCHANGED <<log, changes, opened, stamp, calls>>

\* Bundler.__exit__: the block ended, or an exception left it.
Exit ==
    /\ active # None
    /\ active' = None
    /\ \/ Commits(active) /\ UNCHANGED opened
       \/ opened' = [opened EXCEPT ![active] = FALSE] /\ UNCHANGED <<log, stamp>>
    /\ UNCHANGED <<changes, calls>>

\* bundler or Bundler.get_active().
Effective(b) == IF b # None THEN b ELSE active

\* The number of changes in it so far.
Count(e) == IF e = None THEN 0 ELSE Len(changes[e])

\* The calls so far; one that was given to a bundler counts twice, because it
\* can be committed at many points.
CallCount ==
    LET Sum(S, n(_)) == FoldSet(LAMBDA x, sum : n(x) + sum, 0, S)
    IN  Sum(Bundler, LAMBDA b : 2 * Len(calls[b]))
        + Sum({n \in DOMAIN log : log[n].by = None}, LAMBDA n : Len(log[n].calls))

\* add_change for the changes that calls made, in a bundler of their own that
\* is committed at once if there is no other.
Perform(e, made, by) ==
    /\ Count(e) + Len(made) <= MaxChanges
    /\ CallCount + (IF e = None THEN 1 ELSE 2) * Len(by) <= MaxCalls
    /\ IF e = None
       THEN /\ Stored(None, made, by)
            /\ UNCHANGED <<changes, calls>>
       ELSE /\ opened[e]
            /\ changes' = [changes EXCEPT ![e] = @ \o made]
            /\ calls' = [calls EXCEPT ![e] = @ \o by]
            /\ UNCHANGED log
    /\ UNCHANGED <<opened, stamp, active>>
-----------------------------------------------------------------------------
(***************************************************************************)
(* Operations on the root directory.  Each is given a bundler or None.     *)
(***************************************************************************)

Entry(c, k, occupant) ==
    [type |-> "entry", container |-> c, key |-> k, occupant |-> occupant,
     owner |-> NoHandle, guest |-> NoHandle]

\* Directory.__init__ -> Container._create.
Container(kept) == [type |-> "container", kept |-> kept]
Clearance(c) == [type |-> "clearance", container |-> c]

\* A read: what is now under a key.
Read(c, k) == [container |-> c, key |-> k, found |-> GetEntryByKey(log, c, k, Now)]

Called(op, path, v, e, reads) ==
    [op |-> op, path |-> path, value |-> v, after |-> Count(e), to |-> 0, reads |-> reads]

\* Faulty: clearances are not looked at on the way.
StepIgnoringClears(s, k, n) ==
    LET found == IF s.fresh THEN {} ELSE LastEntry(log, s.at, k, Now)
        there == GetContainer(log, OccupantOf(log, found))
        new   == [time |-> 0, offset |-> n + Len(s.made) + 1]
    IN  IF there.type = "deletion"
        THEN [at |-> new, fresh |-> TRUE, ok |-> s.ok,
              made |-> s.made \o <<Container(FALSE), Entry(s.at, k, Pointee(new))>>,
              reads |-> s.reads \cup {Read(s.at, k)}]
        ELSE [s EXCEPT !.at = IF there.type = "pointee" THEN there.muid ELSE @, !.fresh = FALSE,
                       !.ok = @ /\ there.type = "pointee", !.reads = @ \cup {Read(s.at, k)}]

\* One key on the way of Directory.set, after n changes in the bundler: into
\* the subdirectory, or into a new one if there is none; anything else on the
\* way raises.
Step(s, k, n) ==
    LET found == IF s.fresh THEN {} ELSE GetEntryByKey(log, s.at, k, Now)
        there == GetContainer(log, OccupantOf(log, found))
        new   == [time |-> 0, offset |-> n + Len(s.made) + 1]
    IN  IF there.type = "deletion"
        THEN [at |-> new, fresh |-> TRUE, ok |-> s.ok,
              made |-> s.made \o <<Container(FALSE), Entry(s.at, k, Pointee(new))>>,
              reads |-> s.reads \cup {Read(s.at, k)}]
        ELSE [s EXCEPT !.at = IF there.type = "pointee" THEN there.muid ELSE @, !.fresh = FALSE,
                       !.ok = @ /\ there.type = "pointee", !.reads = @ \cup {Read(s.at, k)}]

\* Directory.set.
Set(b, path, v) ==
    LET e == Effective(b)
        s == FoldLeft(LAMBDA x, k : Step(x, k, Count(e)),
                      [at |-> Root, fresh |-> FALSE, ok |-> TRUE, made |-> <<>>, reads |-> {}],
                      Front(path))
    IN  /\ s.ok
        /\ Perform(e, Append(s.made, Entry(s.at, Last(path), Plain(v))),
                   <<Called("set", path, v, e, s.reads)>>)

\* Directory.walk: the directory at the end of the path, which must be there.
Walk(path) == Get(log, path, Now)

\* What walk has read: each directory on the way, under its key.
WalkReads(path) ==
    {Read(Walk(SubSeq(path, 1, i - 1)).muid, path[i]) : i \in DOMAIN path}

\* Directory.delete.
Delete(b, path) ==
    LET e == Effective(b)
    IN  /\ Walk(Front(path)).type = "pointee"
        /\ Perform(e, <<Entry(Walk(Front(path)).muid, Last(path), Deletion)>>,
                   <<Called("delete", path, None, e, WalkReads(Front(path)))>>)

\* Directory.pop of a key that is there; whether it can be read comes after.
Pop(b, path) ==
    LET e == Effective(b)
    IN  /\ Walk(Front(path)).type = "pointee"
        /\ Walk(path).type # "deletion"
        /\ Perform(e, <<Entry(Walk(Front(path)).muid, Last(path), Deletion)>>,
                   <<Called("delete", path, None, e, WalkReads(path))>>)

\* Directory.popitem: some key that is there and can be read.
PopItem(b) ==
    LET e == Effective(b)
    IN  \E k \in Key :
            /\ Walk(<<k>>).type \notin {"deletion", "lost"}
            /\ Perform(e, <<Entry(Root, k, Deletion)>>,
                       <<Called("delete", <<k>>, None, e, {Read(Root, l) : l \in Key})>>)

\* Directory.setdefault of a key that is not there.
SetDefault(b, path, v) ==
    LET e == Effective(b)
    IN  /\ Walk(Front(path)).type = "pointee"
        /\ Walk(path).type = "deletion"
        /\ Perform(e, <<Entry(Walk(Front(path)).muid, Last(path), Plain(v))>>,
                   <<Called("set", path, v, e, WalkReads(path))>>)

\* The changes and calls of Directory.update, key by key.
UpdateChanges(contents) == [i \in DOMAIN contents |-> Entry(Root, contents[i][1], Plain(contents[i][2]))]
UpdateCalls(contents, e) ==
    [i \in DOMAIN contents |-> Called("set", <<contents[i][1]>>, contents[i][2], e, {})]

\* Directory.update.
Update(b, contents) ==
    LET e == Effective(b)
    IN  Perform(e, UpdateChanges(contents), UpdateCalls(contents, e))

\* Container.clear.
Clear(b) ==
    LET e == Effective(b)
    IN  Perform(e, <<Clearance(Root)>>, <<Called("clear", <<>>, None, e, {})>>)

\* Directory.__init__ with a muid and contents: the directory is cleared and
\* filled in one bundle.
Refill(b, contents) ==
    LET e == Effective(b)
    IN  Perform(e, <<Clearance(Root)>> \o UpdateChanges(contents),
                <<Called("clear", <<>>, None, e, {})>> \o UpdateCalls(contents, e))
-----------------------------------------------------------------------------
(***************************************************************************)
(* Operations with other directories.                                      *)
(***************************************************************************)

\* Directory.__init__ without a muid.  Without a bundler the new directory
\* has an address when the program gets it.
New(b) ==
    LET e == Effective(b)
    IN  Perform(e, <<Container(e # None)>>, <<Called("other", <<>>, None, e, {})>>)

\* The handles of directories that the program has.
Handles ==
    {h \in Handle : /\ h.offset \in DOMAIN changes[h.bundler]
                    /\ changes[h.bundler][h.offset] = Container(TRUE)}

\* Faulty: the offset is counted before the change is added.
PutIntoPrior(h) == [time |-> stamp[h.bundler], offset |-> h.offset - 1]

\* Muid.put_into, get_timestamp_or_zero.
PutInto(h) == [time |-> stamp[h.bundler], offset |-> h.offset]

\* Whether bundler e can be expected to resolve a handle: it was committed, or e
\* is where it will be.
Proper(h, e) ==
    IF \/ stamp[h.bundler] # 0 /\ h.offset \in DOMAIN log[stamp[h.bundler]].changes
       \/ stamp[h.bundler] = 0 /\ h.bundler = e
    THEN h ELSE NoHandle

\* Directory.set of a plain value in a directory that the program has made.
SetIn(b, h, k, v) ==
    LET e == Effective(b)
    IN  Perform(e, <<[Entry(PutInto(h), k, Plain(v)) EXCEPT !.owner = Proper(h, e)]>>,
                <<Called("other", <<>>, None, e, {})>>)

\* Directory.set of such a directory in the root directory.
Link(b, k, h) ==
    LET e == Effective(b)
    IN  Perform(e, <<[Entry(Root, k, Pointee(PutInto(h))) EXCEPT !.guest = Proper(h, e)]>>,
                <<Called("other", <<>>, None, e, {})>>)
-----------------------------------------------------------------------------
(***************************************************************************)
(* Reset.                                                                  *)
(***************************************************************************)

\* Faulty: what was there then is not checked for a clear before that time.
ContainedThenUncleared(c, k, to) == OccupantOf(log, LastEntry(log, c, k, to))

\* contained_then in _get_keyed_reset_changes.
ContainedThen(c, k, to) ==
    OccupantOf(log, {m \in LastEntry(log, c, k, to) : m.time > PriorClear(log, c, to)})

\* contained_now.
ContainedNow(c, k) == Find(log, c, k, Now)

\* Whether a change or a clear since to_time may have touched the key.
Touched(c, k, to) ==
    \/ PriorClear(log, c, Now) >= to
    \/ \E m \in LastEntry(log, c, k, Now) : m.time >= to

\* Whether a key has to be reset.
Resettable(c, k, to) == Touched(c, k, to) /\ ContainedThen(c, k, to) # ContainedNow(c, k)

\* The entry that resets it: one that deletes it, or a copy of the entry of
\* that time, with the muids as they are in it.
KeyReset(c, k, to) ==
    IF ContainedThen(c, k, to) = Deletion THEN Entry(c, k, Deletion)
    ELSE LET m == CHOOSE m \in LastEntry(log, c, k, to) : TRUE
         IN  [At(log, m) EXCEPT !.owner = NoHandle, !.guest = NoHandle]

\* recurse_on.
RecurseOn(c, k, to) ==
    IF Touched(c, k, to) THEN ContainedThen(c, k, to)
    ELSE OccupantOf(log, LastEntry(log, c, k, Now))

\* The keys under which a container has entries; the containers that the
\* recursion goes on with, from one container, and those it ever gets to: the
\* least set that has the root directory and what it goes on with.
KeysOf(c) == {k \in Key : LastEntry(log, c, k, Now) # {}}
Inner(c, to) ==
    {o.muid : o \in {x \in {RecurseOn(c, k, to) : k \in KeysOf(c)} : x.type = "pointee"}}
Pointees ==
    {OccupantOf(log, {m}).muid :
        m \in {n \in Muids(log) : /\ At(log, n).type = "entry"
                                  /\ At(log, n).occupant.type = "pointee"}}
Reached(to) ==
    LET places == {Root} \cup Pointees
        steps  == UNION {{c} \X Inner(c, to) : c \in places}
        closed == {S \in SUBSET places : Root \in S /\ \A x \in steps : x[1] \in S => x[2] \in S}
    IN  {c \in places : \A S \in closed : c \in S}

\* _get_keyed_reset_changes for each of some containers.  No two of the changes
\* are about the same key of the same container, so any order does.
ResetChanges(containers, to) ==
    LET pairs == UNION {{c} \X {k \in KeysOf(c) : Resettable(c, k, to)} : c \in containers}
        each  == SetToSeq(pairs)
    IN  [i \in DOMAIN each |-> KeyReset(each[i][1], each[i][2], to)]

ResetCall(to, e) == [Called("reset", <<>>, None, e, {}) EXCEPT !.to = to]

\* Container.reset of the root directory, and of what _container_reset_changes
\* recurses on, which _get_behavior asserts to be containers.  It does not ask
\* for the active bundler.
Reset(b, to, recursive) ==
    LET containers == IF recursive THEN Reached(to) ELSE {Root}
        made       == ResetChanges(containers, to)
    IN  /\ \A c \in containers : IsContainer(log, c)
        /\ made # <<>>
        /\ Perform(b, made,
                   IF recursive THEN <<ResetCall(to, b), ResetCall(to, b)>>
                   ELSE <<ResetCall(to, b)>>)

\* Database.reset: every container there is, and the root directory.
ResetAll(b, to) ==
    LET made == ResetChanges({m \in Muids(log) \cup {Root} : IsContainer(log, m)}, to)
    IN  /\ made # <<>>
        /\ Perform(b, made, <<ResetCall(to, b), ResetCall(to, b)>>)

(***************************************************************************)
(* Contents are given as sequences of keys with values.                    *)
(***************************************************************************)
Contents == {<<<<k, v>>>> : k \in Key, v \in Value}
            \cup {<<<<k, v>>, <<l, v>>>> : k, l \in Key, v \in Value}

Next ==
    \/ \E b \in Bundler : Commit(b) \/ Rollback(b) \/ Enter(b)
    \/ Exit
    \/ \E b \in {x \in Bundler \cup {None} : CallCount < MaxCalls} :
        \/ \E path \in Path, v \in Value : Set(b, path, v) \/ SetDefault(b, path, v)
        \/ \E path \in Path : Delete(b, path) \/ Pop(b, path)
        \/ PopItem(b)
        \/ \E contents \in Contents : Update(b, contents) \/ Refill(b, contents)
        \/ Clear(b)
        \/ New(b)
        \/ \E h \in Handles, k \in Key : Link(b, k, h) \/ \E v \in Value : SetIn(b, h, k, v)
        \/ \E to \in DOMAIN log :
            \/ \E recursive \in BOOLEAN : Reset(b, to, recursive)
            \/ ResetAll(b, to)

Spec == Init /\ [][Next]_vars
-----------------------------------------------------------------------------
(***************************************************************************)
(* Properties.                                                             *)
(***************************************************************************)

\* The plain values in the tree, by path, as of a time.
Tree(store, asof) == {<<p, Get(store, p, asof).value>> :
                        p \in {q \in Path : Get(store, q, asof).type = "value"}}

\* What a call does to a tree.
Applied(tree, call) ==
    CASE call.op = "set" ->
            {x \in tree : ~IsPrefix(call.path, x[1]) /\ ~IsPrefix(x[1], call.path)}
            \cup {<<call.path, call.value>>}
      [] call.op = "delete" -> {x \in tree : ~IsPrefix(call.path, x[1])}
      [] OTHER -> {}

\* Whether a change concerns what was read.
Touches(ch, read) ==
    /\ ch.type # "container"
    /\ ch.container = read.container
    /\ ch.type = "entry" => ch.key = read.key

\* What the calls of a bundle have read still holds when it is committed, and
\* no change that is ahead of a call in the bundle concerns what it read.
Valid(store, bundle) ==
    \A i \in DOMAIN bundle.calls : \A read \in bundle.calls[i].reads :
        /\ GetEntryByKey(store, read.container, read.key, Now) = read.found
        /\ \A j \in 1 .. bundle.calls[i].after : ~Touches(bundle.changes[j], read)

\* A bundle with nothing but operations on the root directory, that does not
\* clear what it wrote itself.
OnTheRoot(bundle) ==
    \A i \in DOMAIN bundle.calls :
        LET call == bundle.calls[i]
        IN  /\ call.op \in {"set", "delete", "clear"}
            /\ call.op = "clear" =>
                    \A j \in 1 .. call.after : bundle.changes[j].type = "container"

\* A directory of the program is under two keys.
Aliased(store) ==
    \E k, l \in Key : /\ k # l
                      /\ Find(store, Root, k, Now).type = "pointee"
                      /\ Find(store, Root, k, Now) = Find(store, Root, l, Now)

(***************************************************************************)
(* Operations on a directory read the store at once and write to it when   *)
(* their bundler is committed, possibly after other bundles.  If what they *)
(* read still holds then, the bundle as a whole does what the operations   *)
(* would do to a nested dictionary, one after the other, at the time of    *)
(* the commit: nothing else in the tree changes, nothing is lost.          *)
(***************************************************************************)
Serializable ==
    [][ \A n \in DOMAIN log' \ DOMAIN log :
            OnTheRoot(log'[n]) /\ Valid(log, log'[n]) /\ ~Aliased(log) =>
                Tree(log', Now) = FoldLeft(Applied, Tree(log, Now), log'[n].calls) ]_vars

\* The container that a muid in the change m names.
IsOwn(store, muid, m, h) ==
    LET there == Absolute(muid, m.time)
    IN  /\ there \in Muids(store)
        /\ store[there.time].by = h.bundler
        /\ there.offset = h.offset

(***************************************************************************)
(* An entry that the program put into a directory it has made, or that it  *)
(* made for such a directory, is about that directory after the commit,    *)
(* although the muid of the directory was not known when the entry was     *)
(* built: the offset in the bundler names it.  (Not held to this: a handle *)
(* that is used in another bundler before its own is committed, or after a *)
(* rollback, which resolves to some change of that other bundle; and one   *)
(* of a directory added to a bundler that was already committed, which     *)
(* resolves to a change of the earlier commit, or to none.)                *)
(***************************************************************************)
HandlesResolve ==
    \A m \in Muids(log) : At(log, m).type = "entry" =>
        LET ch == At(log, m)
        IN  /\ ch.owner # NoHandle => IsOwn(log, ch.container, m, ch.owner)
            /\ ch.guest # NoHandle => IsOwn(log, ch.occupant.muid, m, ch.guest)

\* The entries on a path as of a time.
EntriesOn(store, p, asof) ==
    UNION {IF Get(store, SubSeq(p, 1, i - 1), asof).type = "pointee"
           THEN GetEntryByKey(store, Get(store, SubSeq(p, 1, i - 1), asof).muid, p[i], asof)
           ELSE {} : i \in DOMAIN p}

\* An entry that a reset can copy: it names no container of its own bundle, and
\* that bundle did not clear the directory.
Copyable(store, m, asof) ==
    LET ch == At(store, m)
    IN  /\ ch.container.time # 0
        /\ ch.occupant.type = "pointee" => ch.occupant.muid.time # 0
        /\ m.time > PriorClear(store, ch.container, asof)

(***************************************************************************)
(* After a reset the directory is what it was at that time: what was set   *)
(* since is deleted, what was overwritten, deleted or cleared since is     *)
(* back; after a recursive one and after Database.reset, in subdirectories *)
(* as well.  Not held to this are entries that name a container of their   *)
(* own bundle, or share it with a clearance.                               *)
(***************************************************************************)
ResetRestores ==
    [][ \A n \in DOMAIN log' \ DOMAIN log :
            LET calls_ == log'[n].calls
                to     == calls_[1].to
            IN  log'[n].by = None /\ calls_[1].op = "reset" =>
                    \A p \in {q \in Path : Len(q) <= Len(calls_)} :
                        \/ Get(log', p, Now) = Get(log, p, to)
                        \/ \E m \in EntriesOn(log, p, to) : ~Copyable(log, m, to) ]_vars
=============================================================================
