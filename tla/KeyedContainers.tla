-------------------------- MODULE KeyedContainers --------------------------
(***************************************************************************)
(* Containers with keys other than directories (python/gink/impl:          *)
(* key_set.py, group.py, pair_set.py, pair_map.py, property.py, box.py)    *)
(* and accumulators (accumulator.py), used by several processes that share *)
(* a store.                                                                *)
(*                                                                         *)
(* Every access to the store is one step: a read of one key, a read of all *)
(* entries, or a commit.  The operations of a KeySet that work on whole    *)
(* sets read several times before they write, and some of them write       *)
(* several times, so others may come in between.  A process may be within  *)
(* the "with" block of a bundler, which then collects its changes.         *)
(*                                                                         *)
(* A value is abstracted to its being there.  Keys are numbers; like any   *)
(* number, 0 is false to Python.                                           *)
(***************************************************************************)
EXTENDS Integers, Sequences, FiniteSets, SequencesExt

CONSTANTS Client,       \* processes
          Elaborate,    \* bound: the processes that have "with" blocks and
                        \* operations with several accesses to the store
          Kind,         \* which kinds of container
          Key,          \* keys (numbers)
          MaxChanges,   \* bound: changes in the bundler of a "with" block
          MaxArgument,  \* bound: keys in an argument
          MaxTotal      \* bound: what an accumulator contains, either way

SetKinds == {"key_set", "group", "pair_set", "pair_map", "property", "box"}

ASSUME ConstantsAssumption ==
    /\ Elaborate \subseteq Client
    /\ Kind \subseteq SetKinds \cup {"accumulator"}
    /\ Key \subseteq Nat /\ IsFiniteSet(Key)
    /\ "box" \in Kind => 0 \in Key
    /\ MaxChanges \in Nat
    /\ MaxArgument \in Nat
    /\ MaxTotal \in Nat \ {0}

VARIABLES
    kind,       \* the kind of the container that is modelled
    members,    \* the keys whose last entry is there and no deletion
    total,      \* the total of an accumulator
    active,     \* active[c]: c is within a "with" block
    bundle,     \* bundle[c]: the changes in the bundler that c uses
    op,         \* op[c]: the operation that c is within
    spilled     \* history: spilled[c]: c committed something within its block

vars == <<kind, members, total, active, bundle, op, spilled>>

\* The only key of a Box is 0.
Keys == IF kind = "box" THEN {0} ELSE IF kind = "accumulator" THEN {} ELSE Key

\* What an iterable yields: keys in some order, some of them more than once.  A set or
\* a dict yields each once.
Arguments == UNION {[1 .. n -> Keys] : n \in 0 .. MaxArgument}

Change == [type : {"inclusion", "deletion"}, key : Key]
          \cup [type : {"clearance"}]
          \cup [type : {"increment"}, by : -MaxTotal .. MaxTotal]

(***************************************************************************)
(* An operation in progress: where it is, whether its argument can be      *)
(* iterated only once (an iterator), what is left of it (todo) and of the  *)
(* keys it iterates (listed), and the set it has computed; for an          *)
(* accumulator, what was read and what is to be added afterwards.          *)
(* History: what the container had in it when the operation began, as long *)
(* as nobody else has committed since, and it is outside of a block        *)
(* (quiet).                                                                *)
(***************************************************************************)
Operation ==
    [name : {"remove", "difference_update", "intersection_update",
             "symmetric_difference_update", "clear"},
     arg : Seq(Key), once : BOOLEAN,
     at : {"contains", "remove", "write", "list", "probe", "union",
                           "subtract", "update"},
     todo : Seq(Key), listed : Seq(Key), set : SUBSET Key,
     read : -MaxTotal .. MaxTotal, then : 0 .. MaxTotal, was : SUBSET Key, quiet : BOOLEAN]
Idle == [name |-> "none"]

TypeOK ==
    /\ kind \in Kind
    /\ members \subseteq Key
    /\ total \in -MaxTotal .. MaxTotal
    /\ active \in [Client -> BOOLEAN]
    /\ bundle \in [Client -> Seq(Change)]
    /\ op \in [Client -> Operation \cup {Idle}]
    /\ spilled \in [Client -> BOOLEAN]

Init ==
    /\ kind \in Kind
    /\ members = {}
    /\ total = 0
    /\ active = [c \in Client |-> FALSE]
    /\ bundle = [c \in Client |-> <<>>]
    /\ op = [c \in Client |-> Idle]
    /\ spilled = [c \in Client |-> FALSE]
-----------------------------------------------------------------------------
(***************************************************************************)
(* The store.                                                              *)
(***************************************************************************)

\* contains, has, __contains__, get: there is an entry, which is no deletion.
HasKey(k) == k \in members

\* items, get_pairs, get_member_ids, size: all of them.
Members == members

\* get_keyed_entries yields the keys in descending order.
Listed(S) ==
    CHOOSE s \in [1 .. Cardinality(S) -> S] : \A i, j \in DOMAIN s : i < j => s[i] > s[j]

Put(type, k) == [type |-> type, key |-> k]
Clearance == [type |-> "clearance"]

\* Faulty: the number is scaled more than once.
IncrementScaledAgain(n) == [type |-> "increment", by |-> 3 * n]
Increment(n) == [type |-> "increment", by |-> n]

\* apply_bundle: the last change of a key counts; a clearance is about the entries
\* of earlier bundles.
Applied(changes) ==
    LET base == IF Clearance \in Range(changes) THEN {} ELSE members
    IN  {k \in Key :
            \/ k \in base /\ Put("deletion", k) \notin Range(changes)
            \/ \E i \in DOMAIN changes :
                  /\ changes[i] = Put("inclusion", k)
                  /\ \A j \in DOMAIN changes : changes[j] = Put("deletion", k) => j < i}

Sum(changes) ==
    FoldLeft(LAMBDA s, ch : IF ch.type = "increment" THEN s + ch.by ELSE s, 0, changes)

\* BoundBundler.commit of c.  The history variables: others are disturbed.
Committed(c, changes) ==
    /\ members' = Applied(changes)
    /\ total' = total + Sum(changes)
    /\ total' \in -MaxTotal .. MaxTotal
    /\ spilled' = [spilled EXCEPT ![c] = active[c] /\ (@ \/ changes # <<>>)]

Disturbed(o) == [o EXCEPT !.quiet = FALSE, !.was = {}]

\* The operation of c is next, those of others were disturbed or not.
Proceeds(c, next, disturbs) ==
    op' = [d \in Client |-> IF d = c THEN next
                            ELSE IF disturbs /\ op[d] # Idle THEN Disturbed(op[d])
                            ELSE op[d]]

\* c reads, and proceeds.
Reads(c, next) ==
    /\ Proceeds(c, next, FALSE)
    /\ UNCHANGED <<kind, members, total, active, bundle, spilled>>

\* c adds changes to the bundler it uses, and proceeds.
Collects(c, changes, next) ==
    /\ Len(bundle[c]) + Len(changes) <= MaxChanges
    /\ bundle' = [bundle EXCEPT ![c] = @ \o changes]
    /\ Proceeds(c, next, FALSE)
    /\ UNCHANGED <<kind, members, total, active, spilled>>

\* c commits changes in a bundler of their own, and proceeds.
Commits(c, changes, next) ==
    /\ Committed(c, changes)
    /\ Proceeds(c, next, changes # <<>>)
    /\ UNCHANGED <<kind, active, bundle>>

\* Container._add_entry and the like: into the bundler of the block, else into
\* one that is committed at once.
Adds(c, changes, next) ==
    IF active[c] THEN Collects(c, changes, next) ELSE Commits(c, changes, next)

\* The end of an operation that has collected changes.
Finishes(c) ==
    IF active[c] THEN Reads(c, Idle)
    ELSE /\ Committed(c, bundle[c])
         /\ bundle' = [bundle EXCEPT ![c] = <<>>]
         /\ Proceeds(c, Idle, bundle[c] # <<>>)
         /\ UNCHANGED <<kind, active>>

\* KeyError: a bundler that was made for the operation is dropped.
Raises(c) ==
    /\ bundle' = [bundle EXCEPT ![c] = IF active[c] THEN @ ELSE <<>>]
    /\ Proceeds(c, Idle, FALSE)
    /\ UNCHANGED <<kind, members, total, active, spilled>>
-----------------------------------------------------------------------------
(***************************************************************************)
(* "with" blocks: Bundler.__enter__ and __exit__.                          *)
(***************************************************************************)
Enter(c) ==
    /\ c \in Elaborate /\ op[c] = Idle /\ ~active[c]
    /\ active' = [active EXCEPT ![c] = TRUE]
    /\ UNCHANGED <<kind, members, total, bundle, op, spilled>>

\* The block ends, or an exception leaves it.
Exit(c) ==
    /\ op[c] = Idle /\ active[c]
    /\ \E ok \in BOOLEAN :
        LET changes == IF ok THEN bundle[c] ELSE <<>>
        IN  /\ members' = Applied(changes)
            /\ total' = total + Sum(changes)
            /\ total' \in -MaxTotal .. MaxTotal
            /\ Proceeds(c, Idle, changes # <<>>)
    /\ active' = [active EXCEPT ![c] = FALSE]
    /\ spilled' = [spilled EXCEPT ![c] = FALSE]
    /\ bundle' = [bundle EXCEPT ![c] = <<>>]
    /\ UNCHANGED kind

(***************************************************************************)
(* Operations with one access to the store.                                *)
(***************************************************************************)

\* Faulty: the bundler of the block is not asked for.
IncludeAtOnce(c, k) ==
    op[c] = Idle /\ kind \in SetKinds /\ Commits(c, <<Put("inclusion", k)>>, Idle)

\* KeySet.add, Group.include, PairSet.include, PairMap.set, Property.set, Box.set.
Include(c, k) ==
    op[c] = Idle /\ kind \in SetKinds /\ Adds(c, <<Put("inclusion", k)>>, Idle)

\* KeySet.discard, Group.exclude, PairSet.exclude, PairMap.delete, Property.delete.
Exclude(c, k) ==
    op[c] = Idle /\ kind \in SetKinds \ {"box"} /\ Adds(c, <<Put("deletion", k)>>, Idle)

Inclusions(arg) == [i \in DOMAIN arg |-> Put("inclusion", arg[i])]
Deletions(arg) == [i \in DOMAIN arg |-> Put("deletion", arg[i])]

\* KeySet.update.  Property.update does not ask for the block's bundler.
Update(c, arg) ==
    /\ op[c] = Idle
    /\ \/ kind = "key_set" /\ Adds(c, Inclusions(arg), Idle)
       \/ kind = "property" /\ IsInjective(arg) /\ Commits(c, Inclusions(arg), Idle)

\* Container.clear.
Clear(c) ==
    op[c] = Idle /\ kind \in SetKinds /\ Adds(c, <<Clearance>>, Idle)

\* KeySet.__init__ with a muid and contents (an iterator without any: see Clear).
RefillKeySet(c, arg) ==
    /\ op[c] = Idle /\ kind = "key_set" /\ arg # <<>>
    /\ Adds(c, <<Clearance>> \o Inclusions(arg), Idle)

\* Group.__init__ with a muid and contents: none of the block's bundler.
RefillGroup(c, include, exclude) ==
    /\ op[c] = Idle /\ kind = "group"
    /\ Commits(c, <<Clearance>> \o Inclusions(include) \o Deletions(exclude), Idle)

\* PairSet.__init__ likewise.
RefillPairSet(c, include, exclude) ==
    /\ op[c] = Idle /\ kind = "pair_set"
    /\ Commits(c, <<Clearance>> \o Inclusions(include) \o Deletions(exclude), Idle)

\* PairMap.__init__ likewise.
RefillPairMap(c, arg) ==
    /\ op[c] = Idle /\ kind = "pair_map" /\ arg # <<>> /\ IsInjective(arg)
    /\ Commits(c, <<Clearance>> \o Inclusions(arg), Idle)

\* Property.__init__ likewise.
RefillProperty(c, arg) ==
    /\ op[c] = Idle /\ kind = "property" /\ arg # <<>> /\ IsInjective(arg)
    /\ Commits(c, <<Clearance>> \o Inclusions(arg), Idle)

\* Box.__init__ with a muid and contents: nothing has to be cleared.
RefillBox(c) ==
    op[c] = Idle /\ kind = "box" /\ Adds(c, <<Put("inclusion", 0)>>, Idle)

\* Accumulator.increment.
IncrementBy(c, n) ==
    op[c] = Idle /\ kind = "accumulator" /\ Adds(c, <<Increment(n)>>, Idle)
-----------------------------------------------------------------------------
(***************************************************************************)
(* Operations with several.                                                *)
(***************************************************************************)
Begun(c, name, at, arg, n) ==
    LET o == [name |-> name, at |-> at, arg |-> arg, once |-> FALSE, todo |-> arg,
              listed |-> <<>>, set |-> {}, read |-> 0, then |-> n, was |-> Members,
              quiet |-> TRUE]
    IN  IF active[c] THEN Disturbed(o) ELSE o

\* KeySet.remove and pop, before they look for the key.
RemoveKey(c, k) ==
    /\ c \in Elaborate /\ op[c] = Idle /\ kind = "key_set"
    /\ Reads(c, Begun(c, "remove", "remove", <<k>>, 0))

DifferenceUpdate(c, arg) ==
    /\ c \in Elaborate /\ op[c] = Idle /\ kind = "key_set"
    /\ Reads(c, Begun(c, "difference_update", "contains", arg, 0))

IntersectionUpdate(c, arg) ==
    /\ c \in Elaborate /\ op[c] = Idle /\ kind = "key_set"
    /\ Reads(c, Begun(c, "intersection_update", "list", arg, 0))

\* The only one that iterates its argument twice.
SymmetricDifferenceUpdate(c, arg, once) ==
    /\ c \in Elaborate /\ op[c] = Idle /\ kind = "key_set"
    /\ Reads(c, [Begun(c, "symmetric_difference_update", "union", arg, 0)
                    EXCEPT !.once = once])

\* Accumulator.clear, and __init__ with a muid and n: get, before they subtract.
ClearTotal(c, n) ==
    /\ c \in Elaborate /\ op[c] = Idle /\ kind = "accumulator"
    /\ Reads(c, [Begun(c, "clear", "write", <<>>, n) EXCEPT !.read = total])

\* The subtraction.
SubtractTotal(c) ==
    /\ op[c].name = "clear"
    /\ Adds(c, IF op[c].then = 0 THEN <<Increment(-op[c].read)>>
               ELSE <<Increment(-op[c].read), Increment(op[c].then)>>, Idle)

\* difference_update: whether the next element is there.
TestElement(c) ==
    /\ op[c].name = "difference_update" /\ op[c].at = "contains"
    /\ IF op[c].todo = <<>> THEN Finishes(c)
       ELSE Reads(c, IF HasKey(Head(op[c].todo)) THEN [op[c] EXCEPT !.at = "remove"]
                     ELSE [op[c] EXCEPT !.todo = Tail(@)])

\* Where an operation goes on after a removal.
AfterRemoval(c) ==
    CASE op[c].name = "remove" -> Idle
      [] op[c].name = "difference_update" ->
            [op[c] EXCEPT !.at = "contains", !.todo = Tail(@)]
      [] OTHER -> [op[c] EXCEPT !.at = "remove", !.todo = Tail(@)]

\* remove: looks for the key.  The deletion is collected, or still to commit.
LookFor(c) ==
    /\ op[c] # Idle /\ op[c].at = "remove" /\ op[c].todo # <<>>
    /\ IF ~HasKey(Head(op[c].todo)) THEN Raises(c)
       ELSE IF active[c] \/ op[c].name = "difference_update"
       THEN Collects(c, <<Put("deletion", Head(op[c].todo))>>, AfterRemoval(c))
       ELSE Reads(c, [op[c] EXCEPT !.at = "write"])

\* remove: the commit.
CommitRemoval(c) ==
    /\ op[c] # Idle /\ op[c].at = "write" /\ op[c].name # "clear"
    /\ Commits(c, <<Put("deletion", Head(op[c].todo))>>, AfterRemoval(c))

\* intersection_update: the keys there are.
ListKeys(c) ==
    /\ op[c].name = "intersection_update" /\ op[c].at = "list"
    /\ Reads(c, [op[c] EXCEPT !.at = "probe", !.listed = Listed(Members)])

\* intersection_update: "key in intersection" takes elements from the generator
\* until one that is in the set equals the key.  What it took is gone for the
\* keys to come.  A key that is false is kept.
Probe(c) ==
    /\ op[c].name = "intersection_update" /\ op[c].at = "probe"
    /\ LET key   == Head(op[c].listed)
           found == HasKey(Head(op[c].todo)) /\ Head(op[c].todo) = key
       IN  IF op[c].listed = <<>> THEN Finishes(c)
           ELSE IF key = 0 THEN Reads(c, [op[c] EXCEPT !.listed = Tail(@)])
           ELSE IF op[c].todo = <<>>
           THEN Collects(c, <<Put("deletion", key)>>, [op[c] EXCEPT !.listed = Tail(@)])
           ELSE Reads(c, [op[c] EXCEPT !.todo = Tail(@),
                                       !.listed = IF found THEN Tail(@) ELSE @])

\* symmetric_difference: the union.  It leaves nothing of an iterator.
Unite(c) ==
    /\ op[c] # Idle /\ op[c].at = "union"
    /\ Reads(c, [op[c] EXCEPT !.at = "subtract", !.set = Members \cup Range(op[c].arg),
                              !.todo = IF op[c].once THEN <<>> ELSE @])

\* symmetric_difference: the next element goes if the set has it; it is not there to go
\* a second time.
SubtractElement(c) ==
    /\ op[c] # Idle /\ op[c].at = "subtract" /\ op[c].todo # <<>>
    /\ LET e == Head(op[c].todo)
       IN  IF HasKey(e) /\ e \notin op[c].set THEN Raises(c)
           ELSE Reads(c, [op[c] EXCEPT !.todo = Tail(@),
                                       !.set = IF HasKey(e) THEN @ \ {e} ELSE @])

\* Faulty: the keys to remove are those of the symmetric difference.
ListRemovalsInverted(c) ==
    /\ op[c] # Idle /\ op[c].at = "subtract" /\ op[c].todo = <<>>
    /\ Reads(c, [op[c] EXCEPT !.at = "remove",
                              !.todo = Listed({k \in Members : k # 0 /\ k \in op[c].set})])

\* symmetric_difference_update: the keys to remove, one after the other.
ListRemovals(c) ==
    /\ op[c] # Idle /\ op[c].at = "subtract" /\ op[c].todo = <<>>
    /\ Reads(c, [op[c] EXCEPT !.at = "remove",
                              !.todo = Listed({k \in Members : k # 0 /\ k \notin op[c].set})])

\* symmetric_difference_update: update with all of the difference.
UpdateWithDifference(c) ==
    /\ op[c] # Idle /\ op[c].name = "symmetric_difference_update"
    /\ op[c].at = "remove" /\ op[c].todo = <<>>
    /\ Adds(c, Inclusions(SetToSeq(op[c].set)), Idle)

Next ==
    \E c \in Client :
        \/ Enter(c)
        \/ Exit(c)
        \/ \E k \in Keys : Include(c, k) \/ Exclude(c, k) \/ RemoveKey(c, k)
        \/ Clear(c)
        \/ RefillBox(c)
        \/ \E arg \in Arguments :
            \/ Update(c, arg)
            \/ RefillKeySet(c, arg)
            \/ RefillPairMap(c, arg)
            \/ RefillProperty(c, arg)
            \/ DifferenceUpdate(c, arg)
            \/ IntersectionUpdate(c, arg)
            \/ \E once \in BOOLEAN : SymmetricDifferenceUpdate(c, arg, once)
            \/ \E k \in Keys \ Range(arg) :
                RefillGroup(c, arg, <<k>>) \/ RefillPairSet(c, arg, <<k>>)
        \/ \E n \in {-1, 1} : IncrementBy(c, n)
        \/ \E n \in {0, 1} : ClearTotal(c, n)
        \/ SubtractTotal(c)
        \/ TestElement(c)
        \/ LookFor(c)
        \/ CommitRemoval(c)
        \/ ListKeys(c)
        \/ Probe(c)
        \/ Unite(c)
        \/ SubtractElement(c)
        \/ ListRemovals(c)
        \/ UpdateWithDifference(c)

Spec == Init /\ [][Next]_vars
-----------------------------------------------------------------------------
(***************************************************************************)
(* Properties.                                                             *)
(***************************************************************************)

(***************************************************************************)
(* Nothing that a process does within a "with" block is in the store       *)
(* before the block ends, whichever way: all operations look for the       *)
(* bundler of the block, and pass it on to the ones they call.  Not held   *)
(* to this are the four kinds whose constructor, or update, does not look  *)
(* for it.                                                                 *)
(***************************************************************************)
BlocksAreAtomic ==
    kind \in {"key_set", "box", "accumulator"} => \A c \in Client : ~spilled[c]

\* The argument yields a key twice that was in the set.
Repeats(o) ==
    \E i, j \in DOMAIN o.arg : i < j /\ o.arg[i] = o.arg[j] /\ o.arg[i] \in o.was

\* What an operation on a set leaves.  A key that is false stays.
Meant(o) ==
    LET arg == Range(o.arg)
    IN  CASE o.name \in {"remove", "difference_update"} -> o.was \ arg
          [] o.name = "symmetric_difference_update" ->
                IF o.once THEN o.was \cup arg
                ELSE IF Repeats(o) THEN o.was
                ELSE (o.was \ arg) \cup (arg \ o.was) \cup (o.was \cap arg \cap {0})
          [] OTHER -> o.was \cap (arg \cup {0})

\* c ends an operation outside of a block that nobody has disturbed.
EndsQuietly(c) ==
    /\ op[c] # Idle /\ op'[c] = Idle
    /\ op[c].quiet

(***************************************************************************)
(* An operation of a KeySet on whole sets, through all of its reads and    *)
(* commits, for whatever its argument yields, in whatever order and however*)
(* often, leaves what the operation of a Python set would have left, if no *)
(* other process has committed meanwhile; the clear of an accumulator      *)
(* leaves zero, and what its constructor adds.  Where the code differs     *)
(* from a Python set, this says what it leaves: the key 0 stays; what      *)
(* symmetric_difference_update leaves for an iterator is the union, and    *)
(* for an argument with a key of the set twice what was there, for it ends *)
(* in a KeyError before its first removal; intersection_update never       *)
(* leaves more than the intersection, but less when the generator it asks  *)
(* runs out, and it keeps everything if that is in the argument, in the    *)
(* order of the store.                                                     *)
(***************************************************************************)
QuietOperationsAreExact ==
    [][ \A c \in Client : EndsQuietly(c) =>
            CASE op[c].name = "clear" -> total' = op[c].then
              [] op[c].name = "intersection_update" ->
                    /\ Members' \subseteq Meant(op[c])
                    /\ op[c].was \subseteq Range(op[c].arg) /\ op[c].arg = Listed(Range(op[c].arg))
                        => Members' = op[c].was
              [] OTHER -> Members' = Meant(op[c]) ]_vars
=============================================================================
