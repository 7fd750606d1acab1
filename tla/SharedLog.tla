------------------------------ MODULE SharedLog ------------------------------
(***************************************************************************)
(* Processes of one machine that have opened the same log file             *)
(* (python/gink/impl: log_backed_store.py with what it inherits from       *)
(* abstract_store.py and memory_store.py), the claims by which they share  *)
(* out chains (Database._acquire_appendable_link), and the file watcher by *)
(* which they hear of one another's bundles (bundle_store.py, watcher.py). *)
(*                                                                         *)
(* A process is its process id: going down and coming up again is the      *)
(* reuse of a process id.  The file is a sequence of records, one for each *)
(* write() of the code, and positions in it are counted in records.        *)
(* Bundles of a chain are numbered as in HasMap.  flock() excludes every   *)
(* other locked section, so a locked section is at most two steps here:    *)
(* one that locks and reads, one that writes and unlocks.  What can happen *)
(* in between is the write of save_signing_key, which takes no lock.       *)
(***************************************************************************)
EXTENDS Naturals, Sequences, FiniteSets, FiniteSetsExt

CONSTANTS Proc,         \* process ids
          NoOne,        \* not a process
          LocalChain,   \* the chains these processes may start
          RemoteChain,  \* chains written elsewhere, received from peers
          Identity,     \* Identity[p]: the identity p's Database signs with
          MaxBundles,   \* bound: bundles per chain
          MaxLog        \* bound: records in the file

Chain == LocalChain \cup RemoteChain

INSTANCE HasMap

ASSUME ConstantsAssumption ==
    /\ NoOne \notin Proc \cup Chain
    /\ LocalChain \cap RemoteChain = {}
    /\ DOMAIN Identity = Proc
    /\ MaxBundles \in Nat
    /\ MaxLog \in Nat

VARIABLES
    file,       \* the log file
    lock,       \* the process that holds the flock, or NoOne
    pc,         \* pc[p]: where p is, see Places
    upto,       \* upto[p]: _processed_to
    tell,       \* tell[p]: the position of p's _handle
    mem,        \* mem[p]: the chains in p's MemoryStore
    claims,     \* claims[p]: p's _claims, the claimant of each chain
    keys,       \* keys[p]: the chains whose key is in p's _signing_keys
    link,       \* link[p]: _last_link of p's Database
    pending,    \* pending[p]: the bundle p's apply_bundle is adding
    alarm,      \* alarm[p]: p's watcher has an unread notification
    silent      \* silent[p]: bundles that came from the file without _on_bundle

copy == <<upto, tell, mem, claims, keys>>
vars == <<file, lock, pc, copy, link, pending, alarm, silent>>

(***************************************************************************)
(* "down": no such process; "opening": the store is open, its watcher does *)
(* not exist yet; "idle": in the event loop, or between two calls of the   *)
(* user.  Inside _acquire_appendable_link: "reusing": in maybe_reuse_chain *)
(* (locked); "reused", "seeking": it found a chain, or none; "keying",     *)
(* "starting": about to save the key, to apply the start of a new chain;   *)
(* "linked": it returned.  Inside apply_bundle: "applying" (locked) and    *)
(* "clearing" (unlocked).  "stuck": an assertion failed in a commit.       *)
(***************************************************************************)
Places == {"down", "opening", "idle", "reusing", "reused", "seeking", "keying",
           "starting", "linked", "applying", "clearing", "stuck"}

NoLink == [chain |-> NoOne, number |-> 0]
Links == [chain : Chain, number : Nat] \cup {NoLink}

Record == [kind : {"start", "bundle", "claim", "key"}, chain : Chain,
           number : Nat, by : Proc]

Up(p) == pc[p] # "down"

TypeOK ==
    /\ file \in Seq(Record)
    /\ lock \in Proc \cup {NoOne}
    /\ pc \in [Proc -> Places]
    /\ upto \in [Proc -> Nat]
    /\ tell \in [Proc -> Nat]
    /\ mem \in [Proc -> HasMaps]
    /\ claims \in [Proc -> [Chain -> Proc \cup {NoOne}]]
    /\ keys \in [Proc -> SUBSET Chain]
    /\ link \in [Proc -> Links]
    /\ pending \in [Proc -> Links]
    /\ alarm \in [Proc -> BOOLEAN]
    /\ silent \in [Proc -> SUBSET (Chain \X Nat)]

NoClaims == [c \in Chain |-> NoOne]

Init ==
    /\ file = <<>>
    /\ lock = NoOne
    /\ pc = [p \in Proc |-> "down"]
    /\ upto = [p \in Proc |-> 0]
    /\ tell = [p \in Proc |-> 0]
    /\ mem = [p \in Proc |-> EmptyMap]
    /\ claims = [p \in Proc |-> NoClaims]
    /\ keys = [p \in Proc |-> {}]
    /\ link = [p \in Proc |-> NoLink]
    /\ pending = [p \in Proc |-> NoLink]
    /\ alarm = [p \in Proc |-> FALSE]
    /\ silent = [p \in Proc |-> {}]
-----------------------------------------------------------------------------
(***************************************************************************)
(* Reading and writing the file.                                           *)
(***************************************************************************)

IsBundle(r) == r.kind \in {"start", "bundle"}
IsClaim(r) == r.kind \in {"start", "claim"}

\* Faulty: the first record after _processed_to is skipped.
UnreadSkipsOne(p) == (upto[p] + 2) .. Len(file)

\* The records p has not read, as positions in the file.
Unread(p) == (upto[p] + 1) .. Len(file)

\* p's chains, claims and keys once the unread records are read.
MemRead(p) ==
    [c \in Chain |->
        Max({mem[p][c]} \cup {file[n].number : n \in
                {m \in Unread(p) : IsBundle(file[m]) /\ file[m].chain = c}})]

\* Faulty: what is read replaces the claims instead of updating them.
ClaimsOnlyRead(p) ==
    [c \in {file[n].chain : n \in {m \in Unread(p) : IsClaim(file[m])}} |-> p]

ClaimsRead(p) ==
    [c \in Chain |->
        LET found == {n \in Unread(p) : IsClaim(file[n]) /\ file[n].chain = c}
        IN  IF found = {} THEN claims[p][c] ELSE file[Max(found)].by]

KeysRead(p) ==
    keys[p] \cup {file[n].chain : n \in {m \in Unread(p) : file[m].kind = "key"}}

Novel(p) == {bundle \in Chain \X (1 .. MaxBundles) :
                /\ mem[p][bundle[1]] < bundle[2]
                /\ bundle[2] <= MemRead(p)[bundle[1]]}

\* Database._on_bundle for the bundles read: only those of its own chain
\* move _last_link.
Relinked(p, chains) ==
    IF link[p] # NoLink /\ chains[link[p].chain] > mem[p][link[p].chain]
    THEN [link[p] EXCEPT !.number = chains[link[p].chain]]
    ELSE link[p]

\* _refresh_helper, with or without a callback.
Loads(p, announce) ==
    /\ upto' = [upto EXCEPT ![p] = Len(file)]
    /\ tell' = [tell EXCEPT ![p] = Len(file)]
    /\ mem' = [mem EXCEPT ![p] = MemRead(p)]
    /\ claims' = [claims EXCEPT ![p] = ClaimsRead(p)]
    /\ keys' = [keys EXCEPT ![p] = KeysRead(p)]
    /\ link' = IF announce THEN [link EXCEPT ![p] = Relinked(p, MemRead(p))] ELSE link
    /\ silent' = IF announce THEN silent ELSE [silent EXCEPT ![p] = @ \cup Novel(p)]

\* What _refresh_helper and _maybe_refresh assert.
Accurate(p) == tell[p] = upto[p]

\* A write and flush by p, and the notification of every watcher.
Writes(p, record) ==
    /\ Len(file) < MaxLog
    /\ file' = Append(file, record)
    /\ tell' = [tell EXCEPT ![p] = Len(file) + 1]
    /\ upto' = [upto EXCEPT ![p] = @ + 1]
    /\ alarm' = [q \in Proc |-> pc[q] \notin {"down", "opening"}]

\* The flock is taken, or was taken before; blocking is not being enabled.
Locks(p) == lock = NoOne /\ lock' = p

Goes(p, place) == pc' = [pc EXCEPT ![p] = place]

\* The process ends: the kernel releases its flock, its memory is gone.
Dies(p) ==
    /\ Goes(p, "down")
    /\ lock' = IF lock = p THEN NoOne ELSE lock
    /\ upto' = [upto EXCEPT ![p] = 0]
    /\ tell' = [tell EXCEPT ![p] = 0]
    /\ mem' = [mem EXCEPT ![p] = EmptyMap]
    /\ claims' = [claims EXCEPT ![p] = NoClaims]
    /\ keys' = [keys EXCEPT ![p] = {}]
    /\ link' = [link EXCEPT ![p] = NoLink]
    /\ pending' = [pending EXCEPT ![p] = NoLink]
    /\ alarm' = [alarm EXCEPT ![p] = FALSE]
    /\ silent' = [silent EXCEPT ![p] = {}]
    /\ UNCHANGED file
-----------------------------------------------------------------------------
(***************************************************************************)
(* Opening and reading.                                                    *)
(***************************************************************************)

\* LogBackedStore.__init__ on a file that others may have written: all of it
\* is read under the lock.  What it reads is in the greetings p will send.
Open(p) ==
    /\ pc[p] = "down"
    /\ lock = NoOne
    /\ Loads(p, TRUE)
    /\ Goes(p, "opening")
    /\ UNCHANGED <<file, lock, pending, alarm>>

\* Relay.__init__ asks is_selectable, which creates the watcher.
Watch(p) ==
    /\ pc[p] = "opening"
    /\ Goes(p, "idle")
    /\ UNCHANGED <<file, lock, copy, link, pending, alarm, silent>>

\* Any query of the store calls _maybe_refresh, which has no callback.
Read(p) ==
    /\ pc[p] = "idle"
    /\ Accurate(p)
    /\ Unread(p) # {}
    /\ lock = NoOne
    /\ Loads(p, FALSE)
    /\ UNCHANGED <<file, lock, pc, pending, alarm>>

\* Relay._on_store_ready: the watcher is readable.  AbstractStore.refresh
\* clears the notifications only if it has read a bundle.
OnStoreReady(p) ==
    /\ pc[p] = "idle"
    /\ alarm[p]
    /\ lock = NoOne
    /\ Accurate(p)
    /\ Loads(p, TRUE)
    /\ alarm' = [alarm EXCEPT ![p] = ~\E n \in Unread(p) : IsBundle(file[n])]
    /\ UNCHANGED <<file, lock, pc, pending>>
-----------------------------------------------------------------------------
(***************************************************************************)
(* _acquire_appendable_link: find a chain to extend, or start one.         *)
(***************************************************************************)

\* Faulty: maybe_reuse_chain does not read the file first.
BeginCommitUnread(p) ==
    /\ pc[p] = "idle"
    /\ link[p] = NoLink
    /\ Locks(p)
    /\ Accurate(p)
    /\ Goes(p, "reusing")
    /\ UNCHANGED <<file, copy, link, silent, pending, alarm>>

\* The first commit of a Database: maybe_reuse_chain locks and reads.
BeginCommit(p) ==
    /\ pc[p] = "idle"
    /\ link[p] = NoLink
    /\ Locks(p)
    /\ Accurate(p)
    /\ Loads(p, FALSE)
    /\ Goes(p, "reusing")
    /\ UNCHANGED <<file, pending, alarm>>

\* Faulty: a chain is reused although its claimant may still be running.
ReusableByAnyone(p) ==
    {c \in Chain : claims[p][c] \notin {NoOne, p}}

\* The chains p may take over: claimed with p's identity by a process that
\* is_certainly_gone.  (_identities[c] is the identity of the chain's start.)
Reusable(p) ==
    {c \in Chain :
        /\ claims[p][c] # NoOne
        /\ ~Up(claims[p][c])
        /\ \E n \in 1 .. Len(file) :
              /\ file[n].kind = "start"
              /\ file[n].chain = c
              /\ Identity[file[n].by] = Identity[p]}

\* _add_claim: the claim is written, the lock released.
ReuseChain(p, c) ==
    /\ pc[p] = "reusing"
    /\ c \in Reusable(p)
    /\ Writes(p, [kind |-> "claim", chain |-> c, number |-> 0, by |-> p])
    /\ claims' = [claims EXCEPT ![p][c] = p]
    /\ link' = [link EXCEPT ![p] = [chain |-> c, number |-> mem[p][c]]]
    /\ lock' = NoOne
    /\ Goes(p, "reused")
    /\ UNCHANGED <<mem, keys, pending, silent>>

NoChainToReuse(p) ==
    /\ pc[p] = "reusing"
    /\ Reusable(p) = {}
    /\ lock' = NoOne
    /\ Goes(p, "seeking")
    /\ UNCHANGED <<file, copy, link, pending, alarm, silent>>

\* get_symmetric_key, and get_verify_key and get_signing_key for a chain that
\* is reused: queries, which may first read what others have written.
LookUp(p) ==
    /\ pc[p] \in {"reused", "seeking"}
    /\ Accurate(p)
    /\ IF Unread(p) = {}
       THEN UNCHANGED <<copy, link, silent>>
       ELSE lock = NoOne /\ Loads(p, FALSE)
    /\ pc[p] = "reused" => link[p].chain \in keys'[p]
    /\ Goes(p, IF pc[p] = "reused" THEN "linked" ELSE "keying")
    /\ UNCHANGED <<file, lock, pending, alarm>>

\* save_signing_key: written without the lock.
SaveSigningKey(p, c) ==
    /\ pc[p] = "keying"
    /\ c \in LocalChain
    /\ \A n \in 1 .. Len(file) : file[n].chain # c
    /\ Writes(p, [kind |-> "key", chain |-> c, number |-> 0, by |-> p])
    /\ keys' = [keys EXCEPT ![p] = @ \cup {c}]
    /\ pending' = [pending EXCEPT ![p] = [chain |-> c, number |-> 1]]
    /\ Goes(p, "starting")
    /\ UNCHANGED <<lock, mem, claims, link, silent>>
-----------------------------------------------------------------------------
(***************************************************************************)
(* apply_bundle.                                                           *)
(***************************************************************************)

\* Its first half: lock, and read with the callback.
BeginApply(p, bundle) ==
    /\ Locks(p)
    /\ Accurate(p)
    /\ Loads(p, TRUE)
    /\ Goes(p, "applying")
    /\ pending' = [pending EXCEPT ![p] = bundle]
    /\ UNCHANGED <<file, alarm>>

\* The start of a new chain.
StartChain(p) ==
    /\ pc[p] = "starting"
    /\ BeginApply(p, pending[p])

\* BoundBundler.commit once there is a link to extend.
Commit(p) ==
    /\ pc[p] = "linked" \/ (pc[p] = "idle" /\ link[p] # NoLink)
    /\ link[p].number < MaxBundles
    /\ BeginApply(p, [link[p] EXCEPT !.number = @ + 1])

\* A bundle from a peer; peers send a chain without gaps, perhaps again.
ReceiveBundle(p, c, i) ==
    /\ pc[p] = "idle"
    /\ c \in RemoteChain
    /\ i <= mem[p][c] + 1
    /\ BeginApply(p, [chain |-> c, number |-> i])

\* Faulty: the bundle is written although the store already has it.
AppliedAlways(p) ==
    LET c == pending[p].chain
        i == pending[p].number
    IN  /\ pc[p] = "applying"
        /\ Writes(p, [kind |-> IF i = 1 /\ c \in LocalChain THEN "start" ELSE "bundle",
                      chain |-> c, number |-> i, by |-> p])
        /\ mem' = [mem EXCEPT ![p][c] = i]
        /\ claims' = IF i = 1 /\ c \in LocalChain
                     THEN [claims EXCEPT ![p][c] = p] ELSE claims
        /\ link' = IF c \in LocalChain
                   THEN [link EXCEPT ![p] = pending[p]] ELSE link
        /\ lock' = NoOne
        /\ Goes(p, "clearing")
        /\ UNCHANGED <<keys, pending, silent>>

\* Its second half, for a bundle that is needed: applied in memory, written
\* (with a claim if it starts a chain) and announced; then the lock is
\* released.  _last_link follows the Database's own chain.
Applied(p) ==
    LET c == pending[p].chain
        i == pending[p].number
    IN  /\ pc[p] = "applying"
        /\ is_needed(mem[p][c], i)
        /\ Writes(p, [kind |-> IF i = 1 /\ c \in LocalChain THEN "start" ELSE "bundle",
                      chain |-> c, number |-> i, by |-> p])
        /\ mem' = [mem EXCEPT ![p][c] = i]
        /\ claims' = IF i = 1 /\ c \in LocalChain
                     THEN [claims EXCEPT ![p][c] = p] ELSE claims
        /\ link' = IF c \in LocalChain
                   THEN [link EXCEPT ![p] = pending[p]] ELSE link
        /\ lock' = NoOne
        /\ Goes(p, "clearing")
        /\ UNCHANGED <<keys, pending, silent>>

\* ... and for one that another process has added in the meantime.
AlreadyApplied(p) ==
    /\ pc[p] = "applying"
    /\ AlreadySeen(mem[p][pending[p].chain], pending[p].number)
    /\ lock' = NoOne
    /\ Goes(p, "clearing")
    /\ UNCHANGED <<file, copy, link, pending, alarm, silent>>

\* apply_bundle clears the notifications after it has released the lock; a
\* commit that has just started its chain goes on.
ClearNotifications(p) ==
    /\ pc[p] = "clearing"
    /\ alarm' = [alarm EXCEPT ![p] = FALSE]
    /\ Goes(p, IF pending[p].chain \in LocalChain /\ pending[p].number = 1
               THEN "linked" ELSE "idle")
    /\ pending' = [pending EXCEPT ![p] = NoLink]
    /\ UNCHANGED <<file, lock, copy, link, silent>>
-----------------------------------------------------------------------------
(***************************************************************************)
(* Failures.                                                               *)
(***************************************************************************)

\* The assertion of _refresh_helper fails in a commit.  In apply_bundle
\* nothing releases the flock; maybe_reuse_chain does; _maybe_refresh has none.
\* Either way the lock of the Database (__enter__) is never released.
CommitRaises(p) ==
    /\ ~Accurate(p)
    /\ \/ pc[p] \in {"starting", "linked"} /\ Locks(p)
       \/ pc[p] = "idle" /\ link[p] # NoLink /\ Locks(p)
       \/ pc[p] = "idle" /\ link[p] = NoLink /\ lock = NoOne /\ UNCHANGED lock
       \/ pc[p] \in {"reused", "seeking"} /\ UNCHANGED lock
    /\ Goes(p, "stuck")
    /\ UNCHANGED <<file, copy, link, pending, alarm, silent>>

\* It fails in the event loop, which ends the process.
LoopRaises(p) ==
    /\ pc[p] = "idle"
    /\ ~Accurate(p)
    /\ lock = NoOne
    /\ Dies(p)

Crash(p) == Up(p) /\ Dies(p)
-----------------------------------------------------------------------------
Step(p) ==
    \/ Open(p)
    \/ Watch(p)
    \/ Read(p)
    \/ OnStoreReady(p)
    \/ BeginCommit(p)
    \/ \E c \in Chain : ReuseChain(p, c)
    \/ NoChainToReuse(p)
    \/ LookUp(p)
    \/ \E c \in LocalChain : SaveSigningKey(p, c)
    \/ StartChain(p)
    \/ Commit(p)
    \/ \E c \in RemoteChain, i \in 1 .. MaxBundles : ReceiveBundle(p, c, i)
    \/ Applied(p)
    \/ AlreadyApplied(p)
    \/ ClearNotifications(p)
    \/ CommitRaises(p)
    \/ LoopRaises(p)
    \/ Crash(p)

Next == \E p \in Proc : Step(p)

Spec == Init /\ [][Next]_vars
-----------------------------------------------------------------------------
(***************************************************************************)
(* Properties.                                                             *)
(***************************************************************************)

\* The bundles of chain c in the file, by position.
BundlesOf(c) == {n \in 1 .. Len(file) : IsBundle(file[n]) /\ file[n].chain = c}

(***************************************************************************)
(* A chain has one writer: no two running processes have a _last_link in   *)
(* the same chain, however their commits, crashes and takeovers            *)
(* interleave.  Two writers would sign two bundles with the same           *)
(* predecessor, and no peer could hold both.                               *)
(***************************************************************************)
OneWriterPerChain ==
    \A p, q \in Proc : link[p] # NoLink /\ link[p].chain = link[q].chain => p = q

(***************************************************************************)
(* The file holds the bundles of a chain in order, without a gap and       *)
(* without a repetition, although several processes append to it and       *)
(* receive the same bundles from peers.  Otherwise opening it would raise  *)
(* "Bundle received without prior link in chain!".                         *)
(***************************************************************************)
FileIsChains ==
    \A c \in Chain : \A n \in BundlesOf(c) :
        file[n].number = Cardinality({m \in BundlesOf(c) : m <= n})

(***************************************************************************)
(* What a process holds in memory is in the file: it would find it again   *)
(* after a crash.  And a process whose _processed_to is right has all of   *)
(* what lies before it.                                                    *)
(***************************************************************************)
MemoryIsLogged ==
    \A p \in Proc, c \in Chain :
        /\ mem[p][c] <= Cardinality(BundlesOf(c))
        /\ Accurate(p) =>
              mem[p][c] = Cardinality({n \in BundlesOf(c) : n <= upto[p]})

(***************************************************************************)
(* _last_link is the end of its chain: nothing has been added to the chain *)
(* that the process would have to read first, so the "previous" that a     *)
(* commit puts in its bundle is right.  And the key of the chain has been  *)
(* read, so get_signing_key finds it.                                      *)
(***************************************************************************)
LinkIsTheEnd ==
    \A p \in Proc : link[p] # NoLink =>
        /\ link[p].number = Cardinality(BundlesOf(link[p].chain))
        /\ link[p].chain \in keys[p]

(***************************************************************************)
(* "assert self._handle.tell() == self._processed_to"                      *)
(* (log_backed_store.py:112), whenever _refresh_helper may be called.      *)
(***************************************************************************)
ProcessedIsAccurate == \A p \in Proc : Accurate(p)

(***************************************************************************)
(* "Checks the source file for bundles that haven't come from this process *)
(* and calls the callback.  Intended to allow the process to send bundles  *)
(* to peers" (abstract_store.py:157): every bundle that came from the file *)
(* while the process was running has been given to _on_bundle.             *)
(***************************************************************************)
EveryBundleIsAnnounced == \A p \in Proc : silent[p] = {}
=============================================================================
