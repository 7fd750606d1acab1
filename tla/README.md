# gink: a TLA+ verification project

gink is a replicated, versioned database. Every *instance* (a Python or
TypeScript process) appends signed *bundles* of changes to its own *chain*,
stores all bundles it knows, and exchanges them with its peers. Containers
(directories, sequences, ...) are materialised from the changes, in whatever
order the bundles arrive.

This project models the parts that have to be right together: how instances
exchange chains, how a server gives its clients a part of them, how the processes
of one machine share a log file and divide up chains, how the operations on
containers become bundles, how a store materialises changes that arrive in
different orders, and the event loop under all of it.
Paths below are relative to the repository; `impl/` is `python/gink/impl/`.

## 1. Inventory

| Component | State it keeps | Operations | Hard behaviours | What makes it correct |
|---|---|---|---|---|
| Relay, Connection, HasMap (`relay.py`, `connection.py`, `has_map.py`) | `_connections`; per connection the handshake state, `_closed`, `_tracker` (what the peer has) | `connect_to`, `receive`, `receive_objects`, `send_bundle`, `_on_bundle`, `_on_connection_ready`, `close` | greetings crossing offers, the same bundle over two paths, failing sends, lost links, exceptions that end the process | no bundle overtakes its predecessor, trackers never overestimate, every bundle is offered, read-only is respected, delivery |
| Database, BoundBundler (`database.py`, `bound_bundler.py`) | `_last_link`, `_signing_key`, `_lock` | `commit`, `_acquire_appendable_link`, `_on_bundle` | a cached link while others write the file, exceptions with a lock held | one writer per chain, a commit extends the end of its chain |
| LogBackedStore (`log_backed_store.py`, `abstract_store.py`, `bundle_store.py`, `watcher.py`) | the file, its flock, `_processed_to`, the handle's position, `_claims`, `_signing_keys`, the inotify watcher | open, `_maybe_refresh`, `refresh`, `maybe_reuse_chain`, `_add_claim`, `save_signing_key`, `apply_bundle` | several processes on one file, process death, pid reuse, lost notifications | the file is well formed, memory agrees with the file, notifications are not lost |
| MemoryStore (`memory_store.py`) | `_bundles`, `_chain_infos`, `_entries`, `_placements`, `_locations`, `_removals`, `_clearances`, `_totals`, indexes | `apply_bundle`, `_add_entry`, `_add_movement`, `_add_clearance`, `drop_history`, queries as of a time | changes in different orders, retention, half-applied bundles | indexes agree with one another, convergence |
| LmdbStore (`lmdb_store.py`) | the same tables in LMDB, retention flags, outbox | the same, in transactions | several processes, retention | the same |
| Containers (`container.py`, `directory.py`, `key_set.py`, `sequence.py`, ...) | none of their own | turn operations into changes, put them into a bundler | reading the store while changes are pending, other processes between a read and a write, clock skew | a bundle does what its operations say, at once |
| Bundlers and muids (`bundler.py`, `bound_bundler.py`, `muid.py`) | `_changes`, `_timestamp`, `_is_open`; the stack of active bundlers; deferred muids | `add_change`, `commit`, `rollback`, `__enter__`, `__exit__` | handles of things that have no address yet, a bundler committed twice, nested blocks | a handle names what it was made for |
| Reset (`Container.reset`, `Database.reset`, `get_reset_changes`) | | copies entries of the past | clears and sub-containers between then and now | the past is back |
| Braids (`braid.py`, `braid_server.py`) | `_connection_braid_map`, `_braid_connection_map`, `_chain_connections_map` | `_get_greeting`, `_on_websocket_ready`, `_after_relay_recieves_bundle`, `_disconnect` | chains that join while clients are connected, greetings crossing live bundles, lost connections | a client gets its braid, without gaps, and nothing else |
| Event loop (`looping.py`, `server.py`, `listener.py`) | `registered`, `fd_mappings`, the selector; `Server._selectables` and its socket pair | `loop`, `add`, `on_ready` of everything | an event for a connection an earlier event closed, reuse of file numbers, wake-ups | the tables agree, no connection stays unwatched, ends are noticed |
| TypeScript Database and connections | `iHave`, `lastLink`, `peerHasMap`, `unacked`, timers | asynchronous handlers | interleaving at every `await`, reconnect races, acknowledgements | `synced` is truthful and eventually true |
| TypeScript stores | as the Python stores; promise-chain locks, IndexedDB transactions | `addBundle`, `pullBundles`, ... | interleaving at every `await` | as the Python stores |

Interaction: the event loop calls `Relay._on_connection_ready`, which applies a
bundle through `Database.receive`, `store.apply_bundle` and the `_on_bundle`
callback, which sends it to all other connections. A local commit takes the same
path. On a shared file, other processes' bundles arrive through the watcher and
`Relay._on_store_ready`, or on the side through any query. `PROJECT.json` lists
the components with their status and the hazards with their lines.

## 2. Modules

| Module | What it is |
|---|---|
| `HasMap` | `has_map.py` and `utilities.is_needed` as operators over `[Chain -> Nat]` |
| `PeerSync` | instances, connections and messages (Python) |
| `ReplicatedChains` | abstract specification: instances hold prefixes of chains that only their writer extends |
| `BraidServer` | a server, its braids and its clients; refines `ReplicatedChains` |
| `EventLoop` | the select loop with everything it selects from |
| `SharedLog` | processes on one log file: reading, appending, claims, notifications |
| `DirectoryTree` | nested directories, bundlers, deferred muids and resets over an LMDB store |
| `KeyedContainers` | operations of key sets, groups, pairs, properties, boxes, accumulators, with several clients |
| `SequenceStore` | one sequence materialised in memory and LMDB stores, with and without history |
| `KeyedStore` | one keyed container in memory and LMDB stores, with retention |
| `MC...` | the instances TLC checks |
| `...Proofs` | TLAPS proofs about the module of that name |

Definitions whose comment starts with "Faulty:" are deliberately wrong variants
of the definition that follows. No specification uses them: each shows that some
property is violated when the code has that mistake.

### PeerSync

Bundle *i* of a chain is the number *i*: its `previous` is *i* - 1. A store is a
function from chains to the number of bundles held. A connection is an element
of `Conn`, used once; dialling again uses another one. Its two Connection
objects are its *ends*, each with a status ("opening": handshake; "open"; "dead":
closed by a failed send but still in `_connections`; "removed"), a tracker, and
a FIFO queue of what it has yet to read.

`ConnectTo`, `AcceptRequest`, `RejectRequest` and `ReceiveAccept` are the
handshake with the greetings it sends; `ReceiveGreeting`, `ReceiveBundle` and
`ReceiveDuplicate` are the branches of `_on_connection_ready`, each with
everything the handler does: apply, forward to all peers, acknowledge. The
`...Raises` actions are their exception paths: an exception leaves the event
loop and ends the process, after the sends made before it. `ReceiveClosed` is
the rest of a batch of events on a connection that a send of the same batch has
closed. `Commit` is `BoundBundler.commit`; `CutLink` and `Crash` are the
environment. A restarted process has its store and nothing else.

`_connections` is a set, so `_on_bundle` visits the peers in any order:
`Reached` is the set of possible sets of peers that were sent the bundle before
one of the sends raised. `OfferedToEveryPeer` therefore holds only where sends do
not fail: after a failed send, peers that come later may not be offered the
bundle.

Abstracted: bundle contents and signatures (assumed valid); acknowledgements and
signals are not queued because this implementation ignores them, but their sends
may fail; frames are sent whole (`socket.send` may in fact write a part, a
listed hazard); tokens and permissions are the constant `ReadOnly`.

### BraidServer

Bundles and stores are those of `PeerSync`. `limit` is the contents of the
braids: the number of the bundle that has the time of the limit, `inf` for a
chain without one. `on_braid`, `members` and `subscribers` are the server's three
maps. A client `Dial`s, and may `Leave` before it was answered: the server then
finds no request (`MissRequest`), which a reset turns into an exception that
leaves the loop, or rejects or accepts a connection that is gone. `Reject` and
`Connect` are what becomes of a request; `Connect` includes `_get_greeting`,
which puts the connection into the maps before anything is sent. `ReceiveGreeting`, `ReceiveBundle` and `ReceiveEnd` are the branches of
`_on_websocket_ready`, `MissEnd` the ends of a connection that its handler does
not turn into `Finished`; `Receives` is `Relay.receive` with
`_after_relay_recieves_bundle` as its callback, with the index as it is at that
moment; `RelayReceives` is a bundle that the data relay gets by a connection of
its own. Clients are relays with one connection at a time; `Obtain` is a commit,
or a bundle that the client gets elsewhere. A send to a client that is gone is
lost, or fails and closes the connection, or raises (the acceptance and the
rejection are guarded by nothing, and closing sends too); clients that are there
keep up, so that a send to them does not fail. What raises beyond the handlers
ends the loop (`crashed`). `late`, the chains that joined late, and `cause`, where
the exception came from, are history.

Left out: connections that may not read, the bytes of acknowledgements, and the
`_connections` of the data relay itself (they are `PeerSync`).

### EventLoop

`registered`, `fd_mappings`, the selector's own map (`keys`) and what the kernel
watches are variables of their own: they are changed at different places and
have to agree. `Select` makes a batch of what is ready; `Handle` takes any member
of it and performs its `on_ready`, with the removal that follows `Finished`. The
kernel gives a new socket the lowest free file number, so that numbers are
reused at once, also within a batch. A connection that was forgotten may be used
again for another one.

A connection has three phases: before the header of its request has come
(`_receive_header`), while `websocket` but not yet `ws_connected`, and after that;
an outgoing one starts in the second. What there is to read depends on the phase,
and so does what it does: before the header an end is `Finished`, which
`_on_connection_ready` does not see, so that the relay keeps the connection
(`TakenOut`), and a reset leaves the loop; later both are `Finished`. `Unhandled`
stands for every exception that the code lets out of the loop at a client's fault:
of the TLS handshake, of reading, and of the sends that are not
`Connection.send` (an answer to a request, acceptance, rejection, the answer to a
close). How a peer's socket fails is in `broken`: a broken pipe is caught by
`close`, a timeout is not. Only presence matters of what there is to read: several
bundles are one, and a header comes as a whole.

### DirectoryTree

`log` is the store: bundles of changes, as LMDB keeps them. Times are numbers of
bundles. A muid whose time is 0 is relative to the bundle it is in. An operation
is one action on a bundler that is passed, active or made for it; it reads the
store when it is called (`Find`, `GetEntryByKey`) and appends to `changes`. A
`Handle` is a directory as the program has it before the commit: a bundler and an
offset, resolved through `stamp` when it is used (`PutInto`). `calls` is history:
what operations made the changes, so that `Serializable` can apply them to a tree
of dictionaries.

`Reset` and `ResetAll` translate `_get_keyed_reset_changes`. The containers that a
recursive reset visits are `Reached`, the least set with the first one that is
closed under what is shown in a member now or was then. The order in which the
code visits them is abstracted: no two of its changes are about one key of one
container. What a key points to need not be a container (a second key can be
given the muid of an entry): `get_container` raises for it, and reading it is
`Lost`. A reset asserts that it is of a container (`_get_behavior`), so that it is
guarded by `IsContainer` of all that it visits.

Left out: removals, retention and indexes (`KeyedStore`), the order of keys, and
that a recursive reset with a bundler of its caller's, when it raises half way,
leaves the changes so far in that bundler.

### KeyedContainers

All kinds share `Container._add_entry`, so that one model with a `kind` stands
for seven classes. Keys are numbers, and 0 is false to Python. A step is an
access to the store: `op` says where an operation is between two of them, and
what its generators have left. An argument is any sequence of keys, in which keys
may be repeated (`Arguments`), and for the one operation that goes through its
argument twice it may be an iterator, which is used up by the first time (`once`). `active` is the with-block of a client, `bundle`
what its bundler has. `quiet`, `was` and `then` in an operation are history.

### SharedLog

A process is its pid; a process that is down and comes up again is a pid that is
reused. The file is the sequence of `write()`s, and positions are counted in
records. `flock` excludes other locked sections, so a locked section is two
steps at most: lock and read, then write and unlock. What comes in between is
the unlocked write of `save_signing_key`. `pc` follows a process through
`_acquire_appendable_link` (reuse a claimed chain whose claimant is gone, or save
a key and start a chain) and through `apply_bundle` (locked, then clearing the
notifications after the unlock; a notification that comes in between is lost). `upto` is `_processed_to` and `tell` the
handle's position; `Accurate` is the assertion that they agree. `CommitRaises`
and `LoopRaises` are what happens when it fails: in a commit the process stays
up with the Database's lock held, in `apply_bundle` with the flock as well; in
the event loop the process ends. `silent` records the bundles read from the file
without a callback.

Assumed: a chain has a fresh medallion (random in the code); peers send a chain
without gaps, which is `NoGapInFlight` of PeerSync; writes are atomic.

### SequenceStore

A muid is a number; timestamps decide the order, so distinct changes have
distinct times. Every instance issues changes with growing times, but clocks are
not synchronised. Chains arrive in order, different chains in any order, and a
movement after the entry it moves. `places` stands for `_placements` and
`_locations` together: a place is what `_add_entry` or `_add_movement` enters in
both; `Location` reads it as `_get_location` does, `Visible` as
`get_ordered_entries` does, with `_removals` and `_clearances`, both as of any
time. Instances in `Lmdb` have an LMDB store: `ApplyMovement`, `ApplyClearance`,
`LastClear` and `LmdbVisible` are its methods where they differ from those of the
memory store (`AddMovement`, `AddClearance`, `FirstClear`, `MemoryVisible`).
`retains` is chosen at first: an LMDB store that was made without history
(`retain_entries=False`) deletes what a movement leaves, and is only asked about
the present. Left out: `drop_history` and reset of sequences.

### KeyedStore

An instance uses the store `Impl[r]`; operators that begin with `Memory` or
`Lmdb` are the two implementations of one method. An entry under a key is never
moved, so `held` stands for `_entries`, `_placements` and `_locations`.
`removals` is `_removals`, and `removalsByTime` the table that only LMDB has and
only `drop_history` reads. `Drop` is what `drop_history` leaves behind: in the
memory store, removals are carried out in the order of their keys up to the
first that is too new (`break`) or whose entry is gone (`KeyError`), with the
same effect on the tables. `clock` is what `generate_timestamp` would return: it
gives new changes their times, and the memory store asks it which entries are
past when it looks for the one to supersede. `orderly` and `horizon` are history
variables, read by the properties only: whether r got its changes in the order
of their times and none from the future, and the time up to which superseded
entries were dropped.

Deletions are entries like any other here: what a property tells apart is which
entry is the current one. Bundles have one change; values, subdirectories and
the by-name, by-describing and by-value indexes are left out.

## 3. Runs

| Run | Instance | States | Shows |
|---|---|---|---|
| `sync_ring` | three instances, three connections, one read-only; crashes and cuts | | duplicates along two paths: no gap in flight, everything offered, nothing sent to a read-only listener |
| `sync_faults` | two writers and a relaying instance in a line; sends may fail | | messages truthful, no gap, trackers sound, refinement of `ReplicatedChains`, all in spite of failing sends |
| `sync_delivery` | fair event loops | | a held bundle arrives or the connection is lost |
| `braid` | three clients, two braids (one with a limit of one bundle, one empty), three connections, one read-only, one chain of two bundles; clients leave before, during and after the handshake | 1.58 M | no client gets more than its braid, or less, or with a gap; the index agrees with the braids; the loop ends only at a client that is gone or a connection in the way of a chain; refinement of `ReplicatedChains` |
| `loop` | two connections, two file numbers, one line of input; fair | 456 k | the tables agree, no connection stays unwatched, exceptions leave the loop only after a failed `Connection.send` or for a fault of a client at a call that nothing guards, ends are noticed |
| `log_claims` | three processes of one identity, one chain to start | 361 k | one writer per chain, links are ends of chains |
| `log_peers` | two processes, a remote chain | 883 k | the file is made of chains, memory is logged |
| `dir_bundles` | two keys, one bundler, four bundles of three changes at most | 170 k | bundles are serializable, handles resolve, resets restore |
| `containers` | two clients, one of them with blocks and long operations; all kinds, three keys, arguments that may repeat a key, iterators | 427 k | blocks are atomic, undisturbed operations are exact |
| `seq_moves` | a memory and an LMDB store, four times | 382 k | one place as of any time, no entry vanishes, movements converge |
| `keyed_history` | one memory, one LMDB store, two keys, three times | | the last writer wins as of any time that was not dropped; removals name what is there |
| `keyed_converge` | | | **violated**: a late older entry makes `drop_history` purge the newer one |

The violated one checks what a document of the repository says; `findings` in
`PROJECT.json` quotes it.

*Bounds.* `MaxBundles` bounds a chain (two are enough for a predecessor, a
successor and a gap; three in `log_claims`, so that a chain goes on after it was
taken over), `MaxLog` the records of the file (enough for a key, a start, a
takeover and bundles of the new writer), `MaxTime` the changes of a sequence:
four are an addition, a removal, a movement and a clear, in every order; three in
`KeyedStore`, enough for an entry superseded twice, or superseded and cleared,
and for every order of the three.
In `seq_moves`, `Additions` are an entry appended, one appended with an expiry and
one inserted without. `Positions` has one element besides the entry's own time,
before some changes and after others; `Expiries` one, in the middle.
`MovementsConverge` between a memory and an LMDB store in every pair of orders implies the same between two
stores of one kind. In `braid` the limit of one bundle in a chain of two makes
one bundle at the limit and one beyond it; the chain joins the empty braid at its
start (from its author's other peers), or late, and a client changes braids by
dialling again. With that limit `CaughtUp` says nothing of the limited braid in the
run, since the bundle at the limit is exempt and there is none before it, and is
about the other one; a limit of two with chains of three is beyond the time a run
may take. `ClientsAreCaughtUp` proves it for every limit. In `loop` two connections are enough for one that closes while
the other is in the batch, and for one that takes over a file number. In
`dir_bundles` four bundles are a past, a change of it, a clear and a reset;
three changes make a directory, an entry in it and its link. The bound on calls
(`MaxCalls` is four) leaves no room to make a subdirectory, change it and then
reset recursively into it while it is there; this case rests on the proof
(`ResetsRestore`) alone. In `containers` the argument of a set operation has up to
two keys of three, one of which is false, or one key twice;
the second client only adds, discards and clears, which is what can come in
between. Connections are a finite set, so a behaviour of `PeerSync` and
`BraidServer` has finitely many reconnections; the proofs have no such bound.
Symmetry is used for keys and values (`KeyedStore`, `DirectoryTree`) and the
processes of `SharedLog`, in runs without liveness only.

*Deadlock* is not checked where the bounds stop the model: when all bundles are
written, everything is quiet.

*Fairness.* `Delivery` assumes weak fairness of the handlers of every end
and of accepting requests, per end: `loop` polls all registered selectables and
calls every ready one in each round. Nothing is assumed of users, dialling, the
network or crashes; links may be cut at any time, which is the second outcome of
the property. `EndsAreNoticed` assumes that the loop of `EventLoop` goes on
(weak fairness of `Select` and of `Handle`, which are the body of its `while`),
not that any particular member of a batch is served: every batch is handled to
its end before the next. Both assume that a handler returns. One may not:
the TLS handshake of a new connection (`relay.py:172`) blocks without a timeout, so
that a client which connects and says nothing stalls the loop.

## 4. Proofs

`PeerSyncProofs` holds for any finite set of chains and any instances,
connections and topology, for any bound, with or without failing sends.

- `TypeCorrect`: `Spec => []TypeOK`.
- `SyncIsSafe`: `SentIsHeld`, `NoGapInFlight` and `TrackerIsSound`.
- `Refinement`: `PeerSync` implements `ReplicatedChains`.

The safety properties are not inductive one by one: that no gap is in flight
needs sound trackers (what is sent extends what the tracker says), sound
trackers need truthful messages, and all need the types. The inductive invariant
`SyncInv` is their conjunction, with `LinkIsUsed`: an end that was opened, or has
been greeted, belongs to a connection that was used, so that opening a
connection finds its queues empty. `QueueStep` is the heart of the proof: it
says once which reads, sends, store and tracker changes keep the queues and
trackers right, and the lemma of each action (`CommitStep`, `ReceiveBundleStep`,
...) shows that the action is such a step. Facts about sequences (`NoGapConcat`,
`QueuedTail`, ...) and about the bundles a greeting is answered with
(`OffersProperties`: sorted, without holes above what the peer has) are lemmas
of their own. The refinement then needs that a bundle at the head of a queue is
held by its sender (truthfulness) and is the receiver's next one (`is_needed`).

`BraidServerProofs` holds for any clients, braids, initial limits and connections,
any finite set of chains and any `MaxLen` (`ConstantsAssumption`).

- `TypeCorrect`: `Spec => []TypeOK`. A bundle that is stored is the next one
  (`StoredIsNext`), so stores stay within the bound, and what answers a greeting
  is a sequence because finitely many bundles lie between two maps
  (`BundlesFinite`, `BetweenProperties`).
- `IndexIsRight`: `IndexAgrees`, strengthened by `MembersAreOnBraid`: a connection
  is a member of no braid but its own, without which a chain that joins would
  be given to strangers. There is one lemma per way to change the index:
  connecting, disconnecting, joining.
- `BraidIsRespected`: `WithinBraid`. A queue *fits* a map if the numbers of its
  bundles are within it (`Fits`); reading, adding and joining queues keep that,
  and limits are only raised.
- `Refinement`: `BraidServer` implements `ReplicatedChains`. What is on the way is
  held by who sent it (`SentIsHeld`, queues that fit the sender's store), so that
  whoever needs a bundle that it reads learns it from one that has it.

A second part of `PeerSyncProofs` is about who is offered bundles.

- `ReadOnlyHolds`: `ReadOnlyIsRespected`. A listener that gives no right to write
  answers with a signal instead of a greeting, and a peer only sends bundles to
  who has greeted. Inductive is `ReadOnlySound`: the dialling end of such a
  connection is not greeted, no greeting is on the way to it, and the other end
  is never within a handshake. It needs no assumption about sends.
- `AllIsOffered`: `OfferedToEveryPeer`, under the hypothesis `~SendsFail`. With
  failing sends it is false, see PeerSync above. `OfferInv` adds that no end is
  dead and that who is greeted is open, so that forwarding leaves nobody out.

A second part of `BraidServerProofs` is about gaps and delivery.

- `NoGapsReachClients` (`NoGapToClient`), `ClientsAreCaughtUp` (`CaughtUp`) and
  `KnownCrashesOnly` (`OnlyKnownCrashes`: an exception leaves the loop only from a
  read of or a send to a client that is gone, or from passing a bundle on at a
  connection in the way of its chain). They need one another: a client that
  is not behind is sent just the next bundle, a queue without gaps makes the
  trackers sound, and the store refuses nothing from who sends without gaps. The
  invariant therefore has the queues in both directions (`ToClientsSound`,
  `ToServerSound`: no gap for the reader, and what a tracker says is held or
  queued), `EndsInv` (which ends are up, one connection per client, nothing from
  who has not greeted), and `NobodyIsBehind`, stated per tracker.

`SharedLogProofs` holds for any processes, users, chains and bounds.

- `ChainsHaveOneWriter`, `LinksAreEnds`, `FileHoldsChains`, `MemoryIsInTheFile`,
  `TypesAreRight`. The invariant says what a process knows of the file: while
  `_processed_to` is right its memory is that of the records before it, the
  claims included; inside a locked section only keys can have been written
  since, because `save_signing_key` takes no lock. A process that has lost its
  place knows less, but cannot enter a locked section any more, so what it wrote
  last still stands. The last claim on a chain in the file is by its writer,
  which is why two processes cannot both have a chain.

`EventLoopProofs` holds for any finite sets of connections and file numbers, as
many numbers as connections.

- `MapsAlwaysAgree`, `NoneIsMissed`, `OnlyFaultsEndTheLoop` (`OnlyFaultsCrash`: the
  loop's and the relay's own bookkeeping raises nothing before a `Connection.send`
  has failed, and any other exception is that of a client at fault), `TypesAreRight`. The
  invariant holds while the loop runs. That the maps agree after a removal needs
  that a connection has one number in them, also one that a send has closed
  (`MapsSound`), and that open connections have different numbers (`FdsSound`);
  that the removal of a connection does not raise needs that what the batch holds
  is open and registered as long as no send has failed (`BatchSound`).

`SequenceStoreProofs` holds for any instances with any mix of stores, any times,
positions and expiries, with and without history.

- `OnePlace` (`OnePlaceAtATime`), `LocationsAreShown` (`LocatedIsVisible`),
  `TypesAreRight`. Placements and removals are kept in separate tables and
  written at different times, so the invariant ties them together: a removal
  links two places of one entry (`RemovalsLink`), a place with a later one has
  been removed (`LeftAreRemoved`), and so a place counts as removed as of a time
  just when its entry has moved on by then (`RemovedIsLeft`). Without history
  an entry has one place and no removal (`Forgets`).
- `PlacesConverge`: `MovementsConverge`. The last place of an entry is decided by
  the changes received and not by their order (`Keeps`, `Heeds`). The theorem
  has the hypothesis `Now \notin Positions`: the memory store leaves out a
  position that equals the time it is asked about and LMDB does not, so that
  without it the two differ for an instant. The run's instance satisfies it, as
  does a program that does not place entries in the future.

`KeyedStoreProofs` holds for any instances, either store, any keys and times.

- `LastWriter` (`LastWriterWins`), `DropsAreValid` (`RemovalsAreValid`),
  `TypesAreRight`. What was received and is not superseded up to the horizon is
  still there (`EntriesKept`, `ClearsKept`), if nothing was dropped or changes
  came on time. For the latter the tables of removals have to be right too
  (`Orderly`): removals link an entry with the one that superseded it, and LMDB's
  second table says the same as the first.
- `TrustedKeysConverge`: where the documented convergence, which `keyed_converge`
  refutes, does hold. Two stores with the same changes answer alike about the
  present if each got them on time or dropped nothing. It follows from
  `LastWriter`: both answers are what the changes say.

`KeyedContainersProofs` holds for any processes, of which any may have blocks and
operations with several accesses, any finite set of keys and any bounds.

- `BlocksHold` (`BlocksAreAtomic`), `TypesAreRight`, `QuietOperations`
  (`QuietOperationsAreExact`, an action property). The invariant says for each
  operation what is left to do (`RemoveSound`, `DifferenceSound`,
  `IntersectionSound`, `SymmetricSound`): as long as nobody has committed since it
  began, what it has collected, what it has yet to look at and what the container
  had in it make up what it is meant to leave, and an exception is that of `remove`
  for a missing key or that of `symmetric_difference_update` for a key of the set
  which its argument repeats, after which nothing has changed. `intersection_update` keeps everything
  when the generator yields the keys in the order of the store (`InOrder`): both
  lists descend, so that an element the generator has passed cannot be a key to
  come. Every action is shown to be a step of one client that leaves the others
  undisturbed or marks them disturbed (`Proper`), so that the step of one never
  has to be compared with the operation of another.

`DirectoryTreeProofs` holds for any sets of keys and values, any number of
bundlers, either kind of program with several bundlers, and any bounds.

- `HandlesAlwaysResolve` (`HandlesResolve`), `TypesAreRight`. What a handle means is
  settled when it is used: by then its bundler may have been committed, or given
  up. The invariant says that the store has whole entries only (`StoreOK`), that an
  entry points to nothing later than the store (`LogKnown`), that the stamp of a
  bundler is that of a bundle it committed (`StampIsOwn`), and, for what is not yet
  committed, that every muid in it is either an address in the store or an offset
  of the same bundle (`PendingResolve`), because a bundler keeps its changes after
  a commit and may be committed once more.
- `ResetsRestore` (`ResetRestores`, an action property). A key of a container has
  been touched since the time of the reset, and then gets an entry with what it
  had or its removal (`KeyRestored`), or else shows what it showed then
  (`LeftAlone`). The new entry is the last one of its key, and no clearance is in
  the bundle of a reset. That this reaches all containers is a fact about
  `Reached` (`InRootFacts`), and the exceptions in the property are the entries
  that `CanCopy` rules out. An earlier version of the model took whatever a key
  points to for a container; the proof failed there, and the code raises.
- `BundlesAreSerializable` (`Serializable`, an action property). Operations read the
  store when they are called, and it may have grown by the commit. The invariant is
  therefore about every store that the present one may become (`Becomes`): under the
  conditions of the property (`Fair`: what the calls of a bundler read still stands
  there, they start from the root directory, no directory is under two keys), its
  pending changes, put after that store as one bundle, do to the tree what its
  calls do, one after the other (`Replays`). That
  the store grows, by whatever bundle, only narrows the stores that are to come, so
  that a commit disturbs no other bundler; an operation has to show that the
  changes it adds do what its one call does (`Does`). This is shown change by
  change, in a bundle that is not complete yet: its changes name offsets that are
  already there, and nothing refers to an offset ahead (`Clean`, `Addressed`).
  `Serializable` folds the calls of a bundle over the tree; a fold over one call
  more is unrolled by `FoldAppend`, from the least number of calls for which that
  could fail.

Lemmas about stores and queues are about sets and sequences, not about
states; there is one lemma for each action, or for each effect that actions
share, and it names the parts of the invariant that the action can disturb.

Only TLC checks:

- `Delivery` and `EndsAreNoticed`: liveness under fairness and ENABLED are outside
  what these provers do.
- `OfferedToEveryPeer` is false where sends fail, and the runs with failing sends
  do not claim it.

## 5. Known divergences

What the code was found to do while it was modelled. The models have this
behaviour, and the properties name the cases as exceptions.

- Convergence: a late older entry under a key purges the newer one when history
  is dropped (`keyed_converge`). A removal and a later movement of an entry of a
  sequence leave different states when they arrive in different orders
  (`memory_store.py:473`), although the comment there says that the present state
  always converges. Of several clearances the memory store takes the first
  (`memory_store.py:889`), LMDB the last; an LMDB store without history erases
  later clearances when an earlier one comes late (`lmdb_store.py:1037`).
- Shared file: `save_signing_key` appends without the lock, after which the
  assertion at `log_backed_store.py:112` fails (`Accurate` in `SharedLog`);
  queries and the first commit swallow bundles of other processes that `refresh`
  should have announced to peers (`silent`).
- Bundlers: `BoundBundler.commit` does not close the bundler, so that a second
  commit repeats the changes. A handle that is used in another bundler before its
  own is committed, or after a rollback, resolves to another change. A keyed reset
  copies entries with muids that are relative to another bundle. `Container.reset`,
  the constructors of properties, groups, pair sets and pair maps, and
  `Property.update` do not look for the active bundler.
- Key sets: `intersection_update` uses up the generator it asks, a key that is
  false is skipped, `difference_update` raises in the middle when somebody else
  removes a key, and `symmetric_difference_update` commits piece by piece. A key of
  the set that the argument of `symmetric_difference_update` repeats is a `KeyError`
  (`key_set.py:168`), and for an iterator it leaves the union: the union has used
  the iterator up (`key_set.py:166`).
- Event loop: after a send that failed, an event of the same batch trips the
  assertion at `looping.py:65`, or a later broadcast raises. `close` catches a
  broken pipe only. An end before the header leaves the closed connection in
  `_connections` (`connection.py:238`). These leave the loop for one client's fault:
  a reset before the header (`connection.py:236`), an `SSLError` other than the two
  that `relay.py:173-181` knows, or any other exception, from a TLS handshake, an
  `SSLError` from a read, and a failing send of an answer to a web request
  (`connection.py:167`, `177`), of an acceptance, a rejection or the answer to a
  close (`connection.py:388`, `372`, `403`).
- Braid server: the bundle at the limit is sent in answer to a greeting and not
  when it is new; a chain that joins while it is in the store is not sent to those
  connected, and its next bundle ends the loop; a connection that is lost while
  its braid is empty stays in the index and ends the loop later
  (`braid_server.py:162`); `_disconnect` changes the set that
  `_after_relay_recieves_bundle` iterates. A client that goes during the handshake
  may end the loop as above; its connection is in the maps by then.

## 6. Plan

1. `PeerSync`, `SharedLog`, `SequenceStore`, `KeyedStore`, `DirectoryTree`,
   `KeyedContainers`, `EventLoop`, `BraidServer` (done).
2. `drop_history` of sequences, reset in the memory store and of sequences,
   graphs, and the by-name and by-describing indexes.
3. `JsSync`: TypeScript Database and connections, handlers split at `await`:
   acknowledgements and `synced`, reconnect timers, `waitTillHas`, `lastLink`
   before commit. It refines `ReplicatedChains` as well, or shows where not.
4. `JsSharedLog` (promise-chain lock, LogBackedStore, LockableLog) and
   IndexedDbStore's shared transactions.
5. Composition of `PeerSync` with a store under clock skew (`get_bundles` in
   timestamp order): are dependencies always delivered first?
6. Proofs: all safety properties of the passing runs are proved. The modules of
   items 2 to 5 get theirs when they are written.

## 7. Not modelled

Protobuf and key encodings, signatures and encryption (pure conversions; the
models use the orders and checks they provide), the headers of HTTP and the WSGI
protocol, what the console and the command line print, and the dashboard (input
and output around the components above),
examples and performance tests. The components that the plan has yet to reach
are marked in `PROJECT.json`.
