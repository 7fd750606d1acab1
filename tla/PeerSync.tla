------------------------------ MODULE PeerSync ------------------------------
(***************************************************************************)
(* Synchronisation of gink instances over connections: the Relay, the      *)
(* Connection and the HasMap that tracks the peer (python/gink/impl:       *)
(* relay.py, connection.py, has_map.py), with the part of the Database     *)
(* that commits bundles and of the stores that decides whether a bundle is *)
(* applied.                                                                *)
(*                                                                         *)
(* A Connection object is used once, so a connection is an element of      *)
(* Conn, and connecting again to the same instance uses another element.   *)
(* Its two Connection objects are its two ends.  The messages an end has   *)
(* yet to read are a FIFO queue (TCP).  Acknowledgements and signals are   *)
(* not queued: this implementation only logs them on receipt (the set      *)
(* _not_acked an acknowledgement is discarded from is never added to).     *)
(* Sending one can fail like any other send, and that is modelled.         *)
(***************************************************************************)
EXTENDS Naturals, Sequences, FiniteSets

CONSTANTS Instance,     \* gink instances, each one process with its own store
          Chain,        \* chains
          Writer,       \* Writer[c]: the instance that extends chain c
          Conn,         \* connections
          Dialer,       \* Dialer[k]: the instance that calls connect_to
          Listener,     \* Listener[k]: the instance that accepts
          ReadOnly,     \* connections the listener grants no write permission
          MaxBundles,   \* bound: bundles per chain
          SendsFail     \* whether socket.send may raise (connection.py:455)

INSTANCE HasMap

End == Conn \X {"client", "server"}

Owner(e) == IF e[2] = "client" THEN Dialer[e[1]] ELSE Listener[e[1]]

Other(e) == <<e[1], IF e[2] = "client" THEN "server" ELSE "client">>

ASSUME ConstantsAssumption ==
    /\ IsFiniteSet(Chain)
    /\ Writer \in [Chain -> Instance]
    /\ Dialer \in [Conn -> Instance]
    /\ Listener \in [Conn -> Instance]
    /\ \A k \in Conn : Dialer[k] # Listener[k]
    /\ ReadOnly \subseteq Conn
    /\ MaxBundles \in Nat
    /\ SendsFail \in BOOLEAN

VARIABLES
    store,      \* store[p][c]: p's store has bundles 1 .. store[p][c] of c
    link,       \* link[k]: the TCP connection: "unused", "up" or "cut"
    status,     \* status[e]: the Connection object, see Statuses
    greeted,    \* the ends whose _tracker is not None
    tracker,    \* tracker[e]: e's _tracker (EmptyMap while it is None)
    inbox       \* inbox[e]: the messages sent to e and not yet read

vars == <<store, link, status, greeted, tracker, inbox>>

(***************************************************************************)
(* "idle": no Connection object yet; "opening": a client waiting for       *)
(* AcceptConnection; "open": _ws_connected; "dead": closed by a failed     *)
(* send but still in the relay's _connections; "removed": no longer in     *)
(* _connections.                                                           *)
(***************************************************************************)
Statuses == {"idle", "opening", "open", "dead", "removed"}

Accept == [type |-> "accept"]

\* Faulty: the greeting claims one bundle too many of every chain.
GreetingClaimsNext(map) ==
    [type |-> "greeting", has |-> [c \in Chain |-> map[c] + 1]]

Greeting(map) == [type |-> "greeting", has |-> map]
Bundle(c, i) == [type |-> "bundle", chain |-> c, number |-> i]

Bundles == [type : {"bundle"}, chain : Chain, number : Nat]
Message == {Accept} \cup [type : {"greeting"}, has : HasMaps] \cup Bundles

TypeOK ==
    /\ store \in [Instance -> HasMaps]
    /\ link \in [Conn -> {"unused", "up", "cut"}]
    /\ status \in [End -> Statuses]
    /\ greeted \in SUBSET End
    /\ tracker \in [End -> HasMaps]
    /\ inbox \in [End -> Seq(Message)]

Init ==
    /\ store = [p \in Instance |-> EmptyMap]
    /\ link = [k \in Conn |-> "unused"]
    /\ status = [e \in End |-> "idle"]
    /\ greeted = {}
    /\ tracker = [e \in End |-> EmptyMap]
    /\ inbox = [e \in End |-> <<>>]

-----------------------------------------------------------------------------
(***************************************************************************)
(* Effects shared by the handlers.                                         *)
(***************************************************************************)

\* The ends in a send may fail: none at all unless SendsFail.
Failures(ends) == IF SendsFail THEN SUBSET ends ELSE {{}}

\* Faulty: close() leaves the socket open.
LinksKept(closing) == link

\* The links once the ends in "closing" have closed their sockets.
LinksWithout(closing) ==
    [k \in Conn |-> IF \E e \in closing : e[1] = k THEN "cut" ELSE link[k]]

\* Connection.send by the ends in "senders": a message written to a
\* connection that the other side has dropped is lost.
Posted(box, senders, msgs) ==
    [e \in End |-> IF Other(e) \in senders /\ link[e[1]] = "up"
                   THEN box[e] \o msgs
                   ELSE box[e]]

\* Reading the first message of e's queue.
Consumed(e) == [inbox EXCEPT ![e] = Tail(@)]

(***************************************************************************)
(* A closed socket is never read again, but the handler of a batch of      *)
(* messages (one recv) goes on with the rest of it after one of its sends  *)
(* failed.  Left(e, failed) is the set of choices of which failed ends     *)
(* have nothing left to handle; a dead end with a queue is in its batch,   *)
(* and its process does nothing else meanwhile.                            *)
(***************************************************************************)
Left(e, failed) == {failed, failed \ {e}}

InBatch(p) == \E e \in End : Owner(e) = p /\ status[e] = "dead" /\ inbox[e] # <<>>

Drained(box, closing) == [e \in End |-> IF e \in closing THEN <<>> ELSE box[e]]

\* Connection.close after a failed send: the object stays in _connections.
Closed(closing) ==
    [e \in End |-> IF e \in closing THEN "dead" ELSE status[e]]

\* Faulty: only the connections that p accepted are offered the bundle.
TargetsAccepted(p, trk, c, i) ==
    {f \in greeted : Owner(f) = p /\ f[2] = "server" /\ ~has(trk[f], c, i)}

(***************************************************************************)
(* Relay._on_bundle(c, i) at p calls send_bundle on every Connection in    *)
(* _connections, given the trackers trk.  Targets are those it does not    *)
(* return early for.  Raising are those for which send_bundle raises:      *)
(* "bundle would be an invalid extension!" or "connection already          *)
(* closed!".  (A failed send may raise too, from the close it calls.)      *)
(* Reached is what may have been sent to when the loop ends or is left by  *)
(* an exception; _connections is a set, so any order is possible.          *)
(***************************************************************************)
Targets(p, trk, c, i) ==
    {f \in greeted : Owner(f) = p /\ ~has(trk[f], c, i)}

Raising(p, trk, c, i) ==
    {f \in Targets(p, trk, c, i) :
        status[f] = "dead" \/ ~is_valid_extension(trk[f], c, i)}

Reached(p, trk, c, i) ==
    IF Raising(p, trk, c, i) = {} /\ ~SendsFail
    THEN {Targets(p, trk, c, i)}
    ELSE SUBSET (Targets(p, trk, c, i) \ Raising(p, trk, c, i))

\* send_bundle marks the peer as having the bundle, even if the send failed.
Marked(trk, ends, c, i) ==
    [f \in End |-> IF f \in ends THEN mark_as_having(trk[f], c, i) ELSE trk[f]]

(***************************************************************************)
(* The process of p ends (it crashed, or an exception other than Finished  *)
(* left looping.loop): its sockets close and its Connection objects are    *)
(* gone.  Its store is on disk.  A new process may start at once.          *)
(***************************************************************************)
Dies(p, box) ==
    /\ link' = [k \in Conn |->
                  IF p \in {Dialer[k], Listener[k]} /\ link[k] = "up"
                  THEN "cut" ELSE link[k]]
    /\ status' = [e \in End |->
                    IF Owner(e) = p /\ status[e] # "idle"
                    THEN "removed" ELSE status[e]]
    /\ greeted' = {e \in greeted : Owner(e) # p}
    /\ tracker' = [e \in End |-> IF Owner(e) = p THEN EmptyMap ELSE tracker[e]]
    /\ inbox' = [e \in End |-> IF Owner(e) = p THEN <<>> ELSE box[e]]
-----------------------------------------------------------------------------
(***************************************************************************)
(* The handshake.                                                          *)
(***************************************************************************)

\* Relay.connect_to: the constructor of Connection connects and sends the
\* Request; tracker and websocket are not ready.
ConnectTo(k) ==
    /\ link[k] = "unused"
    /\ ~InBatch(Dialer[k])
    /\ link' = [link EXCEPT ![k] = "up"]
    /\ status' = [status EXCEPT ![<<k, "client">>] = "opening"]
    /\ UNCHANGED <<store, greeted, tracker, inbox>>

\* Faulty: a listener greets a peer that may not write, too.
GreetsEveryone(k) == <<Greeting(store[Listener[k]])>>

\* A listener greets, or sends the read-only signal instead.
ServerGreeting(k) ==
    IF k \in ReadOnly THEN <<>> ELSE <<Greeting(store[Listener[k]])>>

\* Relay._on_listener_ready and the Request branch of Connection.receive.
AcceptRequest(k) ==
    LET e == <<k, "server">>
    IN  /\ link[k] = "up"
        /\ status[e] = "idle"
        /\ ~InBatch(Listener[k])
        /\ \E failed \in Failures({e}) :
              /\ status' = [status EXCEPT ![e] =
                              IF e \in failed THEN "dead" ELSE "open"]
              /\ link' = LinksWithout(failed)
              /\ inbox' = Posted(inbox, {e},
                              <<Accept>> \o
                                (IF e \in failed THEN <<>> ELSE ServerGreeting(k)))
        /\ UNCHANGED <<store, greeted, tracker>>

\* The Request branch refuses: no permission, another protocol, or no
\* greeting.  Finished removes the Connection and the loop closes it.
RejectRequest(k) ==
    LET e == <<k, "server">>
    IN  /\ link[k] = "up"
        /\ status[e] = "idle"
        /\ ~InBatch(Listener[k])
        /\ status' = [status EXCEPT ![e] = "removed"]
        /\ link' = LinksWithout({e})
        /\ UNCHANGED <<store, greeted, tracker, inbox>>

\* The AcceptConnection branch of Connection.receive: the client greets.
ReceiveAccept(e) ==
    /\ status[e] = "opening"
    /\ ~InBatch(Owner(e))
    /\ inbox[e] # <<>>
    /\ Head(inbox[e]) = Accept
    /\ \E failed \in Failures({e}) : \E left \in Left(e, failed) :
          /\ status' = [status EXCEPT ![e] =
                          IF e \in failed THEN "dead" ELSE "open"]
          /\ link' = LinksWithout(failed)
          /\ inbox' = Drained(Posted(Consumed(e), {e} \ failed,
                                     <<Greeting(store[Owner(e)])>>), left)
    /\ UNCHANGED <<store, greeted, tracker>>
-----------------------------------------------------------------------------
(***************************************************************************)
(* Relay._on_connection_ready.                                             *)
(***************************************************************************)

Reading(e, type) ==
    /\ status[e] = "open"
    /\ ~InBatch(Owner(e))
    /\ inbox[e] # <<>>
    /\ Head(inbox[e]).type = type

\* The bundles a store has beyond a peer's map.
Missing(map, have) ==
    UNION {{Bundle(c, i) : i \in (map[c] + 1) .. have[c]} : c \in Chain}

\* Faulty: the bundles of a chain are offered in any order.
OffersUnordered(map, have) ==
    LET todo == Missing(map, have)
    IN  {s \in [1 .. Cardinality(todo) -> todo] :
            \A b \in todo : \E n \in DOMAIN s : s[n] = b}

\* Faulty: nothing is sent in answer to a greeting.
OffersNothing(map, have) == {<<>>}

(***************************************************************************)
(* get_bundles(connection.send_bundle) offers the bundles of the store in  *)
(* the order of their timestamps: a chain's bundles in chain order, those  *)
(* of different chains in any order.  send_bundle skips what the peer has. *)
(***************************************************************************)
Offers(map, have) ==
    LET todo == Missing(map, have)
    IN  {s \in [1 .. Cardinality(todo) -> todo] :
            /\ \A b \in todo : \E n \in DOMAIN s : s[n] = b
            /\ \A m, n \in DOMAIN s :
                  m < n /\ s[m].chain = s[n].chain => s[m].number < s[n].number}

\* Faulty: chains that the greeting does not list have no entry.
GreetedWithoutDefault(map, have) ==
    [c \in {d \in Chain : map[d] > 0} |-> IF map[c] < have[c] THEN have[c] ELSE map[c]]

Greeted(map, have) ==
    [c \in Chain |-> IF map[c] < have[c] THEN have[c] ELSE map[c]]

\* A greeting: the map in it becomes the tracker, what the peer is missing
\* is sent, then the INITIAL_BUNDLES_SENT signal (whose send may fail).
ReceiveGreeting(e) ==
    LET map == Head(inbox[e]).has
        mine == store[Owner(e)]
    IN  /\ Reading(e, "greeting")
        /\ greeted' = greeted \cup {e}
        /\ tracker' = [tracker EXCEPT ![e] = Greeted(map, mine)]
        /\ \E offered \in Offers(map, mine), failed \in Failures({e}) :
           \E left \in Left(e, failed) :
              /\ inbox' = Drained(Posted(Consumed(e), {e}, offered), left)
              /\ status' = Closed(failed)
              /\ link' = LinksWithout(failed)
        /\ UNCHANGED store

\* A send of those bundles fails: the next send on the closed connection
\* raises ValueError, which nothing catches.
ReceiveGreetingRaises(e) ==
    LET map == Head(inbox[e]).has
        p == Owner(e)
    IN  /\ SendsFail
        /\ Reading(e, "greeting")
        /\ \E offered \in Offers(map, store[p]) : \E n \in 1 .. Len(offered) :
              Dies(p, Posted(inbox, {e}, SubSeq(offered, 1, n - 1)))
        /\ UNCHANGED store

\* Faulty: the bundle is noted on every connection, not on the one it came from.
NotedOnAll(e, c, i) == Marked(tracker, greeted, c, i)

\* The trackers after receive_objects has noted that the peer has the bundle.
Noted(e, c, i) == Marked(tracker, {e} \cap greeted, c, i)

\* A bundle the store already has: only acknowledged.
ReceiveDuplicate(e) ==
    LET b == Head(inbox[e])
    IN  /\ Reading(e, "bundle")
        /\ AlreadySeen(store[Owner(e)][b.chain], b.number)
        /\ tracker' = Noted(e, b.chain, b.number)
        /\ \E failed \in Failures({e}) : \E left \in Left(e, failed) :
              /\ inbox' = Drained(Consumed(e), left)
              /\ status' = Closed(failed)
              /\ link' = LinksWithout(failed)
        /\ UNCHANGED <<store, greeted>>

\* A new bundle: applied to the store, offered to every peer, acknowledged.
ReceiveBundle(e) ==
    LET b == Head(inbox[e])
        p == Owner(e)
        c == b.chain
        i == b.number
        trk == Noted(e, c, i)
        to == Targets(p, trk, c, i)
    IN  /\ Reading(e, "bundle")
        /\ is_needed(store[p][c], i)
        /\ Raising(p, trk, c, i) = {}
        /\ store' = [store EXCEPT ![p][c] = i]
        /\ tracker' = Marked(trk, to, c, i)
        /\ \E failed \in Failures(to \cup {e}) : \E left \in Left(e, failed) :
              /\ inbox' = Drained(Posted(Consumed(e), to \ failed, <<b>>), left)
              /\ status' = Closed(failed)
              /\ link' = LinksWithout(failed)
        /\ UNCHANGED greeted

\* The handler of a bundle raises: the bundle's predecessor is missing from
\* the store, or (after the store has applied it) send_bundle raises.
ReceiveBundleRaises(e) ==
    LET b == Head(inbox[e])
        p == Owner(e)
        c == b.chain
        i == b.number
        trk == Noted(e, c, i)
        needed == is_needed(store[p][c], i)
    IN  /\ Reading(e, "bundle")
        /\ MissingPrior(store[p][c], i) \/ (needed /\ Raising(p, trk, c, i) # {})
        /\ store' = IF needed THEN [store EXCEPT ![p][c] = i] ELSE store
        /\ \E to \in IF needed THEN Reached(p, trk, c, i) ELSE {{}} :
              Dies(p, Posted(inbox, to, <<b>>))

\* The rest of a batch on a connection that one of its sends has closed: the
\* next bundle is handled and its acknowledgement raises ValueError, as does
\* the answer to a greeting.
ReceiveClosed(e) ==
    LET m == Head(inbox[e])
        p == Owner(e)
        needed == m.type = "bundle" /\ is_needed(store[p][m.chain], m.number)
    IN  /\ status[e] = "dead"
        /\ inbox[e] # <<>>
        /\ store' = IF needed THEN [store EXCEPT ![p][m.chain] = m.number] ELSE store
        /\ \E to \in IF needed
                    THEN Reached(p, Noted(e, m.chain, m.number), m.chain, m.number)
                    ELSE {{}} :
              Dies(p, Posted(inbox, to, <<m>>))

\* EOF, a reset or a CloseConnection is read: Finished.  What was still in
\* the queue may be lost.
ReceiveEof(e) ==
    /\ status[e] \in {"opening", "open"}
    /\ ~InBatch(Owner(e))
    /\ link[e[1]] = "cut"
    /\ status' = [status EXCEPT ![e] = "removed"]
    /\ greeted' = greeted \ {e}
    /\ tracker' = [tracker EXCEPT ![e] = EmptyMap]
    /\ inbox' = [inbox EXCEPT ![e] = <<>>]
    /\ UNCHANGED <<store, link>>
-----------------------------------------------------------------------------
(***************************************************************************)
(* The local user and the environment.                                     *)
(***************************************************************************)

\* BoundBundler.commit: the next bundle of the writer's chain is applied to
\* the store and offered to every peer.  If send_bundle raises, so does
\* commit, after the store has applied the bundle; the process goes on.
Commit(c) ==
    LET p == Writer[c]
        i == store[p][c] + 1
    IN  /\ i <= MaxBundles
        /\ ~InBatch(p)
        /\ store' = [store EXCEPT ![p][c] = i]
        /\ \E to \in Reached(p, tracker, c, i) : \E failed \in Failures(to) :
              /\ to # Targets(p, tracker, c, i) =>
                    Raising(p, tracker, c, i) # {} \/ failed # {}
              /\ tracker' = Marked(tracker, to, c, i)
              /\ inbox' = Drained(Posted(inbox, to \ failed, <<Bundle(c, i)>>), failed)
              /\ status' = Closed(failed)
              /\ link' = LinksWithout(failed)
        /\ UNCHANGED greeted

\* The network drops a connection.
CutLink(k) ==
    /\ link[k] = "up"
    /\ link' = [link EXCEPT ![k] = "cut"]
    /\ UNCHANGED <<store, status, greeted, tracker, inbox>>

\* Faulty: what was stored does not survive the process.
CrashLosesStore(p) ==
    /\ \E e \in End : Owner(e) = p /\ status[e] \in {"opening", "open", "dead"}
    /\ Dies(p, inbox)
    /\ store' = [store EXCEPT ![p] = EmptyMap]

\* The process of p crashes and restarts on the same store.  This is also what
\* an exception does that leaves the loop from any other place, such as the
\* socket.send calls of the handshake.
Crash(p) ==
    /\ \E e \in End :
          /\ Owner(e) = p
          /\ status[e] \in {"opening", "open", "dead"} \/ link[e[1]] = "up"
    /\ Dies(p, inbox)
    /\ UNCHANGED store

-----------------------------------------------------------------------------
Handler(e) ==
    \/ ReceiveAccept(e)
    \/ ReceiveGreeting(e)
    \/ ReceiveGreetingRaises(e)
    \/ ReceiveDuplicate(e)
    \/ ReceiveBundle(e)
    \/ ReceiveBundleRaises(e)
    \/ ReceiveClosed(e)
    \/ ReceiveEof(e)

Next ==
    \/ \E k \in Conn : ConnectTo(k)
    \/ \E k \in Conn : AcceptRequest(k)
    \/ \E k \in Conn : RejectRequest(k)
    \/ \E k \in Conn : CutLink(k)
    \/ \E e \in End : Handler(e)
    \/ \E c \in Chain : Commit(c)
    \/ \E p \in Instance : Crash(p)

Spec == Init /\ [][Next]_vars

(***************************************************************************)
(* The select loop of every instance keeps reading: a queued message and a *)
(* pending request are eventually handled (looping.loop polls every        *)
(* registered selectable).  Nothing is assumed of users and the network.   *)
(***************************************************************************)
Fairness ==
    /\ \A e \in End : WF_vars(Handler(e))
    /\ \A k \in Conn : WF_vars(AcceptRequest(k) \/ RejectRequest(k))

FairSpec == Spec /\ Fairness
-----------------------------------------------------------------------------
(***************************************************************************)
(* Properties.                                                             *)
(***************************************************************************)

\* Bundle i of chain c is in the queue s.
Queued(s, c, i) == \E n \in 1 .. Len(s) : s[n] = Bundle(c, i)

\* What message m claims or carries is in the store of its sender.
Truthful(m, have) ==
    /\ m.type = "greeting" => \A c \in Chain : m.has[c] <= have[c]
    /\ m.type = "bundle" => 1 <= m.number /\ m.number <= have[m.chain]

(***************************************************************************)
(* Every message in flight tells the truth about its sender's store: a     *)
(* greeting claims, and a bundle is, something the sender holds (it is     *)
(* what get_has_map, get_bundles and _on_bundle read).  Peers mark their   *)
(* trackers from these messages.                                           *)
(***************************************************************************)
SentIsHeld ==
    \A e \in End : \A n \in 1 .. Len(inbox[e]) :
        Truthful(inbox[e][n], store[Owner(Other(e))])

\* In queue s, the predecessor of every bundle comes before it or is held.
NoGap(s, have) ==
    \A n \in 1 .. Len(s) : s[n].type = "bundle" =>
        \/ s[n].number <= have[s[n].chain] + 1
        \/ \E m \in 1 .. (n - 1) : s[m] = Bundle(s[n].chain, s[n].number - 1)

(***************************************************************************)
(* No gap in flight: the predecessor of a bundle queued for an instance is *)
(* in its store or queued before it on the same connection.  So            *)
(* utilities.is_needed never raises "Bundle received without prior link in *)
(* chain!", which would end the receiving process, whatever was lost,      *)
(* duplicated over several connections or raced with a greeting.           *)
(***************************************************************************)
NoGapInFlight == \A e \in End : NoGap(inbox[e], store[Owner(e)])

(***************************************************************************)
(* A tracker never overestimates a peer it can still reach: what           *)
(* Connection._tracker says the peer has is in the peer's store, or queued *)
(* for it on this connection.  An overestimate would mean a bundle that    *)
(* send_bundle skips and the peer never gets.                              *)
(***************************************************************************)
TrackerIsSound ==
    \A f \in greeted : link[f[1]] = "up" =>
        \A c \in Chain :
            \/ tracker[f][c] <= store[Owner(Other(f))][c]
            \/ Queued(inbox[Other(f)], c, tracker[f][c])

(***************************************************************************)
(* Everything in the store has been offered to every peer that has         *)
(* greeted: "Newly received bundles are offered to other connected peers"  *)
(* (docs/syncing.md:15).  It also is what keeps send_bundle from raising   *)
(* "bundle would be an invalid extension!".                                *)
(***************************************************************************)
OfferedToEveryPeer ==
    \A f \in greeted : status[f] = "open" =>
        \A c \in Chain : store[Owner(f)][c] <= tracker[f][c]

(***************************************************************************)
(* A listener that granted no write permission is sent no bundle: it sent  *)
(* the READ_ONLY_CONNECTION signal in place of its greeting, and           *)
(* send_bundle returns early while _tracker is None.  (The receiving side  *)
(* does not look at the permissions again.)                                *)
(***************************************************************************)
ReadOnlyIsRespected ==
    \A k \in ReadOnly : \A n \in 1 .. Len(inbox[<<k, "server">>]) :
        inbox[<<k, "server">>][n].type # "bundle"

(***************************************************************************)
(* A bundle that one end of a connection holds reaches the other end's     *)
(* store, unless the connection is lost or does not let that end write.    *)
(***************************************************************************)
Writable(e) == e[2] = "server" \/ e[1] \notin ReadOnly

Delivery ==
    \A e \in End, c \in Chain, i \in 1 .. MaxBundles :
        Writable(e) =>
            (link[e[1]] = "up" /\ store[Owner(e)][c] >= i)
              ~> (link[e[1]] = "cut" \/ store[Owner(Other(e))][c] >= i)

(***************************************************************************)
(* Whatever the connections do, the stores behave as ReplicatedChains: a   *)
(* store only grows, by the next bundle of a chain, and never beyond what  *)
(* the other instances hold, except where the writer of the chain commits. *)
(***************************************************************************)
Abstract == INSTANCE ReplicatedChains

ImplementsReplicatedChains == Abstract!Spec
=============================================================================
