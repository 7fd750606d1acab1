---------------------------- MODULE BraidServer ----------------------------
(***************************************************************************)
(* A server that gives each client a part of one store                     *)
(* (python/gink/impl/braid_server.py, braid.py).                           *)
(*                                                                         *)
(* A braid says which chains belong together, and how far into each.  A    *)
(* client that connects is put on a braid: it is greeted with, and sent,   *)
(* only what is in the braid.  A chain that a client starts, or that it    *)
(* brings with it from elsewhere, joins its braid.  Bundles that the       *)
(* server's data relay gets from anyone are passed on to those on a braid  *)
(* with the chain, through an index from chains to connections that is     *)
(* kept up to date as connections and chains come and go.                  *)
(*                                                                         *)
(* Clients are relays as in PeerSync, with one connection at a time.  They *)
(* may go at any time, also before the server has read their request.  A   *)
(* send fails only if the client is gone: those that are there keep up.    *)
(***************************************************************************)
EXTENDS HasMap, Sequences, FiniteSets, Functions

CONSTANTS Client,       \* instances that connect to the server
          Writer,       \* Writer[ch]: the client that extends chain ch
          Braid,        \* braids
          Initial,      \* Initial[b][ch]: the limits at first, see limit
          Conn,         \* connections; each is used once
          ClientOf,     \* ClientOf[k]: who dials it
          BraidOf,      \* braid_func: what the server puts it on
          ReadOnly,     \* the connections without the right to write
          Server,       \* the server's data relay
          MaxLen        \* bound: bundles of a chain

\* The limit of a chain that is recognized as a whole.
inf == MaxLen + 1

ASSUME ConstantsAssumption ==
    /\ Server \notin Client
    /\ Writer \in [Chain -> Client]
    /\ ClientOf \in [Conn -> Client]
    /\ BraidOf \in [Conn -> Braid]
    /\ ReadOnly \subseteq Conn
    /\ MaxLen \in Nat /\ IsFiniteSet(Chain)
    /\ Initial \in [Braid -> [Chain -> 0 .. MaxLen + 1]]

VARIABLES
    held,           \* held[p]: what p has, a HasMap
    limit,          \* limit[b][ch]: the number of the bundle that has the time
                    \* of the limit, or inf; 0 if the chain is not in the braid
    status,         \* status[k]: "idle", "dialled", "left" (the client is gone
                    \* before it was answered), "up", "lost" (it is gone after
                    \* that), "closed" (by a send that failed), "done"
    tracked,        \* tracked[k]: whether the server's end has a _tracker
    tracker,        \* tracker[k]: that _tracker
    known,          \* known[k]: whether the client's end has one
    remote,         \* remote[k]: that one
    to_server,      \* to_server[k]: messages on the way
    to_client,      \* to_client[k]
    on_braid,       \* the keys of _connection_braid_map
    members,        \* members[b]: _braid_connection_map
    subscribers,    \* subscribers[ch]: _chain_connections_map
    crashed,        \* whether an exception left the server's event loop
    late,           \* history: chains that joined a braid when they were in the
                    \* store, with that braid
    cause           \* history: where that exception came from

clients == <<held, known, remote>>
index == <<on_braid, members, subscribers>>
vars == <<held, limit, status, tracked, tracker, known, remote, to_server, to_client,
          on_braid, members, subscribers, crashed, late, cause>>

Accept == [type |-> "accept"]
Greeting(map) == [type |-> "greeting", has |-> map]
Bundle(ch, i) == [type |-> "bundle", chain |-> ch, number |-> i]

Bundles == [type : {"bundle"}, chain : Chain, number : 1 .. MaxLen]
Message == {Accept} \cup [type : {"greeting"}, has : [Chain -> 0 .. MaxLen]] \cup Bundles

\* A read, a send, or a bundle that is received and passed on.
Nowhere == [where |-> "nowhere"]
Reading == [where |-> "reading"]
Sending == [where |-> "sending"]
Passing(ch) == [where |-> "passing", chain |-> ch]

TypeOK ==
    /\ held \in [Client \cup {Server} -> [Chain -> 0 .. MaxLen]]
    /\ limit \in [Braid -> [Chain -> 0 .. inf]]
    /\ status \in [Conn -> {"idle", "dialled", "left", "up", "lost", "closed", "done"}]
    /\ tracked \in [Conn -> BOOLEAN] /\ known \in [Conn -> BOOLEAN]
    /\ tracker \in [Conn -> [Chain -> 0 .. MaxLen]]
    /\ remote \in [Conn -> [Chain -> 0 .. MaxLen]]
    /\ to_server \in [Conn -> Seq(Message)] /\ to_client \in [Conn -> Seq(Message)]
    /\ on_braid \subseteq Conn
    /\ members \in [Braid -> SUBSET Conn]
    /\ subscribers \in [Chain -> SUBSET Conn]
    /\ crashed \in BOOLEAN
    /\ cause \in {Nowhere, Reading, Sending} \cup {Passing(ch) : ch \in Chain}
    /\ late \subseteq Braid \X Chain

Init ==
    /\ held = [p \in Client \cup {Server} |-> EmptyMap]
    /\ limit = Initial
    /\ status = [k \in Conn |-> "idle"]
    /\ tracked = [k \in Conn |-> FALSE] /\ known = [k \in Conn |-> FALSE]
    /\ tracker = [k \in Conn |-> EmptyMap] /\ remote = [k \in Conn |-> EmptyMap]
    /\ to_server = [k \in Conn |-> <<>>] /\ to_client = [k \in Conn |-> <<>>]
    /\ on_braid = {}
    /\ members = [b \in Braid |-> {}]
    /\ subscribers = [ch \in Chain |-> {}]
    /\ crashed = FALSE
    /\ late = {}
    /\ cause = Nowhere
-----------------------------------------------------------------------------
(***************************************************************************)
(* Braids and the bundles in them.                                         *)
(***************************************************************************)

\* Braid.__contains__.
InBraid(b, ch) == limit[b][ch] # 0

\* Braid.items, Braid.size.
ChainsOf(b) == {ch \in Chain : InBraid(b, ch)}

\* Faulty: chains that are not in the braid are said to be there as a whole.
SubsetClaimed(map, b) == [ch \in Chain |-> IF InBraid(b, ch) THEN map[ch] ELSE inf]

\* HasMap.get_subset, for the chains of a braid.
Subset(map, b) == [ch \in Chain |-> IF InBraid(b, ch) THEN map[ch] ELSE 0]

\* The bundles beyond one map and up to another.
Beyond(from, to) == {m \in Bundles : from[m.chain] < m.number /\ m.number <= to[m.chain]}

\* They are sent by time: a chain in its order, different chains in any.
Between(from, to) ==
    {s \in [1 .. Cardinality(Beyond(from, to)) -> Beyond(from, to)] :
        /\ IsInjective(s)
        /\ \A m, n \in DOMAIN s :
                m < n /\ s[m].chain = s[n].chain => s[m].number < s[n].number}

Lesser(m, n) == IF m < n THEN m ELSE n

\* Faulty: the store is not asked what it has.
AllowedUnchecked(b) == limit[b]

\* get_bundles with limit_to.
Allowed(b) == [ch \in Chain |-> Lesser(held[Server][ch], limit[b][ch])]

Greater(map, other) == [ch \in Chain |-> IF map[ch] < other[ch] THEN other[ch] ELSE map[ch]]
-----------------------------------------------------------------------------
(***************************************************************************)
(* The server passes bundles on.                                           *)
(***************************************************************************)

\* Faulty: sent before the greeting.
WantingAlways(k, ch, i, have) == ~has(have[k], ch, i)

\* send_bundle sends it: there is a _tracker, which does not have the bundle.
Wanting(k, ch, i, have) == tracked[k] /\ ~has(have[k], ch, i)

\* Faulty: a bundle beyond the limit is passed on as well.
PassesBeyond(k, ch, i, lim) == TRUE

\* Faulty: off by one.
PassesShort(k, ch, i, lim) == lim[BraidOf[k]][ch] > i + 1

\* _after_relay_recieves_bundle: the limit is compared.
Passes(k, ch, i, lim) == lim[BraidOf[k]][ch] > i

\* Those that it tries to send the bundle to.
Targets(ch, i, subs, lim, have) ==
    {k \in subs[ch] : Passes(k, ch, i, lim) /\ Wanting(k, ch, i, have)}

\* Faulty: a bundle that does not continue what the peer has is sent.
PassingUnchecked(ch, i, subs, lim, have) == subs[ch] \ on_braid # {}

(***************************************************************************)
(* An exception leaves the loop: there is no braid for the connection, or  *)
(* sending raises, because the connection was closed or the bundle does    *)
(* not continue what the peer has.  _disconnect is called for that, which  *)
(* changes the set that is being iterated, and the iteration then raises.  *)
(***************************************************************************)
PassingRaises(ch, i, subs, lim, have) ==
    \/ subs[ch] \ on_braid # {}
    \/ \E k \in Targets(ch, i, subs, lim, have) :
        status[k] = "closed" \/ ~is_valid_extension(have[k], ch, i)

\* The end of the server's process.
Crashes(where) ==
    /\ crashed' = TRUE
    /\ cause' = where
    /\ UNCHANGED <<held, limit, status, tracked, tracker, known, remote, to_server, to_client,
                   index, late>>

\* A send to one of them raises: that of the acceptance is not guarded; any other
\* closes the connection when it fails, but that sends too, and only a broken pipe
\* is caught there.
SendRaises(to) == (\E k \in to : status[k] \in {"left", "lost"}) /\ Crashes(Sending)

\* Relay.receive, MemoryStore.apply_bundle: it is new.
Stored(ch, i) == is_needed(held[Server][ch], i)

ReceivingRaises(ch, i, subs, lim, have) ==
    \/ MissingPrior(held[Server][ch], i)
    \/ Stored(ch, i) /\ PassingRaises(ch, i, subs, lim, have)

(***************************************************************************)
(* Relay.receive, with the index, the limits and the trackers as they are  *)
(* now: a bundle that is new is passed on.  Then it is acknowledged to     *)
(* those in "ack".  A send to a client that is gone gets lost or fails,    *)
(* which closes the connection and nothing else.                           *)
(***************************************************************************)
Receives(ch, i, subs, lim, have, ack) ==
    LET to == IF Stored(ch, i) THEN Targets(ch, i, subs, lim, have) ELSE {}
    IN  \E fails \in SUBSET {k \in to \cup ack : status[k] = "lost"} :
            /\ held' = IF Stored(ch, i) THEN [held EXCEPT ![Server][ch] = @ + 1] ELSE held
            /\ status' = [k \in Conn |-> IF k \in fails THEN "closed" ELSE status[k]]
            /\ to_client' = [k \in Conn |->
                    IF k \in to /\ status[k] = "up" THEN Append(to_client[k], Bundle(ch, i))
                    ELSE to_client[k]]
            /\ tracker' = [k \in Conn |->
                    IF k \in to THEN mark_as_having(have[k], ch, i) ELSE have[k]]

\* The data relay gets a bundle by a connection of its own.
RelayReceives(ch) ==
    /\ ~crashed
    /\ \E c \in Client : held[Server][ch] < held[c][ch]
    /\ LET i == held[Server][ch] + 1
       IN  IF ReceivingRaises(ch, i, subscribers, limit, tracker) THEN Crashes(Passing(ch))
           ELSE \/ SendRaises(Targets(ch, i, subscribers, limit, tracker))
                \/ /\ Receives(ch, i, subscribers, limit, tracker, {})
                   /\ UNCHANGED <<limit, tracked, known, remote, to_server, index, crashed,
                                  late, cause>>
-----------------------------------------------------------------------------
(***************************************************************************)
(* Connections of the server.                                              *)
(***************************************************************************)

\* A client dials, and is accepted by the listener.
Dial(k) ==
    /\ ~crashed /\ status[k] = "idle"
    /\ \A l \in Conn : ClientOf[l] = ClientOf[k] => status[l] \notin {"dialled", "up"}
    /\ status' = [status EXCEPT ![k] = "dialled"]
    /\ UNCHANGED <<clients, limit, tracked, tracker, to_server, to_client, index, crashed,
                   late, cause>>

\* It goes before the server answers it.
Leave(k) ==
    /\ ~crashed /\ status[k] = "dialled"
    /\ status' = [status EXCEPT ![k] = "left"]
    /\ UNCHANGED <<clients, limit, tracked, tracker, to_server, to_client, index, crashed,
                   late, cause>>

\* _on_listener_ready, _receive_header: there is no request.  A TLS error, or an end,
\* is the end of the connection; a reset leaves the loop.
MissRequest(k) ==
    /\ ~crashed /\ status[k] = "left"
    /\ \/ Crashes(Reading)
       \/ /\ status' = [status EXCEPT ![k] = "done"]
          /\ UNCHANGED <<clients, limit, tracked, tracker, to_server, to_client, index, crashed,
                         late, cause>>

\* The server reads the request.
Requested(k) == ~crashed /\ status[k] \in {"dialled", "left"}

\* It rejects it: permissions, protocol, no braid.
Reject(k) ==
    /\ Requested(k)
    /\ \/ SendRaises({k})
       \/ /\ status' = [status EXCEPT ![k] = "done"]
          /\ UNCHANGED <<clients, limit, tracked, tracker, to_server, to_client, index, crashed,
                         late, cause>>

\* What follows an acceptance: a greeting, or a signal, that is not modelled.
Answer(k) ==
    <<Accept>> \o
        IF k \in ReadOnly THEN <<>> ELSE <<Greeting(Subset(held[Server], BraidOf[k]))>>

\* It accepts it, with _get_greeting: the connection is on its braid and in the index
\* before anything is sent.
Connect(k) ==
    /\ Requested(k)
    /\ \/ SendRaises({k})
       \/ /\ IF status[k] = "dialled"
             THEN /\ status' = [status EXCEPT ![k] = "up"]
                  /\ to_client' = [to_client EXCEPT ![k] = Answer(k)]
             ELSE /\ \E end \in {"lost", "closed"} : status' = [status EXCEPT ![k] = end]
                  /\ UNCHANGED to_client
          /\ on_braid' = on_braid \cup {k}
          /\ members' = [members EXCEPT ![BraidOf[k]] = @ \cup {k}]
          /\ subscribers' = [ch \in Chain |->
                  subscribers[ch] \cup (IF InBraid(BraidOf[k], ch) THEN {k} ELSE {})]
          /\ UNCHANGED <<clients, limit, tracked, tracker, to_server, crashed, late, cause>>

\* Faulty: the connection stays in the index.
DisconnectedFromBraid(k) ==
    /\ on_braid' = on_braid \ {k}
    /\ members' = [members EXCEPT ![BraidOf[k]] = @ \ {k}]
    /\ UNCHANGED subscribers

\* _disconnect.  An empty braid is false, so that the connection stays in
\* _braid_connection_map.
Disconnected(k) ==
    LET b == BraidOf[k]
    IN  /\ on_braid' = on_braid \ {k}
        /\ IF ChainsOf(b) = {} THEN UNCHANGED <<members, subscribers>>
           ELSE /\ members' = [members EXCEPT ![b] = @ \ {k}]
                /\ subscribers' = [ch \in Chain |->
                        IF ch \in ChainsOf(b) THEN subscribers[ch] \ {k} ELSE subscribers[ch]]

\* The client goes; what it sent may not be read any more.
Lose(k) ==
    /\ ~crashed /\ status[k] = "up"
    /\ status' = [status EXCEPT ![k] = "lost"]
    /\ \E n \in 0 .. Len(to_server[k]) :
            to_server' = [to_server EXCEPT ![k] = SubSeq(@, 1, n)]
    /\ to_client' = [to_client EXCEPT ![k] = <<>>]
    /\ known' = [known EXCEPT ![k] = FALSE]
    /\ remote' = [remote EXCEPT ![k] = EmptyMap]
    /\ UNCHANGED <<held, limit, tracked, tracker, index, crashed, late, cause>>

\* The server's end is gone, and its _tracker with it.
Forgotten(k) ==
    /\ tracked' = [tracked EXCEPT ![k] = FALSE]
    /\ tracker' = [tracker EXCEPT ![k] = EmptyMap]

\* The server reads the end of it: Finished.
ReceiveEnd(k) ==
    /\ ~crashed /\ status[k] = "lost" /\ to_server[k] = <<>>
    /\ status' = [status EXCEPT ![k] = "done"]
    /\ Disconnected(k)
    /\ Forgotten(k)
    /\ UNCHANGED <<clients, limit, to_server, to_client, crashed, late, cause>>

\* It reads something else: recv raises another exception than a reset or a timeout,
\* or a close message, the answer to which raises.
MissEnd(k) ==
    /\ ~crashed /\ status[k] = "lost" /\ to_server[k] = <<>>
    /\ Crashes(Reading) \/ Crashes(Sending)

\* The server can read a message, as long as it has not closed the connection.
Readable(k, type) ==
    /\ ~crashed /\ status[k] \in {"up", "lost"}
    /\ to_server[k] # <<>> /\ Head(to_server[k]).type = type

Reads(k) == to_server' = [to_server EXCEPT ![k] = Tail(@)]

\* _on_websocket_ready, a greeting: what the client lacks of the braid, and a
\* signal.  After a send that fails, the next one raises.
ReceiveGreeting(k) ==
    /\ Readable(k, "greeting")
    /\ \E sent \in Between(Head(to_server[k]).has, Allowed(BraidOf[k])) :
           \/ SendRaises({k})
           \/ /\ Reads(k)
              /\ tracked' = [tracked EXCEPT ![k] = TRUE]
              /\ tracker' = [tracker EXCEPT ![k] =
                                Greater(Head(to_server[k]).has, Allowed(BraidOf[k]))]
              /\ \/ /\ to_client' = [to_client EXCEPT ![k] = IF status[k] = "up" THEN @ \o sent ELSE @]
                    /\ UNCHANGED status
                 \/ /\ status[k] = "lost"
                    /\ status' = [status EXCEPT ![k] = "closed"]
                    /\ UNCHANGED to_client
              /\ UNCHANGED <<clients, limit, index, crashed, late, cause>>

\* receive_objects: what is received is had by the peer.
Noted(k, ch, i) ==
    IF tracked[k] THEN [tracker EXCEPT ![k] = mark_as_having(@, ch, i)] ELSE tracker

\* Everyone who is connected to the braid.
Joined(k, ch) == subscribers[ch] \cup members[BraidOf[k]]

\* A bundle.  That of a read-only connection is ignored; one that starts a chain
\* makes the chain join the braid; another one of a chain that is not in the
\* braid ends the connection.
ReceiveBundle(k) ==
    /\ Readable(k, "bundle")
    /\ LET ch   == Head(to_server[k]).chain
           i    == Head(to_server[k]).number
           b    == BraidOf[k]
           join == ~InBraid(b, ch)
           lim  == IF join THEN [limit EXCEPT ![b][ch] = inf] ELSE limit
           subs == IF join THEN [subscribers EXCEPT ![ch] = Joined(k, ch)] ELSE subscribers
           have == Noted(k, ch, i)
       IN  IF k \in ReadOnly
           THEN /\ Reads(k)
                /\ tracker' = have
                /\ UNCHANGED <<clients, limit, status, tracked, to_client, index, crashed, late, cause>>
           ELSE IF join /\ i # 1
           THEN /\ Reads(k)
                /\ status' = [status EXCEPT ![k] = "done"]
                /\ to_client' = [to_client EXCEPT ![k] = <<>>]
                /\ Disconnected(k)
                /\ Forgotten(k)
                /\ UNCHANGED <<clients, limit, crashed, late, cause>>
           ELSE IF ReceivingRaises(ch, i, subs, lim, have) THEN Crashes(Passing(ch))
           ELSE \/ SendRaises({k} \cup IF Stored(ch, i) THEN Targets(ch, i, subs, lim, have)
                                      ELSE {})
                \/ /\ Reads(k)
                   /\ limit' = lim
                   /\ subscribers' = subs
                   /\ late' = IF join /\ ~Stored(ch, i) THEN late \cup {<<b, ch>>} ELSE late
                   /\ Receives(ch, i, subs, lim, have, {k})
                   /\ UNCHANGED <<tracked, known, remote, on_braid, members, crashed, cause>>
-----------------------------------------------------------------------------
(***************************************************************************)
(* Clients.                                                                *)
(***************************************************************************)

\* Relay._on_bundle of c, for a bundle that it has now: to the server, if there
\* was a greeting, and unless the server has it.
Sends(c, ch, i) ==
    LET to == {k \in Conn : ClientOf[k] = c /\ status[k] = "up" /\ known[k] /\ ~has(remote[k], ch, i)}
    IN  /\ to_server' = [k \in Conn |-> IF k \in to THEN Append(to_server[k], Bundle(ch, i))
                                        ELSE to_server[k]]
        /\ remote' = [k \in Conn |-> IF k \in to THEN mark_as_having(remote[k], ch, i)
                                     ELSE remote[k]]

\* A client extends a chain of its own, or gets a bundle from another client.
Obtain(c, ch) ==
    /\ ~crashed
    /\ held[c][ch] < MaxLen
    /\ Writer[ch] = c \/ \E d \in Client : held[c][ch] < held[d][ch]
    /\ held' = [held EXCEPT ![c][ch] = @ + 1]
    /\ Sends(c, ch, held[c][ch] + 1)
    /\ UNCHANGED <<limit, status, tracked, tracker, known, to_client, index, crashed, late, cause>>

\* The client reads a message.
Takes(k, type) ==
    /\ ~crashed /\ to_client[k] # <<>> /\ Head(to_client[k]).type = type
    /\ to_client' = [to_client EXCEPT ![k] = Tail(@)]
    /\ UNCHANGED <<limit, status, tracked, tracker, index, crashed, late, cause>>

\* The connection is accepted: it greets the server with all it has.
ClientReceivesAccept(k) ==
    /\ Takes(k, "accept")
    /\ to_server' = [to_server EXCEPT ![k] = Append(@, Greeting(held[ClientOf[k]]))]
    /\ UNCHANGED clients

\* The server's greeting: what the server lacks, as far as it says.
ClientReceivesGreeting(k) ==
    /\ Takes(k, "greeting")
    /\ LET map == Head(to_client[k]).has
           own == held[ClientOf[k]]
       IN  /\ \E sent \in Between(map, own) : to_server' = [to_server EXCEPT ![k] = @ \o sent]
           /\ known' = [known EXCEPT ![k] = TRUE]
           /\ remote' = [remote EXCEPT ![k] = Greater(map, own)]
    /\ UNCHANGED held

\* A bundle; a gap would end the client.
ClientReceivesBundle(k) ==
    /\ Takes(k, "bundle")
    /\ LET ch == Head(to_client[k]).chain
           i  == Head(to_client[k]).number
           c  == ClientOf[k]
       IN  /\ remote' = IF known[k] THEN [remote EXCEPT ![k] = mark_as_having(@, ch, i)] ELSE remote
           /\ held' = IF is_needed(held[c][ch], i) THEN [held EXCEPT ![c][ch] = i] ELSE held
    /\ UNCHANGED <<known, to_server>>

Next ==
    \/ \E ch \in Chain : RelayReceives(ch) \/ \E c \in Client : Obtain(c, ch)
    \/ \E k \in Conn :
        \/ Dial(k) \/ Leave(k) \/ MissRequest(k) \/ Reject(k) \/ Connect(k)
        \/ Lose(k) \/ ReceiveEnd(k) \/ MissEnd(k)
        \/ ReceiveGreeting(k) \/ ReceiveBundle(k)
        \/ ClientReceivesAccept(k) \/ ClientReceivesGreeting(k) \/ ClientReceivesBundle(k)

Spec == Init /\ [][Next]_vars
-----------------------------------------------------------------------------
(***************************************************************************)
(* Properties.                                                             *)
(***************************************************************************)

(***************************************************************************)
(* A client is never sent a bundle that is beyond the limit of its chain   *)
(* in the braid, or of a chain that is not in it: not in the answer to its *)
(* greeting, not when the relay receives one, and not when a chain joins.  *)
(***************************************************************************)
WithinBraid ==
    \A k \in Conn : \A n \in DOMAIN to_client[k] :
        LET m == to_client[k][n]
        IN  m.type = "bundle" => m.number <= limit[BraidOf[k]][m.chain]

(***************************************************************************)
(* The index is what the braids and those connected to them make it,       *)
(* although it is never computed from them: a connection is sent the       *)
(* bundles of a chain if and only if the chain is in its braid.            *)
(***************************************************************************)
IndexAgrees ==
    \A k \in Conn, ch \in Chain :
        k \in subscribers[ch] <=> k \in members[BraidOf[k]] /\ InBraid(BraidOf[k], ch)

\* What the client of k will have of ch when it has read n messages.
WillHave(k, ch, n) ==
    {held[ClientOf[k]][ch]} \cup
        {to_client[k][j].number : j \in {l \in 1 .. n : /\ to_client[k][l].type = "bundle"
                                                       /\ to_client[k][l].chain = ch}}

(***************************************************************************)
(* A client gets every chain without gaps, whether a bundle is an answer   *)
(* to its greeting or comes from another client at that moment, and        *)
(* whatever it gets elsewhere.                                             *)
(***************************************************************************)
NoGapToClient ==
    \A k \in Conn : \A n \in DOMAIN to_client[k] :
        LET m == to_client[k][n]
        IN  m.type = "bundle" =>
                \E have \in WillHave(k, m.chain, n - 1) : m.number - 1 <= have

(***************************************************************************)
(* Who has greeted the server has been sent all that the server has of the *)
(* braid, or had it: there is no moment between the greeting and the live  *)
(* bundles at which one is missed.  Except for the bundle at the limit,    *)
(* which is not passed on live, and for chains that were in the store when *)
(* they joined the braid, of which those connected are sent nothing.       *)
(***************************************************************************)
CaughtUp ==
    \A k \in on_braid : \A ch \in ChainsOf(BraidOf[k]) :
        ~crashed /\ status[k] = "up" /\ tracked[k] /\ <<BraidOf[k], ch>> \notin late =>
            tracker[k][ch] >= Lesser(held[Server][ch], limit[BraidOf[k]][ch] - 1)

(***************************************************************************)
(* What ends the server's loop.  A read or a send raises only for a client *)
(* that is gone.  That a bundle is received and passed on raises, whatever *)
(* clients send and in whatever order, only at a connection that is in the *)
(* way of its chain: it was closed by a send that failed, and still lacks  *)
(* the bundle; the chain joined its braid late, so that the bundle does    *)
(* not continue what it has; or it is done with, but in the index for      *)
(* ever, as it was when it ended with its braid still empty.               *)
(***************************************************************************)
InTheWay(k, ch) ==
    \/ /\ k \in on_braid /\ tracked[k]
       /\ \/ status[k] = "closed" /\ tracker[k][ch] <= held[Server][ch]
          \/ <<BraidOf[k], ch>> \in late /\ tracker[k][ch] < held[Server][ch]
    \/ k \in members[BraidOf[k]] \ on_braid /\ status[k] = "done"

OnlyKnownCrashes ==
    crashed =>
        \/ cause \in {Reading, Sending} /\ \E k \in Conn : status[k] \in {"left", "lost"}
        \/ \E ch \in Chain : cause = Passing(ch) /\ \E k \in Conn : InTheWay(k, ch)

\* What the server and its clients hold.
Replicated ==
    INSTANCE ReplicatedChains WITH
        Instance <- Client \cup {Server}, Chain <- Chain, Writer <- Writer, store <- held

(***************************************************************************)
(* Server and clients together are replicas of the chains: each only moves *)
(* to the next bundle of a chain, which another one holds or which it      *)
(* signs itself.                                                           *)
(***************************************************************************)
ImplementsReplicatedChains == Replicated!Spec
=============================================================================
