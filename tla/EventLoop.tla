----------------------------- MODULE EventLoop -----------------------------
(***************************************************************************)
(* The select loop of a process (python/gink/impl/looping.py) with a relay *)
(* and what it selects from: the server's socket pair (server.py), its     *)
(* listener (listener.py), its store's file watcher, a web listener        *)
(* (wsgi_listener.py), a console (selectable_console.py), and connections  *)
(* (connection.py, relay.py), which come and go and reuse file numbers.    *)
(*                                                                         *)
(* A select gives a batch of things that are ready; they are handled one   *)
(* after the other, and what one handler does may concern another that is  *)
(* still in the batch.  An exception other than Finished ends the loop.    *)
(***************************************************************************)
EXTENDS Integers, FiniteSets

CONSTANTS Conn,         \* connections; one that is forgotten is used again
          Fd,           \* file numbers for them
          NoConn,       \* no connection
          MaxLines      \* bound: lines on the console and changes of the store

\* What is always there and never closed.
Fixed == {"server", "listener", "web listener", "console", "store"}

ASSUME ConstantsAssumption ==
    /\ IsFiniteSet(Conn) /\ IsFiniteSet(Fd) /\ Fd \subseteq Nat \ {0}
    /\ Cardinality(Fd) >= Cardinality(Conn)
    /\ NoConn \notin Conn
    /\ Conn \cap Fixed = {}
    /\ MaxLines \in Nat

VARIABLES
    fd,             \* fd[c]: the number of its socket; -1 when it is closed, 0
                    \* when there is no such connection
    web,            \* the connections that are for web requests
    websocket,      \* the connections with _is_websocket: the outgoing ones, and
                    \* others when the header of their request has come
    ws_connected,   \* the connections with _ws_connected: accepted
    greeted,        \* the connections with a _tracker
    inbox,          \* inbox[c]: what there is to read
    broken,         \* broken[c]: how sending to c fails, if it does
    connections,    \* Relay._connections
    selectables,    \* Server._selectables, as far as they are connections
    wakeups,        \* the bytes in the server's socket pair
    backlog,        \* who waits at the listeners
    registered,     \* registered in loop, as far as they are connections
    fd_mappings,    \* fd_mappings in loop, likewise
    keys,           \* the selector's own map from file numbers to connections
    watched,        \* the connections the kernel watches for the selector
    batch,          \* what is ready and not yet handled
    lines,          \* lines on the console and changes of the store so far
    status,         \* of the loop
    failed          \* history: a Connection.send has failed

phases == <<web, websocket, ws_connected, greeted>>
conns == <<fd, phases, inbox, broken>>
relay == <<connections, selectables, wakeups, backlog>>
maps == <<registered, fd_mappings, keys, watched>>
vars == <<conns, relay, maps, batch, lines, status, failed>>

\* What can be read.  "upgrade" and "request": the header of a request for a
\* websocket, and of any other; "accept": the answer to ours.  "end": the end of
\* the stream, a close message or a rejection; "reset": recv raises
\* ConnectionResetError or TimeoutError; "error": reading raises what nothing
\* catches, such as SSLError, or an error about a header that makes no sense.
Ends == {"end", "reset", "error"}
What == {"upgrade", "request", "accept", "greeting", "bundle"} \cup Ends

\* Who connects.  "failing": its TLS handshake raises what nothing catches.
Clients == {"peer", "failing", "web"}

\* "unhandled": an exception of a handshake, a read, or a send that is not
\* Connection.send has left the loop; "crashed", "assertion failed": any other.
Statuses == {"running", "stopping", "stopped", "unhandled", "crashed", "assertion failed"}

TypeOK ==
    /\ fd \in [Conn -> Fd \cup {0, -1}]
    /\ web \subseteq Conn
    /\ websocket \subseteq Conn
    /\ ws_connected \subseteq Conn
    /\ greeted \subseteq Conn
    /\ inbox \in [Conn -> SUBSET What]
    /\ broken \in [Conn -> {"no", "pipe", "timeout"}]
    /\ connections \subseteq Conn
    /\ selectables \subseteq Conn
    /\ wakeups \in 0 .. MaxLines + 2
    /\ backlog \subseteq Clients
    /\ registered \subseteq Conn
    /\ fd_mappings \in [Fd -> Conn \cup {NoConn}]
    /\ keys \in [Fd -> Conn \cup {NoConn}]
    /\ watched \subseteq Conn
    /\ batch \subseteq Conn \cup Fixed
    /\ lines \in 0 .. MaxLines
    /\ status \in Statuses
    /\ failed \in BOOLEAN

Init ==
    /\ fd = [c \in Conn |-> 0]
    /\ web = {}
    /\ websocket = {}
    /\ ws_connected = {}
    /\ greeted = {}
    /\ inbox = [c \in Conn |-> {}]
    /\ broken = [c \in Conn |-> "no"]
    /\ connections = {}
    /\ selectables = {}
    /\ wakeups = 0
    /\ backlog = {}
    /\ registered = {}
    /\ fd_mappings = [n \in Fd |-> NoConn]
    /\ keys = [n \in Fd |-> NoConn]
    /\ watched = {}
    /\ batch = {}
    /\ lines = 0
    /\ status = "running"
    /\ failed = FALSE
-----------------------------------------------------------------------------
(***************************************************************************)
(* The world: it connects, sends, closes, and stops to receive.  What      *)
(* arrives while a batch is handled waits for the next select, as a batch  *)
(* reads no more than once from anything: so it arrives when the batch is  *)
(* done.  Sending may begin to fail at any time.                           *)
(***************************************************************************)
Runs == status \in {"running", "stopping"}
Open(c) == fd[c] > 0
Closed(c) == fd[c] = -1
Fresh == {c \in Conn : fd[c] = 0}

\* One waits at a listener at a time: a batch takes no more than one from it.
\* Bound: no one connects when no connection of the model is left.
ClientConnects(type) ==
    /\ Runs /\ batch = {}
    /\ type # "web" => backlog \subseteq {"web"}
    /\ Fresh # {}
    /\ backlog' = backlog \cup {type}
    /\ UNCHANGED <<conns, connections, selectables, wakeups, maps, batch, lines, status, failed>>

PeerSends(c, what) ==
    /\ Runs /\ batch = {} /\ Open(c) /\ inbox[c] \cap Ends = {}
    /\ what \in {"upgrade", "request"} => c \notin websocket /\ inbox[c] = {}
    /\ what = "upgrade" => c \notin web
    /\ what = "accept" => c \in websocket \ ws_connected
    /\ what = "greeting" => c \in ws_connected \ greeted
    /\ what = "bundle" => c \in greeted
    /\ inbox' = [inbox EXCEPT ![c] = @ \cup {what}]
    /\ UNCHANGED <<fd, phases, broken, relay, maps, batch, lines, status, failed>>

\* From now on a send to c fails; "pipe": what close sends then raises
\* BrokenPipeError, "timeout": it raises something else.  close sends nothing on
\* a web connection.
PeerStopsReceiving(c, how) ==
    /\ Runs /\ Open(c) /\ broken[c] = "no"
    /\ c \in web => how = "timeout"
    /\ broken' = [broken EXCEPT ![c] = how]
    /\ UNCHANGED <<fd, phases, inbox, relay, maps, batch, lines, status, failed>>
-----------------------------------------------------------------------------
(***************************************************************************)
(* The loop.                                                               *)
(***************************************************************************)

\* The file number a new socket gets is the lowest one that is free.
FreeFd == {n \in Fd : \A c \in Conn : fd[c] # n}
NewFd == CHOOSE n \in FreeFd : \A m \in FreeFd : n <= m

\* add, for open connections with these numbers: one that has the number of
\* another, which was closed without Finished, takes its place.
Add(S, number) ==
    LET news == {c \in S : c \notin registered}
        taken == {fd_mappings[number[c]] : c \in news} \ {NoConn}
        Placed(map) == [n \in Fd |-> IF \E c \in news : number[c] = n
                                     THEN CHOOSE c \in news : number[c] = n ELSE map[n]]
    IN  /\ registered' = (registered \ taken) \cup news
        /\ fd_mappings' = Placed(fd_mappings)
        /\ keys' = Placed(keys)
        /\ watched' = watched \cup news

\* What there is to read: the selector knows connections by their numbers.
Ready ==
    {keys[fd[c]] : c \in {d \in watched : inbox[d] # {}}}
    \cup (IF wakeups > 0 THEN {"server"} ELSE {})
    \cup (IF backlog \subseteq {"web"} THEN {} ELSE {"listener"})
    \cup (IF "web" \in backlog THEN {"web listener"} ELSE {})

\* selector.select.  There may be input on the console or for the store.
Select ==
    /\ status = "running" /\ batch = {}
    /\ \E inputs \in SUBSET {"console", "store"} :
        /\ lines' = lines + Cardinality(inputs)
        /\ batch' = Ready \cup inputs
    /\ lines' <= MaxLines
    /\ batch' # {}
    /\ UNCHANGED <<conns, relay, maps, status, failed>>

\* The end of the loop, when the batch of the console's end is done.
Stop ==
    /\ status = "stopping" /\ batch = {}
    /\ status' = "stopped"
    /\ registered' = {} /\ keys' = [n \in Fd |-> NoConn] /\ watched' = {}
    /\ UNCHANGED <<conns, relay, fd_mappings, batch, lines, failed>>

\* Something of the batch is handled.
Handles(x) ==
    /\ Runs
    /\ x \in batch
    /\ batch' = batch \ {x}

\* An exception leaves the loop; nothing else matters after that.
Crashes(how) ==
    /\ status' = how
    /\ UNCHANGED <<conns, relay, maps, lines>>

Unhandled == Crashes("unhandled") /\ UNCHANGED failed

\* Faulty: the number stays in fd_mappings.
UnregisterLeavingMapping(c) ==
    /\ keys' = [n \in Fd |-> IF keys[n] = c THEN NoConn ELSE keys[n]]
    /\ UNCHANGED fd_mappings

\* unregister, and fd_mappings.pop.
Unregister(c) ==
    /\ keys' = [n \in Fd |-> IF keys[n] = c THEN NoConn ELSE keys[n]]
    /\ fd_mappings' = [fd_mappings EXCEPT ![fd[c]] = NoConn]

\* Faulty: the connection is closed before Finished is raised.
FinishedAfterClose(c, told) ==
    Crashes("assertion failed") /\ UNCHANGED failed

\* The loop takes a connection out and closes it.  The relay has forgotten it
\* if gone; if not, it keeps a closed connection.
TakenOut(c, gone) ==
    /\ connections' = connections \ gone
    /\ selectables' = selectables \ gone
    /\ Unregister(c)
    /\ registered' = registered \ {c}
    /\ watched' = watched \ {c}
    /\ fd' = [fd EXCEPT ![c] = IF c \in gone THEN 0 ELSE -1]
    /\ web' = web \ gone
    /\ websocket' = websocket \ gone
    /\ ws_connected' = ws_connected \ gone
    /\ greeted' = greeted \ gone
    /\ inbox' = [inbox EXCEPT ![c] = {}]
    /\ broken' = [broken EXCEPT ![c] = "no"]
    /\ UNCHANGED <<wakeups, backlog, lines, status, failed>>

\* Faulty: the relay is never told.
FinishedUntold(c, told) ==
    IF \A n \in Fd : keys[n] # c
    THEN Crashes("crashed") /\ UNCHANGED failed
    ELSE IF ~Open(c)
    THEN Crashes("assertion failed") /\ UNCHANGED failed
    ELSE TakenOut(c, IF c \notin connections THEN {c} ELSE {})

\* Finished reaches the loop.  The relay is told of it by _on_connection_ready,
\* which is not called before the header has come; it has no web connections.
Finished(c, told) ==
    IF \A n \in Fd : keys[n] # c
    THEN Crashes("crashed") /\ UNCHANGED failed
    ELSE IF ~Open(c)
    THEN Crashes("assertion failed") /\ UNCHANGED failed
    ELSE TakenOut(c, IF told \/ c \notin connections THEN {c} ELSE {})

\* A new connection, not yet registered; which of the fresh ones is no matter.
NewConnection(c) ==
    /\ c \in Fresh /\ c = CHOOSE d \in Fresh : TRUE
    /\ fd' = [fd EXCEPT ![c] = NewFd]
    /\ UNCHANGED <<ws_connected, greeted, inbox, broken>>
-----------------------------------------------------------------------------
(***************************************************************************)
(* Sending.                                                                *)
(***************************************************************************)

\* Whom send_bundle sends to: it knows what they have, and c has the bundle.
Receivers(c) == (connections \cap greeted) \ {c}

\* Connection.send raises at once if the connection is closed; if the socket does
\* not take it, close tries to send as well; only a broken pipe is handled there.
Raises(S) == \E p \in S : Closed(p) \/ broken[p] = "timeout"

\* Connections are closed by a send, without the loop or the relay being told;
\* the others have these things to read.
Drops(gone, unread) ==
    /\ fd' = [p \in Conn |-> IF p \in gone THEN -1 ELSE fd[p]]
    /\ inbox' = [p \in Conn |-> IF p \in gone THEN {} ELSE unread[p]]
    /\ broken' = [p \in Conn |-> IF p \in gone THEN "no" ELSE broken[p]]
    /\ watched' = watched \ gone
    /\ failed' = (failed \/ gone # {})

Unreachable(S) == {p \in S : broken[p] = "pipe"}

\* A send to one of S has raised.
SendRaises(S) ==
    /\ Crashes("crashed")
    /\ failed' = (failed \/ (\E p \in S : broken[p] # "no"))

\* _on_bundle, called for something that c has sent, or nobody; then the
\* acknowledgement to c.
Broadcast(c, unread) ==
    LET to == Receivers(c) \cup ({c} \ {NoConn})
    IN  IF Raises(to)
        THEN SendRaises(to)
        ELSE /\ Drops(Unreachable(to), unread)
             /\ UNCHANGED <<phases, relay, registered, fd_mappings, keys, lines, status>>

\* The websocket is there, and is sent the greeting, or the signal instead.
Established(c) ==
    IF Raises({c})
    THEN SendRaises({c})
    ELSE /\ Drops(Unreachable({c}), [inbox EXCEPT ![c] = @ \ {"upgrade", "accept"}])
         /\ websocket' = websocket \cup {c}
         /\ ws_connected' = ws_connected \cup {c}
         /\ UNCHANGED <<web, greeted, relay, registered, fd_mappings, keys, lines, status>>
-----------------------------------------------------------------------------
(***************************************************************************)
(* Handlers.                                                               *)
(***************************************************************************)

\* Connection.on_ready, a request for no websocket: answered, then Finished.  If
\* the answer fails this leaves the loop, but an application may be past its head.
OnRequest(c) ==
    /\ Handles(c) /\ Open(c) /\ c \notin websocket /\ "request" \in inbox[c]
    /\ \/ /\ broken[c] = "no" \/ c \in web
          /\ Finished(c, FALSE)
       \/ broken[c] # "no" /\ Unhandled

\* A request for a websocket: rejected, or accepted and greeted.  The acceptance
\* and the rejection are not sent by Connection.send.
OnUpgrade(c) ==
    /\ Handles(c) /\ Open(c) /\ "upgrade" \in inbox[c]
    /\ \/ broken[c] = "no" /\ Finished(c, TRUE)
       \/ Established(c)
       \/ broken[c] # "no" /\ Unhandled

\* The acceptance of a connection of ours.
OnAccept(c) ==
    /\ Handles(c) /\ Open(c) /\ "accept" \in inbox[c]
    /\ Established(c)

\* The end: before the header _receive_header raises Finished, later receive.
\* The answer to a close message may fail.
OnEnd(c) ==
    /\ Handles(c) /\ Open(c) /\ inbox[c] = {"end"}
    /\ \/ Finished(c, c \in websocket)
       \/ c \in ws_connected /\ broken[c] # "no" /\ Unhandled

\* recv raises: receive makes that Finished, _receive_header does not.  After a
\* timeout, close still sends.
OnReset(c) ==
    /\ Handles(c) /\ Open(c) /\ inbox[c] = {"reset"}
    /\ \/ c \in websocket /\ Finished(c, TRUE)
       \/ c \notin websocket /\ Unhandled
       \/ c \in ws_connected /\ broken[c] # "no" /\ Unhandled

OnError(c) ==
    /\ Handles(c) /\ Open(c) /\ inbox[c] = {"error"}
    /\ Unhandled

\* A send in the same batch has closed the connection: receive raises Finished.
OnClosed(c) ==
    /\ Handles(c) /\ Closed(c)
    /\ Finished(c, TRUE)

\* A greeting: it has a tracker now, is sent what it lacks, if anything, and
\* then a signal.
OnGreeting(c, lacks) ==
    /\ Handles(c) /\ Open(c) /\ c \in ws_connected /\ "greeting" \in inbox[c]
    /\ IF Raises({c}) \/ (lacks /\ broken[c] = "pipe")
       THEN SendRaises({c})
       ELSE /\ Drops(Unreachable({c}), [inbox EXCEPT ![c] = @ \ {"greeting"}])
            /\ greeted' = greeted \cup {c}
            /\ UNCHANGED <<web, websocket, ws_connected, relay, registered, fd_mappings, keys,
                           lines, status>>

\* A bundle.
OnBundle(c) ==
    /\ Handles(c) /\ Open(c) /\ "bundle" \in inbox[c] /\ "greeting" \notin inbox[c]
    /\ Broadcast(c, [inbox EXCEPT ![c] = @ \ {"bundle"}])

\* Relay._on_store_ready: a bundle of another process.
OnStore ==
    /\ Handles("store")
    /\ Broadcast(NoConn, inbox)

\* A line on the console commits a bundle.  The interpreter catches what is
\* raised; which peers come before it is open.
OnCommit ==
    /\ Handles("console")
    /\ IF Raises(Receivers(NoConn))
       THEN \E p \in Receivers(NoConn), S \in SUBSET Receivers(NoConn) :
                /\ Raises({p}) /\ ~Raises(S)
                /\ Drops(Unreachable(S) \cup {p}, inbox)
       ELSE Drops(Unreachable(Receivers(NoConn)), inbox)
    /\ UNCHANGED <<phases, relay, registered, fd_mappings, keys, lines, status>>

\* connect_to, on the console: the loop has to be told.
OnConnect ==
    /\ Handles("console")
    /\ \E c \in Fresh :
        /\ NewConnection(c)
        /\ websocket' = websocket \cup {c}
        /\ connections' = connections \cup {c}
        /\ selectables' = selectables \cup {c}
    /\ wakeups' = wakeups + 1
    /\ UNCHANGED <<web, backlog, maps, lines, status, failed>>

\* SelectableConsole.on_ready, the end of the input: the context manager of the
\* loop is finished.  The rest of the batch is still handled.
OnConsoleEnd ==
    /\ Handles("console")
    /\ status' = "stopping"
    /\ UNCHANGED <<conns, relay, maps, lines, failed>>

\* Faulty: the wakeup is taken, the selectables are not looked at.
OnServerIdle ==
    /\ Handles("server")
    /\ wakeups' = wakeups - 1
    /\ UNCHANGED <<conns, connections, selectables, backlog, maps, lines, status, failed>>

\* Faulty: the byte stays in the socket pair.
OnServerUnread ==
    /\ Handles("server")
    /\ selectables' = {c \in selectables : ~Closed(c)}
    /\ Add({c \in selectables : ~Closed(c)}, fd)
    /\ UNCHANGED <<conns, connections, wakeups, backlog, lines, status, failed>>

\* Server.on_ready, get_selectables.
OnServer ==
    /\ Handles("server")
    /\ wakeups' = wakeups - 1
    /\ selectables' = {c \in selectables : ~Closed(c)}
    /\ Add({c \in selectables : ~Closed(c)}, fd)
    /\ UNCHANGED <<conns, connections, backlog, lines, status, failed>>

\* Relay._on_listener_ready: accepts, or turns away, which it does for an HTTP
\* request without TLS and an unknown CA, and in the model also at the bound of
\* connections.  Any other exception of the handshake leaves the loop.
OnListener ==
    /\ Handles("listener")
    /\ \/ "failing" \in backlog /\ Unhandled
       \/ /\ "peer" \in backlog
          /\ backlog' = backlog \ {"peer"}
          /\ UNCHANGED <<conns, connections, selectables, wakeups, maps, lines, status, failed>>
       \/ /\ "peer" \in backlog
          /\ backlog' = backlog \ {"peer"}
          /\ \E c \in Fresh :
                /\ NewConnection(c)
                /\ connections' = connections \cup {c}
                /\ selectables' = selectables \cup {c}
                /\ Add({c}, fd')
          /\ wakeups' = wakeups + 1
          /\ UNCHANGED <<web, websocket, lines, status, failed>>

\* WsgiListener.on_ready.  (At the bound of connections, the client goes away.)
OnWebListener ==
    /\ Handles("web listener")
    /\ backlog' = backlog \ {"web"}
    /\ \/ \E c \in Fresh :
            /\ NewConnection(c)
            /\ web' = web \cup {c}
            /\ UNCHANGED websocket
            /\ Add({c}, fd')
       \/ Fresh = {} /\ UNCHANGED <<conns, maps>>
    /\ UNCHANGED <<connections, selectables, wakeups, lines, status, failed>>

Handle ==
    \/ OnServer \/ OnListener \/ OnWebListener
    \/ OnStore \/ OnCommit \/ OnConnect \/ OnConsoleEnd
    \/ \E c \in Conn :
        \/ OnRequest(c) \/ OnUpgrade(c) \/ OnAccept(c) \/ OnBundle(c)
        \/ OnEnd(c) \/ OnReset(c) \/ OnError(c) \/ OnClosed(c)
        \/ \E lacks \in BOOLEAN : OnGreeting(c, lacks)

Next ==
    \/ \E type \in Clients : ClientConnects(type)
    \/ \E c \in Conn :
        \/ \E what \in What : PeerSends(c, what)
        \/ \E how \in {"pipe", "timeout"} : PeerStopsReceiving(c, how)
    \/ Select
    \/ Handle
    \/ Stop

\* The loop keeps on running; the world may do as it likes.
Spec == Init /\ [][Next]_vars /\ WF_vars(Select) /\ WF_vars(Handle)
-----------------------------------------------------------------------------
(***************************************************************************)
(* Properties.                                                             *)
(***************************************************************************)

(***************************************************************************)
(* The loop's own maps agree with the selector's, and with what is open,   *)
(* also when file numbers are reused: what becomes ready on a number is    *)
(* handled by the connection that has it now, and by no other.             *)
(***************************************************************************)
MapsAgree ==
    status = "running" =>
        /\ keys = fd_mappings
        /\ registered = {keys[n] : n \in Fd} \ {NoConn}
        /\ \A c \in registered : Open(c) => keys[fd[c]] = c /\ c \in watched
        /\ \A c \in watched : Open(c) /\ c \in registered

(***************************************************************************)
(* A connection that the relay has made is in the loop, or a byte in the   *)
(* server's socket pair tells the loop to look for it: no wakeup is lost,  *)
(* although the loop is often told of connections it has already got.      *)
(***************************************************************************)
NoConnectionIsMissed ==
    status = "running" =>
        \A c \in selectables : Open(c) /\ c \notin registered => wakeups > 0

(***************************************************************************)
(* As long as no Connection.send has failed, the loop's and the relay's    *)
(* own bookkeeping raises nothing: peers may come and go, in any order and *)
(* in the same batch.  Other exceptions leave the loop only for a fault of *)
(* a client at a call that nothing guards: its TLS handshake; reading from *)
(* it, when that raises SSLError or the like, or a reset before the header *)
(* has come; answering its request, accepting or rejecting its websocket,  *)
(* and answering its close, when it does not receive.                      *)
(***************************************************************************)
Fault ==
    \/ "failing" \in backlog
    \/ \E c \in Conn :
        /\ Open(c)
        /\ \/ "error" \in inbox[c]
           \/ "reset" \in inbox[c] /\ c \notin websocket
           \/ broken[c] # "no" /\ inbox[c] \cap {"request", "upgrade", "end", "reset"} # {}

OnlyFaultsCrash ==
    /\ status \in {"crashed", "assertion failed"} => failed
    /\ status = "unhandled" => Fault

(***************************************************************************)
(* When the other end has closed or reset a connection, then, as long as   *)
(* the loop runs, it is closed here as well, and the relay and the loop    *)
(* forget it.  There are two exceptions: before the header has come only   *)
(* the loop forgets it, and it stays in _connections; and if a send to it  *)
(* has failed meanwhile, that closes it and tells neither.                 *)
(***************************************************************************)
Forgotten(c) == fd[c] = 0 /\ c \notin connections \cup selectables \cup registered

EndsAreNoticed ==
    \A c \in Conn :
        (Open(c) /\ inbox[c] \cap {"end", "reset"} # {})
            ~> \/ Forgotten(c)
               \/ Closed(c) /\ c \notin websocket \cup registered
               \/ Closed(c) /\ c \in ws_connected /\ failed
               \/ status # "running"
=============================================================================
