-------------------------- MODULE EventLoopProofs --------------------------
(***************************************************************************)
(* Proofs about EventLoop, for any connections and file numbers: however   *)
(* connections come and go, the maps of the loop and of the selector agree *)
(* with what is open, no new connection is missed, and no exception leaves *)
(* the loop but after a failed Connection.send or at an unguarded call     *)
(* that a client makes fail.                                               *)
(*                                                                         *)
(* The inductive invariant holds while the loop runs.  A connection has    *)
(* one file number in the maps, even one that a send has closed and that   *)
(* only a new connection with its number will displace; what the batch     *)
(* still holds is open and registered as long as no send has failed.       *)
(***************************************************************************)
EXTENDS EventLoop, FiniteSetTheorems, TLAPS

\* The maps agree with one another and with what is open.
MapsSound ==
    /\ keys = fd_mappings
    /\ \A c \in Conn : c \in registered <=> \E n \in Fd : keys[n] = c
    /\ \A n, m \in Fd : keys[n] = keys[m] /\ keys[n] # NoConn => n = m
    /\ \A c \in registered : Open(c) => keys[fd[c]] = c /\ c \in watched
    /\ \A c \in watched : Open(c) /\ c \in registered

\* Open connections have different numbers, forgotten ones are nowhere.
FdsSound ==
    /\ \A c, d \in Conn : Open(c) /\ fd[c] = fd[d] => c = d
    /\ \A c \in Conn : fd[c] = 0 => c \notin registered /\ c \notin selectables
    /\ \A c \in Conn : Closed(c) => failed \/ (c \notin registered /\ c \notin greeted)

\* A connection is a websocket, then accepted, then greeted.
PhasesSound == greeted \subseteq ws_connected /\ ws_connected \subseteq websocket

BatchSound ==
    ~failed => \A c \in Conn : c \in batch => Open(c) /\ c \in registered

NewsAnnounced == \A c \in selectables : Open(c) /\ c \notin registered => wakeups > 0

\* Wakeups: all but one come from lines on the console, apart from those that
\* the batch is about to take or to add.
InBatch(x) == IF x \in batch THEN 1 ELSE 0

WakeupsSound ==
    /\ "server" \in batch => wakeups >= 1
    /\ wakeups + InBatch("listener") + InBatch("console")
            <= lines + 1 + InBatch("server")

IInv ==
    /\ TypeOK
    /\ OnlyFaultsCrash
    /\ Runs => /\ MapsSound /\ FdsSound /\ PhasesSound
               /\ BatchSound /\ NewsAnnounced /\ WakeupsSound
-----------------------------------------------------------------------------
(***************************************************************************)
(* File numbers: there is a free one for a fresh connection.               *)
(***************************************************************************)

LEMMA LowestNumber ==
    ASSUME NEW S, S \subseteq Fd, S # {}
    PROVE  \E x \in S : \A y \in S : x <= y
<1> DEFINE UpTo(n) == {m \in S : m <= n}
           Heads == {UpTo(n) : n \in S}
           R == StrictSubsetOrdering(Fd)
<1>1. IsFiniteSet(Fd) /\ Fd \subseteq Nat
  BY ConstantsAssumption
<1>2. FiniteSubsetsOf(Fd) = SUBSET Fd
  BY <1>1, FS_FiniteSubsetsOfFinite
<1>3. IsWellFoundedOn(R, FiniteSubsetsOf(Fd))
  BY FS_StrictSubsetOrderingWellFounded
<1>4. Heads \subseteq FiniteSubsetsOf(Fd) /\ Heads # {}
  <2>1. ASSUME NEW n \in S
        PROVE  UpTo(n) \in FiniteSubsetsOf(Fd)
    BY <1>2
  <2>2. Heads # {}
    OBVIOUS
  <2>3. QED
    BY <2>1, <2>2
<1> HIDE DEF Heads, R
<1>5. PICK T \in Heads : \A U \in Heads : ~(<<U, T>> \in R)
  BY <1>3, <1>4, WFMin
<1> USE DEF Heads, R
<1>6. PICK x \in S : T = UpTo(x)
  BY <1>5
<1>7. ASSUME NEW y \in S, ~(x <= y)
      PROVE  FALSE
  <2>1. x \in Nat /\ y \in Nat /\ y < x
    BY <1>1, <1>7
  <2>2. UpTo(y) \in Heads /\ x \in T /\ x \notin UpTo(y)
    BY <1>6, <2>1
  <2>3. ASSUME NEW m \in UpTo(y)
        PROVE  m \in T
    <3>1. m \in S /\ m \in Nat /\ m <= y
      BY <1>1
    <3>2. m <= x
      BY <2>1, <3>1
    <3>3. QED
      BY <1>6, <3>1, <3>2
  <2>4. UpTo(y) \subseteq Fd /\ T \subseteq Fd
    BY <1>6
  <2>5. <<UpTo(y), T>> \in R
    BY <2>2, <2>3, <2>4 DEF StrictSubsetOrdering
  <2>6. QED
    BY <1>5, <2>2, <2>5
<1>8. QED
  BY <1>6, <1>7

LEMMA NewFdIsFree ==
    ASSUME TypeOK, Fresh # {}
    PROVE  NewFd \in Fd /\ \A c \in Conn : fd[c] # NewFd
<1>1. PICK f \in Conn : fd[f] = 0
  BY DEF Fresh
<1>2. FreeFd # {}
  <2> SUFFICES ASSUME FreeFd = {}
               PROVE  FALSE
    OBVIOUS
  <2> DEFINE U == {c \in Conn : fd[c] \in Fd}
             number == [c \in U |-> fd[c]]
  <2>1. \A n \in Fd : \E c \in U : number[c] = n
    BY DEF FreeFd
  <2>2. number \in Surjection(U, Fd)
    BY <2>1 DEF Surjection
  <2>3. IsFiniteSet(Conn) /\ IsFiniteSet(Conn \ {f})
        /\ Cardinality(Conn \ {f}) = Cardinality(Conn) - 1
    BY ConstantsAssumption, FS_RemoveElement
  <2>4. f \notin U
    BY <1>1, ConstantsAssumption
  <2>5. IsFiniteSet(U) /\ Cardinality(U) <= Cardinality(Conn \ {f})
    <3>1. U \in SUBSET (Conn \ {f})
      BY <2>4
    <3> HIDE DEF U
    <3>2. QED
      BY <2>3, <3>1, FS_Subset
  <2>6. Cardinality(Fd) <= Cardinality(U)
    <3> HIDE DEF U, number
    <3>1. QED
      BY <2>2, <2>5, FS_Surjection
  <2>7. /\ Cardinality(Fd) \in Nat /\ Cardinality(Conn) \in Nat /\ Cardinality(U) \in Nat
    <3> HIDE DEF U
    <3>1. QED
      BY <2>5, ConstantsAssumption, FS_CardinalityType
  <2>8. QED
    BY <2>3, <2>5, <2>6, <2>7, ConstantsAssumption
<1>3. FreeFd \subseteq Fd
  BY DEF FreeFd
<1>4. \E x \in FreeFd : \A y \in FreeFd : x <= y
  BY <1>2, <1>3, LowestNumber
<1>5. NewFd \in FreeFd
  BY <1>4 DEF NewFd
<1>6. QED
  BY <1>5 DEF FreeFd

LEMMA PositiveNumbers ==
    /\ \A n \in Fd : n \in Int /\ n > 0 /\ n # 0 /\ n # -1
    /\ 0 \notin Fd /\ -1 \notin Fd
<1>1. Fd \subseteq Nat \ {0}
  BY ConstantsAssumption
<1>2. \A n \in Fd : n \in Nat /\ n # 0
  BY <1>1
<1>3. \A n \in Fd : n \in Int /\ n > 0 /\ n # -1
  BY <1>2
<1>4. QED
  BY <1>2, <1>3

\* A connection is open if it has one of the numbers.
LEMMA Numbers ==
    ASSUME TypeOK
    PROVE  \A c \in Conn : /\ fd[c] \in Int
                           /\ Open(c) <=> fd[c] \in Fd
                           /\ Open(c) => fd[c] # 0 /\ fd[c] # -1
                           /\ Open(c) \/ fd[c] = 0 \/ Closed(c)
<1> SUFFICES ASSUME NEW c \in Conn
             PROVE  /\ fd[c] \in Int
                    /\ Open(c) <=> fd[c] \in Fd
                    /\ Open(c) => fd[c] # 0 /\ fd[c] # -1
                    /\ Open(c) \/ fd[c] = 0 \/ Closed(c)
  OBVIOUS
<1>1. fd[c] \in Fd \/ fd[c] = 0 \/ fd[c] = -1
  BY DEF TypeOK
<1>2. CASE fd[c] \in Fd
  BY <1>2, PositiveNumbers DEF Open
<1>3. CASE fd[c] = 0
  BY <1>3, PositiveNumbers DEF Open
<1>4. CASE fd[c] = -1
  BY <1>4, PositiveNumbers DEF Open, Closed
<1>5. QED
  BY <1>1, <1>2, <1>3, <1>4
-----------------------------------------------------------------------------
(***************************************************************************)
(* Steps that leave the maps alone, and those that end the loop.           *)
(***************************************************************************)

LEMMA WorldIsSound ==
    ASSUME IInv, TypeOK', Runs,
           UNCHANGED <<fd, phases, selectables, wakeups, maps, batch, lines, status, failed>>
    PROVE  IInv'
<1>1. OnlyFaultsCrash'
  BY DEF OnlyFaultsCrash, Runs
<1>2. /\ MapsSound' /\ FdsSound' /\ PhasesSound'
      /\ BatchSound' /\ NewsAnnounced' /\ WakeupsSound'
  BY DEF IInv, MapsSound, FdsSound, PhasesSound, BatchSound, NewsAnnounced, WakeupsSound,
         maps, phases, Open, Closed, InBatch
<1>3. QED
  BY <1>1, <1>2 DEF IInv

\* A loop that has ended with an exception does nothing any more.
LEMMA CrashIsSound ==
    ASSUME IInv, NEW x, Handles(x), NEW how \in {"unhandled", "crashed", "assertion failed"},
           Crashes(how), failed' \in BOOLEAN, IF how = "unhandled" THEN Fault ELSE failed'
    PROVE  IInv'
<1>1. TypeOK'
  BY DEF IInv, TypeOK, Crashes, Handles, conns, phases, relay, maps, Statuses
<1>2. status' = how
  BY DEF Crashes
<1>3. Fault' <=> Fault
  BY DEF Crashes, Fault, conns, phases, relay, Open
<1>4. OnlyFaultsCrash' /\ ~Runs'
  BY <1>2, <1>3 DEF OnlyFaultsCrash, Runs
<1>5. QED
  BY <1>1, <1>4 DEF IInv

\* A send that raises: one to a connection that is closed has been preceded by
\* one that failed.
LEMMA SendRaisesIsSound ==
    ASSUME IInv, NEW x, Handles(x), NEW S, S \subseteq Conn,
           \A p \in S : Closed(p) => p \in greeted,
           \E p \in S : Closed(p) \/ broken[p] # "no",
           SendRaises(S)
    PROVE  IInv'
<1>1. failed \in BOOLEAN /\ FdsSound
  BY DEF IInv, TypeOK, Handles
<1>2. Crashes("crashed") /\ failed' = (failed \/ (\E p \in S : broken[p] # "no"))
  BY DEF SendRaises
<1>3. failed' \in BOOLEAN
  BY <1>1, <1>2
<1>4. failed'
  <2>1. PICK p \in S : Closed(p) \/ broken[p] # "no"
    OBVIOUS
  <2>2. CASE Closed(p)
    BY <1>1, <1>2, <2>2 DEF FdsSound
  <2>3. CASE broken[p] # "no"
    BY <1>2, <2>3
  <2>4. QED
    BY <2>1, <2>2, <2>3
<1>5. QED
  BY <1>2, <1>3, <1>4, CrashIsSound

LEMMA UnhandledIsSound ==
    ASSUME IInv, NEW x, Handles(x), Fault, Unhandled
    PROVE  IInv'
<1>1. failed' \in BOOLEAN /\ Crashes("unhandled")
  BY DEF IInv, TypeOK, Unhandled
<1>2. QED
  BY <1>1, CrashIsSound

LEMMA HandledWakeups ==
    ASSUME WakeupsSound, NEW x, x # "server", batch' = batch \ {x},
           wakeups' = wakeups, lines' = lines, TypeOK
    PROVE  WakeupsSound'
<1>1. wakeups \in Nat /\ lines \in Nat
  <2>1. MaxLines \in Nat
    BY ConstantsAssumption
  <2>2. wakeups \in 0 .. MaxLines + 2 /\ lines \in 0 .. MaxLines
    BY DEF TypeOK
  <2>3. QED
    BY <2>1, <2>2
<1>2. /\ InBatch("listener")' <= InBatch("listener")
      /\ InBatch("console")' <= InBatch("console")
      /\ InBatch("server")' = InBatch("server")
  BY DEF InBatch
<1>3. /\ InBatch("listener") \in 0 .. 1 /\ InBatch("console") \in 0 .. 1
      /\ InBatch("server") \in 0 .. 1
      /\ InBatch("listener")' \in 0 .. 1 /\ InBatch("console")' \in 0 .. 1
  BY DEF InBatch
<1>4. wakeups' + InBatch("listener")' + InBatch("console")'
            <= lines' + 1 + InBatch("server")'
  BY <1>1, <1>2, <1>3 DEF WakeupsSound
<1>5. "server" \in batch' => wakeups' >= 1
  BY DEF WakeupsSound
<1>6. QED
  BY <1>4, <1>5 DEF WakeupsSound

\* A send that fails closes connections and tells nobody: their numbers stay
\* in the maps until something else takes them.
LEMMA DropsAreSound ==
    ASSUME IInv, Runs, NEW gone, gone \subseteq Conn,
           \A p \in Conn : fd'[p] = IF p \in gone THEN -1 ELSE fd[p],
           watched' = watched \ gone,
           failed' \in BOOLEAN, failed' <=> failed \/ gone # {},
           NEW x, x # "server", batch' = batch \ {x},
           UNCHANGED <<selectables, wakeups, registered, fd_mappings, keys, lines, status>>,
           TypeOK', PhasesSound', \A p \in greeted' : p \in greeted \/ Open(p)
    PROVE  IInv'
<1>1. /\ TypeOK /\ MapsSound /\ FdsSound /\ BatchSound /\ NewsAnnounced /\ WakeupsSound
      /\ OnlyFaultsCrash
  BY DEF IInv
<1>2. \A c \in Conn : /\ Open(c)' <=> Open(c) /\ c \notin gone
                      /\ Closed(c)' <=> Closed(c) \/ c \in gone
                      /\ Open(c)' => fd'[c] = fd[c]
  BY <1>1 DEF Open, Closed
<1>3. MapsSound'
  <2>1. registered \subseteq Conn /\ watched \subseteq Conn
    BY <1>1 DEF TypeOK
  <2>2. \A c \in watched' : Open(c)' /\ c \in registered'
    BY <1>1, <1>2, <2>1 DEF MapsSound
  <2>3. \A c \in registered' : Open(c)' => keys'[fd'[c]] = c /\ c \in watched'
    BY <1>1, <1>2, <2>1 DEF MapsSound
  <2>4. QED
    BY <1>1, <2>2, <2>3 DEF MapsSound
<1>4. FdsSound'
  <2>1. \A c, d \in Conn : Open(c)' /\ fd'[c] = fd'[d] => c = d
    <3> SUFFICES ASSUME NEW c \in Conn, NEW d \in Conn, Open(c)', fd'[c] = fd'[d]
                 PROVE  c = d
      OBVIOUS
    <3>1. Open(c) /\ fd'[c] = fd[c] /\ fd[c] > 0
      BY <1>2 DEF Open
    <3>2. d \notin gone /\ fd'[d] = fd[d]
      <4>1. fd'[d] = IF d \in gone THEN -1 ELSE fd[d]
        OBVIOUS
      <4>2. fd'[d] # -1
        BY <1>1, <3>1, Numbers
      <4>3. QED
        BY <4>1, <4>2
    <3>3. QED
      BY <1>1, <3>1, <3>2 DEF FdsSound
  <2>2. \A c \in Conn : fd'[c] = 0 => fd[c] = 0
    OBVIOUS
  <2>3. \A c \in Conn : Closed(c)' => failed' \/ (c \notin registered' /\ c \notin greeted')
    <3> SUFFICES ASSUME NEW c \in Conn, Closed(c)', ~failed'
                 PROVE  c \notin registered' /\ c \notin greeted'
      OBVIOUS
    <3>1. gone = {} /\ ~failed
      OBVIOUS
    <3>2. Closed(c) /\ ~Open(c)
      BY <1>2, <3>1 DEF Open, Closed
    <3>3. QED
      BY <1>1, <3>1, <3>2 DEF FdsSound
  <2>4. QED
    BY <1>1, <2>1, <2>2, <2>3 DEF FdsSound
<1>5. BatchSound'
  BY <1>1, <1>2 DEF BatchSound
<1>6. NewsAnnounced'
  <2>1. selectables \subseteq Conn
    BY <1>1 DEF TypeOK
  <2>2. QED
    BY <1>1, <1>2, <2>1 DEF NewsAnnounced
<1>7. WakeupsSound'
  BY <1>1, HandledWakeups
<1>8. OnlyFaultsCrash' /\ Runs'
  BY <1>1 DEF OnlyFaultsCrash, Runs
<1>9. QED
  BY <1>3, <1>4, <1>5, <1>6, <1>7, <1>8 DEF IInv
-----------------------------------------------------------------------------
(***************************************************************************)
(* A connection has finished: it is taken out of everything.               *)
(***************************************************************************)

LEMMA FinishedIsSound ==
    ASSUME IInv, NEW c \in Conn, NEW told \in BOOLEAN, Handles(c), Finished(c, told),
           told \/ c \notin websocket
    PROVE  IInv'
<1>1. /\ Runs /\ TypeOK /\ MapsSound /\ FdsSound /\ BatchSound /\ NewsAnnounced
      /\ WakeupsSound /\ PhasesSound /\ OnlyFaultsCrash /\ c \in batch /\ batch' = batch \ {c}
  BY DEF IInv, Handles
<1>2. ~failed => Open(c) /\ \E n \in Fd : keys[n] = c
  BY <1>1 DEF BatchSound, MapsSound
<1>3. failed \in BOOLEAN
  BY <1>1 DEF TypeOK
<1>4. CASE \A n \in Fd : keys[n] # c
  <2>1. Crashes("crashed") /\ failed' = failed
    BY <1>4 DEF Finished
  <2>2. failed' /\ failed' \in BOOLEAN
    BY <1>2, <1>3, <1>4, <2>1
  <2>3. QED
    BY <2>1, <2>2, CrashIsSound
<1>5. CASE (\E n \in Fd : keys[n] = c) /\ ~Open(c)
  <2>1. Crashes("assertion failed") /\ failed' = failed
    BY <1>5 DEF Finished
  <2>2. failed' /\ failed' \in BOOLEAN
    BY <1>2, <1>3, <1>5, <2>1
  <2>3. QED
    BY <2>1, <2>2, CrashIsSound
<1>6. CASE (\E n \in Fd : keys[n] = c) /\ Open(c)
  <2> PICK gone : gone = IF told \/ c \notin connections THEN {c} ELSE {}
    OBVIOUS
  <2> PICK left : left = IF c \in gone THEN 0 ELSE -1
    OBVIOUS
  <2>0. gone \subseteq {c} /\ (c \notin gone => ~told)
    OBVIOUS
  <2>1. /\ connections' = connections \ gone
        /\ selectables' = selectables \ gone
        /\ keys' = [n \in Fd |-> IF keys[n] = c THEN NoConn ELSE keys[n]]
        /\ fd_mappings' = [fd_mappings EXCEPT ![fd[c]] = NoConn]
        /\ registered' = registered \ {c}
        /\ watched' = watched \ {c}
        /\ fd' = [fd EXCEPT ![c] = left]
        /\ inbox' = [inbox EXCEPT ![c] = {}]
        /\ broken' = [broken EXCEPT ![c] = "no"]
        /\ web' = web \ gone
        /\ websocket' = websocket \ gone
        /\ ws_connected' = ws_connected \ gone
        /\ greeted' = greeted \ gone
        /\ UNCHANGED <<wakeups, backlog, lines, status, failed>>
    BY <1>6 DEF Finished, TakenOut, Unregister
  <2>2. TypeOK'
    <3>1. fd' \in [Conn -> Fd \cup {0, -1}]
      BY <1>1, <2>1 DEF TypeOK
    <3>2. QED
      BY <1>1, <2>1, <3>1 DEF TypeOK
  <2>3. /\ fd[c] \in Fd /\ keys[fd[c]] = c /\ c # NoConn /\ c # "server"
        /\ \A n \in Fd : keys[n] = c => n = fd[c]
    <3>2. fd[c] \in Fd
      BY <1>1, <1>6, Numbers
    <3>3. c \in registered /\ c # NoConn
      BY <1>1, <1>6, ConstantsAssumption DEF MapsSound
    <3>4. keys[fd[c]] = c
      BY <1>1, <1>6, <3>3 DEF MapsSound
    <3>5. \A n \in Fd : keys[n] = c => n = fd[c]
      BY <1>1, <3>2, <3>3, <3>4 DEF MapsSound
    <3>6. c # "server"
      BY ConstantsAssumption DEF Fixed
    <3>7. QED
      BY <3>2, <3>3, <3>4, <3>5, <3>6
  <2>4. \A d \in Conn : fd'[d] = IF d = c THEN left ELSE fd[d]
    BY <1>1, <2>1 DEF TypeOK
  <2>5. \A n \in Fd : /\ keys'[n] = IF n = fd[c] THEN NoConn ELSE keys[n]
                      /\ fd_mappings'[n] = IF n = fd[c] THEN NoConn ELSE fd_mappings[n]
    BY <1>1, <2>1, <2>3 DEF TypeOK
  <2>6. \A d \in Conn : /\ Open(d)' <=> Open(d) /\ d # c
                        /\ d # c => (Closed(d)' <=> Closed(d))
    BY <2>4 DEF Open, Closed
  <2>7. registered \subseteq Conn /\ watched \subseteq Conn /\ selectables \subseteq Conn
    BY <1>1 DEF TypeOK
  <2>8. MapsSound'
    <3>1. keys' = fd_mappings'
      <4>1. /\ keys' \in [Fd -> Conn \cup {NoConn}]
            /\ fd_mappings' \in [Fd -> Conn \cup {NoConn}]
        BY <2>2 DEF TypeOK
      <4>2. \A n \in Fd : keys'[n] = fd_mappings'[n]
        BY <1>1, <2>5 DEF MapsSound
      <4>3. QED
        BY <4>1, <4>2
    <3>2. \A d \in Conn : d \in registered' <=> \E n \in Fd : keys'[n] = d
      <4> SUFFICES ASSUME NEW d \in Conn
                   PROVE  d \in registered' <=> \E n \in Fd : keys'[n] = d
        OBVIOUS
      <4>1. d # NoConn
        BY ConstantsAssumption
      <4>2. (\E n \in Fd : keys'[n] = d) <=> d # c /\ \E n \in Fd : keys[n] = d
        BY <2>3, <2>5, <4>1
      <4>3. d \in registered <=> \E n \in Fd : keys[n] = d
        BY <1>1 DEF MapsSound
      <4>4. QED
        BY <2>1, <4>2, <4>3
    <3>3. \A n, m \in Fd : keys'[n] = keys'[m] /\ keys'[n] # NoConn => n = m
      BY <1>1, <2>5 DEF MapsSound
    <3>4. \A d \in registered' : Open(d)' => keys'[fd'[d]] = d /\ d \in watched'
      <4> SUFFICES ASSUME NEW d \in registered', Open(d)'
                   PROVE  keys'[fd'[d]] = d /\ d \in watched'
        OBVIOUS
      <4>1. d \in Conn /\ d # c /\ d \in registered /\ Open(d) /\ fd'[d] = fd[d]
        BY <2>1, <2>4, <2>6, <2>7
      <4>2. keys[fd[d]] = d /\ d \in watched
        BY <1>1, <4>1 DEF MapsSound
      <4>3. fd[d] # fd[c] /\ fd[d] \in Fd
        <5>1. fd[d] \in Fd
          BY <1>1, <4>1, Numbers
        <5>2. QED
          BY <2>3, <4>1, <4>2, <5>1
      <4>4. QED
        BY <2>1, <2>5, <4>1, <4>2, <4>3
    <3>5. \A d \in watched' : Open(d)' /\ d \in registered'
      BY <1>1, <2>1, <2>6, <2>7 DEF MapsSound
    <3>6. QED
      BY <3>1, <3>2, <3>3, <3>4, <3>5 DEF MapsSound
  <2>9. FdsSound'
    <3>1. \A d, e \in Conn : Open(d)' /\ fd'[d] = fd'[e] => d = e
      <4> SUFFICES ASSUME NEW d \in Conn, NEW e \in Conn, Open(d)', fd'[d] = fd'[e]
                   PROVE  d = e
        OBVIOUS
      <4>1. Open(d) /\ d # c /\ fd'[d] = fd[d]
        BY <2>4, <2>6
      <4>2. e # c
        <5>1. fd'[e] # 0 /\ fd'[e] # -1
          BY <1>1, <4>1, Numbers
        <5>2. QED
          BY <2>4, <5>1
      <4>3. QED
        BY <1>1, <2>4, <4>1, <4>2 DEF FdsSound
    <3>2. \A d \in Conn : fd'[d] = 0 => d \notin registered' /\ d \notin selectables'
      <4> SUFFICES ASSUME NEW d \in Conn, fd'[d] = 0
                   PROVE  d \notin registered' /\ d \notin selectables'
        OBVIOUS
      <4>1. CASE d = c
        BY <2>1, <2>4, <4>1
      <4>2. CASE d # c
        BY <1>1, <2>1, <2>4, <4>2 DEF FdsSound
      <4>3. QED
        BY <4>1, <4>2
    <3>3. \A d \in Conn : Closed(d)' => failed' \/ (d \notin registered' /\ d \notin greeted')
      <4> SUFFICES ASSUME NEW d \in Conn, Closed(d)', ~failed'
                   PROVE  d \notin registered' /\ d \notin greeted'
        OBVIOUS
      <4>1. CASE d = c
        BY <1>1, <2>0, <2>1, <4>1 DEF PhasesSound
      <4>2. CASE d # c
        BY <1>1, <2>1, <2>6, <4>2 DEF FdsSound
      <4>3. QED
        BY <4>1, <4>2
    <3>4. QED
      BY <3>1, <3>2, <3>3 DEF FdsSound
  <2>10. BatchSound'
    BY <1>1, <2>1, <2>6 DEF BatchSound
  <2>11. NewsAnnounced'
    BY <1>1, <2>1, <2>6, <2>7 DEF NewsAnnounced
  <2>12. WakeupsSound'
    BY <1>1, <2>1, <2>3, HandledWakeups
  <2>13. OnlyFaultsCrash' /\ PhasesSound'
    BY <1>1, <2>1 DEF OnlyFaultsCrash, PhasesSound, Runs
  <2>14. QED
    BY <2>2, <2>8, <2>9, <2>10, <2>11, <2>12, <2>13 DEF IInv
<1>7. QED
  BY <1>4, <1>5, <1>6
-----------------------------------------------------------------------------
(***************************************************************************)
(* Connections come: what add does to the maps, step by step.              *)
(***************************************************************************)

\* The connections that come have numbers no other has.
LEMMA AddedIsSound ==
    ASSUME TypeOK, TypeOK', MapsSound, NEW news, news \subseteq Conn,
           \A c \in news : Open(c)' /\ c \notin registered,
           \A c \in Conn : fd'[c] = fd[c] \/ (c \in news /\ fd[c] = 0),
           \A c, d \in Conn : Open(c)' /\ fd'[c] = fd'[d] => c = d,
           \A n \in Fd : \/ \E c \in news : fd'[c] = n /\ keys'[n] = c /\ fd_mappings'[n] = c
                        \/ /\ \A c \in news : fd'[c] # n
                           /\ keys'[n] = keys[n] /\ fd_mappings'[n] = fd_mappings[n],
           registered' = (registered \ ({fd_mappings[fd'[c]] : c \in news} \ {NoConn})) \cup news,
           watched' = watched \cup news
    PROVE  /\ MapsSound'
           /\ \A c \in registered : Open(c)' => c \in registered'
<1>1. registered \subseteq Conn /\ watched \subseteq Conn
  BY DEF TypeOK
<1>2. \A c \in news : fd'[c] \in Fd /\ keys'[fd'[c]] = c
  <2> SUFFICES ASSUME NEW c \in news
               PROVE  fd'[c] \in Fd /\ keys'[fd'[c]] = c
    OBVIOUS
  <2>1. Open(c)' => fd'[c] \in Fd
    <3>1. fd'[c] \in Fd \/ fd'[c] = 0 \/ fd'[c] = -1
      <4>1. fd' \in [Conn -> Fd \cup {0, -1}] /\ c \in Conn
        BY DEF TypeOK
      <4>2. QED
        BY <4>1
    <3>2. QED
      BY <3>1, PositiveNumbers DEF Open
  <2>2. PICK d \in news : fd'[d] = fd'[c] /\ keys'[fd'[c]] = d
    BY <2>1
  <2>3. QED
    BY <2>1, <2>2
<1>3. keys = fd_mappings
  BY DEF MapsSound
<1>4. keys' = fd_mappings'
  <2>1. /\ keys' \in [Fd -> Conn \cup {NoConn}]
        /\ fd_mappings' \in [Fd -> Conn \cup {NoConn}]
    BY DEF TypeOK
  <2>2. \A n \in Fd : keys'[n] = fd_mappings'[n]
    BY <1>3
  <2>3. QED
    BY <2>1, <2>2
\* Who is displaced was closed.
<1>5. \A c \in registered : Open(c)' => c \in registered' /\ c \in watched
                                      /\ keys'[fd'[c]] = c
  <2> SUFFICES ASSUME NEW c \in registered, Open(c)'
               PROVE  c \in registered' /\ c \in watched /\ keys'[fd'[c]] = c
    OBVIOUS
  <2>1. c \in Conn /\ c \notin news /\ fd'[c] = fd[c] /\ Open(c)
    <3>1. c \in Conn /\ c \notin news
      BY <1>1
    <3>2. fd'[c] = fd[c]
      BY <3>1
    <3>3. QED
      BY <3>1, <3>2 DEF Open
  <2>2. keys[fd[c]] = c /\ c \in watched
    BY <2>1 DEF MapsSound
  <2>3. fd[c] \in Fd
    BY <2>1, Numbers
  <2>4. \A d \in news : fd'[d] # fd[c]
    BY <2>1
  <2>5. \A d \in news : fd_mappings[fd'[d]] # c
    <3> SUFFICES ASSUME NEW d \in news, fd_mappings[fd'[d]] = c
                 PROVE  FALSE
      OBVIOUS
    <3>1. c # NoConn
      BY <2>1, ConstantsAssumption
    <3>2. fd'[d] = fd[c]
      BY <1>2, <1>3, <2>2, <2>3, <3>1 DEF MapsSound
    <3>3. QED
      BY <2>4, <3>2
  <2>6. QED
    BY <2>1, <2>2, <2>3, <2>4, <2>5
<1>6. \A c \in Conn : c \in registered' <=> \E n \in Fd : keys'[n] = c
  <2> SUFFICES ASSUME NEW c \in Conn
               PROVE  c \in registered' <=> \E n \in Fd : keys'[n] = c
    OBVIOUS
  <2>1. c \in registered <=> \E n \in Fd : keys[n] = c
    BY DEF MapsSound
  <2>2. c # NoConn
    BY ConstantsAssumption
  <2>3. ASSUME c \in registered'
        PROVE  \E n \in Fd : keys'[n] = c
    <3>1. CASE c \in news
      BY <1>2, <3>1
    <3>2. CASE c \notin news
      <4>1. c \in registered /\ \A d \in news : fd_mappings[fd'[d]] # c
        BY <2>2, <2>3, <3>2
      <4>2. PICK n \in Fd : keys[n] = c
        BY <2>1, <4>1
      <4>3. \A d \in news : fd'[d] # n
        BY <1>3, <4>1, <4>2
      <4>4. keys'[n] = c
        BY <4>2, <4>3
      <4>5. QED
        BY <4>4
    <3>3. QED
      BY <3>1, <3>2
  <2>4. ASSUME NEW n \in Fd, keys'[n] = c
        PROVE  c \in registered'
    <3>1. CASE c \in news
      BY <3>1
    <3>2. CASE c \notin news
      <4>1. keys[n] = c /\ \A d \in news : fd'[d] # n
        BY <2>4, <3>2
      <4>2. c \in registered
        BY <2>1, <4>1
      <4>3. \A d \in news : fd_mappings[fd'[d]] # c
        BY <1>2, <1>3, <2>2, <4>1 DEF MapsSound
      <4>4. QED
        BY <4>2, <4>3
    <3>3. QED
      BY <3>1, <3>2
  <2>5. QED
    BY <2>3, <2>4
<1>7. \A n, m \in Fd : keys'[n] = keys'[m] /\ keys'[n] # NoConn => n = m
  <2> SUFFICES ASSUME NEW n \in Fd, NEW m \in Fd, keys'[n] = keys'[m], keys'[n] # NoConn
               PROVE  n = m
    OBVIOUS
  <2>1. keys'[n] \in Conn
    <3>1. keys' \in [Fd -> Conn \cup {NoConn}]
      BY DEF TypeOK
    <3>2. QED
      BY <3>1
  <2>2. \A k \in Fd : keys'[k] \in news => k = fd'[keys'[k]]
    <3> SUFFICES ASSUME NEW k \in Fd, keys'[k] \in news
                 PROVE  k = fd'[keys'[k]]
      OBVIOUS
    <3>1. keys'[k] \notin registered /\ keys'[k] \in Conn
      OBVIOUS
    <3>2. keys'[k] # keys[k]
      BY <3>1 DEF MapsSound
    <3>3. QED
      BY <3>2
  <2>3. \A k \in Fd : keys'[k] \notin news => keys'[k] = keys[k]
    OBVIOUS
  <2>4. CASE keys'[n] \in news
    BY <2>2, <2>4
  <2>5. CASE keys'[n] \notin news
    BY <2>3, <2>5 DEF MapsSound
  <2>6. QED
    BY <2>4, <2>5
<1>8. \A c \in registered' : Open(c)' => keys'[fd'[c]] = c /\ c \in watched'
  BY <1>2, <1>5
<1>9. \A c \in watched' : Open(c)' /\ c \in registered'
  <2> SUFFICES ASSUME NEW c \in watched'
               PROVE  Open(c)' /\ c \in registered'
    OBVIOUS
  <2>1. CASE c \in news
    BY <2>1
  <2>2. CASE c \notin news
    <3>1. c \in watched /\ c \in Conn
      BY <1>1, <2>2
    <3>2. Open(c) /\ c \in registered
      BY <3>1 DEF MapsSound
    <3>3. Open(c)'
      BY <2>2, <3>1, <3>2 DEF Open
    <3>4. QED
      BY <1>5, <3>2, <3>3
  <2>3. QED
    BY <2>1, <2>2
<1>10. QED
  BY <1>4, <1>5, <1>6, <1>7, <1>8, <1>9 DEF MapsSound
-----------------------------------------------------------------------------
(***************************************************************************)
(* The handlers that send.                                                 *)
(***************************************************************************)

LEMMA DropsByHandlerAreSound ==
    ASSUME IInv, NEW x, x # "server", Handles(x), NEW gone, gone \subseteq Conn,
           NEW unread \in [Conn -> SUBSET What], Drops(gone, unread),
           websocket' \subseteq Conn, PhasesSound', \A p \in greeted' : p \in greeted \/ Open(p),
           UNCHANGED <<web, relay, registered, fd_mappings, keys, lines, status>>
    PROVE  IInv'
<1>1. TypeOK /\ Runs /\ batch' = batch \ {x} /\ failed \in BOOLEAN
  BY DEF IInv, TypeOK, Handles
<1>2. /\ fd' = [p \in Conn |-> IF p \in gone THEN -1 ELSE fd[p]]
      /\ inbox' = [p \in Conn |-> IF p \in gone THEN {} ELSE unread[p]]
      /\ broken' = [p \in Conn |-> IF p \in gone THEN "no" ELSE broken[p]]
      /\ watched' = watched \ gone
      /\ failed' = (failed \/ gone # {})
  BY DEF Drops
<1>3. TypeOK'
  <2>1. fd' \in [Conn -> Fd \cup {0, -1}]
    BY <1>1, <1>2 DEF TypeOK
  <2>2. broken' \in [Conn -> {"no", "pipe", "timeout"}]
    BY <1>1, <1>2 DEF TypeOK
  <2>3. inbox' \in [Conn -> SUBSET What]
    BY <1>2
  <2>4. ws_connected' \subseteq Conn /\ greeted' \subseteq Conn
    BY DEF PhasesSound
  <2>5. QED
    BY <1>1, <1>2, <2>1, <2>2, <2>3, <2>4 DEF TypeOK, relay
<1>4. \A p \in Conn : fd'[p] = IF p \in gone THEN -1 ELSE fd[p]
  BY <1>2
<1>5. UNCHANGED <<selectables, wakeups, registered, fd_mappings, keys, lines, status>>
  BY DEF relay
<1>6. failed' \in BOOLEAN /\ (failed' <=> failed \/ gone # {})
  BY <1>1, <1>2
<1>7. QED
  BY <1>1, <1>2, <1>3, <1>4, <1>5, <1>6, DropsAreSound

\* Taking something from an inbox.
LEMMA ReadInbox ==
    ASSUME IInv, Runs, NEW c \in Conn, NEW S
    PROVE  [inbox EXCEPT ![c] = @ \ S] \in [Conn -> SUBSET What]
BY DEF IInv, TypeOK

LEMMA OnBundleIsSound ==
    ASSUME IInv, NEW c \in Conn, OnBundle(c)
    PROVE  IInv'
<1>1. /\ TypeOK /\ Handles(c) /\ Runs /\ Open(c) /\ PhasesSound
      /\ Broadcast(c, [inbox EXCEPT ![c] = @ \ {"bundle"}])
  BY DEF IInv, OnBundle, Handles
<1>2. PICK to : to = Receivers(c) \cup ({c} \ {NoConn})
  OBVIOUS
<1>3. to \subseteq Conn /\ \A p \in to : Closed(p) => p \in greeted
  BY <1>1, <1>2 DEF Receivers, TypeOK, Open, Closed
<1>4. CASE Raises(to)
  <2>1. SendRaises(to)
    BY <1>1, <1>2, <1>4 DEF Broadcast
  <2>2. \E p \in to : Closed(p) \/ broken[p] # "no"
    BY <1>4 DEF Raises
  <2>3. QED
    BY <1>1, <1>3, <2>1, <2>2, SendRaisesIsSound
<1>5. CASE ~Raises(to)
  <2>1. /\ Drops(Unreachable(to), [inbox EXCEPT ![c] = @ \ {"bundle"}])
        /\ UNCHANGED <<phases, relay, registered, fd_mappings, keys, lines, status>>
    BY <1>1, <1>2, <1>5 DEF Broadcast
  <2>2. Unreachable(to) \subseteq Conn
    BY <1>3 DEF Unreachable
  <2>3. c # "server"
    BY ConstantsAssumption DEF Fixed
  <2>4. websocket' \subseteq Conn /\ PhasesSound' /\ greeted' = greeted /\ web' = web
    BY <1>1, <2>1 DEF phases, PhasesSound, TypeOK
  <2>5. [inbox EXCEPT ![c] = @ \ {"bundle"}] \in [Conn -> SUBSET What]
    BY <1>1, ReadInbox
  <2>6. QED
    BY <1>1, <2>1, <2>2, <2>3, <2>4, <2>5, DropsByHandlerAreSound
<1>6. QED
  BY <1>4, <1>5

\* The websocket is established, and sent the first message.
LEMMA EstablishedIsSound ==
    ASSUME IInv, NEW c \in Conn, Handles(c), Open(c), Established(c)
    PROVE  IInv'
<1>1. TypeOK /\ Runs /\ PhasesSound /\ ~Closed(c)
  BY DEF IInv, Handles, Open, Closed
<1>2. CASE Raises({c})
  <2>1. SendRaises({c}) /\ broken[c] # "no"
    BY <1>1, <1>2 DEF Established, Raises
  <2>2. QED
    BY <1>1, <2>1, SendRaisesIsSound
<1>3. CASE ~Raises({c})
  <2>1. /\ Drops(Unreachable({c}), [inbox EXCEPT ![c] = @ \ {"upgrade", "accept"}])
        /\ websocket' = websocket \cup {c}
        /\ ws_connected' = ws_connected \cup {c}
        /\ UNCHANGED <<web, greeted, relay, registered, fd_mappings, keys, lines, status>>
    BY <1>3 DEF Established
  <2>2. Unreachable({c}) \subseteq Conn
    BY DEF Unreachable
  <2>3. c # "server"
    BY ConstantsAssumption DEF Fixed
  <2>4. websocket' \subseteq Conn /\ PhasesSound'
    BY <1>1, <2>1 DEF PhasesSound, TypeOK
  <2>5. [inbox EXCEPT ![c] = @ \ {"upgrade", "accept"}] \in [Conn -> SUBSET What]
    BY <1>1, ReadInbox
  <2>6. QED
    BY <2>1, <2>2, <2>3, <2>4, <2>5, DropsByHandlerAreSound
<1>4. QED
  BY <1>2, <1>3

LEMMA OnGreetingIsSound ==
    ASSUME IInv, NEW c \in Conn, NEW lacks \in BOOLEAN, OnGreeting(c, lacks)
    PROVE  IInv'
<1> DEFINE raises == Raises({c}) \/ (lacks /\ broken[c] = "pipe")
<1>1. TypeOK /\ Handles(c) /\ Runs /\ PhasesSound /\ Open(c) /\ ~Closed(c) /\ c \in ws_connected
  BY DEF IInv, OnGreeting, Handles, Open, Closed
<1>2. CASE raises
  <2>1. SendRaises({c}) /\ broken[c] # "no"
    BY <1>1, <1>2 DEF OnGreeting, Raises
  <2>2. QED
    BY <1>1, <2>1, SendRaisesIsSound
<1>3. CASE ~raises
  <2>1. /\ Drops(Unreachable({c}), [inbox EXCEPT ![c] = @ \ {"greeting"}])
        /\ greeted' = greeted \cup {c}
        /\ UNCHANGED <<web, websocket, ws_connected, relay, registered, fd_mappings, keys,
                       lines, status>>
    BY <1>3 DEF OnGreeting
  <2>2. Unreachable({c}) \subseteq Conn
    BY DEF Unreachable
  <2>3. c # "server"
    BY ConstantsAssumption DEF Fixed
  <2>4. /\ websocket' \subseteq Conn /\ PhasesSound'
        /\ \A p \in greeted' : p \in greeted \/ Open(p)
    BY <1>1, <2>1 DEF PhasesSound, TypeOK
  <2>5. [inbox EXCEPT ![c] = @ \ {"greeting"}] \in [Conn -> SUBSET What]
    BY <1>1, ReadInbox
  <2>6. QED
    BY <1>1, <2>1, <2>2, <2>3, <2>4, <2>5, DropsByHandlerAreSound
<1>4. QED
  BY <1>2, <1>3

LEMMA OnStoreIsSound ==
    ASSUME IInv, OnStore
    PROVE  IInv'
<1>1. /\ TypeOK /\ Handles("store") /\ Runs /\ PhasesSound /\ Broadcast(NoConn, inbox)
      /\ inbox \in [Conn -> SUBSET What]
  BY DEF IInv, TypeOK, OnStore, Handles
<1>2. PICK to : to = Receivers(NoConn) \cup ({NoConn} \ {NoConn})
  OBVIOUS
<1>3. to \subseteq Conn /\ \A p \in to : p \in greeted
  BY <1>1, <1>2 DEF Receivers, TypeOK
<1>4. CASE Raises(to)
  <2>1. SendRaises(to)
    BY <1>1, <1>2, <1>4 DEF Broadcast
  <2>2. \E p \in to : Closed(p) \/ broken[p] # "no"
    BY <1>4 DEF Raises
  <2>3. QED
    BY <1>1, <1>3, <2>1, <2>2, SendRaisesIsSound
<1>5. CASE ~Raises(to)
  <2>1. /\ Drops(Unreachable(to), inbox)
        /\ UNCHANGED <<phases, relay, registered, fd_mappings, keys, lines, status>>
    BY <1>1, <1>2, <1>5 DEF Broadcast
  <2>2. Unreachable(to) \subseteq Conn
    BY <1>3 DEF Unreachable
  <2>3. websocket' \subseteq Conn /\ PhasesSound' /\ greeted' = greeted /\ web' = web
    BY <1>1, <2>1 DEF phases, PhasesSound, TypeOK
  <2>4. QED
    BY <1>1, <2>1, <2>2, <2>3, DropsByHandlerAreSound
<1>6. QED
  BY <1>4, <1>5

\* What a commit raises stays on the console; how far it got is open.
LEMMA OnCommitIsSound ==
    ASSUME IInv, OnCommit
    PROVE  IInv'
<1>1. /\ TypeOK /\ Handles("console") /\ Runs /\ PhasesSound
      /\ inbox \in [Conn -> SUBSET What]
      /\ UNCHANGED <<phases, relay, registered, fd_mappings, keys, lines, status>>
  BY DEF IInv, TypeOK, OnCommit, Handles
<1>2. Receivers(NoConn) \subseteq Conn
  BY <1>1 DEF Receivers, TypeOK
<1>3. \E gone \in SUBSET Conn : Drops(gone, inbox)
  <2>1. CASE Raises(Receivers(NoConn))
    <3>1. PICK p \in Receivers(NoConn), S \in SUBSET Receivers(NoConn) :
            Drops(Unreachable(S) \cup {p}, inbox)
      BY <2>1 DEF OnCommit
    <3>2. Unreachable(S) \cup {p} \in SUBSET Conn
      BY <1>2 DEF Unreachable
    <3>3. QED
      BY <3>1, <3>2
  <2>2. CASE ~Raises(Receivers(NoConn))
    <3>1. Drops(Unreachable(Receivers(NoConn)), inbox)
      BY <2>2 DEF OnCommit
    <3>2. Unreachable(Receivers(NoConn)) \in SUBSET Conn
      BY <1>2 DEF Unreachable
    <3>3. QED
      BY <3>1, <3>2
  <2>3. QED
    BY <2>1, <2>2
<1>4. PICK gone \in SUBSET Conn : Drops(gone, inbox)
  BY <1>3
<1>5. websocket' \subseteq Conn /\ PhasesSound' /\ greeted' = greeted /\ web' = web
  BY <1>1 DEF phases, PhasesSound, TypeOK
<1>6. QED
  BY <1>1, <1>4, <1>5, DropsByHandlerAreSound
-----------------------------------------------------------------------------
(***************************************************************************)
(* The handlers by which connections come.                                 *)
(***************************************************************************)

LEMMA NewConnectionIsNew ==
    ASSUME TypeOK, FdsSound, NEW c \in Conn, fd[c] = 0, fd' = [fd EXCEPT ![c] = NewFd]
    PROVE  /\ fd' \in [Conn -> Fd \cup {0, -1}]
           /\ Open(c)' /\ fd'[c] # 0
           /\ \A d \in Conn : d # c => fd'[d] = fd[d]
           /\ \A d \in Conn : Open(d) => Open(d)'
           /\ \A d \in Conn : Closed(d)' => Closed(d)
           /\ \A d, e \in Conn : Open(d)' /\ fd'[d] = fd'[e] => d = e
<1>1. NewFd \in Fd /\ \A d \in Conn : fd[d] # NewFd
  <2>1. Fresh # {}
    BY DEF Fresh
  <2>2. QED
    BY <2>1, NewFdIsFree
<1>2. NewFd > 0 /\ NewFd # 0 /\ NewFd # -1
  BY <1>1, PositiveNumbers
<1>3. fd'[c] = NewFd /\ \A d \in Conn : d # c => fd'[d] = fd[d]
  BY DEF TypeOK
<1>4. fd' \in [Conn -> Fd \cup {0, -1}]
  BY <1>1 DEF TypeOK
<1>5. Open(c)' /\ fd'[c] # 0 /\ ~Closed(c)'
  BY <1>2, <1>3 DEF Open, Closed
<1>6. \A d \in Conn : Open(d) => Open(d)'
  BY <1>3, <1>5 DEF Open
<1>7. \A d \in Conn : Closed(d)' => Closed(d)
  BY <1>3, <1>5 DEF Closed
<1>8. \A d, e \in Conn : Open(d)' /\ fd'[d] = fd'[e] => d = e
  <2> SUFFICES ASSUME NEW d \in Conn, NEW e \in Conn, Open(d)', fd'[d] = fd'[e]
               PROVE  d = e
    OBVIOUS
  <2>1. CASE d = c \/ e = c
    BY <1>1, <1>3, <2>1
  <2>2. CASE d # c /\ e # c
    BY <1>3, <2>2 DEF FdsSound, Open
  <2>3. QED
    BY <2>1, <2>2
<1>9. QED
  BY <1>3, <1>4, <1>5, <1>6, <1>7, <1>8

\* What concerns the wakeups, when one is added for what leaves the batch.
LEMMA AnnouncedWakeups ==
    ASSUME TypeOK, WakeupsSound, NEW x \in {"listener", "console"}, x \in batch,
           batch' = batch \ {x}, wakeups' = wakeups + 1, lines' = lines
    PROVE  WakeupsSound' /\ wakeups' \in 0 .. MaxLines + 2 /\ wakeups' > 0
<1>1. wakeups \in Nat /\ lines \in Nat /\ MaxLines \in Nat /\ lines <= MaxLines
  <2>1. MaxLines \in Nat
    BY ConstantsAssumption
  <2>2. wakeups \in 0 .. MaxLines + 2 /\ lines \in 0 .. MaxLines
    BY DEF TypeOK
  <2>3. QED
    BY <2>1, <2>2
<1>2. /\ InBatch("listener") \in 0 .. 1 /\ InBatch("console") \in 0 .. 1
      /\ InBatch("server") \in 0 .. 1
      /\ InBatch("listener")' \in 0 .. 1 /\ InBatch("console")' \in 0 .. 1
  BY DEF InBatch
<1>3. InBatch("listener")' + InBatch("console")' = InBatch("listener") + InBatch("console") - 1
  BY DEF InBatch
<1>4. InBatch("server")' = InBatch("server")
  BY DEF InBatch
<1>5. wakeups + InBatch("listener") + InBatch("console") <= lines + 1 + InBatch("server")
  BY DEF WakeupsSound
<1>6. wakeups' + InBatch("listener")' + InBatch("console")'
            <= lines' + 1 + InBatch("server")'
  BY <1>1, <1>2, <1>3, <1>4, <1>5
<1>7. wakeups' <= MaxLines + 2
  BY <1>1, <1>2, <1>4, <1>6
<1>8. QED
  BY <1>1, <1>6, <1>7 DEF WakeupsSound

LEMMA OnConnectIsSound ==
    ASSUME IInv, OnConnect
    PROVE  IInv'
<1>1. /\ Runs /\ TypeOK /\ MapsSound /\ FdsSound /\ BatchSound /\ NewsAnnounced
      /\ WakeupsSound /\ PhasesSound /\ OnlyFaultsCrash /\ "console" \in batch
      /\ batch' = batch \ {"console"}
  BY DEF IInv, OnConnect, Handles
<1>2. PICK c \in Conn : /\ fd[c] = 0 /\ fd' = [fd EXCEPT ![c] = NewFd]
                       /\ connections' = connections \cup {c}
                       /\ selectables' = selectables \cup {c}
                       /\ websocket' = websocket \cup {c}
                       /\ UNCHANGED <<ws_connected, greeted, inbox, broken>>
  BY DEF OnConnect, Fresh, NewConnection
<1>3. /\ wakeups' = wakeups + 1
      /\ UNCHANGED <<web, backlog, registered, fd_mappings, keys, watched, lines, status, failed>>
  BY DEF OnConnect, maps
<1>4. /\ fd' \in [Conn -> Fd \cup {0, -1}]
      /\ Open(c)' /\ fd'[c] # 0
      /\ \A d \in Conn : d # c => fd'[d] = fd[d]
      /\ \A d \in Conn : Open(d) => Open(d)'
      /\ \A d \in Conn : Closed(d)' => Closed(d)
      /\ \A d, e \in Conn : Open(d)' /\ fd'[d] = fd'[e] => d = e
  BY <1>1, <1>2, NewConnectionIsNew
<1>5. WakeupsSound' /\ wakeups' \in 0 .. MaxLines + 2 /\ wakeups' > 0
  BY <1>1, <1>3, AnnouncedWakeups
<1>6. TypeOK'
  BY <1>1, <1>2, <1>3, <1>4, <1>5 DEF TypeOK
<1>7. registered \subseteq Conn /\ watched \subseteq Conn /\ selectables \subseteq Conn
  BY <1>1 DEF TypeOK
<1>8. c \notin registered
  BY <1>1, <1>2 DEF FdsSound
<1>9. MapsSound'
  <2>1. \A d \in registered' : Open(d)' => keys'[fd'[d]] = d /\ d \in watched'
    <3> SUFFICES ASSUME NEW d \in registered', Open(d)'
                 PROVE  keys'[fd'[d]] = d /\ d \in watched'
      OBVIOUS
    <3>1. d \in registered /\ d \in Conn /\ d # c
      BY <1>3, <1>7, <1>8
    <3>2. fd'[d] = fd[d] /\ Open(d)
      BY <1>4, <3>1 DEF Open
    <3>3. QED
      BY <1>1, <1>3, <3>1, <3>2 DEF MapsSound
  <2>2. \A d \in watched' : Open(d)' /\ d \in registered'
    BY <1>1, <1>3, <1>4, <1>7 DEF MapsSound
  <2>3. QED
    BY <1>1, <1>3, <2>1, <2>2 DEF MapsSound
<1>10. FdsSound'
  <2>1. \A d \in Conn : fd'[d] = 0 => d \notin registered' /\ d \notin selectables'
    BY <1>1, <1>2, <1>3, <1>4 DEF FdsSound
  <2>2. \A d \in Conn : Closed(d)' => failed' \/ (d \notin registered' /\ d \notin greeted')
    BY <1>1, <1>2, <1>3, <1>4 DEF FdsSound
  <2>3. QED
    BY <1>4, <2>1, <2>2 DEF FdsSound
<1>11. BatchSound'
  BY <1>1, <1>3, <1>4 DEF BatchSound
<1>12. NewsAnnounced'
  BY <1>5 DEF NewsAnnounced
<1>13. OnlyFaultsCrash' /\ PhasesSound'
  BY <1>1, <1>2, <1>3 DEF OnlyFaultsCrash, PhasesSound, Runs
<1>14. QED
  BY <1>5, <1>6, <1>9, <1>10, <1>11, <1>12, <1>13 DEF IInv

\* A connection that is accepted is added to the loop at once.
LEMMA AcceptedIsSound ==
    ASSUME TypeOK, MapsSound, FdsSound, BatchSound, TypeOK',
           NEW c \in Conn, fd[c] = 0, fd' = [fd EXCEPT ![c] = NewFd],
           Add({c}, fd'), selectables' \subseteq selectables \cup {c},
           batch' \subseteq batch, failed' = failed, greeted' = greeted
    PROVE  MapsSound' /\ FdsSound' /\ BatchSound'
<1>1. /\ Open(c)' /\ fd'[c] # 0
      /\ \A d \in Conn : d # c => fd'[d] = fd[d]
      /\ \A d \in Conn : Open(d) => Open(d)'
      /\ \A d \in Conn : Closed(d)' => Closed(d)
      /\ \A d, e \in Conn : Open(d)' /\ fd'[d] = fd'[e] => d = e
  BY NewConnectionIsNew
<1>2. c \notin registered
  BY DEF FdsSound
<1>3. PICK news : news = {d \in {c} : d \notin registered}
  OBVIOUS
<1>4. news = {c}
  BY <1>2, <1>3
<1>5. /\ registered' = (registered \ ({fd_mappings[fd'[d]] : d \in news} \ {NoConn})) \cup news
      /\ fd_mappings' = [n \in Fd |-> IF \E d \in news : fd'[d] = n
                                     THEN CHOOSE d \in news : fd'[d] = n ELSE fd_mappings[n]]
      /\ keys' = [n \in Fd |-> IF \E d \in news : fd'[d] = n
                              THEN CHOOSE d \in news : fd'[d] = n ELSE keys[n]]
      /\ watched' = watched \cup news
  BY <1>3 DEF Add
<1>6. \A n \in Fd : \/ \E d \in news : fd'[d] = n /\ keys'[n] = d /\ fd_mappings'[n] = d
                   \/ /\ \A d \in news : fd'[d] # n
                      /\ keys'[n] = keys[n] /\ fd_mappings'[n] = fd_mappings[n]
  BY <1>5
<1>7. \A d \in news : Open(d)' /\ d \notin registered
  BY <1>1, <1>2, <1>4
<1>8. \A d \in Conn : fd'[d] = fd[d] \/ (d \in news /\ fd[d] = 0)
  BY <1>1, <1>4
<1>9. news \subseteq Conn
  BY <1>4
<1>10. MapsSound' /\ \A d \in registered : Open(d)' => d \in registered'
  BY <1>1, <1>5, <1>6, <1>7, <1>8, <1>9, AddedIsSound
<1>11. registered' \subseteq registered \cup {c}
  BY <1>4, <1>5
<1>12. FdsSound'
  <2>1. \A d \in Conn : fd'[d] = 0 => d \notin registered' /\ d \notin selectables'
    BY <1>1, <1>11 DEF FdsSound
  <2>2. \A d \in Conn : Closed(d)' => failed' \/ (d \notin registered' /\ d \notin greeted')
    <3> SUFFICES ASSUME NEW d \in Conn, Closed(d)', ~failed'
                 PROVE  d \notin registered' /\ d \notin greeted'
      OBVIOUS
    <3>1. d # c /\ Closed(d)
      <4>1. ~Closed(c)'
        BY <1>1 DEF Open, Closed
      <4>2. QED
        BY <1>1, <4>1
    <3>2. QED
      BY <1>11, <3>1 DEF FdsSound
  <2>3. QED
    BY <1>1, <2>1, <2>2 DEF FdsSound
<1>13. BatchSound'
  BY <1>1, <1>10 DEF BatchSound
<1>14. QED
  BY <1>10, <1>12, <1>13

\* The types of what add leaves behind.
LEMMA AddHasTypes ==
    ASSUME NEW S, S \subseteq Conn, TypeOK, Add(S, fd) \/ Add(S, fd')
    PROVE  /\ registered' \subseteq Conn /\ watched' \subseteq Conn
           /\ fd_mappings' \in [Fd -> Conn \cup {NoConn}]
           /\ keys' \in [Fd -> Conn \cup {NoConn}]
<1>1. CASE Add(S, fd)
  BY <1>1 DEF Add, TypeOK
<1>2. CASE Add(S, fd')
  BY <1>2 DEF Add, TypeOK
<1>3. QED
  BY <1>1, <1>2

LEMMA OnListenerIsSound ==
    ASSUME IInv, OnListener
    PROVE  IInv'
<1>1. /\ Runs /\ TypeOK /\ MapsSound /\ FdsSound /\ BatchSound /\ NewsAnnounced
      /\ WakeupsSound /\ PhasesSound /\ "listener" \in batch
      /\ Handles("listener") /\ batch' = batch \ {"listener"}
  BY DEF IInv, OnListener, Handles
\* The handshake fails.
<1>2. CASE "failing" \in backlog /\ Unhandled
  BY <1>1, <1>2, UnhandledIsSound DEF Fault
\* The client is turned away.
<1>3. CASE /\ backlog' = backlog \ {"peer"}
           /\ UNCHANGED <<conns, connections, selectables, wakeups, maps, lines, status, failed>>
  <2>1. TypeOK'
    BY <1>1, <1>3 DEF TypeOK, conns, phases, maps
  <2>2. MapsSound' /\ FdsSound' /\ PhasesSound' /\ BatchSound' /\ NewsAnnounced'
    BY <1>1, <1>3 DEF MapsSound, FdsSound, PhasesSound, BatchSound, NewsAnnounced,
                      conns, phases, maps, Open, Closed
  <2>3. WakeupsSound'
    BY <1>1, <1>3, HandledWakeups
  <2>4. OnlyFaultsCrash'
    BY <1>1, <1>3 DEF OnlyFaultsCrash, Runs
  <2>5. QED
    BY <2>1, <2>2, <2>3, <2>4 DEF IInv
<1>4. CASE /\ backlog' = backlog \ {"peer"}
           /\ \E c \in Fresh :
                /\ NewConnection(c)
                /\ connections' = connections \cup {c}
                /\ selectables' = selectables \cup {c}
                /\ Add({c}, fd')
           /\ wakeups' = wakeups + 1
           /\ UNCHANGED <<web, websocket, lines, status, failed>>
  <2>1. PICK c \in Conn : /\ fd[c] = 0 /\ fd' = [fd EXCEPT ![c] = NewFd]
                         /\ connections' = connections \cup {c}
                         /\ selectables' = selectables \cup {c}
                         /\ UNCHANGED <<ws_connected, greeted, inbox, broken>>
                         /\ Add({c}, fd')
    BY <1>4 DEF Fresh, NewConnection
  <2>2. WakeupsSound' /\ wakeups' \in 0 .. MaxLines + 2 /\ wakeups' > 0
    BY <1>1, <1>4, AnnouncedWakeups
  <2>3. fd' \in [Conn -> Fd \cup {0, -1}]
    BY <1>1, <2>1, NewConnectionIsNew
  <2>4. /\ registered' \subseteq Conn /\ watched' \subseteq Conn
        /\ fd_mappings' \in [Fd -> Conn \cup {NoConn}]
        /\ keys' \in [Fd -> Conn \cup {NoConn}]
    BY <1>1, <2>1, AddHasTypes
  <2>5. TypeOK'
    BY <1>1, <1>4, <2>1, <2>2, <2>3, <2>4 DEF TypeOK
  <2>6. /\ selectables' \subseteq selectables \cup {c} /\ batch' \subseteq batch
        /\ failed' = failed /\ greeted' = greeted
    BY <1>1, <1>4, <2>1
  <2>7. MapsSound' /\ FdsSound' /\ BatchSound'
    BY <1>1, <2>1, <2>5, <2>6, AcceptedIsSound
  <2>8. NewsAnnounced'
    BY <2>2 DEF NewsAnnounced
  <2>9. OnlyFaultsCrash' /\ PhasesSound'
    BY <1>1, <1>4, <2>1 DEF OnlyFaultsCrash, PhasesSound, Runs
  <2>10. QED
    BY <2>2, <2>5, <2>7, <2>8, <2>9 DEF IInv
<1>5. QED
  BY <1>2, <1>3, <1>4 DEF OnListener

LEMMA OnWebListenerIsSound ==
    ASSUME IInv, OnWebListener
    PROVE  IInv'
<1>1. /\ Runs /\ TypeOK /\ MapsSound /\ FdsSound /\ BatchSound /\ NewsAnnounced
      /\ WakeupsSound /\ PhasesSound /\ batch' = batch \ {"web listener"}
      /\ backlog' = backlog \ {"web"}
      /\ UNCHANGED <<connections, selectables, wakeups, lines, status, failed>>
  BY DEF IInv, OnWebListener, Handles
<1>2. OnlyFaultsCrash'
  BY <1>1 DEF OnlyFaultsCrash, Runs
<1>3. WakeupsSound'
  BY <1>1, HandledWakeups
<1>4. CASE UNCHANGED <<conns, maps>>
  <2>1. TypeOK'
    BY <1>1, <1>4 DEF TypeOK, conns, phases, maps
  <2>2. MapsSound' /\ FdsSound' /\ PhasesSound' /\ BatchSound' /\ NewsAnnounced'
    BY <1>1, <1>4 DEF MapsSound, FdsSound, PhasesSound, BatchSound, NewsAnnounced,
                      conns, phases, maps, Open, Closed
  <2>3. QED
    BY <1>2, <1>3, <2>1, <2>2 DEF IInv
<1>5. CASE \E c \in Fresh : /\ NewConnection(c)
                           /\ web' = web \cup {c}
                           /\ UNCHANGED websocket
                           /\ Add({c}, fd')
  <2>1. PICK c \in Conn : /\ fd[c] = 0 /\ fd' = [fd EXCEPT ![c] = NewFd]
                         /\ web' = web \cup {c}
                         /\ UNCHANGED <<websocket, ws_connected, greeted, inbox, broken>>
                         /\ Add({c}, fd')
    BY <1>5 DEF Fresh, NewConnection
  <2>2. fd' \in [Conn -> Fd \cup {0, -1}] /\ \A d \in Conn : d # c => fd'[d] = fd[d]
    BY <1>1, <2>1, NewConnectionIsNew
  <2>3. /\ registered' \subseteq Conn /\ watched' \subseteq Conn
        /\ fd_mappings' \in [Fd -> Conn \cup {NoConn}]
        /\ keys' \in [Fd -> Conn \cup {NoConn}]
    BY <1>1, <2>1, AddHasTypes
  <2>4. TypeOK'
    BY <1>1, <2>1, <2>2, <2>3 DEF TypeOK
  <2>5. /\ selectables' \subseteq selectables \cup {c} /\ batch' \subseteq batch
        /\ failed' = failed /\ greeted' = greeted
    BY <1>1, <2>1
  <2>6. MapsSound' /\ FdsSound' /\ BatchSound'
    BY <1>1, <2>1, <2>4, <2>5, AcceptedIsSound
  <2>7. NewsAnnounced'
    <3> SUFFICES ASSUME NEW d \in selectables', Open(d)', d \notin registered'
                 PROVE  wakeups' > 0
      BY DEF NewsAnnounced
    <3>1. d \in selectables /\ d \in Conn /\ d # c
      BY <1>1, <2>1 DEF TypeOK, FdsSound
    <3>2. Open(d) /\ fd'[d] = fd[d]
      BY <2>2, <3>1 DEF Open
    <3>3. d \notin registered
      <4> SUFFICES ASSUME d \in registered
                   PROVE  FALSE
        OBVIOUS
      <4>1. d \in watched
        BY <1>1, <3>2 DEF MapsSound
      <4>2. d \in watched'
        BY <2>1, <4>1 DEF Add
      <4>3. QED
        BY <2>6, <4>2 DEF MapsSound
    <3>4. QED
      BY <1>1, <3>1, <3>2, <3>3 DEF NewsAnnounced
  <2>8. PhasesSound'
    BY <1>1, <2>1 DEF PhasesSound
  <2>9. QED
    BY <1>2, <1>3, <2>4, <2>6, <2>7, <2>8 DEF IInv
<1>6. QED
  BY <1>4, <1>5 DEF OnWebListener

\* The loop asks the server what there is to select from.
LEMMA OnServerIsSound ==
    ASSUME IInv, OnServer
    PROVE  IInv'
<1>1. /\ Runs /\ TypeOK /\ MapsSound /\ FdsSound /\ BatchSound /\ NewsAnnounced
      /\ WakeupsSound /\ PhasesSound /\ "server" \in batch
      /\ batch' = batch \ {"server"} /\ wakeups' = wakeups - 1
      /\ selectables' = {c \in selectables : ~Closed(c)}
      /\ fd' = fd /\ UNCHANGED <<phases, inbox, broken, connections, backlog,
                                 lines, status, failed>>
  BY DEF IInv, OnServer, Handles, conns
<1>2. Add({c \in selectables : ~Closed(c)}, fd)
  BY DEF OnServer
<1>3. PICK news : news = {c \in {d \in selectables : ~Closed(d)} : c \notin registered}
  OBVIOUS
<1>4. /\ registered' = (registered \ ({fd_mappings[fd[c]] : c \in news} \ {NoConn})) \cup news
      /\ fd_mappings' = [n \in Fd |-> IF \E c \in news : fd[c] = n
                                     THEN CHOOSE c \in news : fd[c] = n ELSE fd_mappings[n]]
      /\ keys' = [n \in Fd |-> IF \E c \in news : fd[c] = n
                              THEN CHOOSE c \in news : fd[c] = n ELSE keys[n]]
      /\ watched' = watched \cup news
  BY <1>2, <1>3 DEF Add
<1>5. selectables \subseteq Conn /\ news \subseteq Conn
  BY <1>1, <1>3 DEF TypeOK
<1>6. \A c \in news : Open(c) /\ Open(c)' /\ c \notin registered
  <2> SUFFICES ASSUME NEW c \in news
               PROVE  Open(c) /\ Open(c)' /\ c \notin registered
    OBVIOUS
  <2>1. c \in Conn /\ c \in selectables /\ ~Closed(c) /\ c \notin registered
    BY <1>3, <1>5
  <2>2. fd[c] # 0
    BY <1>1, <2>1 DEF FdsSound
  <2>3. Open(c)
    BY <1>1, <2>1, <2>2, Numbers
  <2>4. QED
    BY <1>1, <2>1, <2>3 DEF Open
<1>7. wakeups \in Nat /\ lines \in Nat /\ MaxLines \in Nat /\ wakeups <= MaxLines + 2
  <2>1. MaxLines \in Nat
    BY ConstantsAssumption
  <2>2. wakeups \in 0 .. MaxLines + 2 /\ lines \in 0 .. MaxLines
    BY <1>1 DEF TypeOK
  <2>3. QED
    BY <2>1, <2>2
<1>8. wakeups >= 1
  BY <1>1 DEF WakeupsSound
<1>9. TypeOK'
  <2>1. wakeups' \in 0 .. MaxLines + 2
    BY <1>1, <1>7, <1>8
  <2>2. {c \in selectables : ~Closed(c)} \subseteq Conn
    BY <1>5
  <2>3. /\ registered' \subseteq Conn /\ watched' \subseteq Conn
        /\ fd_mappings' \in [Fd -> Conn \cup {NoConn}]
        /\ keys' \in [Fd -> Conn \cup {NoConn}]
    BY <1>1, <1>2, <2>2, AddHasTypes
  <2>4. QED
    BY <1>1, <2>1, <2>2, <2>3 DEF TypeOK, phases
<1>10. \A c \in Conn : /\ Open(c)' <=> Open(c)
                       /\ Closed(c)' <=> Closed(c)
  BY <1>1 DEF Open, Closed
<1>11. MapsSound' /\ \A c \in registered : Open(c)' => c \in registered'
  <2>1. \A c \in news : Open(c)' /\ c \notin registered
    BY <1>6
  <2>2. \A c \in Conn : fd'[c] = fd[c] \/ (c \in news /\ fd[c] = 0)
    BY <1>1
  <2>3. \A c, d \in Conn : Open(c)' /\ fd'[c] = fd'[d] => c = d
    BY <1>1, <1>10 DEF FdsSound
  <2>4. \A n \in Fd : \/ \E c \in news : fd'[c] = n /\ keys'[n] = c /\ fd_mappings'[n] = c
                     \/ /\ \A c \in news : fd'[c] # n
                        /\ keys'[n] = keys[n] /\ fd_mappings'[n] = fd_mappings[n]
    <3>1. \A n \in Fd : \/ \E c \in news : fd[c] = n /\ keys'[n] = c /\ fd_mappings'[n] = c
                       \/ /\ \A c \in news : fd[c] # n
                          /\ keys'[n] = keys[n] /\ fd_mappings'[n] = fd_mappings[n]
      BY <1>4
    <3>2. QED
      BY <1>1, <3>1
  <2>5. registered' = (registered \ ({fd_mappings[fd'[c]] : c \in news} \ {NoConn})) \cup news
    BY <1>1, <1>4
  <2>6. QED
    BY <1>1, <1>4, <1>5, <1>9, <2>1, <2>2, <2>3, <2>4, <2>5, AddedIsSound
<1>12. FdsSound'
  <2>1. \A c, d \in Conn : Open(c)' /\ fd'[c] = fd'[d] => c = d
    BY <1>1, <1>10 DEF FdsSound
  <2>2. \A c \in Conn : fd'[c] = 0 => c \notin registered' /\ c \notin selectables'
    <3> SUFFICES ASSUME NEW c \in Conn, fd'[c] = 0
                 PROVE  c \notin registered' /\ c \notin selectables'
      OBVIOUS
    <3>1. c \notin registered /\ c \notin selectables
      BY <1>1 DEF FdsSound
    <3>2. QED
      BY <1>1, <1>3, <1>4, <3>1
  <2>3. \A c \in Conn : Closed(c)' => failed' \/ (c \notin registered' /\ c \notin greeted')
    <3> SUFFICES ASSUME NEW c \in Conn, Closed(c)', ~failed'
                 PROVE  c \notin registered' /\ c \notin greeted'
      OBVIOUS
    <3>1. c \notin registered /\ c \notin greeted /\ c \notin news
      BY <1>1, <1>3, <1>10 DEF FdsSound
    <3>2. QED
      BY <1>1, <1>4, <3>1 DEF phases
  <2>4. QED
    BY <2>1, <2>2, <2>3 DEF FdsSound
<1>13. BatchSound'
  BY <1>1, <1>10, <1>11 DEF BatchSound
<1>14. NewsAnnounced'
  <2>1. \A c \in selectables' : c \in news \/ c \in registered
    BY <1>1, <1>3
  <2>2. \A c \in selectables' : Open(c)' => c \in registered'
    BY <1>4, <1>11, <2>1
  <2>3. QED
    BY <2>2 DEF NewsAnnounced
<1>15. WakeupsSound'
  <2>1. /\ InBatch("listener") \in 0 .. 1 /\ InBatch("console") \in 0 .. 1
        /\ InBatch("server") = 1 /\ InBatch("server")' = 0
        /\ InBatch("listener")' = InBatch("listener")
        /\ InBatch("console")' = InBatch("console")
    BY <1>1 DEF InBatch
  <2>2. wakeups + InBatch("listener") + InBatch("console") <= lines + 1 + InBatch("server")
    BY <1>1 DEF WakeupsSound
  <2>3. wakeups' + InBatch("listener")' + InBatch("console")'
            <= lines' + 1 + InBatch("server")'
    BY <1>1, <1>7, <2>1, <2>2
  <2>4. "server" \notin batch'
    BY <1>1
  <2>5. QED
    BY <2>3, <2>4 DEF WakeupsSound
<1>16. OnlyFaultsCrash' /\ PhasesSound'
  BY <1>1 DEF OnlyFaultsCrash, PhasesSound, Runs, phases
<1>17. QED
  BY <1>9, <1>11, <1>12, <1>13, <1>14, <1>15, <1>16 DEF IInv
-----------------------------------------------------------------------------
(***************************************************************************)
(* The loop itself.                                                        *)
(***************************************************************************)

LEMMA OnConsoleEndIsSound ==
    ASSUME IInv, OnConsoleEnd
    PROVE  IInv'
<1>1. /\ Runs /\ TypeOK /\ MapsSound /\ FdsSound /\ BatchSound /\ NewsAnnounced
      /\ WakeupsSound /\ PhasesSound /\ batch' = batch \ {"console"} /\ status' = "stopping"
      /\ UNCHANGED <<conns, relay, maps, lines, failed>>
  BY DEF IInv, OnConsoleEnd, Handles
<1>2. TypeOK'
  BY <1>1 DEF TypeOK, conns, phases, relay, maps, Statuses
<1>3. MapsSound' /\ FdsSound' /\ PhasesSound' /\ BatchSound' /\ NewsAnnounced'
  BY <1>1 DEF MapsSound, FdsSound, PhasesSound, BatchSound, NewsAnnounced,
              conns, phases, relay, maps, Open, Closed
<1>4. WakeupsSound'
  <2>1. wakeups' = wakeups /\ lines' = lines
    BY <1>1 DEF relay
  <2>2. QED
    BY <1>1, <2>1, HandledWakeups
<1>5. OnlyFaultsCrash'
  BY <1>1 DEF OnlyFaultsCrash
<1>6. QED
  BY <1>2, <1>3, <1>4, <1>5 DEF IInv

\* What is ready is handled by the connection that it is there for.
LEMMA ReadyIsWatched ==
    ASSUME TypeOK, MapsSound
    PROVE  /\ Ready \subseteq watched \cup {"server", "listener", "web listener"}
           /\ "server" \in Ready <=> wakeups > 0
<1>1. watched \subseteq Conn
  BY DEF TypeOK
<1>2. \A c \in watched : keys[fd[c]] = c
  BY DEF MapsSound
<1>3. {keys[fd[c]] : c \in {d \in watched : inbox[d] # {}}} \subseteq watched
  BY <1>2
<1>4. "server" \notin watched
  BY <1>1, ConstantsAssumption DEF Fixed
<1>5. QED
  BY <1>3, <1>4 DEF Ready

LEMMA SelectIsSound ==
    ASSUME IInv, Select
    PROVE  IInv'
<1>1. /\ Runs /\ TypeOK /\ MapsSound /\ FdsSound /\ BatchSound /\ NewsAnnounced
      /\ WakeupsSound /\ PhasesSound /\ batch = {} /\ status = "running" /\ lines' <= MaxLines
      /\ UNCHANGED <<conns, relay, maps, status, failed>>
  BY DEF IInv, Select, Runs
<1>2. PICK inputs \in SUBSET {"console", "store"} : /\ lines' = lines + Cardinality(inputs)
                                                  /\ batch' = Ready \cup inputs
  BY DEF Select
<1>3. Ready \subseteq watched \cup {"server", "listener", "web listener"}
  BY <1>1, ReadyIsWatched
<1>4. "server" \in Ready <=> wakeups > 0
  BY <1>1, ReadyIsWatched
<1>5. watched \subseteq Conn
  BY <1>1 DEF TypeOK
<1>6. Conn \cap Fixed = {}
  BY ConstantsAssumption
<1>7. Cardinality(inputs) \in Nat /\ ("console" \in inputs => Cardinality(inputs) >= 1)
  <2>1. IsFiniteSet({"console"} \cup {"store"})
    BY FS_Singleton, FS_AddElement
  <2>2. {"console", "store"} = {"console"} \cup {"store"}
    OBVIOUS
  <2>3. IsFiniteSet(inputs)
    BY <2>1, <2>2, FS_Subset
  <2>4. Cardinality(inputs) \in Nat
    BY <2>3, FS_CardinalityType
  <2>5. Cardinality(inputs) = 0 => inputs = {}
    BY <2>3, FS_EmptySet
  <2>6. QED
    BY <2>4, <2>5
<1>8. wakeups \in Nat /\ lines \in Nat /\ MaxLines \in Nat
  <2>1. MaxLines \in Nat
    BY ConstantsAssumption
  <2>2. wakeups \in 0 .. MaxLines + 2 /\ lines \in 0 .. MaxLines
    BY <1>1 DEF TypeOK
  <2>3. QED
    BY <2>1, <2>2
<1>9. TypeOK'
  <2>1. lines' \in 0 .. MaxLines
    BY <1>1, <1>2, <1>7, <1>8
  <2>2. batch' \subseteq Conn \cup Fixed
    BY <1>2, <1>3, <1>5 DEF Fixed
  <2>3. QED
    BY <1>1, <2>1, <2>2 DEF TypeOK, conns, phases, relay, maps
<1>10. MapsSound' /\ FdsSound' /\ PhasesSound' /\ NewsAnnounced'
  BY <1>1 DEF MapsSound, FdsSound, PhasesSound, NewsAnnounced, conns, phases, relay, maps,
              Open, Closed
<1>11. BatchSound'
  <2>1. \A c \in Conn : c \in batch' => c \in watched
    BY <1>2, <1>3, <1>6 DEF Fixed
  <2>2. \A c \in watched : Open(c) /\ c \in registered
    BY <1>1 DEF MapsSound
  <2>3. \A c \in Conn : Open(c)' <=> Open(c)
    BY <1>1 DEF Open, conns
  <2>4. registered' = registered
    BY <1>1 DEF maps
  <2>5. QED
    BY <2>1, <2>2, <2>3, <2>4 DEF BatchSound
<1>12. WakeupsSound'
  <2>1. wakeups' = wakeups
    BY <1>1 DEF relay
  <2>2. wakeups <= lines + 1
    <3>1. InBatch("listener") = 0 /\ InBatch("console") = 0 /\ InBatch("server") = 0
      BY <1>1 DEF InBatch
    <3>2. QED
      BY <1>1, <1>8, <3>1 DEF WakeupsSound
  <2>3. "server" \in batch' <=> wakeups > 0
    BY <1>2, <1>4
  <2>4. "console" \in batch' => Cardinality(inputs) >= 1
    <3>1. "console" \notin Ready
      BY <1>3, <1>5, <1>6 DEF Fixed
    <3>2. QED
      BY <1>2, <1>7, <3>1
  <2>5. InBatch("listener")' \in 0 .. 1
    BY DEF InBatch
  <2>6. InBatch("console")' = 0 \/ (InBatch("console")' = 1 /\ Cardinality(inputs) >= 1)
    BY <2>4 DEF InBatch
  <2>7. InBatch("server")' = IF wakeups > 0 THEN 1 ELSE 0
    BY <2>3 DEF InBatch
  <2>8. wakeups' + InBatch("listener")' + InBatch("console")'
            <= lines' + 1 + InBatch("server")'
    BY <1>2, <1>7, <1>8, <2>1, <2>2, <2>5, <2>6, <2>7
  <2>9. "server" \in batch' => wakeups' >= 1
    BY <1>8, <2>1, <2>3
  <2>10. QED
    BY <2>8, <2>9 DEF WakeupsSound
<1>13. OnlyFaultsCrash'
  BY <1>1 DEF OnlyFaultsCrash
<1>14. QED
  BY <1>9, <1>10, <1>11, <1>12, <1>13 DEF IInv

LEMMA StopIsSound ==
    ASSUME IInv, Stop
    PROVE  IInv'
<1>1. TypeOK'
  BY DEF IInv, TypeOK, Stop, conns, phases, relay, Statuses
<1>2. status' = "stopped"
  BY DEF Stop
<1>3. OnlyFaultsCrash' /\ ~Runs'
  BY <1>2 DEF OnlyFaultsCrash, Runs
<1>4. QED
  BY <1>1, <1>3 DEF IInv
-----------------------------------------------------------------------------
(***************************************************************************)
(* The invariant, and what it gives.                                       *)
(***************************************************************************)

LEMMA InitIsSound == Init => IInv
<1> SUFFICES ASSUME Init
             PROVE  IInv
  OBVIOUS
<1>1. TypeOK
  <2>1. MaxLines \in Nat
    BY ConstantsAssumption
  <2>2. 0 \in 0 .. MaxLines + 2 /\ 0 \in 0 .. MaxLines
    BY <2>1
  <2>3. QED
    BY <2>2 DEF Init, TypeOK, Statuses
<1>2. OnlyFaultsCrash
  BY DEF Init, OnlyFaultsCrash
<1>3. \A c \in Conn : fd[c] = 0 /\ ~Open(c) /\ ~Closed(c)
  BY DEF Init, Open, Closed
<1>4. MapsSound
  <2>1. \A c \in Conn : c # NoConn
    BY ConstantsAssumption
  <2>2. QED
    BY <2>1 DEF Init, MapsSound
<1>5. FdsSound
  BY <1>3 DEF Init, FdsSound
<1>6. BatchSound /\ NewsAnnounced /\ PhasesSound
  BY DEF Init, BatchSound, NewsAnnounced, PhasesSound
<1>7. WakeupsSound
  <2>1. InBatch("listener") = 0 /\ InBatch("console") = 0 /\ InBatch("server") = 0
    BY DEF Init, InBatch
  <2>2. QED
    BY <2>1 DEF Init, WakeupsSound
<1>8. QED
  BY <1>1, <1>2, <1>4, <1>5, <1>6, <1>7 DEF IInv

\* How a connection begins: the header of its request, or the answer to ours.
LEMMA ReadingIsSound ==
    ASSUME IInv, NEW c \in Conn, OnRequest(c) \/ OnUpgrade(c) \/ OnAccept(c)
    PROVE  IInv'
<1>1. Handles(c) /\ Open(c)
  BY DEF OnRequest, OnUpgrade, OnAccept
<1>2. CASE OnRequest(c)
  <2>1. CASE Finished(c, FALSE)
    BY <1>1, <1>2, <2>1, FinishedIsSound DEF OnRequest
  <2>2. CASE broken[c] # "no" /\ Unhandled
    <3>1. Fault
      BY <1>1, <1>2, <2>2 DEF OnRequest, Fault
    <3>2. QED
      BY <1>1, <2>2, <3>1, UnhandledIsSound
  <2>3. QED
    BY <1>2, <2>1, <2>2 DEF OnRequest
<1>3. CASE OnUpgrade(c)
  <2>1. CASE Finished(c, TRUE)
    BY <1>1, <2>1, FinishedIsSound
  <2>2. CASE Established(c)
    BY <1>1, <2>2, EstablishedIsSound
  <2>3. CASE broken[c] # "no" /\ Unhandled
    <3>1. Fault
      BY <1>1, <1>3, <2>3 DEF OnUpgrade, Fault
    <3>2. QED
      BY <1>1, <2>3, <3>1, UnhandledIsSound
  <2>4. QED
    BY <1>3, <2>1, <2>2, <2>3 DEF OnUpgrade
<1>4. CASE OnAccept(c)
  BY <1>1, <1>4, EstablishedIsSound DEF OnAccept
<1>5. QED
  BY <1>2, <1>3, <1>4

\* How a connection ends.
LEMMA EndingIsSound ==
    ASSUME IInv, NEW c \in Conn, OnEnd(c) \/ OnReset(c) \/ OnError(c) \/ OnClosed(c)
    PROVE  IInv'
<1>1. Handles(c)
  BY DEF OnEnd, OnReset, OnError, OnClosed
<1>2. CASE Finished(c, TRUE)
  BY <1>1, <1>2, FinishedIsSound
<1>3. CASE Finished(c, c \in websocket)
  <2>1. (c \in websocket) \in BOOLEAN
    OBVIOUS
  <2>2. QED
    BY <1>1, <1>3, <2>1, FinishedIsSound
<1>4. CASE Fault /\ Unhandled
  BY <1>1, <1>4, UnhandledIsSound
<1>5. OnEnd(c) => Finished(c, c \in websocket) \/ (Fault /\ Unhandled)
  BY DEF OnEnd, Fault
<1>6. OnReset(c) => Finished(c, TRUE) \/ (Fault /\ Unhandled)
  BY DEF OnReset, Fault
<1>7. OnError(c) => Fault /\ Unhandled
  BY DEF OnError, Fault
<1>8. OnClosed(c) => Finished(c, TRUE)
  BY DEF OnClosed
<1>9. QED
  BY <1>2, <1>3, <1>4, <1>5, <1>6, <1>7, <1>8

LEMMA HandleIsSound ==
    ASSUME IInv, Handle
    PROVE  IInv'
<1>1. CASE \/ OnServer \/ OnListener \/ OnWebListener
           \/ OnStore \/ OnCommit \/ OnConnect \/ OnConsoleEnd
  BY <1>1, OnServerIsSound, OnListenerIsSound, OnWebListenerIsSound,
     OnStoreIsSound, OnCommitIsSound, OnConnectIsSound, OnConsoleEndIsSound
<1>2. ASSUME NEW c \in Conn, OnRequest(c) \/ OnUpgrade(c) \/ OnAccept(c)
      PROVE  IInv'
  BY <1>2, ReadingIsSound
<1>3. ASSUME NEW c \in Conn, OnEnd(c) \/ OnReset(c) \/ OnError(c) \/ OnClosed(c)
      PROVE  IInv'
  BY <1>3, EndingIsSound
<1>4. ASSUME NEW c \in Conn, OnBundle(c)
      PROVE  IInv'
  BY <1>4, OnBundleIsSound
<1>5. ASSUME NEW c \in Conn, NEW lacks \in BOOLEAN, OnGreeting(c, lacks)
      PROVE  IInv'
  BY <1>5, OnGreetingIsSound
<1>6. QED
  BY <1>1, <1>2, <1>3, <1>4, <1>5 DEF Handle

LEMMA NextIsSound == IInv /\ [Next]_vars => IInv'
<1> SUFFICES ASSUME IInv, [Next]_vars
             PROVE  IInv'
  OBVIOUS
<1>1. ASSUME NEW type \in Clients, ClientConnects(type)
      PROVE  IInv'
  <2>1. /\ Runs
        /\ UNCHANGED <<fd, phases, selectables, wakeups, maps, batch, lines, status, failed>>
    BY <1>1 DEF ClientConnects, conns
  <2>2. TypeOK'
    BY <1>1 DEF IInv, TypeOK, ClientConnects, conns, phases, maps
  <2>3. QED
    BY <2>1, <2>2, WorldIsSound
<1>2. ASSUME NEW c \in Conn, NEW what \in What, PeerSends(c, what)
      PROVE  IInv'
  <2>1. /\ Runs
        /\ UNCHANGED <<fd, phases, selectables, wakeups, maps, batch, lines, status, failed>>
    BY <1>2 DEF PeerSends, relay
  <2>2. TypeOK'
    BY <1>2 DEF IInv, TypeOK, PeerSends, phases, relay, maps
  <2>3. QED
    BY <2>1, <2>2, WorldIsSound
<1>3. ASSUME NEW c \in Conn, NEW how \in {"pipe", "timeout"}, PeerStopsReceiving(c, how)
      PROVE  IInv'
  <2>1. /\ Runs
        /\ UNCHANGED <<fd, phases, selectables, wakeups, maps, batch, lines, status, failed>>
    BY <1>3 DEF PeerStopsReceiving, relay
  <2>2. TypeOK'
    BY <1>3 DEF IInv, TypeOK, PeerStopsReceiving, phases, relay, maps
  <2>3. QED
    BY <2>1, <2>2, WorldIsSound
<1>4. CASE UNCHANGED vars
  <2>1. TypeOK' /\ OnlyFaultsCrash'
    BY <1>4 DEF IInv, TypeOK, vars, conns, phases, relay, maps, OnlyFaultsCrash, Fault, Open
  <2>2. Runs' => Runs
    BY <1>4 DEF vars, Runs
  <2>3. CASE Runs
    <3>1. UNCHANGED <<fd, phases, selectables, wakeups, maps, batch, lines, status, failed>>
      BY <1>4 DEF vars, conns, relay
    <3>2. QED
      BY <2>1, <2>3, <3>1, WorldIsSound
  <2>4. QED
    BY <2>1, <2>2, <2>3 DEF IInv
<1>5. QED
  BY <1>1, <1>2, <1>3, <1>4, SelectIsSound, HandleIsSound, StopIsSound DEF Next

\* The inductive invariant holds in every state of every behaviour.
THEOREM AlwaysSound == Spec => []IInv
BY InitIsSound, NextIsSound, PTL DEF Spec

\* Every variable has its type; above all, the bytes in the server's socket pair
\* are bounded by what the console has done.
THEOREM TypesAreRight == Spec => []TypeOK
<1>1. IInv => TypeOK
  BY DEF IInv
<1>2. QED
  BY <1>1, AlwaysSound, PTL

\* The maps of looping.py and of the selector agree with one another and with
\* what is open, however file numbers are reused.
THEOREM MapsAlwaysAgree == Spec => []MapsAgree
<1>1. IInv => MapsAgree
  <2> SUFFICES ASSUME IInv, status = "running"
               PROVE  /\ keys = fd_mappings
                      /\ registered = {keys[n] : n \in Fd} \ {NoConn}
                      /\ \A c \in registered : Open(c) => keys[fd[c]] = c /\ c \in watched
                      /\ \A c \in watched : Open(c) /\ c \in registered
    BY DEF MapsAgree
  <2>1. TypeOK /\ MapsSound
    BY DEF IInv, Runs
  <2>2. registered \subseteq Conn /\ \A n \in Fd : keys[n] \in Conn \cup {NoConn}
    BY <2>1 DEF TypeOK
  <2>3. NoConn \notin Conn
    BY ConstantsAssumption
  <2>4. \A c : c \in registered <=> c \in {keys[n] : n \in Fd} \ {NoConn}
    BY <2>1, <2>2, <2>3 DEF MapsSound
  <2>5. QED
    BY <2>1, <2>4 DEF MapsSound
<1>2. QED
  BY <1>1, AlwaysSound, PTL

\* A connection of the relay that the loop has not got yet has a wakeup waiting.
THEOREM NoneIsMissed == Spec => []NoConnectionIsMissed
<1>1. IInv => NoConnectionIsMissed
  BY DEF IInv, Runs, NewsAnnounced, NoConnectionIsMissed
<1>2. QED
  BY <1>1, AlwaysSound, PTL

\* The loop's own bookkeeping raises nothing unless a Connection.send has failed,
\* whatever comes, goes or is said in any order; every other exception is that of
\* an unguarded call that a client has made fail.
THEOREM OnlyFaultsEndTheLoop == Spec => []OnlyFaultsCrash
<1>1. IInv => OnlyFaultsCrash
  BY DEF IInv
<1>2. QED
  BY <1>1, AlwaysSound, PTL
=============================================================================
