-------------------------- MODULE BraidServerProofs --------------------------
(***************************************************************************)
(* Proofs about BraidServer, for any number of clients, chains, braids,    *)
(* connections and bundles, and for any limits of the braids at first.     *)
(***************************************************************************)
EXTENDS BraidServer, TLAPS, SequenceTheorems, FiniteSetTheorems

\* What a _tracker, or a store, knows of the chains.
Maps == [Chain -> 0 .. MaxLen]

\* What the braids may be.
Limits == [Braid -> [Chain -> 0 .. inf]]

-----------------------------------------------------------------------------
(* Messages and maps. *)

\* Messages are told apart by their type.
LEMMA MessageFacts ==
    /\ Accept \in Message /\ Accept.type = "accept"
    /\ \A map \in Maps : Greeting(map) \in Message
    /\ \A map : Greeting(map).type = "greeting"
    /\ \A ch \in Chain, i \in 1 .. MaxLen : Bundle(ch, i) \in Message
    /\ \A ch, i : /\ Bundle(ch, i).type = "bundle"
                  /\ Bundle(ch, i).chain = ch
                  /\ Bundle(ch, i).number = i
    /\ Bundles \subseteq Message
    /\ \A m \in Message : m.type = "bundle" => m.chain \in Chain /\ m.number \in 1 .. MaxLen
    /\ \A m \in Message : m.type = "greeting" => m.has \in Maps
BY DEF Message, Bundles, Accept, Greeting, Bundle, Maps

\* inf is more than any number of bundles.
LEMMA Bounds == MaxLen \in Nat /\ inf \in Nat /\ inf > MaxLen /\ inf # 0
BY ConstantsAssumption DEF inf

\* A map without entries is a map.
LEMMA EmptyMapType == EmptyMap \in Maps
BY Bounds DEF EmptyMap, Maps

\* mark_as_having keeps a map a map.
LEMMA MarkType ==
    ASSUME NEW map \in Maps, NEW ch \in Chain, NEW i \in 1 .. MaxLen
    PROVE  mark_as_having(map, ch, i) \in Maps
BY Bounds DEF mark_as_having, Maps

\* Of two maps, the greater entries, are a map.
LEMMA GreaterType ==
    ASSUME NEW map \in Maps, NEW other \in Maps
    PROVE  Greater(map, other) \in Maps
BY DEF Greater, Maps

\* The part of a map that is in a braid is a map.
LEMMA SubsetType ==
    ASSUME NEW map \in Maps, NEW b \in Braid
    PROVE  Subset(map, b) \in Maps
BY Bounds DEF Subset, Maps

\* What may be sent is no more than the limits of the braid, or than the store
\* has.
LEMMA AllowedType ==
    ASSUME TypeOK, NEW b \in Braid
    PROVE  /\ Allowed(b) \in Maps
           /\ \A ch \in Chain : Allowed(b)[ch] <= limit[b][ch]
<1>1. ASSUME NEW ch \in Chain
      PROVE  /\ Lesser(held[Server][ch], limit[b][ch]) \in 0 .. MaxLen
             /\ Lesser(held[Server][ch], limit[b][ch]) <= limit[b][ch]
    <2>1. held[Server][ch] \in 0 .. MaxLen /\ limit[b][ch] \in 0 .. inf
        BY DEF TypeOK
    <2>. QED
        BY <2>1, Bounds DEF Lesser
<1>. QED
    BY <1>1 DEF Allowed, Maps
-----------------------------------------------------------------------------
(* The bundles that answer a greeting. *)

\* There are finitely many.
LEMMA BundlesFinite == IsFiniteSet(Bundles)
<1> DEFINE Of(ch) == {Bundle(ch, i) : i \in 1 .. MaxLen}
           All == {Of(ch) : ch \in Chain}
<1>1. ASSUME NEW ch \in Chain PROVE IsFiniteSet(Of(ch))
    <2> DEFINE f == [i \in 1 .. MaxLen |-> Bundle(ch, i)]
    <2>1. IsFiniteSet(1 .. MaxLen)
        BY FS_Interval, Bounds
    <2>2. f \in [1 .. MaxLen -> Of(ch)] /\ \A m \in Of(ch) : \E i \in 1 .. MaxLen : f[i] = m
        OBVIOUS
    <2>3. f \in Surjection(1 .. MaxLen, Of(ch))
        BY <2>2 DEF Surjection
    <2>. QED
        BY <2>1, <2>3, FS_Surjection
<1>2. IsFiniteSet(All)
    <2> DEFINE g == [ch \in Chain |-> Of(ch)]
    <2>1. g \in [Chain -> All] /\ \A t \in All : \E ch \in Chain : g[ch] = t
        OBVIOUS
    <2>2. g \in Surjection(Chain, All)
        BY <2>1 DEF Surjection
    <2>. QED
        BY <2>2, FS_Surjection, ConstantsAssumption
<1>3. IsFiniteSet(UNION All)
    <2>1. \A t \in All : IsFiniteSet(t)
        BY <1>1
    <2> HIDE DEF All
    <2>. QED
        BY <1>2, <2>1, FS_UNION
<1>4. Bundles \subseteq UNION All
    BY DEF Bundles, Bundle
<1>. QED
    BY <1>3, <1>4, FS_Subset

\* They are messages, up to the map that limits them.
LEMMA BetweenProperties ==
    ASSUME NEW from \in Maps, NEW to \in Maps, NEW sent \in Between(from, to)
    PROVE  /\ sent \in Seq(Message)
           /\ \A n \in 1 .. Len(sent) : sent[n].type = "bundle" => sent[n].number <= to[sent[n].chain]
<1> DEFINE all == Beyond(from, to)
           size == Cardinality(all)
<1>1. size \in Nat
    <2>1. all \subseteq Bundles
        BY DEF Beyond
    <2>. QED
        BY <2>1, BundlesFinite, FS_Subset, FS_CardinalityType
<1>2. sent \in [1 .. size -> all]
    BY DEF Between
<1>3. \A m \in all : m \in Message /\ m.number <= to[m.chain]
    BY MessageFacts DEF Beyond
<1> HIDE DEF all, size
<1>4. sent \in Seq(all) /\ Len(sent) = size
    BY <1>1, <1>2
<1>5. \A n \in 1 .. Len(sent) : sent[n] \in all
    BY <1>2, <1>4
<1>6. sent \in Seq(Message)
    BY <1>1, <1>2, <1>3
<1>. QED
    BY <1>3, <1>5, <1>6
-----------------------------------------------------------------------------
(* Type correctness. *)

\* Initially the store and the queues are empty.
LEMMA InitType == Init => TypeOK
<1> SUFFICES ASSUME Init PROVE TypeOK
    OBVIOUS
<1>1. <<>> \in Seq(Message)
    OBVIOUS
<1>2. limit \in [Braid -> [Chain -> 0 .. inf]]
    BY ConstantsAssumption DEF Init, inf
<1>3. /\ held \in [Client \cup {Server} -> [Chain -> 0 .. MaxLen]]
      /\ tracker \in [Conn -> [Chain -> 0 .. MaxLen]]
      /\ remote \in [Conn -> [Chain -> 0 .. MaxLen]]
    BY EmptyMapType DEF Init, Maps
<1>. QED
    BY <1>1, <1>2, <1>3 DEF Init, TypeOK

\* What the first message of a queue of the server carries.
LEMMA Received ==
    ASSUME TypeOK, NEW k \in Conn, to_server[k] # <<>>
    PROVE  /\ Head(to_server[k]) \in Message
           /\ Tail(to_server[k]) \in Seq(Message)
<1>1. to_server[k] \in Seq(Message)
    BY DEF TypeOK
<1>. QED
    BY <1>1, HeadTailProperties

\* A bundle that is stored is the next one of its chain, and within the bound.
LEMMA StoredIsNext ==
    ASSUME TypeOK, NEW ch \in Chain, NEW i \in 1 .. MaxLen, Stored(ch, i)
    PROVE  held[Server][ch] + 1 = i /\ held[Server][ch] + 1 \in 0 .. MaxLen
<1>1. held[Server][ch] \in 0 .. MaxLen
    BY DEF TypeOK
<1>. QED
    BY <1>1, Bounds DEF Stored, is_needed, MissingPrior, AlreadySeen

\* The index, when a connection ends.
LEMMA DisconnectedType ==
    ASSUME TypeOK, NEW k \in Conn, Disconnected(k)
    PROVE  /\ on_braid' \subseteq Conn
           /\ members' \in [Braid -> SUBSET Conn]
           /\ subscribers' \in [Chain -> SUBSET Conn]
<1>1. BraidOf[k] \in Braid
    BY ConstantsAssumption
<1>2. CASE ChainsOf(BraidOf[k]) = {}
    BY <1>2 DEF Disconnected, TypeOK
<1>3. CASE ChainsOf(BraidOf[k]) # {}
    <2>1. /\ on_braid' = on_braid \ {k}
          /\ members' = [members EXCEPT ![BraidOf[k]] = @ \ {k}]
          /\ subscribers' = [ch \in Chain |->
                    IF ch \in ChainsOf(BraidOf[k]) THEN subscribers[ch] \ {k} ELSE subscribers[ch]]
        BY <1>3 DEF Disconnected
    <2>. QED
        BY <1>1, <2>1 DEF TypeOK
<1>. QED
    BY <1>2, <1>3

\* The trackers, when an end of the server is gone.
LEMMA ForgottenType ==
    ASSUME TypeOK, NEW k \in Conn, Forgotten(k)
    PROVE  tracked' \in [Conn -> BOOLEAN] /\ tracker' \in [Conn -> [Chain -> 0 .. MaxLen]]
BY EmptyMapType DEF Forgotten, TypeOK, Maps

\* What a bundle that is received says of the peer.
LEMMA NotedType ==
    ASSUME TypeOK, NEW k \in Conn, NEW ch \in Chain, NEW i \in 1 .. MaxLen
    PROVE  Noted(k, ch, i) \in [Conn -> Maps]
<1>1. mark_as_having(tracker[k], ch, i) \in Maps
    BY MarkType DEF TypeOK, Maps
<1>. QED
    BY <1>1 DEF Noted, TypeOK, Maps

\* The end of the server's process, wherever it comes from.
Causes == {Nowhere, Reading, Sending} \cup {Passing(ch) : ch \in Chain}
Stops == \E w \in Causes : Crashes(w)

\* A send raises.
SendFails == \E to \in SUBSET Conn : SendRaises(to)

LEMMA StopsFor ==
    /\ Crashes(Reading) \/ Crashes(Sending) => Stops
    /\ \A ch \in Chain : Crashes(Passing(ch)) => Stops
    /\ \A to : SendRaises(to) => Stops
    /\ SendFails => Stops
BY DEF Stops, Causes, SendRaises, SendFails

\* It keeps types.
LEMMA StopsType ==
    ASSUME TypeOK, Stops
    PROVE  TypeOK'
BY DEF Stops, Causes, Crashes, TypeOK, index

\* A connection before it is answered, or that ends without an acceptance: nothing
\* else changes.
Aside(k) ==
    /\ status[k] \in {"idle", "dialled", "left"}
    /\ \E s \in {"dialled", "left", "done"} :
        /\ status' = [status EXCEPT ![k] = s]
        /\ s = "dialled" =>
                \A l \in Conn : ClientOf[l] = ClientOf[k] => status[l] \notin {"dialled", "up"}
    /\ UNCHANGED <<clients, limit, tracked, tracker, to_server, to_client, index, crashed,
                   late, cause>>

LEMMA AsideCases ==
    ASSUME NEW k \in Conn, Dial(k) \/ Leave(k) \/ MissRequest(k) \/ Reject(k) \/ MissEnd(k)
    PROVE  Stops \/ Aside(k)
<1>1. CASE Dial(k)
    BY <1>1 DEF Dial, Aside
<1>2. CASE Leave(k)
    BY <1>2 DEF Leave, Aside
<1>3. CASE MissRequest(k)
    BY <1>3, StopsFor DEF MissRequest, Aside
<1>4. CASE Reject(k)
    BY <1>4, StopsFor DEF Reject, Requested, Aside
<1>5. CASE MissEnd(k)
    BY <1>5, StopsFor DEF MissEnd
<1>. QED
    BY <1>1, <1>2, <1>3, <1>4, <1>5

\* A connection that is accepted, by a client that is there or that is gone.
Accepts(k) ==
    /\ \/ /\ status[k] = "dialled"
          /\ status' = [status EXCEPT ![k] = "up"]
          /\ to_client' = [to_client EXCEPT ![k] = Answer(k)]
       \/ /\ status[k] = "left"
          /\ \E end \in {"lost", "closed"} : status' = [status EXCEPT ![k] = end]
          /\ UNCHANGED to_client
    /\ on_braid' = on_braid \cup {k}
    /\ members' = [members EXCEPT ![BraidOf[k]] = @ \cup {k}]
    /\ subscribers' = [ch \in Chain |->
            subscribers[ch] \cup (IF InBraid(BraidOf[k], ch) THEN {k} ELSE {})]
    /\ UNCHANGED <<clients, limit, tracked, tracker, to_server, crashed, late, cause>>

LEMMA ConnectCases ==
    ASSUME NEW k \in Conn, Connect(k)
    PROVE  Stops \/ Accepts(k)
BY StopsFor DEF Connect, Requested, Accepts

\* What is sent first is well formed.
LEMMA AnswerType ==
    ASSUME TypeOK, NEW k \in Conn
    PROVE  Answer(k) \in Seq(Message)
<1>1. Greeting(Subset(held[Server], BraidOf[k])) \in Message
    BY SubsetType, MessageFacts, ConstantsAssumption DEF TypeOK, Maps
<1>2. <<Accept>> \in Seq(Message)
    BY MessageFacts
<1>3. <<Greeting(Subset(held[Server], BraidOf[k]))>> \in Seq(Message)
    BY <1>1
<1>. QED
    BY <1>2, <1>3, ConcatProperties DEF Answer

\* There is no bundle in it.
LEMMA AnswerMessages ==
    ASSUME NEW k \in Conn
    PROVE  \A n \in 1 .. Len(Answer(k)) : Answer(k)[n].type # "bundle"
<1>1. Accept.type = "accept" /\ Greeting(Subset(held[Server], BraidOf[k])).type = "greeting"
    BY MessageFacts
<1>. QED
    BY <1>1 DEF Answer
-----------------------------------------------------------------------------
\* Each action of the server's data relay and of the server's connections keeps
\* types.
LEMMA RelayReceivesType ==
    ASSUME TypeOK, NEW ch \in Chain, RelayReceives(ch)
    PROVE  TypeOK'
<1> DEFINE i == held[Server][ch] + 1
<1>1. i \in 1 .. MaxLen
    <2>1. PICK c \in Client : held[Server][ch] < held[c][ch]
        BY DEF RelayReceives
    <2>2. held[Server][ch] \in 0 .. MaxLen /\ held[c][ch] \in 0 .. MaxLen
        BY DEF TypeOK
    <2>. QED
        BY <2>1, <2>2, Bounds
<1>2. \/ Stops
      \/ /\ Receives(ch, i, subscribers, limit, tracker, {})
         /\ UNCHANGED <<limit, tracked, known, remote, to_server, index, crashed, late, cause>>
    BY StopsFor DEF RelayReceives
<1> HIDE DEF i
<1>3. CASE Stops
    BY <1>3, StopsType
<1>4. CASE /\ Receives(ch, i, subscribers, limit, tracker, {})
           /\ UNCHANGED <<limit, tracked, known, remote, to_server, index, crashed, late, cause>>
    <2> DEFINE to == IF Stored(ch, i) THEN Targets(ch, i, subscribers, limit, tracker) ELSE {}
    <2>1. tracker \in [Conn -> Maps]
        BY DEF TypeOK, Maps
    <2>2. PICK fails \in SUBSET {k \in to : status[k] = "lost"} :
            /\ held' = IF Stored(ch, i) THEN [held EXCEPT ![Server][ch] = @ + 1] ELSE held
            /\ status' = [k \in Conn |-> IF k \in fails THEN "closed" ELSE status[k]]
            /\ to_client' = [k \in Conn |->
                    IF k \in to /\ status[k] = "up" THEN Append(to_client[k], Bundle(ch, i))
                    ELSE to_client[k]]
            /\ tracker' = [k \in Conn |->
                    IF k \in to THEN mark_as_having(tracker[k], ch, i) ELSE tracker[k]]
        BY <1>4 DEF Receives
    <2> HIDE DEF to
    <2>3. /\ held' \in [Client \cup {Server} -> [Chain -> 0 .. MaxLen]]
          /\ status' \in [Conn -> {"idle", "dialled", "left", "up", "lost", "closed", "done"}]
          /\ to_client' \in [Conn -> Seq(Message)]
          /\ tracker' \in [Conn -> [Chain -> 0 .. MaxLen]]
        <3>1. Stored(ch, i) => held[Server][ch] + 1 \in 0 .. MaxLen
            BY <1>1, StoredIsNext
        <3>2. \A k \in Conn : Append(to_client[k], Bundle(ch, i)) \in Seq(Message)
            BY <1>1, MessageFacts, AppendProperties DEF TypeOK
        <3>3. \A k \in Conn : mark_as_having(tracker[k], ch, i) \in Maps
            BY <1>1, <2>1, MarkType
        <3>4. held' \in [Client \cup {Server} -> [Chain -> 0 .. MaxLen]]
            BY <2>2, <3>1 DEF TypeOK
        <3>5. status' \in [Conn -> {"idle", "dialled", "left", "up", "lost", "closed", "done"}]
            BY <2>2 DEF TypeOK
        <3>6. to_client' \in [Conn -> Seq(Message)]
            BY <2>2, <3>2 DEF TypeOK
        <3>7. tracker' \in [Conn -> [Chain -> 0 .. MaxLen]]
            BY <2>1, <2>2, <3>3 DEF Maps
        <3>. QED
            BY <3>4, <3>5, <3>6, <3>7
    <2>. QED
        BY <1>4, <2>3 DEF TypeOK, index
<1>. QED
    BY <1>2, <1>3, <1>4

LEMMA AsideType ==
    ASSUME TypeOK, NEW k \in Conn, Aside(k)
    PROVE  TypeOK'
BY DEF Aside, TypeOK, clients, index

LEMMA ConnectType ==
    ASSUME TypeOK, NEW k \in Conn, Accepts(k)
    PROVE  TypeOK'
<1>1. Answer(k) \in Seq(Message)
    BY AnswerType
<1>2. to_client' \in [Conn -> Seq(Message)]
    BY <1>1 DEF Accepts, TypeOK
<1>3. /\ on_braid' \subseteq Conn
      /\ members' \in [Braid -> SUBSET Conn]
      /\ subscribers' \in [Chain -> SUBSET Conn]
    BY ConstantsAssumption DEF Accepts, TypeOK
<1>4. status' \in [Conn -> {"idle", "dialled", "left", "up", "lost", "closed", "done"}]
    BY DEF Accepts, TypeOK
<1>. QED
    BY <1>2, <1>3, <1>4 DEF Accepts, TypeOK, clients

LEMMA LoseType ==
    ASSUME TypeOK, NEW k \in Conn, Lose(k)
    PROVE  TypeOK'
<1>1. to_server' \in [Conn -> Seq(Message)]
    <2>1. PICK n \in 0 .. Len(to_server[k]) :
                to_server' = [to_server EXCEPT ![k] = SubSeq(@, 1, n)]
        BY DEF Lose
    <2>2. to_server[k] \in Seq(Message)
        BY DEF TypeOK
    <2>3. \A j \in 1 .. n : to_server[k][j] \in Message
        BY <2>2, ElementOfSeq
    <2>4. SubSeq(to_server[k], 1, n) \in Seq(Message)
        BY <2>3, SubSeqProperties
    <2>. QED
        BY <2>1, <2>4 DEF TypeOK
<1>2. remote' \in [Conn -> [Chain -> 0 .. MaxLen]]
    BY EmptyMapType DEF Lose, TypeOK, Maps
<1>. QED
    BY <1>1, <1>2 DEF Lose, TypeOK, index

LEMMA ReceiveEndType ==
    ASSUME TypeOK, NEW k \in Conn, ReceiveEnd(k)
    PROVE  TypeOK'
<1>1. Disconnected(k) /\ Forgotten(k)
    BY DEF ReceiveEnd
<1>2. /\ on_braid' \subseteq Conn
      /\ members' \in [Braid -> SUBSET Conn]
      /\ subscribers' \in [Chain -> SUBSET Conn]
    BY <1>1, DisconnectedType
<1>3. tracked' \in [Conn -> BOOLEAN] /\ tracker' \in [Conn -> [Chain -> 0 .. MaxLen]]
    BY <1>1, ForgottenType
<1>. QED
    BY <1>2, <1>3 DEF ReceiveEnd, TypeOK, clients

\* What the server reads stays well formed.
LEMMA ReadsType ==
    ASSUME TypeOK, NEW k \in Conn, to_server[k] # <<>>, Reads(k)
    PROVE  to_server' \in [Conn -> Seq(Message)]
BY Received DEF Reads, TypeOK

LEMMA ReceiveGreetingType ==
    ASSUME TypeOK, NEW k \in Conn, ReceiveGreeting(k)
    PROVE  TypeOK'
<1> DEFINE map == Head(to_server[k]).has
           to == Allowed(BraidOf[k])
<1>1. map \in Maps /\ to \in Maps /\ to_server[k] # <<>>
    BY Received, MessageFacts, AllowedType, ConstantsAssumption DEF ReceiveGreeting, Readable
<1>2. PICK sent \in Between(map, to) :
        \/ SendRaises({k})
        \/ /\ Reads(k)
           /\ tracked' = [tracked EXCEPT ![k] = TRUE]
           /\ tracker' = [tracker EXCEPT ![k] = Greater(map, to)]
           /\ \/ /\ to_client' = [to_client EXCEPT ![k] = IF status[k] = "up" THEN @ \o sent ELSE @]
                 /\ UNCHANGED status
              \/ /\ status[k] = "lost"
                 /\ status' = [status EXCEPT ![k] = "closed"]
                 /\ UNCHANGED to_client
           /\ UNCHANGED <<clients, limit, index, crashed, late, cause>>
    BY DEF ReceiveGreeting
<1>3. Greater(map, to) \in Maps
    BY <1>1, GreaterType
<1>4. sent \in Seq(Message)
    BY <1>1, BetweenProperties
<1> HIDE DEF map, to
<1>5. CASE SendRaises({k})
    BY <1>5, StopsFor, StopsType
<1>6. CASE ~SendRaises({k})
    <2>1. to_server' \in [Conn -> Seq(Message)]
        BY <1>1, <1>2, <1>6, ReadsType
    <2>2. tracked' \in [Conn -> BOOLEAN] /\ tracker' \in [Conn -> [Chain -> 0 .. MaxLen]]
        <3>1. tracked' = [tracked EXCEPT ![k] = TRUE]
            BY <1>2, <1>6
        <3>2. tracker' = [tracker EXCEPT ![k] = Greater(map, to)]
            BY <1>2, <1>6
        <3>3. tracked' \in [Conn -> BOOLEAN]
            BY <3>1 DEF TypeOK
        <3>4. tracker' \in [Conn -> [Chain -> 0 .. MaxLen]]
            BY <1>3, <3>2 DEF TypeOK, Maps
        <3>. QED
            BY <3>3, <3>4
    <2>3. to_client[k] \o sent \in Seq(Message)
        BY <1>4, ConcatProperties DEF TypeOK
    <2>4. to_client' \in [Conn -> Seq(Message)]
        BY <1>2, <1>6, <2>3 DEF TypeOK
    <2>5. status' \in [Conn -> {"idle", "dialled", "left", "up", "lost", "closed", "done"}]
        BY <1>2, <1>6 DEF TypeOK
    <2>6. UNCHANGED <<clients, limit, index, crashed, late, cause>>
        BY <1>2, <1>6
    <2>. QED
        BY <2>1, <2>2, <2>4, <2>5, <2>6 DEF TypeOK, clients, index
<1>. QED
    BY <1>5, <1>6

LEMMA ReceiveBundleType ==
    ASSUME TypeOK, NEW k \in Conn, ReceiveBundle(k)
    PROVE  TypeOK'
<1> DEFINE ch   == Head(to_server[k]).chain
           i    == Head(to_server[k]).number
           b    == BraidOf[k]
           join == ~InBraid(b, ch)
           lim  == IF join THEN [limit EXCEPT ![b][ch] = inf] ELSE limit
           subs == IF join THEN [subscribers EXCEPT ![ch] = Joined(k, ch)] ELSE subscribers
           have == Noted(k, ch, i)
           to   == IF Stored(ch, i) THEN Targets(ch, i, subs, lim, have) ELSE {}
<1>1. ch \in Chain /\ i \in 1 .. MaxLen /\ to_server[k] # <<>> /\ b \in Braid
    BY Received, MessageFacts, ConstantsAssumption DEF ReceiveBundle, Readable
<1>2. have \in [Conn -> Maps]
    BY <1>1, NotedType
<1>3. \/ /\ Reads(k)
         /\ tracker' = have
         /\ UNCHANGED <<clients, limit, status, tracked, to_client, index, crashed, late, cause>>
      \/ /\ Reads(k)
         /\ status' = [status EXCEPT ![k] = "done"]
         /\ to_client' = [to_client EXCEPT ![k] = <<>>]
         /\ Disconnected(k)
         /\ Forgotten(k)
         /\ UNCHANGED <<clients, limit, crashed, late, cause>>
      \/ Stops
      \/ /\ Reads(k)
         /\ limit' = lim
         /\ subscribers' = subs
         /\ late' = IF join /\ ~Stored(ch, i) THEN late \cup {<<b, ch>>} ELSE late
         /\ Receives(ch, i, subs, lim, have, {k})
         /\ UNCHANGED <<tracked, known, remote, on_braid, members, crashed, cause>>
    BY <1>1, StopsFor DEF ReceiveBundle
<1>4. lim \in Limits /\ subs \in [Chain -> SUBSET Conn]
    <2>1. limit \in [Braid -> [Chain -> 0 .. inf]] /\ subscribers \in [Chain -> SUBSET Conn]
        BY DEF TypeOK
    <2>2. Joined(k, ch) \subseteq Conn
        BY <1>1 DEF TypeOK, Joined
    <2>3. lim \in Limits
        BY <1>1, <2>1, Bounds DEF Limits
    <2>4. subs \in [Chain -> SUBSET Conn]
        BY <1>1, <2>1, <2>2
    <2>. QED
        BY <2>3, <2>4
<1> HIDE DEF ch, i, lim, subs, have
<1>5. CASE /\ Reads(k)
           /\ tracker' = have
           /\ UNCHANGED <<clients, limit, status, tracked, to_client, index, crashed, late, cause>>
    <2>1. to_server' \in [Conn -> Seq(Message)]
        BY <1>1, <1>5, ReadsType
    <2>. QED
        BY <1>2, <1>5, <2>1 DEF TypeOK, clients, index, Maps
<1>6. CASE /\ Reads(k)
           /\ status' = [status EXCEPT ![k] = "done"]
           /\ to_client' = [to_client EXCEPT ![k] = <<>>]
           /\ Disconnected(k)
           /\ Forgotten(k)
           /\ UNCHANGED <<clients, limit, crashed, late, cause>>
    <2>1. to_server' \in [Conn -> Seq(Message)]
        BY <1>1, <1>6, ReadsType
    <2>2. /\ on_braid' \subseteq Conn
          /\ members' \in [Braid -> SUBSET Conn]
          /\ subscribers' \in [Chain -> SUBSET Conn]
        BY <1>6, DisconnectedType
    <2>3. tracked' \in [Conn -> BOOLEAN] /\ tracker' \in [Conn -> [Chain -> 0 .. MaxLen]]
        BY <1>6, ForgottenType
    <2>4. /\ status' \in [Conn -> {"idle", "dialled", "left", "up", "lost", "closed", "done"}]
          /\ to_client' \in [Conn -> Seq(Message)]
        BY <1>6 DEF TypeOK
    <2>. QED
        BY <1>6, <2>1, <2>2, <2>3, <2>4 DEF TypeOK, clients
<1>7. CASE Stops
    BY <1>7, StopsType
<1>8. CASE /\ Reads(k)
           /\ limit' = lim
           /\ subscribers' = subs
           /\ late' = IF join /\ ~Stored(ch, i) THEN late \cup {<<b, ch>>} ELSE late
           /\ Receives(ch, i, subs, lim, have, {k})
           /\ UNCHANGED <<tracked, known, remote, on_braid, members, crashed, cause>>
    <2>1. PICK fails \in SUBSET {l \in to \cup {k} : status[l] = "lost"} :
            /\ held' = IF Stored(ch, i) THEN [held EXCEPT ![Server][ch] = @ + 1] ELSE held
            /\ status' = [l \in Conn |-> IF l \in fails THEN "closed" ELSE status[l]]
            /\ to_client' = [l \in Conn |->
                    IF l \in to /\ status[l] = "up" THEN Append(to_client[l], Bundle(ch, i))
                    ELSE to_client[l]]
            /\ tracker' = [l \in Conn |->
                    IF l \in to THEN mark_as_having(have[l], ch, i) ELSE have[l]]
        BY <1>8 DEF Receives
    <2> HIDE DEF to, join
    <2>2. to_server' \in [Conn -> Seq(Message)]
        BY <1>1, <1>8, ReadsType
    <2>3. limit' \in [Braid -> [Chain -> 0 .. inf]] /\ subscribers' \in [Chain -> SUBSET Conn]
        BY <1>4, <1>8 DEF Limits
    <2>4. late' \subseteq Braid \X Chain
        BY <1>1, <1>8 DEF TypeOK
    <2>5. held' \in [Client \cup {Server} -> [Chain -> 0 .. MaxLen]]
        <3>1. Stored(ch, i) => held[Server][ch] + 1 \in 0 .. MaxLen
            BY <1>1, StoredIsNext
        <3>. QED
            BY <2>1, <3>1 DEF TypeOK
    <2>6. status' \in [Conn -> {"idle", "dialled", "left", "up", "lost", "closed", "done"}]
        BY <2>1 DEF TypeOK
    <2>7. to_client' \in [Conn -> Seq(Message)]
        <3>1. \A l \in Conn : Append(to_client[l], Bundle(ch, i)) \in Seq(Message)
            BY <1>1, MessageFacts, AppendProperties DEF TypeOK
        <3>. QED
            BY <2>1, <3>1 DEF TypeOK
    <2>8. tracker' \in [Conn -> [Chain -> 0 .. MaxLen]]
        <3>1. \A l \in Conn : mark_as_having(have[l], ch, i) \in Maps /\ have[l] \in Maps
            BY <1>1, <1>2, MarkType
        <3>. QED
            BY <2>1, <3>1 DEF Maps
    <2>. QED
        BY <1>8, <2>2, <2>3, <2>4, <2>5, <2>6, <2>7, <2>8 DEF TypeOK
<1>. QED
    BY <1>3, <1>5, <1>6, <1>7, <1>8
-----------------------------------------------------------------------------
\* Each action of the clients keeps types.
LEMMA ObtainType ==
    ASSUME TypeOK, NEW c \in Client, NEW ch \in Chain, Obtain(c, ch)
    PROVE  TypeOK'
<1> DEFINE i == held[c][ch] + 1
           to == {k \in Conn : /\ ClientOf[k] = c /\ status[k] = "up" /\ known[k]
                               /\ ~has(remote[k], ch, i)}
<1>1. i \in 1 .. MaxLen
    <2>1. held[c][ch] \in 0 .. MaxLen /\ held[c][ch] < MaxLen
        BY DEF Obtain, TypeOK
    <2>. QED
        BY <2>1, Bounds
<1>2. held' \in [Client \cup {Server} -> [Chain -> 0 .. MaxLen]]
    <2>1. held' = [held EXCEPT ![c][ch] = i]
        BY DEF Obtain, TypeOK
    <2>2. i \in 0 .. MaxLen
        BY <1>1
    <2> HIDE DEF i
    <2>. QED
        BY <2>1, <2>2 DEF TypeOK
<1>3. /\ to_server' = [k \in Conn |-> IF k \in to THEN Append(to_server[k], Bundle(ch, i))
                                      ELSE to_server[k]]
      /\ remote' = [k \in Conn |-> IF k \in to THEN mark_as_having(remote[k], ch, i)
                                   ELSE remote[k]]
    BY DEF Obtain, Sends
<1> HIDE DEF i, to
<1>4. to_server' \in [Conn -> Seq(Message)]
    <2>1. \A k \in Conn : Append(to_server[k], Bundle(ch, i)) \in Seq(Message)
        BY <1>1, MessageFacts, AppendProperties DEF TypeOK
    <2>. QED
        BY <1>3, <2>1 DEF TypeOK
<1>5. remote' \in [Conn -> [Chain -> 0 .. MaxLen]]
    <2>1. \A k \in Conn : mark_as_having(remote[k], ch, i) \in Maps
        BY <1>1, MarkType DEF TypeOK, Maps
    <2>. QED
        BY <1>3, <2>1 DEF TypeOK, Maps
<1>. QED
    BY <1>2, <1>4, <1>5 DEF Obtain, TypeOK, index

\* What the client reads stays well formed.
LEMMA TakesType ==
    ASSUME TypeOK, NEW k \in Conn, NEW type, Takes(k, type)
    PROVE  /\ Head(to_client[k]) \in Message /\ Head(to_client[k]).type = type
           /\ to_client' = [to_client EXCEPT ![k] = Tail(@)]
           /\ to_client' \in [Conn -> Seq(Message)]
           /\ UNCHANGED <<limit, status, tracked, tracker, index, crashed, late, cause>>
<1>1. to_client[k] \in Seq(Message) /\ to_client[k] # <<>>
    BY DEF Takes, TypeOK
<1>2. Head(to_client[k]) \in Message /\ Tail(to_client[k]) \in Seq(Message)
    BY <1>1, HeadTailProperties
<1>. QED
    BY <1>2 DEF Takes, TypeOK

LEMMA ClientReceivesAcceptType ==
    ASSUME TypeOK, NEW k \in Conn, ClientReceivesAccept(k)
    PROVE  TypeOK'
<1>1. Takes(k, "accept")
    BY DEF ClientReceivesAccept
<1>2. Append(to_server[k], Greeting(held[ClientOf[k]])) \in Seq(Message)
    BY ConstantsAssumption, MessageFacts, AppendProperties DEF TypeOK, Maps
<1>3. to_server' \in [Conn -> Seq(Message)]
    BY <1>2 DEF ClientReceivesAccept, TypeOK
<1>. QED
    BY <1>1, <1>3, TakesType DEF ClientReceivesAccept, TypeOK, clients, index

LEMMA ClientReceivesGreetingType ==
    ASSUME TypeOK, NEW k \in Conn, ClientReceivesGreeting(k)
    PROVE  TypeOK'
<1> DEFINE map == Head(to_client[k]).has
           own == held[ClientOf[k]]
<1>1. Takes(k, "greeting")
    BY DEF ClientReceivesGreeting
<1>2. map \in Maps /\ own \in Maps
    BY <1>1, TakesType, MessageFacts, ConstantsAssumption DEF TypeOK, Maps
<1>3. PICK sent \in Between(map, own) : to_server' = [to_server EXCEPT ![k] = @ \o sent]
    BY DEF ClientReceivesGreeting
<1>4. known' = [known EXCEPT ![k] = TRUE]
    BY DEF ClientReceivesGreeting
<1>5. remote' = [remote EXCEPT ![k] = Greater(map, own)]
    BY DEF ClientReceivesGreeting
<1>6. Greater(map, own) \in Maps /\ sent \in Seq(Message)
    BY <1>2, GreaterType, BetweenProperties
<1> HIDE DEF map, own
<1>7. to_server' \in [Conn -> Seq(Message)]
    BY <1>3, <1>6, ConcatProperties DEF TypeOK
<1>8. known' \in [Conn -> BOOLEAN]
    BY <1>4 DEF TypeOK
<1>9. remote' \in [Conn -> [Chain -> 0 .. MaxLen]]
    BY <1>5, <1>6 DEF TypeOK, Maps
<1>. QED
    BY <1>1, <1>7, <1>8, <1>9, TakesType DEF ClientReceivesGreeting, TypeOK, index

LEMMA ClientReceivesBundleType ==
    ASSUME TypeOK, NEW k \in Conn, ClientReceivesBundle(k)
    PROVE  TypeOK'
<1> DEFINE ch == Head(to_client[k]).chain
           i  == Head(to_client[k]).number
           c  == ClientOf[k]
<1>1. Takes(k, "bundle")
    BY DEF ClientReceivesBundle
<1>2. ch \in Chain /\ i \in 1 .. MaxLen /\ c \in Client
    BY <1>1, TakesType, MessageFacts, ConstantsAssumption
<1>3. /\ remote' = IF known[k] THEN [remote EXCEPT ![k] = mark_as_having(@, ch, i)] ELSE remote
      /\ held' = IF is_needed(held[c][ch], i) THEN [held EXCEPT ![c][ch] = i] ELSE held
    BY DEF ClientReceivesBundle
<1> HIDE DEF ch, i, c
<1>4. mark_as_having(remote[k], ch, i) \in Maps
    BY <1>2, MarkType DEF TypeOK, Maps
<1>5. remote' \in [Conn -> [Chain -> 0 .. MaxLen]]
    BY <1>3, <1>4 DEF TypeOK, Maps
<1>6. held' \in [Client \cup {Server} -> [Chain -> 0 .. MaxLen]]
    BY <1>2, <1>3 DEF TypeOK
<1>. QED
    BY <1>1, <1>5, <1>6, TakesType DEF ClientReceivesBundle, TypeOK, index

\* Every step keeps types.
LEMMA NextType == TypeOK /\ [Next]_vars => TypeOK'
<1> SUFFICES ASSUME TypeOK, [Next]_vars PROVE TypeOK'
    OBVIOUS
<1>1. CASE UNCHANGED vars
    BY <1>1 DEF vars, TypeOK
<1>2. ASSUME NEW ch \in Chain, RelayReceives(ch) PROVE TypeOK'
    BY <1>2, RelayReceivesType
<1>3. ASSUME NEW ch \in Chain, NEW c \in Client, Obtain(c, ch) PROVE TypeOK'
    BY <1>3, ObtainType
<1>4. ASSUME NEW k \in Conn, Lose(k) \/ ReceiveEnd(k) PROVE TypeOK'
    BY <1>4, LoseType, ReceiveEndType
<1>5. ASSUME NEW k \in Conn, ReceiveGreeting(k) \/ ReceiveBundle(k) PROVE TypeOK'
    BY <1>5, ReceiveGreetingType, ReceiveBundleType
<1>6. ASSUME NEW k \in Conn,
             \/ ClientReceivesAccept(k) \/ ClientReceivesGreeting(k) \/ ClientReceivesBundle(k)
      PROVE  TypeOK'
    BY <1>6, ClientReceivesAcceptType, ClientReceivesGreetingType, ClientReceivesBundleType
<1>7. ASSUME NEW k \in Conn, Dial(k) \/ Leave(k) \/ MissRequest(k) \/ Reject(k) \/ MissEnd(k) PROVE TypeOK'
    BY <1>7, AsideCases, AsideType, StopsType
<1>8. ASSUME NEW k \in Conn, Connect(k) PROVE TypeOK'
    BY <1>8, ConnectCases, ConnectType, StopsType
<1>. QED
    BY <1>1, <1>2, <1>3, <1>4, <1>5, <1>6, <1>7, <1>8 DEF Next

\* Type correctness: queues only hold well-formed messages, and no map or limit
\* leaves its bounds (braid_server.py, connection.py).
THEOREM TypeCorrect == Spec => []TypeOK
BY InitType, NextType, PTL DEF Spec
-----------------------------------------------------------------------------
(* The index agrees with the braids, and nothing beyond a braid is sent.      *)

\* A connection is a member of no braid but its own.
MembersAreOnBraid == \A b \in Braid : \A k \in members[b] : BraidOf[k] = b

IndexInv == MembersAreOnBraid /\ IndexAgrees

\* The index is the same as long as neither it nor the limits change.
LEMMA IndexUnchanged ==
    ASSUME IndexInv, UNCHANGED <<index, limit>>
    PROVE  IndexInv'
BY DEF IndexInv, MembersAreOnBraid, IndexAgrees, index, InBraid

LEMMA IndexStops == IndexInv /\ Stops => IndexInv'
BY IndexUnchanged DEF Stops, Crashes

\* A connection that ends leaves the index, if there is something in its braid.
LEMMA IndexDisconnected ==
    ASSUME TypeOK, IndexInv, NEW k \in Conn, Disconnected(k), UNCHANGED limit
    PROVE  IndexInv'
<1> DEFINE b == BraidOf[k]
<1>1. b \in Braid
    BY ConstantsAssumption
<1>2. CASE ChainsOf(b) = {}
    BY <1>2 DEF Disconnected, IndexInv, MembersAreOnBraid, IndexAgrees, InBraid
<1>3. CASE ChainsOf(b) # {}
    <2>1. /\ members' = [members EXCEPT ![b] = @ \ {k}]
          /\ subscribers' = [ch \in Chain |->
                IF ch \in ChainsOf(b) THEN subscribers[ch] \ {k} ELSE subscribers[ch]]
        BY <1>3 DEF Disconnected
    <2>2. \A d \in Braid : members'[d] = IF d = b THEN members[d] \ {k} ELSE members[d]
        BY <1>1, <2>1 DEF TypeOK
    <2>3. \A ch \in Chain : subscribers'[ch] =
                IF InBraid(b, ch) THEN subscribers[ch] \ {k} ELSE subscribers[ch]
        BY <2>1 DEF ChainsOf
    <2>4. \A d \in Braid, ch \in Chain : InBraid(d, ch)' <=> InBraid(d, ch)
        BY DEF InBraid
    <2>5. MembersAreOnBraid'
        BY <2>2 DEF IndexInv, MembersAreOnBraid
    <2>6. ASSUME NEW l \in Conn, NEW ch \in Chain
          PROVE  l \in subscribers'[ch] <=> l \in members'[BraidOf[l]] /\ InBraid(BraidOf[l], ch)'
        <3>1. BraidOf[l] \in Braid
            BY ConstantsAssumption
        <3>2. l \in subscribers[ch] <=> l \in members[BraidOf[l]] /\ InBraid(BraidOf[l], ch)
            BY DEF IndexInv, IndexAgrees
        <3>3. CASE l = k
            BY <2>2, <2>3, <2>4, <3>1, <3>2, <3>3
        <3>4. CASE l # k
            BY <2>2, <2>3, <2>4, <3>1, <3>2, <3>4
        <3>. QED
            BY <3>3, <3>4
    <2>. QED
        BY <2>5, <2>6 DEF IndexInv, IndexAgrees
<1>. QED
    BY <1>2, <1>3

\* A connection that is accepted is put into the index for its whole braid.
LEMMA IndexConnect ==
    ASSUME TypeOK, IndexInv, NEW k \in Conn, Accepts(k)
    PROVE  IndexInv'
<1> DEFINE b == BraidOf[k]
<1>1. b \in Braid
    BY ConstantsAssumption
<1>2. \A d \in Braid : members'[d] = IF d = b THEN members[d] \cup {k} ELSE members[d]
    BY <1>1 DEF Accepts, TypeOK
<1>3. \A ch \in Chain : subscribers'[ch] =
            subscribers[ch] \cup (IF InBraid(b, ch) THEN {k} ELSE {})
    BY DEF Accepts
<1>4. \A d \in Braid, ch \in Chain : InBraid(d, ch)' <=> InBraid(d, ch)
    BY DEF InBraid, Accepts
<1>5. MembersAreOnBraid'
    <2> SUFFICES ASSUME NEW d \in Braid, NEW l \in members'[d] PROVE BraidOf[l] = d
        BY DEF MembersAreOnBraid
    <2>1. CASE d = b /\ l = k
        BY <2>1
    <2>2. CASE ~(d = b /\ l = k)
        <3>1. l \in members[d]
            BY <1>2, <2>2
        <3>. QED
            BY <3>1 DEF IndexInv, MembersAreOnBraid
    <2>. QED
        BY <2>1, <2>2
<1>6. ASSUME NEW l \in Conn, NEW ch \in Chain
      PROVE  l \in subscribers'[ch] <=> l \in members'[BraidOf[l]] /\ InBraid(BraidOf[l], ch)'
    <2>1. BraidOf[l] \in Braid
        BY ConstantsAssumption
    <2>2. l \in subscribers[ch] <=> l \in members[BraidOf[l]] /\ InBraid(BraidOf[l], ch)
        BY DEF IndexInv, IndexAgrees
    <2>3. CASE l = k
        BY <1>2, <1>3, <1>4, <2>1, <2>2, <2>3
    <2>4. CASE l # k
        BY <1>2, <1>3, <1>4, <2>1, <2>2, <2>4
    <2>. QED
        BY <2>3, <2>4
<1>. QED
    BY <1>5, <1>6 DEF IndexInv, IndexAgrees

\* When a chain joins a braid, all who are on the braid get it.
LEMMA IndexJoined ==
    ASSUME TypeOK, IndexInv, NEW k \in Conn, NEW ch \in Chain, ~InBraid(BraidOf[k], ch),
           limit' = [limit EXCEPT ![BraidOf[k]][ch] = inf],
           subscribers' = [subscribers EXCEPT ![ch] = Joined(k, ch)],
           UNCHANGED members
    PROVE  IndexInv'
<1> DEFINE b == BraidOf[k]
<1>1. b \in Braid
    BY ConstantsAssumption
<1>2. \A d \in Chain : subscribers'[d] =
            IF d = ch THEN subscribers[ch] \cup members[b] ELSE subscribers[d]
    BY DEF TypeOK, Joined
<1>3. \A d \in Braid, c \in Chain : limit'[d][c] = IF d = b /\ c = ch THEN inf ELSE limit[d][c]
    BY <1>1 DEF TypeOK
<1>4. \A d \in Braid, c \in Chain : InBraid(d, c)' <=> InBraid(d, c) \/ (d = b /\ c = ch)
    BY <1>3, Bounds DEF InBraid
<1>5. MembersAreOnBraid'
    BY DEF IndexInv, MembersAreOnBraid
<1>6. ASSUME NEW l \in Conn, NEW c \in Chain
      PROVE  l \in subscribers'[c] <=> l \in members'[BraidOf[l]] /\ InBraid(BraidOf[l], c)'
    <2>1. BraidOf[l] \in Braid
        BY ConstantsAssumption
    <2>2. l \in subscribers[c] <=> l \in members[BraidOf[l]] /\ InBraid(BraidOf[l], c)
        BY DEF IndexInv, IndexAgrees
    <2>3. l \in members[b] => BraidOf[l] = b
        BY <1>1 DEF IndexInv, MembersAreOnBraid
    <2>4. CASE c = ch
        BY <1>2, <1>4, <2>1, <2>2, <2>3, <2>4
    <2>5. CASE c # ch
        BY <1>2, <1>4, <2>1, <2>2, <2>5
    <2>. QED
        BY <2>4, <2>5
<1>. QED
    BY <1>5, <1>6 DEF IndexInv, IndexAgrees

\* Of ReceiveBundle, what it does with the index and the limits.
LEMMA ReceiveBundleIndex ==
    ASSUME TypeOK, NEW k \in Conn, ReceiveBundle(k)
    PROVE  \/ UNCHANGED <<index, limit>>
           \/ Disconnected(k) /\ UNCHANGED limit
           \/ \E ch \in Chain :
                /\ ~InBraid(BraidOf[k], ch)
                /\ limit' = [limit EXCEPT ![BraidOf[k]][ch] = inf]
                /\ subscribers' = [subscribers EXCEPT ![ch] = Joined(k, ch)]
                /\ UNCHANGED members
<1> DEFINE ch   == Head(to_server[k]).chain
           b    == BraidOf[k]
           join == ~InBraid(b, ch)
           lim  == IF join THEN [limit EXCEPT ![b][ch] = inf] ELSE limit
           subs == IF join THEN [subscribers EXCEPT ![ch] = Joined(k, ch)] ELSE subscribers
<1>1. ch \in Chain
    BY Received, MessageFacts DEF ReceiveBundle, Readable
<1>2. \/ UNCHANGED <<index, limit>>
      \/ Disconnected(k) /\ UNCHANGED limit
      \/ Stops
      \/ limit' = lim /\ subscribers' = subs /\ UNCHANGED <<on_braid, members>>
    BY <1>1, StopsFor DEF ReceiveBundle
<1>3. CASE Stops
    BY <1>3 DEF Stops, Crashes
<1>4. CASE limit' = lim /\ subscribers' = subs /\ UNCHANGED <<on_braid, members>>
    <2>1. CASE ~join
        BY <1>4, <2>1 DEF index
    <2>2. CASE join
        <3>1. /\ ~InBraid(BraidOf[k], ch)
              /\ limit' = [limit EXCEPT ![BraidOf[k]][ch] = inf]
              /\ subscribers' = [subscribers EXCEPT ![ch] = Joined(k, ch)]
              /\ UNCHANGED members
            BY <1>4, <2>2
        <3> HIDE DEF ch
        <3>. QED
            BY <1>1, <3>1
    <2>. QED
        BY <2>1, <2>2
<1>5. CASE UNCHANGED <<index, limit>> \/ (Disconnected(k) /\ UNCHANGED limit)
    BY <1>5
<1> HIDE DEF lim, subs
<1>. QED
    BY <1>2, <1>3, <1>4, <1>5

\* Every step keeps the index.
LEMMA NextIndex == TypeOK /\ IndexInv /\ [Next]_vars => IndexInv'
<1> SUFFICES ASSUME TypeOK, IndexInv, [Next]_vars PROVE IndexInv'
    OBVIOUS
<1>1. CASE UNCHANGED vars
    BY <1>1, IndexUnchanged DEF vars, index
<1>2. ASSUME NEW ch \in Chain, RelayReceives(ch) PROVE IndexInv'
    BY <1>2, IndexUnchanged DEF RelayReceives, SendRaises, Crashes
<1>3. ASSUME NEW ch \in Chain, NEW c \in Client, Obtain(c, ch) PROVE IndexInv'
    BY <1>3, IndexUnchanged DEF Obtain
<1>4. ASSUME NEW k \in Conn, Connect(k) PROVE IndexInv'
    BY <1>4, ConnectCases, IndexConnect, IndexStops
<1>10. ASSUME NEW k \in Conn, Dial(k) \/ Leave(k) \/ MissRequest(k) \/ Reject(k) \/ MissEnd(k)
       PROVE  IndexInv'
    <2>1. CASE Aside(k)
        BY <2>1, IndexUnchanged DEF Aside
    <2>. QED
        BY <1>10, <2>1, AsideCases, IndexStops
<1>5. ASSUME NEW k \in Conn, Lose(k) PROVE IndexInv'
    BY <1>5, IndexUnchanged DEF Lose
<1>6. ASSUME NEW k \in Conn, ReceiveEnd(k) PROVE IndexInv'
    BY <1>6, IndexDisconnected DEF ReceiveEnd
<1>7. ASSUME NEW k \in Conn, ReceiveGreeting(k) PROVE IndexInv'
    BY <1>7, IndexUnchanged DEF ReceiveGreeting, SendRaises, Crashes
<1>8. ASSUME NEW k \in Conn, ReceiveBundle(k) PROVE IndexInv'
    BY <1>8, ReceiveBundleIndex, IndexUnchanged, IndexDisconnected, IndexJoined
<1>9. ASSUME NEW k \in Conn,
             \/ ClientReceivesAccept(k) \/ ClientReceivesGreeting(k) \/ ClientReceivesBundle(k)
      PROVE  IndexInv'
    BY <1>9, IndexUnchanged
    DEF ClientReceivesAccept, ClientReceivesGreeting, ClientReceivesBundle, Takes
<1>. QED
    BY <1>1, <1>2, <1>3, <1>4, <1>5, <1>6, <1>7, <1>8, <1>9, <1>10 DEF Next

\* The index that the server keeps by hand always says what the braids and those
\* connected to them say: a connection is sent the bundles of a chain if and
\* only if the chain is in its braid (braid_server.py).
THEOREM IndexIsRight == Spec => []IndexAgrees
<1>1. Init => IndexInv
    BY ConstantsAssumption DEF Init, IndexInv, MembersAreOnBraid, IndexAgrees
<1>2. IndexInv => IndexAgrees
    BY DEF IndexInv
<1>. QED
    BY InitType, NextType, NextIndex, <1>1, <1>2, PTL DEF Spec
-----------------------------------------------------------------------------
\* The bundles in a queue are within a map.
Fits(s, map) == \A n \in 1 .. Len(s) : s[n].type = "bundle" => s[n].number <= map[s[n].chain]

\* WithinBraid, by queues.
LEMMA WithinBraidIsFits ==
    ASSUME TypeOK
    PROVE  WithinBraid <=> \A k \in Conn : Fits(to_client[k], limit[BraidOf[k]])
<1>1. \A k \in Conn : DOMAIN to_client[k] = 1 .. Len(to_client[k])
    BY DEF TypeOK
<1>. QED
    BY <1>1 DEF WithinBraid, Fits

\* An empty queue fits, and so does what is left of one that is read.
LEMMA FitsEmpty == \A map : Fits(<<>>, map)
BY DEF Fits

LEMMA FitsTail ==
    ASSUME NEW s \in Seq(Message), s # <<>>, NEW map, Fits(s, map)
    PROVE  Fits(Tail(s), map)
<1>1. /\ Len(Tail(s)) = Len(s) - 1 /\ Len(s) \in Nat
      /\ \A n \in 1 .. Len(Tail(s)) : Tail(s)[n] = s[n + 1]
    BY HeadTailProperties, LenProperties
<1> SUFFICES ASSUME NEW n \in 1 .. Len(Tail(s)), Tail(s)[n].type = "bundle"
             PROVE  Tail(s)[n].number <= map[Tail(s)[n].chain]
    BY DEF Fits
<1>2. n + 1 \in 1 .. Len(s) /\ Tail(s)[n] = s[n + 1]
    BY <1>1
<1>. QED
    BY <1>2 DEF Fits

\* Two queues that fit still do when one is put after the other.
LEMMA FitsConcat ==
    ASSUME NEW s \in Seq(Message), NEW t \in Seq(Message), NEW map,
           Fits(s, map), Fits(t, map)
    PROVE  Fits(s \o t, map)
<1>1. /\ Len(s \o t) = Len(s) + Len(t) /\ Len(s) \in Nat /\ Len(t) \in Nat
      /\ \A n \in 1 .. Len(s \o t) : (s \o t)[n] = IF n <= Len(s) THEN s[n] ELSE t[n - Len(s)]
    BY ConcatProperties, LenProperties
<1> SUFFICES ASSUME NEW n \in 1 .. Len(s \o t), (s \o t)[n].type = "bundle"
             PROVE  (s \o t)[n].number <= map[(s \o t)[n].chain]
    BY DEF Fits
<1>2. CASE n <= Len(s)
    <2>1. n \in 1 .. Len(s) /\ (s \o t)[n] = s[n]
        BY <1>1, <1>2
    <2>. QED
        BY <2>1 DEF Fits
<1>3. CASE ~(n <= Len(s))
    <2> DEFINE j == n - Len(s)
    <2>1. j \in 1 .. Len(t) /\ (s \o t)[n] = t[j]
        BY <1>1, <1>3
    <2> HIDE DEF j
    <2>. QED
        BY <2>1 DEF Fits
<1>. QED
    BY <1>2, <1>3

\* A bundle that is put at the end fits if its number is within the limit.
LEMMA FitsAppend ==
    ASSUME NEW s \in Seq(Message), NEW map, Fits(s, map),
           NEW ch \in Chain, NEW i \in 1 .. MaxLen, i <= map[ch]
    PROVE  Fits(Append(s, Bundle(ch, i)), map)
<1>1. <<Bundle(ch, i)>> \in Seq(Message)
    BY MessageFacts
<1>2. Fits(<<Bundle(ch, i)>>, map)
    BY MessageFacts DEF Fits
<1>3. Append(s, Bundle(ch, i)) = s \o <<Bundle(ch, i)>>
    BY MessageFacts, AppendIsConcat
<1>. QED
    BY <1>1, <1>2, <1>3, FitsConcat

\* A queue that fits still does when limits are raised.
LEMMA FitsRaised ==
    ASSUME NEW s \in Seq(Message), NEW map \in HasMaps, NEW more \in HasMaps,
           \A ch \in Chain : map[ch] <= more[ch], Fits(s, map)
    PROVE  Fits(s, more)
<1> SUFFICES ASSUME NEW n \in 1 .. Len(s), s[n].type = "bundle"
             PROVE  s[n].number <= more[s[n].chain]
    BY DEF Fits
<1>1. s[n].chain \in Chain /\ s[n].number \in 1 .. MaxLen
    BY ElementOfSeq, MessageFacts
<1>2. map[s[n].chain] \in Nat /\ more[s[n].chain] \in Nat
    BY <1>1 DEF HasMaps
<1>. QED
    BY <1>1, <1>2 DEF Fits
-----------------------------------------------------------------------------
\* Each action keeps what is sent within the braids.
LEMMA WithinUnchanged ==
    ASSUME TypeOK, WithinBraid, UNCHANGED <<to_client, limit>>
    PROVE  WithinBraid'
BY DEF WithinBraid

LEMMA QueueDomains ==
    ASSUME TypeOK'
    PROVE  \A k \in Conn : DOMAIN to_client'[k] = 1 .. Len(to_client'[k])
<1>1. to_client' \in [Conn -> Seq(Message)]
    BY DEF TypeOK
<1>. QED
    BY <1>1

LEMMA WithinOne ==
    ASSUME TypeOK, TypeOK', WithinBraid, UNCHANGED limit, NEW k \in Conn, NEW s,
           to_client' = [to_client EXCEPT ![k] = s],
           Fits(s, limit[BraidOf[k]])
    PROVE  WithinBraid'
<1>1. \A l \in Conn : Fits(to_client[l], limit[BraidOf[l]])
    BY WithinBraidIsFits
<1>2. \A l \in Conn : to_client'[l] = IF l = k THEN s ELSE to_client[l]
    BY DEF TypeOK
<1>3. \A l \in Conn : Fits(to_client'[l], limit[BraidOf[l]])
    BY <1>1, <1>2
<1>4. \A l \in Conn : DOMAIN to_client'[l] = 1 .. Len(to_client'[l])
    BY QueueDomains
<1>. QED
    BY <1>3, <1>4 DEF WithinBraid, Fits

LEMMA WithinConnect ==
    ASSUME TypeOK, TypeOK', WithinBraid, NEW k \in Conn, Accepts(k)
    PROVE  WithinBraid'
<1>1. Fits(Answer(k), limit[BraidOf[k]])
    BY AnswerMessages DEF Fits
<1>. QED
    BY <1>1, WithinOne, WithinUnchanged DEF Accepts

LEMMA WithinReceiveGreeting ==
    ASSUME TypeOK, TypeOK', WithinBraid, NEW k \in Conn, ReceiveGreeting(k)
    PROVE  WithinBraid'
<1> DEFINE b == BraidOf[k]
           map == Head(to_server[k]).has
           to == Allowed(b)
<1>1. map \in Maps /\ to \in Maps /\ b \in Braid
    BY Received, MessageFacts, AllowedType, ConstantsAssumption DEF ReceiveGreeting, Readable
<1>2. PICK sent \in Between(map, to) :
        \/ UNCHANGED <<to_client, limit>>
        \/ /\ to_client' = [to_client EXCEPT ![k] = IF status[k] = "up" THEN @ \o sent ELSE @]
           /\ UNCHANGED limit
    BY DEF ReceiveGreeting, SendRaises, Crashes
<1>3. sent \in Seq(Message) /\ Fits(sent, limit[b])
    <2>1. /\ sent \in Seq(Message)
          /\ \A n \in 1 .. Len(sent) : sent[n].type = "bundle" => sent[n].number <= to[sent[n].chain]
        BY <1>1, BetweenProperties
    <2> SUFFICES ASSUME NEW n \in 1 .. Len(sent), sent[n].type = "bundle"
                 PROVE  sent[n].number <= limit[b][sent[n].chain]
        BY <2>1 DEF Fits
    <2>2. sent[n].chain \in Chain /\ sent[n].number \in 1 .. MaxLen
        BY <2>1, ElementOfSeq, MessageFacts
    <2>3. to[sent[n].chain] <= limit[b][sent[n].chain]
        BY <1>1, <2>2, AllowedType
    <2>4. to[sent[n].chain] \in 0 .. MaxLen /\ limit[b][sent[n].chain] \in 0 .. inf
        BY <1>1, <2>2 DEF TypeOK, Maps
    <2> HIDE DEF to
    <2>. QED
        BY <2>1, <2>2, <2>3, <2>4, Bounds
<1> HIDE DEF map, to
<1>4. Fits(to_client[k], limit[b]) /\ Fits(to_client[k] \o sent, limit[b])
    BY <1>3, FitsConcat, WithinBraidIsFits DEF TypeOK
<1>5. CASE UNCHANGED <<to_client, limit>>
    BY <1>5, WithinUnchanged
<1>6. CASE /\ to_client' = [to_client EXCEPT ![k] = IF status[k] = "up" THEN @ \o sent ELSE @]
           /\ UNCHANGED limit
    <2> DEFINE s == IF status[k] = "up" THEN to_client[k] \o sent ELSE to_client[k]
    <2>1. Fits(s, limit[b])
        BY <1>4
    <2>2. to_client' = [to_client EXCEPT ![k] = s]
        BY <1>6
    <2> HIDE DEF s
    <2>. QED
        BY <1>6, <2>1, <2>2, WithinOne
<1>. QED
    BY <1>2, <1>5, <1>6

LEMMA WithinRelayReceives ==
    ASSUME TypeOK, TypeOK', WithinBraid, NEW ch \in Chain, RelayReceives(ch)
    PROVE  WithinBraid'
<1> DEFINE i == held[Server][ch] + 1
           to == IF Stored(ch, i) THEN Targets(ch, i, subscribers, limit, tracker) ELSE {}
<1>1. i \in 1 .. MaxLen
    <2>1. PICK c \in Client : held[Server][ch] < held[c][ch]
        BY DEF RelayReceives
    <2>2. held[Server][ch] \in 0 .. MaxLen /\ held[c][ch] \in 0 .. MaxLen
        BY DEF TypeOK
    <2>. QED
        BY <2>1, <2>2, Bounds
<1>2. \/ UNCHANGED <<to_client, limit>>
      \/ /\ UNCHANGED limit
         /\ to_client' = [k \in Conn |->
                IF k \in to /\ status[k] = "up" THEN Append(to_client[k], Bundle(ch, i))
                ELSE to_client[k]]
    BY DEF RelayReceives, SendRaises, Crashes, Receives
<1>3. \A k \in to : i <= limit[BraidOf[k]][ch]
    <2> SUFFICES ASSUME NEW k \in to PROVE i <= limit[BraidOf[k]][ch]
        OBVIOUS
    <2>1. k \in Conn => limit[BraidOf[k]][ch] \in 0 .. inf
        BY ConstantsAssumption DEF TypeOK
    <2>2. k \in Targets(ch, i, subscribers, limit, tracker)
        OBVIOUS
    <2>3. k \in Conn /\ limit[BraidOf[k]][ch] > i
        <3> HIDE DEF i, to
        <3>. QED
            BY <2>2 DEF Targets, Passes, TypeOK
    <2> HIDE DEF i
    <2>. QED
        BY <1>1, <2>1, <2>3, Bounds
<1> HIDE DEF i, to
<1>4. CASE UNCHANGED <<to_client, limit>>
    BY <1>4, WithinUnchanged
<1>5. CASE /\ UNCHANGED limit
           /\ to_client' = [k \in Conn |->
                IF k \in to /\ status[k] = "up" THEN Append(to_client[k], Bundle(ch, i))
                ELSE to_client[k]]
    <2>1. \A k \in Conn : Fits(to_client[k], limit[BraidOf[k]])
        BY WithinBraidIsFits
    <2>2. \A k \in to \cap Conn : Fits(Append(to_client[k], Bundle(ch, i)), limit[BraidOf[k]])
        BY <1>1, <1>3, <2>1, FitsAppend DEF TypeOK
    <2>3. \A k \in Conn : Fits(to_client'[k], limit[BraidOf[k]])
        BY <1>5, <2>1, <2>2
    <2>4. \A k \in Conn : DOMAIN to_client'[k] = 1 .. Len(to_client'[k])
        BY QueueDomains
    <2>. QED
        BY <1>5, <2>3, <2>4 DEF WithinBraid, Fits
<1>. QED
    BY <1>2, <1>4, <1>5

LEMMA WithinReceiveBundle ==
    ASSUME TypeOK, TypeOK', WithinBraid, NEW k \in Conn, ReceiveBundle(k)
    PROVE  WithinBraid'
<1> DEFINE ch   == Head(to_server[k]).chain
           i    == Head(to_server[k]).number
           b    == BraidOf[k]
           join == ~InBraid(b, ch)
           lim  == IF join THEN [limit EXCEPT ![b][ch] = inf] ELSE limit
           subs == IF join THEN [subscribers EXCEPT ![ch] = Joined(k, ch)] ELSE subscribers
           have == Noted(k, ch, i)
           to   == IF Stored(ch, i) THEN Targets(ch, i, subs, lim, have) ELSE {}
<1>1. ch \in Chain /\ i \in 1 .. MaxLen /\ b \in Braid
    BY Received, MessageFacts, ConstantsAssumption DEF ReceiveBundle, Readable
<1>2. \/ /\ Reads(k)
         /\ tracker' = have
         /\ UNCHANGED <<clients, limit, status, tracked, to_client, index, crashed, late, cause>>
      \/ /\ Reads(k)
         /\ status' = [status EXCEPT ![k] = "done"]
         /\ to_client' = [to_client EXCEPT ![k] = <<>>]
         /\ Disconnected(k)
         /\ Forgotten(k)
         /\ UNCHANGED <<clients, limit, crashed, late, cause>>
      \/ Stops
      \/ /\ Reads(k)
         /\ limit' = lim
         /\ subscribers' = subs
         /\ late' = IF join /\ ~Stored(ch, i) THEN late \cup {<<b, ch>>} ELSE late
         /\ Receives(ch, i, subs, lim, have, {k})
         /\ UNCHANGED <<tracked, known, remote, on_braid, members, crashed, cause>>
    BY <1>1, StopsFor DEF ReceiveBundle
<1>3. lim \in Limits /\ limit \in Limits
    <2>1. limit \in Limits
        BY DEF TypeOK, Limits
    <2>2. [limit EXCEPT ![b][ch] = inf] \in Limits
        <3>1. inf \in 0 .. inf
            BY Bounds
        <3> HIDE DEF ch
        <3>. QED
            BY <1>1, <2>1, <3>1 DEF Limits
    <2>. QED
        BY <2>1, <2>2
<1>4. \A c \in Braid, d \in Chain : limit[c][d] <= lim[c][d]
    <2> SUFFICES ASSUME NEW c \in Braid, NEW d \in Chain PROVE limit[c][d] <= lim[c][d]
        OBVIOUS
    <2>1. limit[c][d] \in 0 .. inf
        BY <1>3 DEF Limits
    <2>2. lim[c][d] = limit[c][d] \/ lim[c][d] = inf
        BY <1>1, <1>3 DEF Limits
    <2> HIDE DEF lim
    <2>. QED
        BY <2>1, <2>2, Bounds
<1>5. \A l \in to \cap Conn : i <= lim[BraidOf[l]][ch]
    <2> SUFFICES ASSUME NEW l \in to, l \in Conn PROVE i <= lim[BraidOf[l]][ch]
        OBVIOUS
    <2>1. lim[BraidOf[l]][ch] \in 0 .. inf
        BY <1>1, <1>3, ConstantsAssumption DEF Limits
    <2>2. l \in Targets(ch, i, subs, lim, have)
        OBVIOUS
    <2> HIDE DEF ch, i, lim, subs, have
    <2>3. lim[BraidOf[l]][ch] > i
        BY <2>2 DEF Targets, Passes
    <2>. QED
        BY <1>1, <2>1, <2>3, Bounds
<1> HIDE DEF ch, i, lim, subs, have, to, join
<1>6. CASE /\ Reads(k)
           /\ tracker' = have
           /\ UNCHANGED <<clients, limit, status, tracked, to_client, index, crashed, late, cause>>
    BY <1>6, WithinUnchanged
<1>7. CASE /\ Reads(k)
           /\ status' = [status EXCEPT ![k] = "done"]
           /\ to_client' = [to_client EXCEPT ![k] = <<>>]
           /\ Disconnected(k)
           /\ Forgotten(k)
           /\ UNCHANGED <<clients, limit, crashed, late, cause>>
    BY <1>7, FitsEmpty, WithinOne
<1>8. CASE Stops
    BY <1>8, WithinUnchanged DEF Stops, Crashes
<1>9. CASE /\ Reads(k)
           /\ limit' = lim
           /\ subscribers' = subs
           /\ late' = IF join /\ ~Stored(ch, i) THEN late \cup {<<b, ch>>} ELSE late
           /\ Receives(ch, i, subs, lim, have, {k})
           /\ UNCHANGED <<tracked, known, remote, on_braid, members, crashed, cause>>
    <2>. to_client' = [l \in Conn |->
                IF l \in to /\ status[l] = "up" THEN Append(to_client[l], Bundle(ch, i))
                ELSE to_client[l]]
        BY <1>9 DEF Receives, to
    <2>1. \A l \in Conn : Fits(to_client[l], limit[BraidOf[l]])
        BY WithinBraidIsFits
    <2>2. \A l \in Conn : Fits(to_client[l], lim[BraidOf[l]])
        <3>1. \A c \in Braid : limit[c] \in HasMaps /\ lim[c] \in HasMaps
            BY <1>3, Bounds DEF Limits, HasMaps
        <3>. QED
            BY <1>4, <2>1, <3>1, FitsRaised, ConstantsAssumption DEF TypeOK
    <2>3. \A l \in to \cap Conn : Fits(Append(to_client[l], Bundle(ch, i)), lim[BraidOf[l]])
        BY <1>1, <1>5, <2>2, FitsAppend DEF TypeOK
    <2>4. \A l \in Conn : Fits(to_client'[l], lim[BraidOf[l]])
        BY <2>2, <2>3
    <2>5. \A l \in Conn : DOMAIN to_client'[l] = 1 .. Len(to_client'[l])
        BY QueueDomains
    <2>. QED
        BY <1>9, <2>4, <2>5 DEF WithinBraid, Fits
<1>. QED
    BY <1>2, <1>6, <1>7, <1>8, <1>9

LEMMA WithinTakes ==
    ASSUME TypeOK, TypeOK', WithinBraid, NEW k \in Conn, NEW type, Takes(k, type)
    PROVE  WithinBraid'
<1>1. to_client[k] \in Seq(Message) /\ to_client[k] # <<>>
    BY DEF Takes, TypeOK
<1>2. Fits(Tail(to_client[k]), limit[BraidOf[k]])
    BY <1>1, WithinBraidIsFits, FitsTail
<1>3. to_client' = [to_client EXCEPT ![k] = Tail(to_client[k])] /\ UNCHANGED limit
    BY DEF Takes
<1>. QED
    BY <1>2, <1>3, WithinOne

\* Every step keeps what is sent within the braids.
LEMMA NextWithin == TypeOK /\ TypeOK' /\ WithinBraid /\ [Next]_vars => WithinBraid'
<1> SUFFICES ASSUME TypeOK, TypeOK', WithinBraid, [Next]_vars PROVE WithinBraid'
    OBVIOUS
<1>1. CASE UNCHANGED vars
    BY <1>1, WithinUnchanged DEF vars
<1>2. ASSUME NEW ch \in Chain, RelayReceives(ch) PROVE WithinBraid'
    BY <1>2, WithinRelayReceives
<1>3. ASSUME NEW ch \in Chain, NEW c \in Client, Obtain(c, ch) PROVE WithinBraid'
    BY <1>3, WithinUnchanged DEF Obtain
<1>4. ASSUME NEW k \in Conn, Connect(k) PROVE WithinBraid'
    BY <1>4, ConnectCases, WithinConnect, WithinUnchanged DEF Stops, Crashes
<1>10. ASSUME NEW k \in Conn, Dial(k) \/ Leave(k) \/ MissRequest(k) \/ Reject(k) \/ MissEnd(k)
       PROVE  WithinBraid'
    BY <1>10, AsideCases, WithinUnchanged DEF Stops, Crashes, Aside
<1>5. ASSUME NEW k \in Conn, Lose(k) PROVE WithinBraid'
    BY <1>5, FitsEmpty, WithinOne DEF Lose
<1>6. ASSUME NEW k \in Conn, ReceiveEnd(k) PROVE WithinBraid'
    BY <1>6, WithinUnchanged DEF ReceiveEnd
<1>7. ASSUME NEW k \in Conn, ReceiveGreeting(k) PROVE WithinBraid'
    BY <1>7, WithinReceiveGreeting
<1>8. ASSUME NEW k \in Conn, ReceiveBundle(k) PROVE WithinBraid'
    BY <1>8, WithinReceiveBundle
<1>9. ASSUME NEW k \in Conn,
             \/ ClientReceivesAccept(k) \/ ClientReceivesGreeting(k) \/ ClientReceivesBundle(k)
      PROVE  WithinBraid'
    BY <1>9, WithinTakes DEF ClientReceivesAccept, ClientReceivesGreeting, ClientReceivesBundle
<1>. QED
    BY <1>1, <1>2, <1>3, <1>4, <1>5, <1>6, <1>7, <1>8, <1>9, <1>10 DEF Next

\* No client is ever sent a bundle that is not in its braid, whichever way the
\* server comes to send it (braid_server.py): in answer to a greeting, when the
\* relay receives the bundle, or when its chain joins the braid.
THEOREM BraidIsRespected == Spec => []WithinBraid
<1>1. Init => WithinBraid
    BY DEF Init, WithinBraid
<1>. QED
    BY InitType, NextType, NextWithin, <1>1, PTL DEF Spec
-----------------------------------------------------------------------------
(* The server and its clients implement ReplicatedChains.                     *)

\* What is on the way is held by who sent it.
ToServerHeld == \A k \in Conn : Fits(to_server[k], held[ClientOf[k]])

ToClientHeld == \A k \in Conn : Fits(to_client[k], held[Server])

SentIsHeld == ToServerHeld /\ ToClientHeld

\* The first of the bundles on the way, if it is one.
LEMMA FirstIsHeld ==
    ASSUME NEW s \in Seq(Message), s # <<>>, Head(s).type = "bundle", NEW map, Fits(s, map)
    PROVE  /\ Head(s).chain \in Chain /\ Head(s).number \in 1 .. MaxLen
           /\ Head(s).number <= map[Head(s).chain]
<1>1. Head(s) \in Message /\ Head(s) = s[1] /\ 1 \in 1 .. Len(s)
    BY HeadTailProperties, LenProperties
<1>. QED
    BY <1>1, MessageFacts DEF Fits

\* To store the next bundle of a chain is a step of ReplicatedChains, if another
\* one has it.
LEMMA LearnNext ==
    ASSUME TypeOK, NEW p \in Client \cup {Server}, NEW q \in Client \cup {Server},
           NEW ch \in Chain, held[p][ch] < held[q][ch],
           held' = [held EXCEPT ![p][ch] = @ + 1]
    PROVE  Replicated!Next
BY DEF Replicated!Next, Replicated!Learn

LEMMA RelayReceivesRefines ==
    ASSUME TypeOK, NEW ch \in Chain, RelayReceives(ch)
    PROVE  [Replicated!Next]_held
<1>1. PICK c \in Client : held[Server][ch] < held[c][ch]
    BY DEF RelayReceives
<1>2. held' = held \/ held' = [held EXCEPT ![Server][ch] = @ + 1]
    BY DEF RelayReceives, SendRaises, Crashes, Receives
<1>. QED
    BY <1>1, <1>2, LearnNext

LEMMA ObtainRefines ==
    ASSUME TypeOK, NEW c \in Client, NEW ch \in Chain, Obtain(c, ch)
    PROVE  Replicated!Next
<1>1. held' = [held EXCEPT ![c][ch] = @ + 1]
    BY DEF Obtain
<1>2. CASE Writer[ch] = c
    BY <1>1, <1>2 DEF Replicated!Next, Replicated!Extend
<1>3. CASE \E d \in Client : held[c][ch] < held[d][ch]
    BY <1>1, <1>3, LearnNext
<1>. QED
    BY <1>2, <1>3 DEF Obtain

LEMMA ReceiveBundleRefines ==
    ASSUME TypeOK, SentIsHeld, NEW k \in Conn, ReceiveBundle(k)
    PROVE  [Replicated!Next]_held
<1> DEFINE ch == Head(to_server[k]).chain
           i  == Head(to_server[k]).number
           c  == ClientOf[k]
<1>1. /\ ch \in Chain /\ i \in 1 .. MaxLen /\ c \in Client
      /\ i <= held[c][ch]
    BY FirstIsHeld, ConstantsAssumption DEF ReceiveBundle, Readable, SentIsHeld, ToServerHeld, TypeOK
<1>2. \/ held' = held
      \/ Stored(ch, i) /\ held' = [held EXCEPT ![Server][ch] = @ + 1]
    BY DEF ReceiveBundle, SendRaises, Crashes, Receives, clients
<1> HIDE DEF ch, i, c
<1>3. CASE Stored(ch, i) /\ held' = [held EXCEPT ![Server][ch] = @ + 1]
    <2>1. held[Server][ch] + 1 = i
        BY <1>1, <1>3, StoredIsNext
    <2>2. held[Server][ch] \in 0 .. MaxLen /\ held[c][ch] \in 0 .. MaxLen
        BY <1>1 DEF TypeOK
    <2>3. held[Server][ch] < held[c][ch]
        BY <1>1, <2>1, <2>2, Bounds
    <2>. QED
        BY <1>1, <1>3, <2>3, LearnNext
<1>. QED
    BY <1>2, <1>3

LEMMA ClientReceivesBundleRefines ==
    ASSUME TypeOK, SentIsHeld, NEW k \in Conn, ClientReceivesBundle(k)
    PROVE  [Replicated!Next]_held
<1> DEFINE ch == Head(to_client[k]).chain
           i  == Head(to_client[k]).number
           c  == ClientOf[k]
<1>1. /\ ch \in Chain /\ i \in 1 .. MaxLen /\ c \in Client
      /\ i <= held[Server][ch]
    BY FirstIsHeld, ConstantsAssumption DEF ClientReceivesBundle, Takes, SentIsHeld, ToClientHeld, TypeOK
<1>2. held' = IF is_needed(held[c][ch], i) THEN [held EXCEPT ![c][ch] = i] ELSE held
    BY DEF ClientReceivesBundle
<1> HIDE DEF ch, i, c
<1>3. CASE is_needed(held[c][ch], i)
    <2>1. held[Server][ch] \in 0 .. MaxLen /\ held[c][ch] \in 0 .. MaxLen
        BY <1>1 DEF TypeOK
    <2>2. held[c][ch] + 1 = i
        BY <1>1, <1>3, <2>1, Bounds DEF is_needed, MissingPrior, AlreadySeen
    <2>3. held[c][ch] < held[Server][ch]
        BY <1>1, <2>1, <2>2, Bounds
    <2>4. held' = [held EXCEPT ![c][ch] = @ + 1]
        BY <1>2, <1>3, <2>2
    <2>. QED
        BY <1>1, <2>3, <2>4, LearnNext
<1>. QED
    BY <1>2, <1>3

\* Every step is one of ReplicatedChains, or leaves what is held.
LEMMA NextRefines == TypeOK /\ SentIsHeld /\ [Next]_vars => [Replicated!Next]_held
<1> SUFFICES ASSUME TypeOK, SentIsHeld, [Next]_vars PROVE [Replicated!Next]_held
    OBVIOUS
<1>1. CASE UNCHANGED vars
    BY <1>1 DEF vars
<1>2. ASSUME NEW ch \in Chain, RelayReceives(ch) PROVE [Replicated!Next]_held
    BY <1>2, RelayReceivesRefines
<1>3. ASSUME NEW ch \in Chain, NEW c \in Client, Obtain(c, ch) PROVE [Replicated!Next]_held
    BY <1>3, ObtainRefines
<1>4. ASSUME NEW k \in Conn,
             \/ Connect(k) \/ Lose(k) \/ ReceiveEnd(k) \/ ReceiveGreeting(k)
             \/ ClientReceivesAccept(k) \/ ClientReceivesGreeting(k)
      PROVE  UNCHANGED held
    BY <1>4, ConnectCases DEF Stops, Accepts, Lose, ReceiveEnd, ReceiveGreeting, SendRaises, Crashes,
                ClientReceivesAccept, ClientReceivesGreeting, clients
<1>5. ASSUME NEW k \in Conn, ReceiveBundle(k) PROVE [Replicated!Next]_held
    BY <1>5, ReceiveBundleRefines
<1>6. ASSUME NEW k \in Conn, ClientReceivesBundle(k) PROVE [Replicated!Next]_held
    BY <1>6, ClientReceivesBundleRefines
<1>7. ASSUME NEW k \in Conn, Dial(k) \/ Leave(k) \/ MissRequest(k) \/ Reject(k) \/ MissEnd(k)
      PROVE  UNCHANGED held
    BY <1>7, AsideCases DEF Stops, Crashes, Aside, clients
<1>. QED
    BY <1>1, <1>2, <1>3, <1>4, <1>5, <1>6, <1>7 DEF Next

\* Stores only grow.
LEMMA HeldGrows ==
    ASSUME TypeOK, [Replicated!Next]_held, NEW p \in Client \cup {Server}, NEW ch \in Chain
    PROVE  held[p][ch] <= held'[p][ch]
<1>1. held[p][ch] \in Nat
    BY DEF TypeOK
<1>2. CASE held' = held
    BY <1>1, <1>2
<1>3. ASSUME NEW q \in Client \cup {Server}, NEW c \in Chain,
             held' = [held EXCEPT ![q][c] = @ + 1]
      PROVE  held[p][ch] <= held'[p][ch]
    <2>1. held'[p][ch] = IF p = q /\ ch = c THEN held[p][ch] + 1 ELSE held[p][ch]
        BY <1>3 DEF TypeOK
    <2>. QED
        BY <1>1, <2>1
<1>. QED
    BY <1>2, <1>3 DEF Replicated!Next, Replicated!Extend, Replicated!Learn

\* What someone holds is a map, and will be.
LEMMA HeldMaps ==
    ASSUME TypeOK, TypeOK', NEW p \in Client \cup {Server}
    PROVE  held[p] \in HasMaps /\ held'[p] \in HasMaps
<1>1. held \in [Client \cup {Server} -> [Chain -> 0 .. MaxLen]]
    BY DEF TypeOK
<1>2. held' \in [Client \cup {Server} -> [Chain -> 0 .. MaxLen]]
    BY DEF TypeOK
<1>3. [Chain -> 0 .. MaxLen] \subseteq HasMaps
    BY Bounds DEF HasMaps
<1>. QED
    BY <1>1, <1>2, <1>3

\* A queue stays held.
LEMMA StillHeld ==
    ASSUME TypeOK, TypeOK', [Replicated!Next]_held, NEW p \in Client \cup {Server},
           NEW s \in Seq(Message), Fits(s, held[p])
    PROVE  Fits(s, held'[p])
<1>1. held[p] \in HasMaps /\ held'[p] \in HasMaps
    BY HeldMaps
<1>2. \A ch \in Chain : held[p][ch] <= held'[p][ch]
    BY HeldGrows
<1>. QED
    BY <1>1, <1>2, FitsRaised

\* The beginning of a queue that fits does.
LEMMA FitsSubSeq ==
    ASSUME NEW s \in Seq(Message), NEW n \in 0 .. Len(s), NEW map, Fits(s, map)
    PROVE  SubSeq(s, 1, n) \in Seq(Message) /\ Fits(SubSeq(s, 1, n), map)
<1>1. \A j \in 1 .. n : s[j] \in Message /\ j \in 1 .. Len(s)
    BY ElementOfSeq
<1>2. /\ SubSeq(s, 1, n) \in Seq(Message)
      /\ Len(SubSeq(s, 1, n)) = n
      /\ \A j \in 1 .. n : SubSeq(s, 1, n)[j] = s[j]
    BY <1>1, SubSeqProperties
<1>. QED
    BY <1>1, <1>2 DEF Fits

\* What an action does with the queues to the server: nothing, ...
LEMMA ToServerKept ==
    ASSUME TypeOK, TypeOK', [Replicated!Next]_held, ToServerHeld, UNCHANGED to_server
    PROVE  ToServerHeld'
<1>1. \A k \in Conn : Fits(to_server[k], held'[ClientOf[k]])
    BY StillHeld, ConstantsAssumption DEF ToServerHeld, TypeOK
<1>. QED
    BY <1>1 DEF ToServerHeld

\* ... one changes, to another that is held, ...
LEMMA ToServerOne ==
    ASSUME TypeOK, TypeOK', [Replicated!Next]_held, ToServerHeld,
           NEW k \in Conn, NEW s \in Seq(Message), Fits(s, held[ClientOf[k]]),
           to_server' = [to_server EXCEPT ![k] = s]
    PROVE  ToServerHeld'
<1>1. \A l \in Conn : Fits(to_server[l], held'[ClientOf[l]])
    BY StillHeld, ConstantsAssumption DEF ToServerHeld, TypeOK
<1>2. Fits(s, held'[ClientOf[k]])
    BY StillHeld, ConstantsAssumption
<1>3. \A l \in Conn : to_server'[l] = IF l = k THEN s ELSE to_server[l]
    BY DEF TypeOK
<1>. QED
    BY <1>1, <1>2, <1>3 DEF ToServerHeld

\* ... or a bundle that is held is added to some.
LEMMA ToServerAppended ==
    ASSUME TypeOK, TypeOK', [Replicated!Next]_held, ToServerHeld,
           NEW c \in Client, NEW ch \in Chain, NEW i \in 1 .. MaxLen, i <= held'[c][ch],
           \A l \in Conn : \/ to_server'[l] = to_server[l]
                           \/ ClientOf[l] = c /\ to_server'[l] = Append(to_server[l], Bundle(ch, i))
    PROVE  ToServerHeld'
<1>1. \A l \in Conn : to_server[l] \in Seq(Message) /\ Fits(to_server[l], held'[ClientOf[l]])
    BY StillHeld, ConstantsAssumption DEF ToServerHeld, TypeOK
<1>2. \A l \in Conn : ClientOf[l] = c =>
            Fits(Append(to_server[l], Bundle(ch, i)), held'[ClientOf[l]])
    BY <1>1, FitsAppend
<1>. QED
    BY <1>1, <1>2 DEF ToServerHeld

\* The same of the queues to the clients.
LEMMA ToClientKept ==
    ASSUME TypeOK, TypeOK', [Replicated!Next]_held, ToClientHeld, UNCHANGED to_client
    PROVE  ToClientHeld'
<1>1. \A k \in Conn : Fits(to_client[k], held'[Server])
    BY StillHeld DEF ToClientHeld, TypeOK
<1>. QED
    BY <1>1 DEF ToClientHeld

LEMMA ToClientOne ==
    ASSUME TypeOK, TypeOK', [Replicated!Next]_held, ToClientHeld,
           NEW k \in Conn, NEW s \in Seq(Message), Fits(s, held[Server]),
           to_client' = [to_client EXCEPT ![k] = s]
    PROVE  ToClientHeld'
<1>1. \A l \in Conn : Fits(to_client[l], held'[Server])
    BY StillHeld DEF ToClientHeld, TypeOK
<1>2. Fits(s, held'[Server])
    BY StillHeld
<1>3. \A l \in Conn : to_client'[l] = IF l = k THEN s ELSE to_client[l]
    BY DEF TypeOK
<1>. QED
    BY <1>1, <1>2, <1>3 DEF ToClientHeld

LEMMA ToClientAppended ==
    ASSUME TypeOK, TypeOK', [Replicated!Next]_held, ToClientHeld,
           NEW ch \in Chain, NEW i \in 1 .. MaxLen, i <= held'[Server][ch],
           \A l \in Conn : \/ to_client'[l] = to_client[l]
                           \/ to_client'[l] = Append(to_client[l], Bundle(ch, i))
    PROVE  ToClientHeld'
<1>1. \A l \in Conn : to_client[l] \in Seq(Message) /\ Fits(to_client[l], held'[Server])
    BY StillHeld DEF ToClientHeld, TypeOK
<1>2. \A l \in Conn : Fits(Append(to_client[l], Bundle(ch, i)), held'[Server])
    BY <1>1, FitsAppend
<1>. QED
    BY <1>1, <1>2 DEF ToClientHeld

\* A message that is read, or an answer without bundles.
LEMMA ToServerReads ==
    ASSUME TypeOK, TypeOK', [Replicated!Next]_held, ToServerHeld,
           NEW k \in Conn, to_server[k] # <<>>, Reads(k)
    PROVE  ToServerHeld'
<1>1. to_server[k] \in Seq(Message) /\ Tail(to_server[k]) \in Seq(Message)
    BY Received DEF TypeOK
<1>2. Fits(Tail(to_server[k]), held[ClientOf[k]])
    BY <1>1, FitsTail DEF ToServerHeld
<1>3. to_server' = [to_server EXCEPT ![k] = Tail(to_server[k])]
    BY DEF Reads
<1>. QED
    BY <1>1, <1>2, <1>3, ToServerOne

LEMMA ToClientTakes ==
    ASSUME TypeOK, TypeOK', [Replicated!Next]_held, ToClientHeld,
           NEW k \in Conn, NEW type, Takes(k, type)
    PROVE  ToClientHeld'
<1>1. to_client[k] \in Seq(Message) /\ to_client[k] # <<>>
    BY DEF Takes, TypeOK
<1>2. Tail(to_client[k]) \in Seq(Message) /\ Fits(Tail(to_client[k]), held[Server])
    BY <1>1, HeadTailProperties, FitsTail DEF ToClientHeld
<1>3. to_client' = [to_client EXCEPT ![k] = Tail(to_client[k])]
    BY DEF Takes
<1>. QED
    BY <1>2, <1>3, ToClientOne

LEMMA RelayReceivesSent ==
    ASSUME TypeOK, TypeOK', [Replicated!Next]_held, SentIsHeld, NEW ch \in Chain, RelayReceives(ch)
    PROVE  SentIsHeld'
<1> DEFINE i == held[Server][ch] + 1
<1>1. i \in 1 .. MaxLen
    <2>1. PICK c \in Client : held[Server][ch] < held[c][ch]
        BY DEF RelayReceives
    <2>2. held[Server][ch] \in 0 .. MaxLen /\ held[c][ch] \in 0 .. MaxLen
        BY DEF TypeOK
    <2>. QED
        BY <2>1, <2>2, Bounds
<1>2. UNCHANGED to_server
    BY DEF RelayReceives, SendRaises, Crashes
<1>3. \/ UNCHANGED to_client
      \/ Receives(ch, i, subscribers, limit, tracker, {})
    BY DEF RelayReceives, SendRaises, Crashes
<1> HIDE DEF i
<1>4. CASE Receives(ch, i, subscribers, limit, tracker, {})
    <2>1. CASE ~Stored(ch, i)
        <3>1. \A l \in Conn : to_client'[l] = to_client[l]
            BY <1>4, <2>1 DEF Receives
        <3>2. UNCHANGED to_client
            BY <3>1 DEF TypeOK
        <3>. QED
            BY <1>2, <3>2, ToServerKept, ToClientKept DEF SentIsHeld
    <2>2. CASE Stored(ch, i)
        <3>1. \A l \in Conn : \/ to_client'[l] = to_client[l]
                              \/ to_client'[l] = Append(to_client[l], Bundle(ch, i))
            BY <1>4, <2>2 DEF Receives
        <3>2. held' = [held EXCEPT ![Server][ch] = @ + 1]
            BY <1>4, <2>2 DEF Receives
        <3>3. held'[Server][ch] = i
            BY <3>2 DEF i, TypeOK
        <3>. QED
            BY <1>1, <1>2, <3>1, <3>3, ToServerKept, ToClientAppended DEF SentIsHeld
    <2>. QED
        BY <2>1, <2>2
<1>. QED
    BY <1>2, <1>3, <1>4, ToServerKept, ToClientKept DEF SentIsHeld

LEMMA ObtainSent ==
    ASSUME TypeOK, TypeOK', [Replicated!Next]_held, SentIsHeld,
           NEW c \in Client, NEW ch \in Chain, Obtain(c, ch)
    PROVE  SentIsHeld'
<1> DEFINE i == held[c][ch] + 1
<1>1. i \in 1 .. MaxLen /\ held'[c][ch] = i
    <2>1. held[c][ch] \in 0 .. MaxLen /\ held[c][ch] < MaxLen
        BY DEF Obtain, TypeOK
    <2>2. held' = [held EXCEPT ![c][ch] = @ + 1]
        BY DEF Obtain
    <2>. QED
        BY <2>1, <2>2, Bounds DEF TypeOK
<1>2. \A l \in Conn : \/ to_server'[l] = to_server[l]
                      \/ ClientOf[l] = c /\ to_server'[l] = Append(to_server[l], Bundle(ch, i))
    BY DEF Obtain, Sends
<1>3. UNCHANGED to_client
    BY DEF Obtain
<1> HIDE DEF i
<1>. QED
    BY <1>1, <1>2, <1>3, ToServerAppended, ToClientKept DEF SentIsHeld

\* As long as queues stay what they are.
LEMMA SentKept ==
    ASSUME TypeOK, TypeOK', [Replicated!Next]_held, SentIsHeld, UNCHANGED <<to_server, to_client>>
    PROVE  SentIsHeld'
BY ToServerKept, ToClientKept DEF SentIsHeld

LEMMA ConnectSent ==
    ASSUME TypeOK, TypeOK', [Replicated!Next]_held, SentIsHeld, NEW k \in Conn, Accepts(k)
    PROVE  SentIsHeld'
<1>1. Fits(Answer(k), held[Server])
    BY AnswerMessages DEF Fits
<1>2. Answer(k) \in Seq(Message)
    BY AnswerType
<1>3. CASE to_client' = [to_client EXCEPT ![k] = Answer(k)]
    BY <1>1, <1>2, <1>3, ToClientOne, ToServerKept DEF SentIsHeld, Accepts
<1>. QED
    BY <1>3, SentKept DEF Accepts

LEMMA LoseSent ==
    ASSUME TypeOK, TypeOK', [Replicated!Next]_held, SentIsHeld, NEW k \in Conn, Lose(k)
    PROVE  SentIsHeld'
<1>1. PICK n \in 0 .. Len(to_server[k]) :
            to_server' = [to_server EXCEPT ![k] = SubSeq(to_server[k], 1, n)]
    BY DEF Lose
<1>2. to_client' = [to_client EXCEPT ![k] = <<>>]
    BY DEF Lose
<1>3. /\ SubSeq(to_server[k], 1, n) \in Seq(Message)
      /\ Fits(SubSeq(to_server[k], 1, n), held[ClientOf[k]])
    BY FitsSubSeq DEF SentIsHeld, ToServerHeld, TypeOK
<1>4. <<>> \in Seq(Message) /\ Fits(<<>>, held[Server])
    BY FitsEmpty
<1>. QED
    BY <1>1, <1>2, <1>3, <1>4, ToServerOne, ToClientOne DEF SentIsHeld

LEMMA ReceiveGreetingSent ==
    ASSUME TypeOK, TypeOK', [Replicated!Next]_held, SentIsHeld, NEW k \in Conn, ReceiveGreeting(k)
    PROVE  SentIsHeld'
<1> DEFINE map == Head(to_server[k]).has
           to == Allowed(BraidOf[k])
<1>1. map \in Maps /\ to \in Maps /\ to_server[k] # <<>>
    BY Received, MessageFacts, AllowedType, ConstantsAssumption DEF ReceiveGreeting, Readable
<1>2. PICK sent \in Between(map, to) :
        \/ UNCHANGED <<to_client, to_server>>
        \/ Reads(k) /\ UNCHANGED to_client
        \/ /\ Reads(k)
           /\ to_client' = [to_client EXCEPT ![k] = IF status[k] = "up" THEN @ \o sent ELSE @]
    BY DEF ReceiveGreeting, SendRaises, Crashes
<1>3. sent \in Seq(Message) /\ Fits(sent, held[Server])
    <2>1. /\ sent \in Seq(Message)
          /\ \A n \in 1 .. Len(sent) : sent[n].type = "bundle" => sent[n].number <= to[sent[n].chain]
        BY <1>1, BetweenProperties
    <2>2. \A ch \in Chain : /\ to[ch] <= held[Server][ch]
                            /\ to[ch] \in 0 .. MaxLen /\ held[Server][ch] \in 0 .. MaxLen
        <3> SUFFICES ASSUME NEW ch \in Chain
                     PROVE  /\ to[ch] <= held[Server][ch]
                            /\ to[ch] \in 0 .. MaxLen /\ held[Server][ch] \in 0 .. MaxLen
            OBVIOUS
        <3>1. held[Server][ch] \in 0 .. MaxLen /\ limit[BraidOf[k]][ch] \in 0 .. inf
            BY ConstantsAssumption DEF TypeOK
        <3>2. to[ch] = Lesser(held[Server][ch], limit[BraidOf[k]][ch])
            BY DEF Allowed
        <3> HIDE DEF to
        <3>. QED
            BY <3>1, <3>2, Bounds DEF Lesser
    <2> HIDE DEF to
    <2> SUFFICES ASSUME NEW n \in 1 .. Len(sent), sent[n].type = "bundle"
                 PROVE  sent[n].number <= held[Server][sent[n].chain]
        BY <2>1 DEF Fits
    <2>3. sent[n].chain \in Chain /\ sent[n].number \in 1 .. MaxLen
        BY <2>1, ElementOfSeq, MessageFacts
    <2>. QED
        BY <2>1, <2>2, <2>3, Bounds
<1> HIDE DEF map, to
<1>4. CASE Reads(k) /\ to_client' = [to_client EXCEPT ![k] = IF status[k] = "up" THEN @ \o sent ELSE @]
    <2> DEFINE s == IF status[k] = "up" THEN to_client[k] \o sent ELSE to_client[k]
    <2>1. s \in Seq(Message) /\ Fits(s, held[Server])
        BY <1>3, FitsConcat, ConcatProperties DEF SentIsHeld, ToClientHeld, TypeOK
    <2>2. to_client' = [to_client EXCEPT ![k] = s]
        BY <1>4
    <2> HIDE DEF s
    <2>. QED
        BY <1>1, <1>4, <2>1, <2>2, ToClientOne, ToServerReads DEF SentIsHeld
<1>. QED
    BY <1>1, <1>2, <1>4, ToServerKept, ToClientKept, ToServerReads DEF SentIsHeld

LEMMA ReceiveBundleSent ==
    ASSUME TypeOK, TypeOK', [Replicated!Next]_held, SentIsHeld, NEW k \in Conn, ReceiveBundle(k)
    PROVE  SentIsHeld'
<1> DEFINE ch   == Head(to_server[k]).chain
           i    == Head(to_server[k]).number
           b    == BraidOf[k]
           join == ~InBraid(b, ch)
           lim  == IF join THEN [limit EXCEPT ![b][ch] = inf] ELSE limit
           subs == IF join THEN [subscribers EXCEPT ![ch] = Joined(k, ch)] ELSE subscribers
           have == Noted(k, ch, i)
<1>1. ch \in Chain /\ i \in 1 .. MaxLen /\ to_server[k] # <<>>
    BY Received, MessageFacts DEF ReceiveBundle, Readable
<1>2. \/ Reads(k) /\ UNCHANGED to_client
      \/ Reads(k) /\ to_client' = [to_client EXCEPT ![k] = <<>>]
      \/ Stops
      \/ Reads(k) /\ Receives(ch, i, subs, lim, have, {k})
    BY <1>1, StopsFor DEF ReceiveBundle
<1> HIDE DEF ch, i, lim, subs, have
<1>3. CASE Reads(k) /\ UNCHANGED to_client
    BY <1>1, <1>3, ToServerReads, ToClientKept DEF SentIsHeld
<1>4. CASE Reads(k) /\ to_client' = [to_client EXCEPT ![k] = <<>>]
    <2>1. <<>> \in Seq(Message) /\ Fits(<<>>, held[Server])
        BY FitsEmpty
    <2>. QED
        BY <1>1, <1>4, <2>1, ToServerReads, ToClientOne DEF SentIsHeld
<1>5. CASE Stops
    BY <1>5, SentKept DEF Stops, Crashes
<1>6. CASE Reads(k) /\ Receives(ch, i, subs, lim, have, {k})
    <2>1. CASE ~Stored(ch, i)
        <3>1. \A l \in Conn : to_client'[l] = to_client[l]
            BY <1>6, <2>1 DEF Receives
        <3>2. UNCHANGED to_client
            BY <3>1 DEF TypeOK
        <3>. QED
            BY <1>1, <1>6, <3>2, ToServerReads, ToClientKept DEF SentIsHeld
    <2>2. CASE Stored(ch, i)
        <3>1. \A l \in Conn : \/ to_client'[l] = to_client[l]
                              \/ to_client'[l] = Append(to_client[l], Bundle(ch, i))
            BY <1>6, <2>2 DEF Receives
        <3>2. held' = [held EXCEPT ![Server][ch] = @ + 1]
            BY <1>6, <2>2 DEF Receives
        <3>3. held'[Server][ch] = i
            BY <1>1, <2>2, <3>2, StoredIsNext DEF TypeOK
        <3>. QED
            BY <1>1, <1>6, <3>1, <3>3, ToServerReads, ToClientAppended DEF SentIsHeld
    <2>. QED
        BY <2>1, <2>2
<1>. QED
    BY <1>2, <1>3, <1>4, <1>5, <1>6

LEMMA ClientReceivesAcceptSent ==
    ASSUME TypeOK, TypeOK', [Replicated!Next]_held, SentIsHeld, NEW k \in Conn,
           ClientReceivesAccept(k)
    PROVE  SentIsHeld'
<1> DEFINE m == Greeting(held[ClientOf[k]])
           s == to_server[k] \o <<m>>
<1>1. m \in Message /\ m.type = "greeting"
    BY ConstantsAssumption, MessageFacts DEF TypeOK, Maps
<1>2. to_server' = [to_server EXCEPT ![k] = s] /\ Takes(k, "accept")
    <2>1. to_server[k] \in Seq(Message)
        BY DEF TypeOK
    <2>2. to_server' = [to_server EXCEPT ![k] = Append(to_server[k], m)] /\ Takes(k, "accept")
        BY DEF ClientReceivesAccept
    <2> HIDE DEF m
    <2>3. Append(to_server[k], m) = s
        BY <1>1, <2>1, AppendIsConcat
    <2>. QED
        BY <2>2, <2>3
<1> HIDE DEF m
<1>3. <<m>> \in Seq(Message) /\ Fits(<<m>>, held[ClientOf[k]])
    BY <1>1 DEF Fits
<1>4. s \in Seq(Message) /\ Fits(s, held[ClientOf[k]])
    BY <1>3, FitsConcat, ConcatProperties DEF SentIsHeld, ToServerHeld, TypeOK
<1> HIDE DEF s
<1>. QED
    BY <1>2, <1>4, ToServerOne, ToClientTakes DEF SentIsHeld

LEMMA ClientReceivesGreetingSent ==
    ASSUME TypeOK, TypeOK', [Replicated!Next]_held, SentIsHeld, NEW k \in Conn,
           ClientReceivesGreeting(k)
    PROVE  SentIsHeld'
<1> DEFINE map == Head(to_client[k]).has
           own == held[ClientOf[k]]
<1>1. Takes(k, "greeting")
    BY DEF ClientReceivesGreeting
<1>2. map \in Maps /\ own \in Maps
    BY <1>1, TakesType, MessageFacts, ConstantsAssumption DEF TypeOK, Maps
<1>3. PICK sent \in Between(map, own) : to_server' = [to_server EXCEPT ![k] = to_server[k] \o sent]
    BY DEF ClientReceivesGreeting
<1>4. sent \in Seq(Message) /\ Fits(sent, own)
    BY <1>2, BetweenProperties DEF Fits
<1>5. /\ to_server[k] \o sent \in Seq(Message)
      /\ Fits(to_server[k] \o sent, own)
    BY <1>4, FitsConcat, ConcatProperties DEF SentIsHeld, ToServerHeld, TypeOK
<1>. QED
    BY <1>1, <1>3, <1>5, ToServerOne, ToClientTakes DEF SentIsHeld

\* Every step keeps it: only what is held is sent.
LEMMA NextSent == TypeOK /\ TypeOK' /\ SentIsHeld /\ [Next]_vars => SentIsHeld'
<1> SUFFICES ASSUME TypeOK, TypeOK', SentIsHeld, [Next]_vars PROVE SentIsHeld'
    OBVIOUS
<1>0. [Replicated!Next]_held
    BY NextRefines
<1>1. CASE UNCHANGED vars
    BY <1>0, <1>1, ToServerKept, ToClientKept DEF vars, SentIsHeld
<1>2. ASSUME NEW ch \in Chain, RelayReceives(ch) PROVE SentIsHeld'
    BY <1>0, <1>2, RelayReceivesSent
<1>3. ASSUME NEW ch \in Chain, NEW c \in Client, Obtain(c, ch) PROVE SentIsHeld'
    BY <1>0, <1>3, ObtainSent
<1>4. ASSUME NEW k \in Conn, Connect(k) \/ Lose(k) PROVE SentIsHeld'
    BY <1>0, <1>4, ConnectCases, ConnectSent, LoseSent, SentKept DEF Stops, Crashes
<1>9. ASSUME NEW k \in Conn, Dial(k) \/ Leave(k) \/ MissRequest(k) \/ Reject(k) \/ MissEnd(k)
      PROVE  SentIsHeld'
    BY <1>0, <1>9, AsideCases, SentKept DEF Stops, Crashes, Aside
<1>5. ASSUME NEW k \in Conn, ReceiveEnd(k) PROVE SentIsHeld'
    BY <1>0, <1>5, ToServerKept, ToClientKept DEF ReceiveEnd, SentIsHeld
<1>6. ASSUME NEW k \in Conn, ReceiveGreeting(k) \/ ReceiveBundle(k) PROVE SentIsHeld'
    BY <1>0, <1>6, ReceiveGreetingSent, ReceiveBundleSent
<1>7. ASSUME NEW k \in Conn, ClientReceivesAccept(k) \/ ClientReceivesGreeting(k)
      PROVE  SentIsHeld'
    BY <1>0, <1>7, ClientReceivesAcceptSent, ClientReceivesGreetingSent
<1>8. ASSUME NEW k \in Conn, ClientReceivesBundle(k) PROVE SentIsHeld'
    BY <1>0, <1>8, ToServerKept, ToClientTakes DEF ClientReceivesBundle, SentIsHeld
<1>. QED
    BY <1>1, <1>2, <1>3, <1>4, <1>5, <1>6, <1>7, <1>8, <1>9 DEF Next

\* The braid server and its clients implement ReplicatedChains: whatever joins,
\* is lost or fails, each of them only moves to the next bundle of a chain, which
\* another one holds or which it signs itself (braid_server.py, relay.py).
THEOREM Refinement == Spec => ImplementsReplicatedChains
<1>1. Init => Replicated!Init
    BY DEF Init, Replicated!Init, EmptyMap
<1>2. Init => SentIsHeld
    BY FitsEmpty, ConstantsAssumption DEF Init, SentIsHeld, ToServerHeld, ToClientHeld
<1>. QED
    BY InitType, NextType, NextSent, NextRefines, <1>1, <1>2, PTL
    DEF Spec, ImplementsReplicatedChains, Replicated!Spec
-----------------------------------------------------------------------------
(***************************************************************************)
(* What is on a braid reaches the clients on it, in the order of each      *)
(* chain, and the server ends for known reasons only.                      *)
(***************************************************************************)

\* A bundle is on the way.
Queued(s, ch, i) == \E n \in 1 .. Len(s) : s[n] = Bundle(ch, i)

\* A queue has no gap for a reader that has this: what comes before a bundle, the
\* reader has or finds before it in the queue.
NoGap(s, have) ==
    \A n \in 1 .. Len(s) : s[n].type = "bundle" =>
        \/ s[n].number <= have[s[n].chain] + 1
        \/ \E m \in 1 .. (n - 1) : s[m] = Bundle(s[n].chain, s[n].number - 1)

\* What a sender takes its peer to have, the peer has or finds in the queue.
Tracks(map, s, have) ==
    \A ch \in Chain : map[ch] <= have[ch] \/ Queued(s, ch, map[ch])

\* Who greets has what it says.
GreetsWithin(s, have) ==
    \A n \in 1 .. Len(s) : s[n].type = "greeting" => \A ch \in Chain : s[n].has[ch] <= have[ch]

\* One map has at least what another has, of every chain.
Covers(map, other) == \A ch \in Chain : other[ch] <= map[ch]

-----------------------------------------------------------------------------
(* Queues. *)

\* A map of the model is a HasMap.
LEMMA MapsAreHasMaps == \A map \in Maps : map \in HasMaps
BY Bounds DEF Maps, HasMaps

\* A queue without gaps stays without gaps when the reader's store grows.
LEMMA NoGapGrows ==
    ASSUME NEW s \in Seq(Message), NEW h \in HasMaps, NEW g \in HasMaps,
           Covers(g, h), NoGap(s, h)
    PROVE  NoGap(s, g)
<1> SUFFICES ASSUME NEW n \in 1 .. Len(s), s[n].type = "bundle"
             PROVE  \/ s[n].number <= g[s[n].chain] + 1
                    \/ \E m \in 1 .. (n - 1) :
                          s[m] = Bundle(s[n].chain, s[n].number - 1)
    BY DEF NoGap
<1>1. s[n] \in Message
    BY ElementOfSeq
<1>2. s[n].chain \in Chain /\ s[n].number \in Nat
    BY <1>1, MessageFacts
<1>3. h[s[n].chain] <= g[s[n].chain]
    BY <1>2 DEF Covers
<1>4. \/ s[n].number <= h[s[n].chain] + 1
      \/ \E m \in 1 .. (n - 1) : s[m] = Bundle(s[n].chain, s[n].number - 1)
    BY DEF NoGap
<1>5. h[s[n].chain] \in Nat /\ g[s[n].chain] \in Nat
    BY <1>2 DEF HasMaps
<1>6. s[n].number <= h[s[n].chain] + 1 => s[n].number <= g[s[n].chain] + 1
    BY <1>2, <1>3, <1>5
<1>. QED
    BY <1>4, <1>6

\* The empty queue has no gaps.
LEMMA NoGapEmpty == \A h : NoGap(<<>>, h)
BY DEF NoGap

\* Reading the first message leaves no gap, if what it carries is held.
LEMMA NoGapTail ==
    ASSUME NEW s \in Seq(Message), NEW h \in HasMaps, s # <<>>, NoGap(s, h),
           Head(s).type = "bundle" => Head(s).number <= h[Head(s).chain]
    PROVE  NoGap(Tail(s), h)
<1> DEFINE t == Tail(s)
<1>1. /\ t \in Seq(Message)
      /\ Len(t) = Len(s) - 1
      /\ \A n \in 1 .. Len(t) : t[n] = s[n + 1]
      /\ Len(s) \in Nat
      /\ Head(s) = s[1]
    BY HeadTailProperties, LenProperties
<1> SUFFICES ASSUME NEW n \in 1 .. Len(t), t[n].type = "bundle",
                    ~(t[n].number <= h[t[n].chain] + 1)
             PROVE  \E m \in 1 .. (n - 1) :
                          t[m] = Bundle(t[n].chain, t[n].number - 1)
    BY DEF NoGap
<1> HIDE DEF t
<1>2. n \in Nat /\ n + 1 \in 1 .. Len(s) /\ t[n] = s[n + 1]
    BY <1>1
<1>3. t[n].chain \in Chain /\ t[n].number \in Nat /\ h[t[n].chain] \in Nat
    BY <1>1, <1>2, MessageFacts, ElementOfSeq DEF HasMaps
<1>4. PICK m \in 1 .. n : s[m] = Bundle(t[n].chain, t[n].number - 1)
    <2> DEFINE j == n + 1
    <2>1. j \in 1 .. Len(s) /\ t[n] = s[j] /\ j - 1 = n
        BY <1>2
    <2> HIDE DEF j
    <2>2. \/ s[j].number <= h[s[j].chain] + 1
          \/ \E m \in 1 .. (j - 1) : s[m] = Bundle(s[j].chain, s[j].number - 1)
        BY <2>1 DEF NoGap
    <2>. QED
        BY <2>1, <2>2
<1>5. m # 1
    <2> SUFFICES ASSUME m = 1 PROVE FALSE
        OBVIOUS
    <2>1. Head(s) = Bundle(t[n].chain, t[n].number - 1)
        BY <1>1, <1>4
    <2>2. /\ Head(s).type = "bundle" /\ Head(s).chain = t[n].chain
          /\ Head(s).number = t[n].number - 1
        BY <2>1, MessageFacts
    <2>. QED
        BY <2>2, <1>3
<1>6. m - 1 \in 1 .. (n - 1) /\ t[m - 1] = s[m]
    BY <1>1, <1>2, <1>5
<1>. QED
    BY <1>4, <1>6

\* A queue without gaps followed by one without gaps has none.
LEMMA NoGapConcat ==
    ASSUME NEW s \in Seq(Message), NEW t \in Seq(Message), NEW h,
           NoGap(s, h), NoGap(t, h)
    PROVE  NoGap(s \o t, h)
<1> DEFINE u == s \o t
<1>1. /\ Len(s) \in Nat /\ Len(t) \in Nat
      /\ Len(u) = Len(s) + Len(t)
      /\ \A n \in 1 .. Len(s) + Len(t) :
            u[n] = IF n <= Len(s) THEN s[n] ELSE t[n - Len(s)]
    BY ConcatProperties, LenProperties
<1> HIDE DEF u
<1> SUFFICES ASSUME NEW n \in 1 .. Len(u), u[n].type = "bundle",
                    ~(u[n].number <= h[u[n].chain] + 1)
             PROVE  \E m \in 1 .. (n - 1) :
                          u[m] = Bundle(u[n].chain, u[n].number - 1)
    BY DEF NoGap, u
<1>2. CASE n <= Len(s)
    <2>1. n \in 1 .. Len(s) /\ u[n] = s[n]
        BY <1>1, <1>2
    <2>2. PICK m \in 1 .. (n - 1) : s[m] = Bundle(u[n].chain, u[n].number - 1)
        BY <2>1 DEF NoGap
    <2>3. u[m] = s[m]
        BY <1>1, <2>1
    <2>. QED
        BY <2>2, <2>3
<1>3. CASE ~(n <= Len(s))
    <2>1. n - Len(s) \in 1 .. Len(t) /\ u[n] = t[n - Len(s)]
        BY <1>1, <1>3
    <2>2. PICK m \in 1 .. (n - Len(s) - 1) :
                t[m] = Bundle(u[n].chain, u[n].number - 1)
        BY <2>1 DEF NoGap
    <2>3. m + Len(s) \in 1 .. (n - 1) /\ u[m + Len(s)] = t[m]
        BY <1>1, <2>1
    <2>. QED
        BY <2>2, <2>3
<1>. QED
    BY <1>2, <1>3

\* What was queued still is after more is sent.
LEMMA QueuedConcat ==
    ASSUME NEW s \in Seq(Message), NEW t \in Seq(Message), NEW c, NEW i,
           Queued(s, c, i) \/ Queued(t, c, i)
    PROVE  Queued(s \o t, c, i)
<1> DEFINE u == s \o t
<1>1. /\ Len(s) \in Nat /\ Len(t) \in Nat
      /\ Len(u) = Len(s) + Len(t)
      /\ \A n \in 1 .. Len(s) + Len(t) :
            u[n] = IF n <= Len(s) THEN s[n] ELSE t[n - Len(s)]
    BY ConcatProperties, LenProperties
<1> HIDE DEF u
<1>2. CASE Queued(s, c, i)
    <2>1. PICK n \in 1 .. Len(s) : s[n] = Bundle(c, i)
        BY <1>2 DEF Queued
    <2>2. n \in 1 .. Len(u) /\ u[n] = s[n]
        BY <1>1
    <2>. QED
        BY <2>1, <2>2 DEF Queued, u
<1>3. CASE Queued(t, c, i)
    <2>1. PICK n \in 1 .. Len(t) : t[n] = Bundle(c, i)
        BY <1>3 DEF Queued
    <2>2. n + Len(s) \in 1 .. Len(u) /\ u[n + Len(s)] = t[n]
        BY <1>1
    <2>. QED
        BY <2>1, <2>2 DEF Queued, u
<1>. QED
    BY <1>2, <1>3

\* What was queued still is after the first message is read, unless it was
\* that message.
LEMMA QueuedTail ==
    ASSUME NEW s \in Seq(Message), s # <<>>, NEW c, NEW i, Queued(s, c, i)
    PROVE  Head(s) = Bundle(c, i) \/ Queued(Tail(s), c, i)
<1>1. /\ Len(Tail(s)) = Len(s) - 1
      /\ \A n \in 1 .. Len(Tail(s)) : Tail(s)[n] = s[n + 1]
      /\ Len(s) \in Nat
      /\ Head(s) = s[1]
    BY HeadTailProperties, LenProperties
<1>2. PICK n \in 1 .. Len(s) : s[n] = Bundle(c, i)
    BY DEF Queued
<1>3. CASE n = 1
    BY <1>1, <1>2, <1>3
<1>4. CASE n # 1
    <2>1. n - 1 \in 1 .. Len(Tail(s)) /\ Tail(s)[n - 1] = s[n]
        BY <1>1, <1>4
    <2>. QED
        BY <1>2, <2>1 DEF Queued
<1>. QED
    BY <1>3, <1>4

\* The beginning of a queue without gaps has none.
LEMMA NoGapSubSeq ==
    ASSUME NEW s \in Seq(Message), NEW j \in 0 .. Len(s), NEW h, NoGap(s, h)
    PROVE  NoGap(SubSeq(s, 1, j), h)
<1> DEFINE t == SubSeq(s, 1, j)
<1>1. /\ Len(s) \in Nat /\ j \in Nat
      /\ \A n \in 1 .. j : s[n] \in Message
    BY LenProperties, ElementOfSeq
<1>2. t \in Seq(Message) /\ Len(t) = j /\ \A n \in 1 .. j : t[n] = s[n]
    BY <1>1, SubSeqProperties
<1> HIDE DEF t
<1> SUFFICES ASSUME NEW n \in 1 .. Len(t), t[n].type = "bundle",
                    ~(t[n].number <= h[t[n].chain] + 1)
             PROVE  \E m \in 1 .. (n - 1) :
                        t[m] = Bundle(t[n].chain, t[n].number - 1)
    BY DEF NoGap, t
<1>3. n \in 1 .. Len(s) /\ t[n] = s[n]
    BY <1>1, <1>2
<1>4. PICK m \in 1 .. (n - 1) : s[m] = Bundle(t[n].chain, t[n].number - 1)
    BY <1>3 DEF NoGap
<1>. QED
    BY <1>1, <1>2, <1>4

\* Greetings stay true when the sender's store grows, and in what is left of a
\* queue.
LEMMA GreetsGrows ==
    ASSUME NEW s \in Seq(Message), NEW h \in HasMaps, NEW g \in HasMaps,
           Covers(g, h), GreetsWithin(s, h)
    PROVE  GreetsWithin(s, g)
<1> SUFFICES ASSUME NEW n \in 1 .. Len(s), s[n].type = "greeting", NEW ch \in Chain
             PROVE  s[n].has[ch] <= g[ch]
    BY DEF GreetsWithin
<1>1. s[n] \in Message
    BY ElementOfSeq
<1>2. s[n].has[ch] \in Nat
    BY <1>1, MessageFacts, Bounds DEF Maps
<1>3. s[n].has[ch] <= h[ch] /\ h[ch] <= g[ch] /\ h[ch] \in Nat /\ g[ch] \in Nat
    BY DEF GreetsWithin, Covers, HasMaps
<1>. QED
    BY <1>2, <1>3

LEMMA GreetsEmpty == \A h : GreetsWithin(<<>>, h)
BY DEF GreetsWithin

LEMMA GreetsTail ==
    ASSUME NEW s \in Seq(Message), s # <<>>, NEW h, GreetsWithin(s, h)
    PROVE  GreetsWithin(Tail(s), h)
<1>1. /\ Len(Tail(s)) = Len(s) - 1
      /\ \A n \in 1 .. Len(Tail(s)) : Tail(s)[n] = s[n + 1]
      /\ Len(s) \in Nat
    BY HeadTailProperties, LenProperties
<1>2. \A n \in 1 .. Len(Tail(s)) : n + 1 \in 1 .. Len(s)
    BY <1>1
<1>. QED
    BY <1>1, <1>2 DEF GreetsWithin

LEMMA GreetsSubSeq ==
    ASSUME NEW s \in Seq(Message), NEW j \in 0 .. Len(s), NEW h, GreetsWithin(s, h)
    PROVE  GreetsWithin(SubSeq(s, 1, j), h)
<1>1. \A n \in 1 .. j : s[n] \in Message /\ n \in 1 .. Len(s)
    BY ElementOfSeq
<1>2. /\ Len(SubSeq(s, 1, j)) = j
      /\ \A n \in 1 .. j : SubSeq(s, 1, j)[n] = s[n]
    BY <1>1, SubSeqProperties
<1>. QED
    BY <1>1, <1>2 DEF GreetsWithin

LEMMA GreetsConcat ==
    ASSUME NEW s \in Seq(Message), NEW t \in Seq(Message), NEW h,
           GreetsWithin(s, h), GreetsWithin(t, h)
    PROVE  GreetsWithin(s \o t, h)
<1> DEFINE u == s \o t
<1>1. /\ Len(s) \in Nat /\ Len(t) \in Nat
      /\ Len(u) = Len(s) + Len(t)
      /\ \A n \in 1 .. Len(s) + Len(t) :
            u[n] = IF n <= Len(s) THEN s[n] ELSE t[n - Len(s)]
    BY ConcatProperties, LenProperties
<1> HIDE DEF u
<1> SUFFICES ASSUME NEW n \in 1 .. Len(u), u[n].type = "greeting"
             PROVE  \A ch \in Chain : u[n].has[ch] <= h[ch]
    BY DEF GreetsWithin, u
<1>2. CASE n <= Len(s)
    <2>1. n \in 1 .. Len(s) /\ u[n] = s[n]
        BY <1>1, <1>2
    <2>. QED
        BY <2>1 DEF GreetsWithin
<1>3. CASE ~(n <= Len(s))
    <2>1. n - Len(s) \in 1 .. Len(t) /\ u[n] = t[n - Len(s)]
        BY <1>1, <1>3
    <2>. QED
        BY <2>1 DEF GreetsWithin
<1>. QED
    BY <1>2, <1>3

\* One message as a queue.
LEMMA OneMessage ==
    ASSUME NEW s \in Seq(Message), NEW m \in Message
    PROVE  /\ <<m>> \in Seq(Message) /\ Len(<<m>>) = 1 /\ <<m>>[1] = m
           /\ Append(s, m) \in Seq(Message)
           /\ Append(s, m) = s \o <<m>>
BY AppendProperties, ConcatProperties, AppendIsConcat

\* A bundle may follow if the sender takes its peer to have what comes before it;
\* it then takes it to have the bundle.
LEMMA NextIsSent ==
    ASSUME NEW s \in Seq(Message), NEW h \in HasMaps, NoGap(s, h),
           NEW map \in Maps, Tracks(map, s, h),
           NEW ch \in Chain, NEW i \in 1 .. MaxLen, i = 1 \/ map[ch] = i - 1
    PROVE  /\ NoGap(Append(s, Bundle(ch, i)), h)
           /\ Tracks(mark_as_having(map, ch, i), Append(s, Bundle(ch, i)), h)
<1> DEFINE u == Append(s, Bundle(ch, i))
<1>1. Bundle(ch, i) \in Message /\ Bundle(ch, i).chain = ch /\ Bundle(ch, i).number = i
    BY MessageFacts
<1>2. /\ Len(s) \in Nat
      /\ Len(u) = Len(s) + 1
      /\ u[Len(s) + 1] = Bundle(ch, i)
      /\ \A n \in 1 .. Len(s) : u[n] = s[n]
    BY <1>1, AppendProperties, LenProperties
<1>3. i \in Nat /\ 1 <= i /\ h[ch] \in Nat /\ map[ch] \in Nat
    BY Bounds DEF HasMaps, Maps
<1> HIDE DEF u
<1>4. NoGap(u, h)
    <2> SUFFICES ASSUME NEW n \in 1 .. Len(u), u[n].type = "bundle",
                        ~(u[n].number <= h[u[n].chain] + 1)
                 PROVE  \E m \in 1 .. (n - 1) :
                              u[m] = Bundle(u[n].chain, u[n].number - 1)
        BY DEF NoGap
    <2>1. CASE n <= Len(s)
        <3>1. n \in 1 .. Len(s) /\ u[n] = s[n]
            BY <1>2, <2>1
        <3>2. PICK m \in 1 .. (n - 1) : s[m] = Bundle(u[n].chain, u[n].number - 1)
            BY <3>1 DEF NoGap
        <3>3. u[m] = s[m]
            BY <1>2, <3>1
        <3>. QED
            BY <3>2, <3>3
    <2>2. CASE ~(n <= Len(s))
        <3>1. n = Len(s) + 1
            BY <1>2, <2>2
        <3>2. u[n] = Bundle(ch, i)
            BY <1>2, <3>1
        <3>3. ~(i <= h[ch] + 1)
            BY <1>1, <3>2
        <3>4. map[ch] = i - 1 /\ ~(map[ch] <= h[ch])
            BY <1>3, <3>3
        <3>5. Queued(s, ch, i - 1)
            BY <3>4 DEF Tracks
        <3>6. PICK m \in 1 .. Len(s) : s[m] = Bundle(ch, i - 1)
            BY <3>5 DEF Queued
        <3>7. m \in 1 .. (n - 1) /\ u[m] = s[m]
            BY <1>2, <3>1
        <3>. QED
            BY <1>1, <3>2, <3>6, <3>7
    <2>. QED
        BY <2>1, <2>2
<1>5. \A d \in Chain : \A j : Queued(s, d, j) => Queued(u, d, j)
    <2>1. \A n \in 1 .. Len(s) : n \in 1 .. Len(u)
        BY <1>2
    <2>. QED
        BY <1>2, <2>1 DEF Queued
<1>6. Queued(u, ch, i)
    <2>1. Len(s) + 1 \in 1 .. Len(u)
        BY <1>2
    <2>. QED
        BY <1>2, <2>1 DEF Queued
<1>7. \A d \in Chain : \/ mark_as_having(map, ch, i)[d] = map[d]
                       \/ d = ch /\ mark_as_having(map, ch, i)[d] = i
    BY DEF mark_as_having, Maps
<1>8. Tracks(mark_as_having(map, ch, i), u, h)
    <2> SUFFICES ASSUME NEW d \in Chain
                 PROVE  \/ mark_as_having(map, ch, i)[d] <= h[d]
                        \/ Queued(u, d, mark_as_having(map, ch, i)[d])
        BY DEF Tracks
    <2>1. CASE mark_as_having(map, ch, i)[d] = map[d]
        BY <1>5, <2>1 DEF Tracks
    <2>2. CASE d = ch /\ mark_as_having(map, ch, i)[d] = i
        BY <1>6, <2>2
    <2>. QED
        BY <1>7, <2>1, <2>2
<1>. QED
    BY <1>4, <1>8 DEF u

\* A sender that is right about its peer still is when the peer gets more, ...
LEMMA TracksGrows ==
    ASSUME NEW s, NEW map \in Maps, NEW h \in HasMaps, NEW g \in HasMaps,
           Covers(g, h), Tracks(map, s, h)
    PROVE  Tracks(map, s, g)
<1> SUFFICES ASSUME NEW ch \in Chain
             PROVE  map[ch] <= g[ch] \/ Queued(s, ch, map[ch])
    BY DEF Tracks
<1>1. map[ch] \in Nat /\ h[ch] \in Nat /\ g[ch] \in Nat /\ h[ch] <= g[ch]
    BY Bounds DEF Maps, HasMaps, Covers
<1>. QED
    BY <1>1 DEF Tracks

\* ... when the peer reads, ...
LEMMA TracksTail ==
    ASSUME NEW s \in Seq(Message), s # <<>>, NEW map \in Maps, NEW h \in HasMaps,
           Tracks(map, s, h),
           Head(s).type = "bundle" => Head(s).number <= h[Head(s).chain]
    PROVE  Tracks(map, Tail(s), h)
<1> SUFFICES ASSUME NEW ch \in Chain, ~(map[ch] <= h[ch])
             PROVE  Queued(Tail(s), ch, map[ch])
    BY DEF Tracks
<1>1. Queued(s, ch, map[ch])
    BY DEF Tracks
<1>2. Head(s) # Bundle(ch, map[ch])
    BY MessageFacts
<1>. QED
    BY <1>1, <1>2, QueuedTail

\* ... when more is sent, ...
LEMMA TracksConcat ==
    ASSUME NEW s \in Seq(Message), NEW t \in Seq(Message), NEW map, NEW h,
           Tracks(map, s, h)
    PROVE  Tracks(map, s \o t, h)
BY QueuedConcat DEF Tracks

\* ... and when it learns of a bundle that the peer has.
LEMMA TracksMarked ==
    ASSUME NEW s, NEW map \in Maps, NEW h, Tracks(map, s, h),
           NEW ch \in Chain, NEW i \in 1 .. MaxLen, i <= h[ch]
    PROVE  Tracks(mark_as_having(map, ch, i), s, h)
<1>1. \A d \in Chain : \/ mark_as_having(map, ch, i)[d] = map[d]
                       \/ d = ch /\ mark_as_having(map, ch, i)[d] = i
    BY DEF mark_as_having, Maps
<1>. QED
    BY <1>1 DEF Tracks

-----------------------------------------------------------------------------
(* Answers to greetings. *)

\* What is sent is each of the bundles beyond what the greeting says, and no
\* other, the ones of a chain in their order.
LEMMA BetweenElements ==
    ASSUME NEW from \in Maps, NEW to \in Maps, NEW s \in Between(from, to)
    PROVE  /\ s \in Seq(Message)
           /\ \A n \in 1 .. Len(s) : /\ s[n] \in Bundles
                                     /\ from[s[n].chain] < s[n].number
                                     /\ s[n].number <= to[s[n].chain]
           /\ \A ch \in Chain, i \in 1 .. MaxLen :
                from[ch] < i /\ i <= to[ch] => Queued(s, ch, i)
           /\ \A m, n \in 1 .. Len(s) :
                m < n /\ s[m].chain = s[n].chain => s[m].number < s[n].number
<1> DEFINE all == Beyond(from, to)
           size == Cardinality(all)
<1>1. /\ s \in [1 .. size -> all]
      /\ IsInjective(s)
      /\ \A m, n \in DOMAIN s :
            m < n /\ s[m].chain = s[n].chain => s[m].number < s[n].number
    BY DEF Between
<1>2. IsFiniteSet(all) /\ size \in Nat
    <2>1. all \subseteq Bundles
        BY DEF Beyond
    <2>. QED
        BY <2>1, BundlesFinite, FS_Subset, FS_CardinalityType
<1>3. \A m \in all : /\ m \in Bundles /\ m \in Message
                     /\ from[m.chain] < m.number /\ m.number <= to[m.chain]
    BY MessageFacts DEF Beyond
<1>4. \A ch \in Chain, i \in 1 .. MaxLen :
            from[ch] < i /\ i <= to[ch] => Bundle(ch, i) \in all
    BY MessageFacts DEF Beyond, Bundles, Bundle
<1> HIDE DEF all
<1>5. s \in Seq(all) /\ s \in Seq(Message) /\ Len(s) = size /\ DOMAIN s = 1 .. Len(s)
    <2> HIDE DEF size
    <2>. QED
        BY <1>1, <1>2, <1>3
<1>6. \A m \in all : \E n \in 1 .. Len(s) : s[n] = m
    <2>1. s \in Injection(1 .. size, all)
        BY <1>1 DEF Injection, IsInjective
    <2>2. Cardinality(1 .. size) = Cardinality(all)
        <3>1. Cardinality(1 .. size) = IF 1 > size THEN 0 ELSE size - 1 + 1
            BY <1>2, FS_Interval
        <3> HIDE DEF size
        <3>2. Cardinality(1 .. size) = size
            BY <1>2, <3>1
        <3>. QED
            BY <3>2 DEF size
    <2>3. s \in Surjection(1 .. size, all)
        BY <1>2, <2>1, <2>2, FS_Injection
    <2>. QED
        BY <1>5, <2>3 DEF Surjection
<1>7. \A n \in 1 .. Len(s) : s[n] \in all
    BY <1>1, <1>5
<1>8. \A ch \in Chain, i \in 1 .. MaxLen :
            from[ch] < i /\ i <= to[ch] => Queued(s, ch, i)
    BY <1>4, <1>6 DEF Queued
<1>. QED
    BY <1>1, <1>3, <1>5, <1>7, <1>8

\* Such an answer has no gaps for who has what the greeting says.
LEMMA BetweenNoGap ==
    ASSUME NEW from \in Maps, NEW to \in Maps, NEW s \in Between(from, to),
           NEW h \in HasMaps, Covers(h, from)
    PROVE  NoGap(s, h)
<1> SUFFICES ASSUME NEW n \in 1 .. Len(s), s[n].type = "bundle",
                    ~(s[n].number <= h[s[n].chain] + 1)
             PROVE  \E m \in 1 .. (n - 1) :
                        s[m] = Bundle(s[n].chain, s[n].number - 1)
    BY DEF NoGap
<1> DEFINE c == s[n].chain
           i == s[n].number
<1>1. s \in Seq(Message) /\ Len(s) \in Nat
    BY BetweenElements, LenProperties
<1>2. c \in Chain /\ i \in 1 .. MaxLen /\ i <= to[c]
    BY BetweenElements DEF Bundles
<1>3. /\ from[c] \in Nat /\ h[c] \in Nat /\ to[c] \in Nat /\ from[c] <= h[c]
      /\ i \in Nat /\ i <= MaxLen /\ MaxLen \in Nat
    BY <1>2, Bounds DEF Maps, HasMaps, Covers
<1>10. ~(i <= h[c] + 1)
    OBVIOUS
<1> HIDE DEF c, i
<1>4. i - 1 \in 1 .. MaxLen /\ from[c] < i - 1 /\ i - 1 <= to[c]
    BY <1>2, <1>3, <1>10
<1>5. Queued(s, c, i - 1)
    BY <1>2, <1>4, BetweenElements
<1>6. PICK m \in 1 .. Len(s) : s[m] = Bundle(c, i - 1)
    BY <1>5 DEF Queued
<1>7. s[m].chain = c /\ s[m].number = i - 1
    BY <1>6, MessageFacts
<1>8. ~(n < m) /\ n # m
    <2>1. n < m => s[n].number < s[m].number
        BY <1>7, BetweenElements DEF c
    <2>2. s[n].number = i
        BY DEF i
    <2>. QED
        BY <1>3, <1>7, <2>1, <2>2
<1>9. m \in 1 .. (n - 1)
    BY <1>1, <1>8
<1>. QED
    BY <1>6, <1>9 DEF c, i

\* Whoever answers takes its peer to have what the greeting says and what the
\* answer brings.
LEMMA BetweenTracks ==
    ASSUME NEW from \in Maps, NEW to \in Maps, NEW t \in Between(from, to),
           NEW s \in Seq(Message), NEW h \in HasMaps, Covers(h, from)
    PROVE  Tracks(Greater(from, to), s \o t, h)
<1> SUFFICES ASSUME NEW ch \in Chain
             PROVE  \/ Greater(from, to)[ch] <= h[ch]
                    \/ Queued(s \o t, ch, Greater(from, to)[ch])
    BY DEF Tracks
<1>1. CASE from[ch] < to[ch]
    <2>1. Greater(from, to)[ch] = to[ch]
        BY <1>1 DEF Greater
    <2>2. to[ch] \in 1 .. MaxLen
        BY <1>1, Bounds DEF Maps
    <2>3. Queued(t, ch, to[ch])
        BY <1>1, <2>2, BetweenElements
    <2>4. t \in Seq(Message)
        BY BetweenElements
    <2>. QED
        BY <2>1, <2>3, <2>4, QueuedConcat
<1>2. CASE ~(from[ch] < to[ch])
    BY <1>2 DEF Greater, Covers
<1>. QED
    BY <1>1, <1>2

\* An answer greets nobody.
LEMMA BetweenGreets ==
    ASSUME NEW from \in Maps, NEW to \in Maps, NEW s \in Between(from, to), NEW h
    PROVE  GreetsWithin(s, h)
<1>1. \A n \in 1 .. Len(s) : s[n] \in Bundles
    BY BetweenElements
<1>. QED
    BY <1>1 DEF GreetsWithin, Bundles

-----------------------------------------------------------------------------
(* What the actions of the server do. *)

\* A bundle has been passed on, and acknowledged to those it was read from: sent
\* to those who are taken to have what comes before it, and to all who are to
\* get it.
Passed(ch, i, read) ==
    /\ Stored(ch, i) =>
        /\ held[Server][ch] = i - 1
        /\ held' = [held EXCEPT ![Server][ch] = i]
        /\ \A k \in Conn :
            tracked[k] /\ k \in subscribers'[ch] /\ i < limit'[BraidOf[k]][ch] =>
                i <= tracker'[k][ch]
    /\ ~Stored(ch, i) => UNCHANGED held
    /\ \A k \in Conn :
        /\ \/ status'[k] = status[k]
           \/ status[k] = "lost" /\ status'[k] = "closed"
        /\ \/ /\ to_client'[k] = to_client[k]
              /\ \/ tracker'[k] = tracker[k]
                 \/ /\ k \in read \/ status[k] # "up"
                    /\ tracker'[k] = mark_as_having(tracker[k], ch, i)
           \/ /\ tracked[k] /\ status[k] = "up"
              /\ i = 1 \/ tracker[k][ch] = i - 1
              /\ to_client'[k] = Append(to_client[k], Bundle(ch, i))
              /\ tracker'[k] = mark_as_having(tracker[k], ch, i)
    /\ UNCHANGED <<tracked, known, remote, on_braid, members, crashed, cause>>

\* Marking twice is marking once.
LEMMA PassedStep ==
    ASSUME TypeOK, NEW ch \in Chain, NEW i \in 1 .. MaxLen,
           NEW to \in SUBSET Conn, NEW fails \in SUBSET Conn, NEW read \in SUBSET Conn,
           NEW have \in [Conn -> Maps],
           \A k \in fails : status[k] = "lost",
           ~Stored(ch, i) => to = {},
           \A k \in Conn : \/ have[k] = tracker[k]
                           \/ k \in read /\ tracked[k] /\ have[k] = mark_as_having(tracker[k], ch, i),
           \A k \in to : /\ tracked[k] /\ have[k][ch] < i
                         /\ i = 1 \/ have[k][ch] = i - 1,
           Stored(ch, i) => \A k \in Conn :
                tracked[k] /\ k \in subscribers'[ch] /\ i < limit'[BraidOf[k]][ch] =>
                    k \in to \/ i <= have[k][ch],
           held' = IF Stored(ch, i) THEN [held EXCEPT ![Server][ch] = @ + 1] ELSE held,
           status' = [k \in Conn |-> IF k \in fails THEN "closed" ELSE status[k]],
           to_client' = [k \in Conn |->
                IF k \in to /\ status[k] = "up" THEN Append(to_client[k], Bundle(ch, i))
                ELSE to_client[k]],
           tracker' = [k \in Conn |-> IF k \in to THEN mark_as_having(have[k], ch, i) ELSE have[k]],
           UNCHANGED <<tracked, known, remote, on_braid, members, crashed, cause>>
    PROVE  Passed(ch, i, read)
<1>0. i \in Nat /\ \A k \in Conn : tracker[k] \in Maps /\ have[k] \in Maps
    BY Bounds DEF TypeOK, Maps
<1>1. ASSUME NEW k \in to
      PROVE  have[k] = tracker[k]
    <2>1. CASE have[k] = mark_as_having(tracker[k], ch, i)
        <3>1. have[k][ch] < i
            OBVIOUS
        <3>2. tracker[k][ch] < i => have[k][ch] = i
            BY <1>0, <2>1 DEF mark_as_having, Maps
        <3>3. tracker[k][ch] \in Nat /\ i \in Nat
            BY <1>0, Bounds DEF Maps
        <3>. QED
            BY <3>1, <3>2, <3>3, <2>1 DEF mark_as_having
    <2>. QED
        BY <2>1
<1>2. \A k \in Conn : mark_as_having(have[k], ch, i)[ch] >= i
    BY <1>0, Bounds DEF mark_as_having, Maps
<1>3. ASSUME Stored(ch, i)
      PROVE  /\ held[Server][ch] = i - 1
             /\ held' = [held EXCEPT ![Server][ch] = i]
             /\ \A k \in Conn :
                    tracked[k] /\ k \in subscribers'[ch] /\ i < limit'[BraidOf[k]][ch] =>
                        i <= tracker'[k][ch]
    <2>1. held[Server][ch] + 1 = i /\ held[Server][ch] \in Nat
        BY <1>3, StoredIsNext, Bounds DEF TypeOK
    <2>2. held' = [held EXCEPT ![Server][ch] = held[Server][ch] + 1]
        BY <1>3 DEF TypeOK
    <2>3. \A k \in Conn :
            tracked[k] /\ k \in subscribers'[ch] /\ i < limit'[BraidOf[k]][ch] =>
                k \in to \/ i <= have[k][ch]
        BY <1>3
    <2>4. ASSUME NEW k \in Conn,
                 tracked[k] /\ k \in subscribers'[ch] /\ i < limit'[BraidOf[k]][ch]
          PROVE  i <= tracker'[k][ch]
        <3>1. k \in to \/ i <= have[k][ch]
            BY <2>3, <2>4
        <3>2. tracker'[k] = IF k \in to THEN mark_as_having(have[k], ch, i) ELSE have[k]
            OBVIOUS
        <3>3. mark_as_having(have[k], ch, i)[ch] >= i
            BY <1>2
        <3>. QED
            BY <3>1, <3>2, <3>3
    <2>5. \A k \in Conn :
            tracked[k] /\ k \in subscribers'[ch] /\ i < limit'[BraidOf[k]][ch] =>
                i <= tracker'[k][ch]
        BY <2>4
    <2>6. held[Server][ch] = i - 1
        BY <1>0, <2>1
    <2>7. held' = [held EXCEPT ![Server][ch] = i]
        BY <2>1, <2>2
    <2>. QED
        BY <2>5, <2>6, <2>7
<1>4. ASSUME NEW k \in Conn
      PROVE  \/ status'[k] = status[k]
             \/ status[k] = "lost" /\ status'[k] = "closed"
    OBVIOUS
<1>5. ASSUME NEW k \in Conn
      PROVE  \/ /\ to_client'[k] = to_client[k]
                /\ \/ tracker'[k] = tracker[k]
                   \/ /\ k \in read \/ status[k] # "up"
                      /\ tracker'[k] = mark_as_having(tracker[k], ch, i)
             \/ /\ tracked[k] /\ status[k] = "up"
                /\ i = 1 \/ tracker[k][ch] = i - 1
                /\ to_client'[k] = Append(to_client[k], Bundle(ch, i))
                /\ tracker'[k] = mark_as_having(tracker[k], ch, i)
    <2>1. CASE k \notin to
        BY <2>1
    <2>2. CASE k \in to
        <3>1. tracker'[k] = mark_as_having(tracker[k], ch, i)
            BY <1>1, <2>2
        <3>2. tracked[k] /\ (i = 1 \/ tracker[k][ch] = i - 1)
            BY <1>1, <2>2
        <3>3. status[k] = "up" => to_client'[k] = Append(to_client[k], Bundle(ch, i))
            BY <2>2
        <3>4. status[k] # "up" => to_client'[k] = to_client[k]
            BY <2>2
        <3>. QED
            BY <3>1, <3>2, <3>3, <3>4
    <2>. QED
        BY <2>1, <2>2
<1>6. ~Stored(ch, i) => UNCHANGED held
    OBVIOUS
<1>. QED
    BY <1>3, <1>4, <1>5, <1>6 DEF Passed

\* Why passing on a bundle may raise: a connection is in the index for ever, one
\* was closed and lacks the bundle, or one is taken to lack what comes before it.
Raises(ch, i) ==
    /\ held[Server][ch] = i - 1
    /\ \E k \in Conn :
        \/ k \in members[BraidOf[k]] \ on_braid
        \/ /\ k \in on_braid /\ tracked[k]
           /\ \/ status[k] = "closed" /\ tracker[k][ch] <= i - 1
              \/ /\ i # 1 /\ InBraid(BraidOf[k], ch) /\ i < limit[BraidOf[k]][ch]
                 /\ tracker[k][ch] < i - 1

\* The data relay passes on what it gets, or the server ends.
LEMMA RelayReceivesCases ==
    ASSUME TypeOK, IndexInv, NEW ch \in Chain, RelayReceives(ch)
    PROVE  \E i \in 1 .. MaxLen :
             \/ Crashes(Passing(ch)) /\ Raises(ch, i)
             \/ SendFails
             \/ /\ Passed(ch, i, {}) /\ ~MissingPrior(held[Server][ch], i)
                /\ UNCHANGED <<limit, subscribers, to_server, late>>
<1>1. PICK i : i = held[Server][ch] + 1
    OBVIOUS
<1>2. i \in 1 .. MaxLen /\ held[Server][ch] = i - 1
    <2>1. PICK c \in Client : held[Server][ch] < held[c][ch]
        BY DEF RelayReceives
    <2>2. held[Server][ch] \in 0 .. MaxLen /\ held[c][ch] \in 0 .. MaxLen
        BY DEF TypeOK
    <2>. QED
        BY <1>1, <2>1, <2>2, Bounds
<1>3. PICK have : have = tracker
    OBVIOUS
<1>4. have \in [Conn -> Maps] /\ tracker \in [Conn -> Maps]
    BY <1>3 DEF TypeOK, Maps
<1>5. PICK to : to = IF Stored(ch, i) THEN Targets(ch, i, subscribers, limit, tracker) ELSE {}
    OBVIOUS
<1>6. to \in SUBSET Conn
    BY <1>5 DEF Targets, TypeOK
<1>7. CASE /\ Crashes(Passing(ch)) /\ Stored(ch, i)
           /\ PassingRaises(ch, i, subscribers, limit, tracker)
    <2>1. CASE subscribers[ch] \ on_braid # {}
        <3>1. PICK k \in subscribers[ch] : k \notin on_braid
            BY <2>1
        <3>2. k \in members[BraidOf[k]] /\ k \in Conn
            BY <3>1 DEF IndexInv, IndexAgrees, TypeOK
        <3>. QED
            BY <1>2, <1>7, <3>1, <3>2 DEF Raises
    <2>2. CASE subscribers[ch] \ on_braid = {}
        <3>1. PICK k \in Targets(ch, i, subscribers, limit, tracker) :
                    status[k] = "closed" \/ ~is_valid_extension(tracker[k], ch, i)
            BY <1>7, <2>2 DEF PassingRaises
        <3>2. /\ k \in Conn /\ k \in subscribers[ch] /\ k \in on_braid
              /\ tracked[k] /\ i < limit[BraidOf[k]][ch] /\ ~(i <= tracker[k][ch])
            BY <1>2, <2>2, <3>1, Bounds, ConstantsAssumption
            DEF Targets, Passes, Wanting, has, TypeOK, inf
        <3>3. tracker[k][ch] \in Nat /\ i \in Nat
            BY <1>2, <1>4, <3>2, Bounds DEF Maps
        <3>4. InBraid(BraidOf[k], ch)
            BY <3>2 DEF IndexInv, IndexAgrees
        <3>5. status[k] # "closed" => i # 1 /\ tracker[k][ch] < i - 1
            BY <3>1, <3>2, <3>3 DEF is_valid_extension
        <3>6. tracker[k][ch] <= i - 1
            BY <3>2, <3>3
        <3>. QED
            BY <1>2, <1>7, <3>2, <3>4, <3>5, <3>6 DEF Raises
    <2>. QED
        BY <2>1, <2>2
<1>8. CASE /\ Receives(ch, i, subscribers, limit, tracker, {})
           /\ ~(Stored(ch, i) /\ PassingRaises(ch, i, subscribers, limit, tracker))
           /\ UNCHANGED <<limit, tracked, known, remote, to_server, index, crashed, late, cause>>
    <2>1. PICK fails \in SUBSET {k \in to : status[k] = "lost"} :
            /\ held' = IF Stored(ch, i) THEN [held EXCEPT ![Server][ch] = @ + 1] ELSE held
            /\ status' = [k \in Conn |-> IF k \in fails THEN "closed" ELSE status[k]]
            /\ to_client' = [k \in Conn |->
                    IF k \in to /\ status[k] = "up" THEN Append(to_client[k], Bundle(ch, i))
                    ELSE to_client[k]]
            /\ tracker' = [k \in Conn |->
                    IF k \in to THEN mark_as_having(have[k], ch, i) ELSE have[k]]
        BY <1>3, <1>5, <1>8, ZenonT(60) DEF Receives
    <2>2. ~Stored(ch, i) => to = {}
        BY <1>5
    <2>3. \A k \in to : /\ tracked[k] /\ have[k][ch] < i
                        /\ i = 1 \/ have[k][ch] = i - 1
        <3> SUFFICES ASSUME NEW k \in to
                     PROVE  tracked[k] /\ have[k][ch] < i /\ (i = 1 \/ have[k][ch] = i - 1)
            OBVIOUS
        <3>1. Stored(ch, i) /\ k \in Targets(ch, i, subscribers, limit, tracker)
            BY <1>5
        <3>2. tracked[k] /\ ~(i <= tracker[k][ch])
            BY <3>1 DEF Targets, Wanting, has
        <3>3. is_valid_extension(tracker[k], ch, i)
            BY <1>8, <3>1 DEF PassingRaises
        <3>4. tracker[k][ch] \in Nat /\ i \in Nat
            BY <1>2, <1>4, <1>6, Bounds DEF Maps
        <3>. QED
            BY <1>3, <3>2, <3>3, <3>4 DEF is_valid_extension
    <2>4. ASSUME Stored(ch, i), NEW k \in Conn,
                 tracked[k], k \in subscribers'[ch], i < limit'[BraidOf[k]][ch]
          PROVE  k \in to \/ i <= have[k][ch]
        <3>1. k \in subscribers[ch] /\ i < limit[BraidOf[k]][ch]
            BY <1>8, <2>4 DEF index
        <3>2. limit[BraidOf[k]][ch] \in Nat /\ i \in Nat
            BY <1>2, Bounds, ConstantsAssumption DEF TypeOK
        <3>3. limit[BraidOf[k]][ch] > i
            BY <3>1, <3>2
        <3>4. k \in Targets(ch, i, subscribers, limit, tracker) \/ i <= tracker[k][ch]
            BY <2>4, <3>1, <3>3 DEF Targets, Passes, Wanting, has
        <3>. QED
            BY <1>3, <1>5, <2>4, <3>4
    <2>5. UNCHANGED <<tracked, known, remote, on_braid, members, crashed, cause>>
        BY <1>8 DEF index
    <2>6. fails \in SUBSET Conn /\ \A k \in fails : status[k] = "lost"
        BY <1>6, <2>1
    <2>7. \A k \in Conn : have[k] = tracker[k]
        BY <1>3
    <2>8. {} \in SUBSET Conn
        OBVIOUS
    <2>9. Stored(ch, i) => \A k \in Conn :
                tracked[k] /\ k \in subscribers'[ch] /\ i < limit'[BraidOf[k]][ch] =>
                    k \in to \/ i <= have[k][ch]
        BY <2>4
    <2>10. \A k \in Conn :
            \/ have[k] = tracker[k]
            \/ k \in {} /\ tracked[k] /\ have[k] = mark_as_having(tracker[k], ch, i)
        BY <2>7
    <2>11. Passed(ch, i, {})
        BY <1>2, <1>4, <1>6, <2>1, <2>2, <2>3, <2>5, <2>6, <2>8, <2>9, <2>10, PassedStep, ZenonT(60)
    <2>12. ~MissingPrior(held[Server][ch], i)
        BY <1>2 DEF MissingPrior
    <2>. QED
        BY <1>2, <1>8, <2>11, <2>12 DEF index
<1>9. ~MissingPrior(held[Server][ch], i)
    BY <1>2 DEF MissingPrior
<1>10. SendRaises(Targets(ch, i, subscribers, limit, tracker)) => SendFails
    BY DEF SendFails, Targets, TypeOK
<1>. QED
    BY <1>1, <1>2, <1>7, <1>8, <1>9, <1>10 DEF RelayReceives, ReceivingRaises

\* A chain joins the braid of k, with its first bundle.
Joins(k, ch, i) ==
    /\ ~InBraid(BraidOf[k], ch) /\ i = 1
    /\ limit' = [limit EXCEPT ![BraidOf[k]][ch] = inf]
    /\ subscribers' = [subscribers EXCEPT ![ch] = Joined(k, ch)]
    /\ late' = IF Stored(ch, i) THEN late ELSE late \cup {<<BraidOf[k], ch>>}

\* A bundle of a read-only connection is ignored, ...
Ignored(k, ch, i) ==
    /\ k \in ReadOnly /\ Reads(k)
    /\ tracker' = Noted(k, ch, i)
    /\ UNCHANGED <<clients, limit, status, tracked, to_client, index, crashed, late, cause>>

\* ... one that is neither in the braid nor starts a chain ends the connection, ...
Ended(k) ==
    /\ Reads(k)
    /\ status' = [status EXCEPT ![k] = "done"]
    /\ to_client' = [to_client EXCEPT ![k] = <<>>]
    /\ Disconnected(k)
    /\ Forgotten(k)
    /\ UNCHANGED <<clients, limit, crashed, late, cause>>

\* ... and any other is passed on, or the server ends.
LEMMA ReceiveBundleCases ==
    ASSUME TypeOK, IndexInv, NEW k \in Conn, ReceiveBundle(k)
    PROVE  \E ch \in Chain, i \in 1 .. MaxLen :
             /\ to_server[k] # <<>> /\ Head(to_server[k]) = Bundle(ch, i)
             /\ status[k] \in {"up", "lost"} /\ ~crashed
             /\ \/ Ignored(k, ch, i)
                \/ Ended(k)
                \/ SendFails
                \/ /\ Crashes(Passing(ch))
                   /\ MissingPrior(held[Server][ch], i) \/ Raises(ch, i)
                \/ /\ Reads(k) /\ Passed(ch, i, {k}) /\ ~MissingPrior(held[Server][ch], i)
                   /\ \/ InBraid(BraidOf[k], ch) /\ UNCHANGED <<limit, subscribers, late>>
                      \/ Joins(k, ch, i)
<1> DEFINE ch   == Head(to_server[k]).chain
           i    == Head(to_server[k]).number
           b    == BraidOf[k]
           join == ~InBraid(b, ch)
           lim  == IF join THEN [limit EXCEPT ![b][ch] = inf] ELSE limit
           subs == IF join THEN [subscribers EXCEPT ![ch] = Joined(k, ch)] ELSE subscribers
           have == Noted(k, ch, i)
           them == {k} \cup IF Stored(ch, i) THEN Targets(ch, i, subs, lim, have) ELSE {}
<1>1. them \in SUBSET Conn
    <2>1. ch \in Chain
        BY Received, MessageFacts DEF ReceiveBundle, Readable
    <2>2. subs \in [Chain -> SUBSET Conn]
        BY <2>1, ConstantsAssumption DEF TypeOK, Joined
    <2> HIDE DEF ch, i, lim, subs, have
    <2>. QED
        BY <2>1, <2>2 DEF Targets
<1>2. \/ Ignored(k, ch, i)
       \/ Ended(k)
       \/ SendFails
       \/ /\ ~(join /\ i # 1)
          /\ \/ MissingPrior(held[Server][ch], i)
             \/ Stored(ch, i) /\ PassingRaises(ch, i, subs, lim, have)
          /\ Crashes(Passing(ch))
       \/ /\ ~(join /\ i # 1)
          /\ ~MissingPrior(held[Server][ch], i)
          /\ ~(Stored(ch, i) /\ PassingRaises(ch, i, subs, lim, have))
          /\ Reads(k)
          /\ limit' = lim
          /\ subscribers' = subs
          /\ late' = IF join /\ ~Stored(ch, i) THEN late \cup {<<b, ch>>} ELSE late
          /\ Receives(ch, i, subs, lim, have, {k})
          /\ UNCHANGED <<tracked, known, remote, on_braid, members, crashed, cause>>
    <2>1. CASE k \in ReadOnly
        BY <2>1 DEF ReceiveBundle, Ignored
    <2>2. CASE k \notin ReadOnly /\ join /\ i # 1
        BY <2>2 DEF ReceiveBundle, Ended
    <2>3. CASE /\ k \notin ReadOnly /\ ~(join /\ i # 1)
               /\ ReceivingRaises(ch, i, subs, lim, have)
        <3>1. Crashes(Passing(ch))
            BY <2>3 DEF ReceiveBundle
        <3> HIDE DEF ch, i, b, join, lim, subs, have
        <3>. QED
            BY <2>3, <3>1 DEF ReceivingRaises
    <2>4. CASE /\ k \notin ReadOnly /\ ~(join /\ i # 1)
               /\ ~ReceivingRaises(ch, i, subs, lim, have)
        <3>1. \/ SendRaises(them)
              \/ /\ Reads(k)
                 /\ limit' = lim
                 /\ subscribers' = subs
                 /\ late' = IF join /\ ~Stored(ch, i) THEN late \cup {<<b, ch>>} ELSE late
                 /\ Receives(ch, i, subs, lim, have, {k})
                 /\ UNCHANGED <<tracked, known, remote, on_braid, members, crashed, cause>>
            BY <2>4 DEF ReceiveBundle
        <3>2. SendRaises(them) => SendFails
            BY <1>1 DEF SendFails
        <3> HIDE DEF ch, i, b, join, lim, subs, have, them
        <3>. QED
            BY <2>4, <3>1, <3>2 DEF ReceivingRaises
    <2>. QED
        BY <2>1, <2>2, <2>3, <2>4
<1>3. /\ ch = Head(to_server[k]).chain /\ i = Head(to_server[k]).number
      /\ b = BraidOf[k]
      /\ have = Noted(k, ch, i)
    OBVIOUS
<1>4. join \in BOOLEAN /\ join = ~InBraid(b, ch)
    OBVIOUS
<1>5. lim = IF join THEN [limit EXCEPT ![b][ch] = inf] ELSE limit
    OBVIOUS
<1>6. subs = IF join THEN [subscribers EXCEPT ![ch] = Joined(k, ch)] ELSE subscribers
    OBVIOUS
<1> HIDE DEF ch, i, b, join, lim, subs, have
<1>7. /\ to_server[k] # <<>> /\ status[k] \in {"up", "lost"} /\ ~crashed
      /\ Head(to_server[k]) \in Message /\ Head(to_server[k]).type = "bundle"
    BY Received DEF ReceiveBundle, Readable
<1>8. /\ ch \in Chain /\ i \in 1 .. MaxLen /\ b \in Braid
      /\ Head(to_server[k]) = Bundle(ch, i)
    <2>1. Head(to_server[k]) \in Bundles
        BY <1>7 DEF Message, Accept
    <2>. QED
        BY <2>1, <1>3, ConstantsAssumption DEF Bundles, Bundle
<1>9. /\ have \in [Conn -> Maps] /\ tracker \in [Conn -> Maps]
       /\ lim \in Limits /\ subs \in [Chain -> SUBSET Conn]
    <2>1. have \in [Conn -> Maps] /\ tracker \in [Conn -> Maps]
        BY <1>3, <1>8, NotedType DEF TypeOK, Maps
    <2>2. lim \in Limits
        BY <1>5, <1>8, Bounds DEF TypeOK, Limits
    <2>3. subs \in [Chain -> SUBSET Conn]
        BY <1>3, <1>6, <1>8 DEF TypeOK, Joined
    <2>. QED
        BY <2>1, <2>2, <2>3
<1>10. \A l \in Conn :
            \/ have[l] = tracker[l]
            \/ l \in {k} /\ tracked[l] /\ have[l] = mark_as_having(tracker[l], ch, i)
    BY <1>3, <1>9 DEF Noted
<1>11. ASSUME ~(join /\ i # 1), Stored(ch, i), PassingRaises(ch, i, subs, lim, have)
       PROVE  Raises(ch, i)
    <2>1. held[Server][ch] = i - 1
        <3>1. held[Server][ch] + 1 = i
            BY <1>8, <1>11, StoredIsNext
        <3>2. held[Server][ch] \in Nat /\ i \in Nat
            BY <1>8, Bounds DEF TypeOK
        <3>. QED
            BY <3>1, <3>2
    <2>2. \A l \in subs[ch] : /\ l \in Conn
                              /\ BraidOf[l] \in Braid
                              /\ l \in members[BraidOf[l]]
        <3> SUFFICES ASSUME NEW l \in subs[ch]
                     PROVE  l \in Conn /\ BraidOf[l] \in Braid /\ l \in members[BraidOf[l]]
            OBVIOUS
        <3>1. l \in Conn /\ BraidOf[l] \in Braid
            BY <1>8, <1>9, ConstantsAssumption
        <3>2. l \in subscribers[ch] \/ l \in members[b]
            BY <1>3, <1>6, <1>8 DEF Joined, TypeOK
        <3>3. CASE l \in subscribers[ch]
            BY <1>8, <3>1, <3>3 DEF IndexInv, IndexAgrees
        <3>4. CASE l \in members[b]
            BY <1>8, <3>1, <3>4 DEF IndexInv, MembersAreOnBraid
        <3>. QED
            BY <3>1, <3>2, <3>3, <3>4
    <2>3. CASE subs[ch] \ on_braid # {}
        BY <2>1, <2>2, <2>3 DEF Raises
    <2>4. CASE subs[ch] \ on_braid = {}
        <3>1. PICK l \in Targets(ch, i, subs, lim, have) :
                    status[l] = "closed" \/ ~is_valid_extension(have[l], ch, i)
            BY <1>11, <2>4 DEF PassingRaises
        <3>2. /\ l \in Conn /\ l \in subs[ch] /\ l \in on_braid
              /\ tracked[l] /\ lim[BraidOf[l]][ch] > i /\ ~(i <= have[l][ch])
            BY <2>2, <2>4, <3>1 DEF Targets, Passes, Wanting, has
        <3>3. have[l] = tracker[l]
            <4>1. have[l] = mark_as_having(tracker[l], ch, i) =>
                        have[l] = tracker[l] \/ have[l][ch] = i
                BY <1>8, <1>9, <3>2 DEF mark_as_having, Maps
            <4>. QED
                BY <1>8, <1>10, <3>2, <4>1, Bounds
        <3>4. tracker[l][ch] \in Nat /\ i \in Nat
            BY <1>8, <1>9, <3>2, Bounds DEF Maps
        <3>5. CASE status[l] = "closed"
            <4>1. tracker[l][ch] <= i - 1
                BY <3>2, <3>3, <3>4
            <4>. QED
                BY <2>1, <3>2, <3>5, <4>1 DEF Raises
        <3>6. CASE ~is_valid_extension(have[l], ch, i)
            <4>1. i # 1 /\ tracker[l][ch] < i - 1
                BY <3>2, <3>3, <3>4, <3>6 DEF is_valid_extension
            <4>2. ~join
                BY <1>11, <4>1
            <4>3. /\ l \in subscribers[ch] /\ limit[BraidOf[l]][ch] > i
                BY <1>5, <1>6, <3>2, <4>2
            <4>4. InBraid(BraidOf[l], ch)
                BY <1>8, <3>2, <4>3 DEF IndexInv, IndexAgrees
            <4>5. limit[BraidOf[l]][ch] \in Nat
                BY <1>8, <2>2, <3>2, Bounds DEF TypeOK
            <4>6. i < limit[BraidOf[l]][ch]
                BY <3>4, <4>3, <4>5
            <4>. QED
                BY <2>1, <3>2, <4>1, <4>4, <4>6 DEF Raises
        <3>. QED
            BY <3>1, <3>5, <3>6
    <2>. QED
        BY <2>3, <2>4
<1>12. ASSUME /\ ~(join /\ i # 1)
              /\ ~MissingPrior(held[Server][ch], i)
              /\ ~(Stored(ch, i) /\ PassingRaises(ch, i, subs, lim, have))
              /\ limit' = lim
              /\ subscribers' = subs
              /\ Receives(ch, i, subs, lim, have, {k})
              /\ UNCHANGED <<tracked, known, remote, on_braid, members, crashed, cause>>
       PROVE  Passed(ch, i, {k})
    <2>1. PICK to : to = IF Stored(ch, i) THEN Targets(ch, i, subs, lim, have) ELSE {}
        OBVIOUS
    <2>2. to \in SUBSET Conn
        BY <1>8, <1>9, <2>1 DEF Targets
    <2>3. PICK fails \in SUBSET {l \in to \cup {k} : status[l] = "lost"} :
            /\ held' = IF Stored(ch, i) THEN [held EXCEPT ![Server][ch] = @ + 1] ELSE held
            /\ status' = [l \in Conn |-> IF l \in fails THEN "closed" ELSE status[l]]
            /\ to_client' = [l \in Conn |->
                    IF l \in to /\ status[l] = "up" THEN Append(to_client[l], Bundle(ch, i))
                    ELSE to_client[l]]
            /\ tracker' = [l \in Conn |->
                    IF l \in to THEN mark_as_having(have[l], ch, i) ELSE have[l]]
        BY <1>12, <2>1, ZenonT(60) DEF Receives
    <2>4. ~Stored(ch, i) => to = {}
        BY <2>1
    <2>5. ASSUME NEW l \in to
          PROVE  tracked[l] /\ have[l][ch] < i /\ (i = 1 \/ have[l][ch] = i - 1)
        <3>1. Stored(ch, i) /\ l \in Targets(ch, i, subs, lim, have)
            BY <2>1
        <3>2. tracked[l] /\ ~(i <= have[l][ch])
            BY <3>1 DEF Targets, Wanting, has
        <3>3. is_valid_extension(have[l], ch, i)
            BY <1>12, <3>1 DEF PassingRaises
        <3>4. have[l][ch] \in Nat /\ i \in Nat
            BY <1>8, <1>9, <2>2, Bounds DEF Maps
        <3>. QED
            BY <3>2, <3>3, <3>4 DEF is_valid_extension
    <2>6. ASSUME Stored(ch, i), NEW l \in Conn,
                 tracked[l], l \in subscribers'[ch], i < limit'[BraidOf[l]][ch]
          PROVE  l \in to \/ i <= have[l][ch]
        <3>1. l \in subs[ch] /\ i < lim[BraidOf[l]][ch]
            BY <1>12, <2>6
        <3>2. lim[BraidOf[l]][ch] \in Nat /\ i \in Nat
            BY <1>8, <1>9, Bounds, ConstantsAssumption DEF Limits
        <3>3. lim[BraidOf[l]][ch] > i
            BY <3>1, <3>2
        <3>4. l \in Targets(ch, i, subs, lim, have) \/ i <= have[l][ch]
            BY <2>6, <3>1, <3>3 DEF Targets, Passes, Wanting, has
        <3>. QED
            BY <2>1, <2>6, <3>4
    <2>7. fails \in SUBSET Conn /\ {k} \in SUBSET Conn /\ \A l \in fails : status[l] = "lost"
        BY <2>2, <2>3
    <2>8. UNCHANGED <<tracked, known, remote, on_braid, members, crashed, cause>>
        BY <1>12
    <2>9. Stored(ch, i) => \A l \in Conn :
                tracked[l] /\ l \in subscribers'[ch] /\ i < limit'[BraidOf[l]][ch] =>
                    l \in to \/ i <= have[l][ch]
        BY <2>6
    <2>10. \A l \in to : tracked[l] /\ have[l][ch] < i /\ (i = 1 \/ have[l][ch] = i - 1)
        BY <2>5
    <2>11. ch \in Chain /\ i \in 1 .. MaxLen /\ have \in [Conn -> Maps]
        BY <1>8, <1>9
    <2>. QED
        BY <1>10, <2>2, <2>3, <2>4, <2>7, <2>8, <2>9, <2>10, <2>11, PassedStep, ZenonT(60)
<1>13. ASSUME /\ ~(join /\ i # 1)
              /\ limit' = lim
              /\ subscribers' = subs
              /\ late' = IF join /\ ~Stored(ch, i) THEN late \cup {<<b, ch>>} ELSE late
       PROVE  \/ InBraid(BraidOf[k], ch) /\ UNCHANGED <<limit, subscribers, late>>
              \/ Joins(k, ch, i)
    <2>1. CASE join
        BY <1>3, <1>4, <1>5, <1>6, <1>13, <2>1 DEF Joins
    <2>2. CASE ~join
        BY <1>3, <1>4, <1>5, <1>6, <1>13, <2>2
    <2>. QED
        BY <2>1, <2>2
<1>. QED
    BY <1>2, <1>3, <1>7, <1>8, <1>11, <1>12, <1>13

-----------------------------------------------------------------------------
(* The ends of connections. *)

\* No message of a queue has this type.
NoneOf(s, type) == \A n \in 1 .. Len(s) : s[n].type # type

LEMMA NoneOfEmpty == \A type : NoneOf(<<>>, type)
BY DEF NoneOf

LEMMA NoneOfTail ==
    ASSUME NEW s \in Seq(Message), s # <<>>, NEW type, NoneOf(s, type)
    PROVE  NoneOf(Tail(s), type)
<1>1. /\ Len(Tail(s)) = Len(s) - 1
      /\ \A n \in 1 .. Len(Tail(s)) : Tail(s)[n] = s[n + 1]
      /\ Len(s) \in Nat
    BY HeadTailProperties, LenProperties
<1>2. \A n \in 1 .. Len(Tail(s)) : n + 1 \in 1 .. Len(s)
    BY <1>1
<1>. QED
    BY <1>1, <1>2 DEF NoneOf

LEMMA NoneOfSubSeq ==
    ASSUME NEW s \in Seq(Message), NEW j \in 0 .. Len(s), NEW type, NoneOf(s, type)
    PROVE  NoneOf(SubSeq(s, 1, j), type)
<1>1. \A n \in 1 .. j : s[n] \in Message /\ n \in 1 .. Len(s)
    BY ElementOfSeq
<1>2. /\ Len(SubSeq(s, 1, j)) = j
      /\ \A n \in 1 .. j : SubSeq(s, 1, j)[n] = s[n]
    BY <1>1, SubSeqProperties
<1>. QED
    BY <1>1, <1>2 DEF NoneOf

LEMMA NoneOfAppend ==
    ASSUME NEW s \in Seq(Message), NEW m \in Message, NEW type,
           NoneOf(s, type), m.type # type
    PROVE  NoneOf(Append(s, m), type)
<1>1. /\ Len(s) \in Nat
      /\ Len(Append(s, m)) = Len(s) + 1
      /\ Append(s, m)[Len(s) + 1] = m
      /\ \A n \in 1 .. Len(s) : Append(s, m)[n] = s[n]
    BY AppendProperties, LenProperties
<1>2. \A n \in 1 .. Len(Append(s, m)) : n \in 1 .. Len(s) \/ n = Len(s) + 1
    BY <1>1
<1>. QED
    BY <1>1, <1>2 DEF NoneOf

LEMMA NoneOfConcat ==
    ASSUME NEW s \in Seq(Message), NEW t \in Seq(Message), NEW type,
           NoneOf(s, type), NoneOf(t, type)
    PROVE  NoneOf(s \o t, type)
<1> DEFINE u == s \o t
<1>1. /\ Len(s) \in Nat /\ Len(t) \in Nat
      /\ Len(u) = Len(s) + Len(t)
      /\ \A n \in 1 .. Len(s) + Len(t) :
            u[n] = IF n <= Len(s) THEN s[n] ELSE t[n - Len(s)]
    BY ConcatProperties, LenProperties
<1> HIDE DEF u
<1>2. \A n \in 1 .. Len(u) : \/ n \in 1 .. Len(s) /\ u[n] = s[n]
                             \/ n - Len(s) \in 1 .. Len(t) /\ u[n] = t[n - Len(s)]
    BY <1>1
<1>. QED
    BY <1>2 DEF NoneOf, u

\* The two ends of a connection agree on how far it has come: the client reads
\* only from one that is up, nothing is left of one that has not begun, and the
\* server has those on a braid that it has not done with.
EndSound(k) ==
    /\ to_client[k] # <<>> => status[k] = "up"
    /\ status[k] \in {"idle", "dialled", "left"} =>
            ~tracked[k] /\ ~known[k] /\ to_server[k] = <<>>
    /\ k \in on_braid <=> status[k] \in {"up", "lost", "closed"}
    /\ tracked[k] => k \in on_braid
    /\ k \in on_braid => k \in members[BraidOf[k]]
    /\ k \in members[BraidOf[k]] => k \in on_braid \/ status[k] = "done"

\* A read-only connection is not greeted by the server, so that the client sends it
\* no bundles.
Silent(k) ==
    k \in ReadOnly =>
        ~known[k] /\ NoneOf(to_client[k], "greeting") /\ NoneOf(to_server[k], "bundle")

\* A client has one connection at a time.
OneUp ==
    \A k, l \in Conn :
        ClientOf[k] = ClientOf[l]
            /\ status[k] \in {"dialled", "up"} /\ status[l] \in {"dialled", "up"} => k = l

EndsInv == (\A k \in Conn : EndSound(k) /\ Silent(k)) /\ OneUp

\* A connection has not changed.
Same(l) ==
    /\ status'[l] = status[l] /\ tracked'[l] = tracked[l] /\ known'[l] = known[l]
    /\ to_server'[l] = to_server[l] /\ to_client'[l] = to_client[l]
    /\ l \in on_braid' <=> l \in on_braid
    /\ l \in members'[BraidOf[l]] <=> l \in members[BraidOf[l]]

LEMMA SameEnd ==
    ASSUME NEW l \in Conn, EndSound(l), Silent(l), Same(l)
    PROVE  EndSound(l)' /\ Silent(l)'
BY DEF EndSound, Silent, Same

\* A step that changes one connection.
LEMMA OneEnd ==
    ASSUME EndsInv, NEW k \in Conn, \A l \in Conn : l # k => Same(l),
           EndSound(k)', Silent(k)',
           status'[k] \in {"dialled", "up"} =>
                \/ status[k] \in {"dialled", "up"}
                \/ \A l \in Conn : ClientOf[l] = ClientOf[k] => status[l] \notin {"dialled", "up"}
    PROVE  EndsInv'
<1>1. \A l \in Conn : EndSound(l)' /\ Silent(l)'
    BY SameEnd DEF EndsInv
<1>2. OneUp'
    <2> SUFFICES ASSUME NEW m \in Conn, NEW l \in Conn,
                        status'[m] \in {"dialled", "up"}, status'[l] \in {"dialled", "up"},
                        ClientOf[m] = ClientOf[l]
                 PROVE  m = l
        BY DEF OneUp
    <2>1. \A j \in Conn : j # k => status'[j] = status[j]
        BY DEF Same
    <2>. QED
        BY <2>1 DEF EndsInv, OneUp
<1>. QED
    BY <1>1, <1>2 DEF EndsInv

\* The end of the server's process.
LEMMA EndsStop ==
    ASSUME EndsInv, Stops
    PROVE  EndsInv'
<1>1. \A l \in Conn : Same(l)
    BY DEF Stops, Crashes, Same, index
<1>2. \A l \in Conn : EndSound(l)' /\ Silent(l)'
    BY <1>1, SameEnd DEF EndsInv
<1>3. OneUp'
    BY DEF EndsInv, OneUp, Stops, Crashes
<1>. QED
    BY <1>2, <1>3 DEF EndsInv

\* A bundle is passed on, and maybe read.
LEMMA EndsPassed ==
    ASSUME TypeOK, EndsInv, NEW ch \in Chain, NEW i \in 1 .. MaxLen, NEW read \in SUBSET Conn,
           Passed(ch, i, read),
           \A l \in Conn : \/ to_server'[l] = to_server[l]
                           \/ /\ to_server[l] # <<>> /\ to_server'[l] = Tail(to_server[l])
    PROVE  EndsInv'
<1>1. ASSUME NEW l \in Conn
      PROVE  EndSound(l)' /\ Silent(l)'
    <2>1. EndSound(l) /\ Silent(l)
        BY DEF EndsInv
    <2>2. /\ \/ status'[l] = status[l]
             \/ status[l] = "lost" /\ status'[l] = "closed"
          /\ \/ to_client'[l] = to_client[l]
             \/ status[l] = "up" /\ to_client'[l] = Append(to_client[l], Bundle(ch, i))
          /\ tracked'[l] = tracked[l] /\ known'[l] = known[l]
          /\ on_braid' = on_braid /\ members' = members
        BY DEF Passed
    <2>3. to_server[l] \in Seq(Message) /\ to_client[l] \in Seq(Message)
        BY DEF TypeOK
    <2>4. to_server[l] = <<>> => to_server'[l] = <<>>
        OBVIOUS
    <2>5. NoneOf(to_server[l], "bundle") => NoneOf(to_server'[l], "bundle")
        BY <2>3, NoneOfTail
    <2>6. NoneOf(to_client[l], "greeting") => NoneOf(to_client'[l], "greeting")
        <3>1. Bundle(ch, i) \in Message /\ Bundle(ch, i).type # "greeting"
            BY MessageFacts
        <3>. QED
            BY <2>2, <2>3, <3>1, NoneOfAppend
    <2>7. Silent(l)'
        BY <2>1, <2>2, <2>5, <2>6 DEF Silent
    <2>8. EndSound(l)'
        BY <2>1, <2>2, <2>4 DEF EndSound
    <2>. QED
        BY <2>7, <2>8
<1>2. OneUp'
    <2>1. \A l \in Conn : status'[l] \in {"dialled", "up"} => status'[l] = status[l]
        BY DEF Passed
    <2>. QED
        BY <2>1 DEF EndsInv, OneUp
<1>. QED
    BY <1>1, <1>2 DEF EndsInv

LEMMA EndsAside ==
    ASSUME TypeOK, EndsInv, NEW k \in Conn, Aside(k)
    PROVE  EndsInv'
<1>1. \A l \in Conn : l # k => Same(l)
    BY DEF Aside, TypeOK, Same, clients, index
<1>2. /\ status[k] \in {"idle", "dialled", "left"}
      /\ status'[k] \in {"dialled", "left", "done"}
      /\ tracked'[k] = tracked[k] /\ known'[k] = known[k] /\ to_server'[k] = to_server[k]
      /\ to_client'[k] = to_client[k] /\ on_braid' = on_braid /\ members' = members
      /\ status'[k] = "dialled" =>
            \A l \in Conn : ClientOf[l] = ClientOf[k] => status[l] \notin {"dialled", "up"}
    BY DEF Aside, TypeOK, clients, index
<1>3. EndSound(k) /\ Silent(k)
    BY DEF EndsInv
<1>4. EndSound(k)'
    BY <1>2, <1>3 DEF EndSound
<1>5. Silent(k)'
    BY <1>2, <1>3 DEF Silent
<1>6. \/ status'[k] \notin {"dialled", "up"}
      \/ \A l \in Conn : ClientOf[l] = ClientOf[k] => status[l] \notin {"dialled", "up"}
    BY <1>2
<1>. QED
    BY <1>1, <1>4, <1>5, <1>6, OneEnd

LEMMA EndsConnect ==
    ASSUME TypeOK, EndsInv, NEW k \in Conn, Accepts(k)
    PROVE  EndsInv'
<1>1. \A l \in Conn : l # k => Same(l)
    BY ConstantsAssumption DEF Accepts, TypeOK, Same, clients
<1>2. /\ tracked'[k] = tracked[k] /\ known'[k] = known[k] /\ to_server'[k] = to_server[k]
      /\ k \in on_braid' /\ k \in members'[BraidOf[k]]
      /\ \/ status[k] = "dialled" /\ status'[k] = "up" /\ to_client'[k] = Answer(k)
         \/ /\ status[k] = "left" /\ status'[k] \in {"lost", "closed"}
            /\ to_client'[k] = to_client[k]
    BY ConstantsAssumption DEF Accepts, TypeOK, clients
<1>3. EndSound(k) /\ Silent(k)
    BY DEF EndsInv
<1>4. EndSound(k)'
    BY <1>2, <1>3 DEF EndSound
<1>5. k \in ReadOnly => NoneOf(Answer(k), "greeting")
    <2>1. k \in ReadOnly => Answer(k) = <<Accept>>
        <3>1. <<Accept>> \in Seq(Message)
            BY MessageFacts
        <3>2. <<Accept>> \o <<>> = <<Accept>>
            BY <3>1, ConcatEmptySeq
        <3>. QED
            BY <3>2 DEF Answer
    <2>2. NoneOf(<<Accept>>, "greeting")
        BY MessageFacts DEF NoneOf
    <2>. QED
        BY <2>1, <2>2
<1>6. Silent(k)'
    BY <1>2, <1>3, <1>5 DEF Silent
<1>7. status'[k] \in {"dialled", "up"} => status[k] \in {"dialled", "up"}
    BY <1>2
<1>. QED
    BY <1>1, <1>4, <1>6, <1>7, OneEnd

LEMMA EndsLose ==
    ASSUME TypeOK, EndsInv, NEW k \in Conn, Lose(k)
    PROVE  EndsInv'
<1>1. \A l \in Conn : l # k => Same(l)
    BY DEF Lose, TypeOK, Same, index
<1>2. /\ status[k] = "up" /\ status'[k] = "lost"
      /\ tracked'[k] = tracked[k] /\ ~known'[k] /\ to_client'[k] = <<>>
      /\ on_braid' = on_braid /\ members' = members
    BY DEF Lose, TypeOK, index
<1>3. NoneOf(to_server[k], "bundle") => NoneOf(to_server'[k], "bundle")
    <2>1. PICK n \in 0 .. Len(to_server[k]) :
                to_server' = [to_server EXCEPT ![k] = SubSeq(@, 1, n)]
        BY DEF Lose
    <2>2. to_server'[k] = SubSeq(to_server[k], 1, n) /\ to_server[k] \in Seq(Message)
        BY <2>1 DEF TypeOK
    <2>. QED
        BY <2>2, NoneOfSubSeq
<1>4. EndSound(k) /\ Silent(k)
    BY DEF EndsInv
<1>5. EndSound(k)'
    BY <1>2, <1>4 DEF EndSound
<1>6. Silent(k)'
    BY <1>2, <1>3, <1>4, NoneOfEmpty DEF Silent
<1>. QED
    BY <1>1, <1>2, <1>5, <1>6, OneEnd

\* A connection that the server has done with.
LEMMA EndsDone ==
    ASSUME TypeOK, EndsInv, NEW k \in Conn, Disconnected(k), Forgotten(k),
           status' = [status EXCEPT ![k] = "done"],
           known' = known,
           \/ to_client' = to_client /\ to_client[k] = <<>>
           \/ to_client' = [to_client EXCEPT ![k] = <<>>],
           \/ to_server' = to_server
           \/ to_server[k] # <<>> /\ Reads(k)
    PROVE  EndsInv'
<1>1. /\ on_braid' = on_braid \ {k}
      /\ \A l \in Conn : l # k => (l \in members'[BraidOf[l]] <=> l \in members[BraidOf[l]])
    <2>1. on_braid' = on_braid \ {k}
        BY DEF Disconnected
    <2>2. UNCHANGED members \/ members' = [members EXCEPT ![BraidOf[k]] = @ \ {k}]
        BY DEF Disconnected
    <2>3. ASSUME NEW l \in Conn, l # k
          PROVE  l \in members'[BraidOf[l]] <=> l \in members[BraidOf[l]]
        <3>1. BraidOf[l] \in Braid /\ BraidOf[k] \in Braid /\ members \in [Braid -> SUBSET Conn]
            BY ConstantsAssumption DEF TypeOK
        <3>. QED
            BY <2>2, <2>3, <3>1
    <2>. QED
        BY <2>1, <2>3
<1>2. \A l \in Conn : l # k => Same(l)
    <2>1. \A l \in Conn : l # k => /\ status'[l] = status[l] /\ tracked'[l] = tracked[l]
                                   /\ known'[l] = known[l]
                                   /\ to_server'[l] = to_server[l]
                                   /\ to_client'[l] = to_client[l]
        BY DEF TypeOK, Forgotten, Reads
    <2>. QED
        BY <1>1, <2>1 DEF Same
<1>3. /\ status'[k] = "done" /\ ~tracked'[k] /\ to_client'[k] = <<>> /\ k \notin on_braid'
      /\ known'[k] = known[k]
    BY <1>1 DEF TypeOK, Forgotten
<1>4. NoneOf(to_server[k], "bundle") => NoneOf(to_server'[k], "bundle")
    <2>1. to_server'[k] = to_server[k] \/ (to_server[k] # <<>> /\ to_server'[k] = Tail(to_server[k]))
        BY DEF Reads, TypeOK
    <2>2. to_server[k] \in Seq(Message)
        BY DEF TypeOK
    <2>. QED
        BY <2>1, <2>2, NoneOfTail
<1>5. EndSound(k) /\ Silent(k)
    BY DEF EndsInv
<1>6. EndSound(k)'
    BY <1>3 DEF EndSound
<1>7. Silent(k)'
    BY <1>3, <1>4, <1>5, NoneOfEmpty DEF Silent
<1>. QED
    BY <1>2, <1>3, <1>6, <1>7, OneEnd

LEMMA EndsReceiveGreeting ==
    ASSUME TypeOK, EndsInv, NEW k \in Conn, ReceiveGreeting(k)
    PROVE  EndsInv'
<1> DEFINE from == Head(to_server[k]).has
           to == Allowed(BraidOf[k])
<1>1. /\ from \in Maps /\ to \in Maps /\ to_server[k] # <<>> /\ status[k] \in {"up", "lost"}
      /\ to_server[k] \in Seq(Message) /\ to_client[k] \in Seq(Message)
    BY Received, MessageFacts, AllowedType, ConstantsAssumption
    DEF ReceiveGreeting, Readable, TypeOK
<1>2. PICK sent \in Between(from, to) :
        \/ SendRaises({k})
        \/ /\ Reads(k)
           /\ tracked' = [tracked EXCEPT ![k] = TRUE]
           /\ \/ /\ to_client' = [to_client EXCEPT ![k] = IF status[k] = "up" THEN @ \o sent ELSE @]
                 /\ UNCHANGED status
              \/ /\ status[k] = "lost"
                 /\ status' = [status EXCEPT ![k] = "closed"]
                 /\ UNCHANGED to_client
           /\ UNCHANGED <<clients, limit, index, crashed, late, cause>>
    BY DEF ReceiveGreeting
<1>3. sent \in Seq(Message) /\ NoneOf(sent, "greeting")
    BY <1>1, BetweenElements DEF Bundles, NoneOf
<1> HIDE DEF from, to
<1>4. CASE SendRaises({k})
    BY <1>4, StopsFor, EndsStop
<1>5. CASE ~SendRaises({k})
    <2>1. \A l \in Conn : l # k => Same(l)
        BY <1>2, <1>5 DEF TypeOK, Same, index, clients, Reads
    <2>2. /\ tracked'[k] /\ known'[k] = known[k]
          /\ on_braid' = on_braid /\ members' = members
          /\ \/ status'[k] = status[k]
             \/ status[k] = "lost" /\ status'[k] = "closed"
          /\ \/ to_client'[k] = to_client[k]
             \/ status'[k] = "up" /\ to_client'[k] = to_client[k] \o sent
          /\ to_server'[k] = Tail(to_server[k])
        BY <1>2, <1>5 DEF TypeOK, index, clients, Reads
    <2>3. EndSound(k) /\ Silent(k)
        BY DEF EndsInv
    <2>4. EndSound(k)'
        BY <1>1, <2>2, <2>3 DEF EndSound
    <2>5. NoneOf(to_server[k], "bundle") => NoneOf(to_server'[k], "bundle")
        BY <1>1, <2>2, NoneOfTail
    <2>6. NoneOf(to_client[k], "greeting") => NoneOf(to_client'[k], "greeting")
        BY <1>1, <1>3, <2>2, NoneOfConcat
    <2>7. Silent(k)'
        BY <2>2, <2>3, <2>5, <2>6 DEF Silent
    <2>. QED
        BY <1>1, <2>1, <2>2, <2>4, <2>7, OneEnd
<1>. QED
    BY <1>4, <1>5

LEMMA EndsReceiveBundle ==
    ASSUME TypeOK, IndexInv, EndsInv, NEW k \in Conn, ReceiveBundle(k)
    PROVE  EndsInv'
<1>1. PICK ch \in Chain : \E i \in 1 .. MaxLen :
             /\ to_server[k] # <<>> /\ Head(to_server[k]) = Bundle(ch, i)
             /\ status[k] \in {"up", "lost"} /\ ~crashed
             /\ \/ Ignored(k, ch, i)
                \/ Ended(k)
                \/ Stops
                \/ Reads(k) /\ Passed(ch, i, {k})
    BY ReceiveBundleCases, StopsFor
<1>2. PICK i \in 1 .. MaxLen :
             /\ to_server[k] # <<>> /\ Head(to_server[k]) = Bundle(ch, i)
             /\ status[k] \in {"up", "lost"} /\ ~crashed
             /\ \/ Ignored(k, ch, i)
                \/ Ended(k)
                \/ Stops
                \/ Reads(k) /\ Passed(ch, i, {k})
    BY <1>1
<1>3. CASE Ignored(k, ch, i)
    <2>1. \A l \in Conn : l # k => Same(l)
        BY <1>3 DEF Ignored, Reads, TypeOK, Same, index, clients
    <2>2. /\ status'[k] = status[k] /\ tracked'[k] = tracked[k] /\ known'[k] = known[k]
          /\ to_client'[k] = to_client[k] /\ to_server'[k] = Tail(to_server[k])
          /\ on_braid' = on_braid /\ members' = members
        BY <1>3 DEF Ignored, Reads, TypeOK, index, clients
    <2>3. EndSound(k) /\ Silent(k)
        BY DEF EndsInv
    <2>4. EndSound(k)'
        BY <1>2, <2>2, <2>3 DEF EndSound
    <2>5. to_server[k] \in Seq(Message)
        BY DEF TypeOK
    <2>6. Silent(k)'
        BY <1>2, <2>2, <2>3, <2>5, NoneOfTail DEF Silent
    <2>. QED
        BY <2>1, <2>2, <2>4, <2>6, OneEnd
<1>4. CASE Ended(k)
    BY <1>2, <1>4, EndsDone DEF Ended, clients
<1>5. CASE Stops
    BY <1>5, EndsStop
<1>6. CASE Reads(k) /\ Passed(ch, i, {k})
    <2>1. \A l \in Conn : \/ to_server'[l] = to_server[l]
                          \/ /\ to_server[l] # <<>> /\ to_server'[l] = Tail(to_server[l])
        BY <1>2, <1>6 DEF Reads, TypeOK
    <2>2. {k} \in SUBSET Conn
        OBVIOUS
    <2>. QED
        BY <1>6, <2>1, <2>2, EndsPassed
<1>. QED
    BY <1>2, <1>3, <1>4, <1>5, <1>6

LEMMA EndsRelayReceives ==
    ASSUME TypeOK, IndexInv, EndsInv, NEW ch \in Chain, RelayReceives(ch)
    PROVE  EndsInv'
<1>1. PICK i \in 1 .. MaxLen : Stops \/ (Passed(ch, i, {}) /\ UNCHANGED to_server)
    BY RelayReceivesCases, StopsFor
<1>2. {} \in SUBSET Conn
    OBVIOUS
<1>. QED
    BY <1>1, <1>2, EndsStop, EndsPassed

LEMMA EndsObtain ==
    ASSUME TypeOK, EndsInv, NEW c \in Client, NEW ch \in Chain, Obtain(c, ch)
    PROVE  EndsInv'
<1>1. UNCHANGED <<limit, status, tracked, tracker, known, to_client, index, crashed, late, cause>>
    BY DEF Obtain
<1>2. ASSUME NEW l \in Conn
      PROVE  EndSound(l)' /\ Silent(l)'
    <2>1. EndSound(l) /\ Silent(l)
        BY DEF EndsInv
    <2>2. to_server'[l] = to_server[l] \/ (status[l] = "up" /\ known[l])
        BY DEF Obtain, Sends
    <2>3. EndSound(l)'
        BY <1>1, <2>1, <2>2 DEF EndSound, index
    <2>4. Silent(l)'
        BY <1>1, <2>1, <2>2 DEF Silent
    <2>. QED
        BY <2>3, <2>4
<1>3. OneUp'
    BY <1>1 DEF EndsInv, OneUp
<1>. QED
    BY <1>2, <1>3 DEF EndsInv

\* A client reads: only from a connection that is up, and it then sends what it
\* likes, but no bundles if it was not greeted.
LEMMA EndsTakes ==
    ASSUME TypeOK, TypeOK', EndsInv, NEW k \in Conn, NEW type, Takes(k, type),
           \A l \in Conn : l # k => to_server'[l] = to_server[l] /\ known'[l] = known[l],
           k \in ReadOnly => known'[k] = known[k],
           k \in ReadOnly /\ NoneOf(to_server[k], "bundle") => NoneOf(to_server'[k], "bundle")
    PROVE  EndsInv'
<1>1. /\ to_client[k] # <<>> /\ to_client' = [to_client EXCEPT ![k] = Tail(@)]
      /\ UNCHANGED <<limit, status, tracked, tracker, index, crashed, late, cause>>
    BY DEF Takes
<1>2. \A l \in Conn : l # k => Same(l)
    BY <1>1 DEF TypeOK, Same, index
<1>3. EndSound(k) /\ Silent(k) /\ status[k] = "up"
    BY <1>1 DEF EndsInv, EndSound
<1>4. EndSound(k)'
    BY <1>1, <1>3 DEF EndSound, index
<1>5. to_client'[k] = Tail(to_client[k]) /\ to_client[k] \in Seq(Message)
    BY <1>1 DEF TypeOK
<1>6. NoneOf(to_client[k], "greeting") => NoneOf(to_client'[k], "greeting")
    BY <1>1, <1>5, NoneOfTail
<1>7. Silent(k)'
    BY <1>3, <1>6 DEF Silent
<1>. QED
    BY <1>1, <1>2, <1>3, <1>4, <1>7, OneEnd

LEMMA EndsClientReceives ==
    ASSUME TypeOK, TypeOK', EndsInv, NEW k \in Conn,
           ClientReceivesAccept(k) \/ ClientReceivesGreeting(k) \/ ClientReceivesBundle(k)
    PROVE  EndsInv'
<1>1. CASE ClientReceivesAccept(k)
    <2>1. /\ Takes(k, "accept") /\ known' = known
          /\ \A l \in Conn : l # k => to_server'[l] = to_server[l]
          /\ to_server'[k] = Append(to_server[k], Greeting(held[ClientOf[k]]))
        BY <1>1 DEF ClientReceivesAccept, TypeOK, clients
    <2>2. /\ Greeting(held[ClientOf[k]]) \in Message /\ to_server[k] \in Seq(Message)
          /\ Greeting(held[ClientOf[k]]).type # "bundle"
        BY MessageFacts, ConstantsAssumption DEF TypeOK, Maps
    <2>3. NoneOf(to_server[k], "bundle") => NoneOf(to_server'[k], "bundle")
        BY <2>1, <2>2, NoneOfAppend
    <2>. QED
        BY <2>1, <2>3, EndsTakes
<1>2. CASE ClientReceivesGreeting(k)
    <2>1. /\ Takes(k, "greeting")
          /\ \A l \in Conn : l # k => to_server'[l] = to_server[l] /\ known'[l] = known[l]
        BY <1>2 DEF ClientReceivesGreeting, TypeOK
    <2>2. k \notin ReadOnly
        <3>1. to_client[k] \in Seq(Message) /\ to_client[k] # <<>>
              /\ Head(to_client[k]).type = "greeting"
            BY <2>1 DEF Takes, TypeOK
        <3>2. Head(to_client[k]) = to_client[k][1] /\ 1 \in 1 .. Len(to_client[k])
            BY <3>1, HeadTailProperties, LenProperties
        <3>. QED
            BY <3>1, <3>2 DEF EndsInv, Silent, NoneOf
    <2>. QED
        BY <2>1, <2>2, EndsTakes
<1>3. CASE ClientReceivesBundle(k)
    BY <1>3, EndsTakes DEF ClientReceivesBundle
<1>. QED
    BY <1>1, <1>2, <1>3

\* Every step keeps the ends sound.
LEMMA NextEnds == TypeOK /\ TypeOK' /\ IndexInv /\ EndsInv /\ [Next]_vars => EndsInv'
<1> SUFFICES ASSUME TypeOK, TypeOK', IndexInv, EndsInv, [Next]_vars PROVE EndsInv'
    OBVIOUS
<1>1. CASE UNCHANGED vars
    <2>1. \A l \in Conn : Same(l)
        BY <1>1 DEF vars, Same
    <2>2. \A l \in Conn : EndSound(l)' /\ Silent(l)'
        BY <2>1, SameEnd DEF EndsInv
    <2>3. OneUp'
        BY <1>1 DEF EndsInv, OneUp, vars
    <2>. QED
        BY <2>2, <2>3 DEF EndsInv
<1>2. ASSUME NEW ch \in Chain, RelayReceives(ch) PROVE EndsInv'
    BY <1>2, EndsRelayReceives
<1>3. ASSUME NEW ch \in Chain, NEW c \in Client, Obtain(c, ch) PROVE EndsInv'
    BY <1>3, EndsObtain
<1>4. ASSUME NEW k \in Conn, Connect(k) \/ Lose(k) PROVE EndsInv'
    BY <1>4, ConnectCases, EndsConnect, EndsStop, EndsLose
<1>8. ASSUME NEW k \in Conn, Dial(k) \/ Leave(k) \/ MissRequest(k) \/ Reject(k) \/ MissEnd(k) PROVE EndsInv'
    BY <1>8, AsideCases, EndsAside, EndsStop
<1>5. ASSUME NEW k \in Conn, ReceiveEnd(k) PROVE EndsInv'
    <2>1. to_client[k] = <<>>
        BY <1>5 DEF ReceiveEnd, EndsInv, EndSound
    <2>. QED
        BY <1>5, <2>1, EndsDone DEF ReceiveEnd, clients
<1>6. ASSUME NEW k \in Conn, ReceiveGreeting(k) \/ ReceiveBundle(k) PROVE EndsInv'
    BY <1>6, EndsReceiveGreeting, EndsReceiveBundle
<1>7. ASSUME NEW k \in Conn,
             ClientReceivesAccept(k) \/ ClientReceivesGreeting(k) \/ ClientReceivesBundle(k)
      PROVE  EndsInv'
    BY <1>7, EndsClientReceives
<1>. QED
    BY <1>1, <1>2, <1>3, <1>4, <1>5, <1>6, <1>7, <1>8 DEF Next

-----------------------------------------------------------------------------
(* What is sent to the clients. *)

\* A client of k gets no gap, whatever its greeting and its store, and the server
\* knows what it gets.
Delivers(k) ==
    /\ NoGap(to_client[k], held[ClientOf[k]])
    /\ GreetsWithin(to_server[k], held[ClientOf[k]])
    /\ tracked[k] /\ status[k] = "up" => Tracks(tracker[k], to_client[k], held[ClientOf[k]])

ToClientsSound == \A k \in Conn : Delivers(k)

\* Stores grow.
LEMMA StoresGrow ==
    ASSUME TypeOK, TypeOK', [Replicated!Next]_held, NEW p \in Client \cup {Server}
    PROVE  /\ held[p] \in HasMaps /\ held'[p] \in HasMaps
           /\ Covers(held'[p], held[p])
<1>1. held[p] \in HasMaps /\ held'[p] \in HasMaps
    BY HeldMaps
<1>2. Covers(held'[p], held[p])
    BY HeldGrows DEF Covers
<1>. QED
    BY <1>1, <1>2

\* A client has what it said and what it can be sent; its store may have grown.
LEMMA DeliversAfter ==
    ASSUME TypeOK, TypeOK', [Replicated!Next]_held, NEW l \in Conn, Delivers(l)
    PROVE  /\ held'[ClientOf[l]] \in HasMaps
           /\ to_client[l] \in Seq(Message) /\ to_server[l] \in Seq(Message)
           /\ tracker[l] \in Maps
           /\ NoGap(to_client[l], held'[ClientOf[l]])
           /\ GreetsWithin(to_server[l], held'[ClientOf[l]])
           /\ tracked[l] /\ status[l] = "up" => Tracks(tracker[l], to_client[l], held'[ClientOf[l]])
<1>1. ClientOf[l] \in Client \cup {Server}
    BY ConstantsAssumption
<1>2. /\ held[ClientOf[l]] \in HasMaps /\ held'[ClientOf[l]] \in HasMaps
      /\ Covers(held'[ClientOf[l]], held[ClientOf[l]])
    BY <1>1, StoresGrow
<1>3. to_client[l] \in Seq(Message) /\ to_server[l] \in Seq(Message) /\ tracker[l] \in Maps
    BY DEF TypeOK, Maps
<1>. QED
    BY <1>2, <1>3, NoGapGrows, GreetsGrows, TracksGrows DEF Delivers

\* It stays so if the queue to the client is the same, is read or is gone, and the
\* server learns only of bundles that the client has.
LEMMA DeliversStep ==
    ASSUME TypeOK, TypeOK', [Replicated!Next]_held, NEW l \in Conn, Delivers(l),
           \/ to_client'[l] = to_client[l]
           \/ to_client'[l] = <<>> /\ status'[l] # "up"
           \/ /\ to_client[l] # <<>> /\ to_client'[l] = Tail(to_client[l])
              /\ Head(to_client[l]).type = "bundle" =>
                    Head(to_client[l]).number <= held'[ClientOf[l]][Head(to_client[l]).chain],
           GreetsWithin(to_server'[l], held'[ClientOf[l]]),
           tracked'[l] /\ status'[l] = "up" =>
                /\ tracked[l] /\ status[l] = "up"
                /\ \/ tracker'[l] = tracker[l]
                   \/ \E ch \in Chain, i \in 1 .. MaxLen :
                        /\ i <= held'[ClientOf[l]][ch]
                        /\ tracker'[l] = mark_as_having(tracker[l], ch, i)
    PROVE  Delivers(l)'
<1>1. PICK h : h = held'[ClientOf[l]]
    OBVIOUS
<1>2. PICK s : s = to_client[l]
    OBVIOUS
<1>3. PICK map : map = tracker[l]
    OBVIOUS
<1>4. /\ h \in HasMaps /\ s \in Seq(Message) /\ map \in Maps
      /\ NoGap(s, h)
      /\ tracked[l] /\ status[l] = "up" => Tracks(map, s, h)
    BY <1>1, <1>2, <1>3, DeliversAfter
<1>5. PICK t : t = to_client'[l]
    OBVIOUS
<1>6. \/ t = s
      \/ t = <<>> /\ status'[l] # "up"
      \/ /\ s # <<>> /\ t = Tail(s)
         /\ Head(s).type = "bundle" => Head(s).number <= h[Head(s).chain]
    BY <1>1, <1>2, <1>5
<1>7. NoGap(t, h)
    BY <1>4, <1>6, NoGapEmpty, NoGapTail
<1>8. ASSUME tracked'[l], status'[l] = "up"
      PROVE  Tracks(tracker'[l], t, h)
    <2>1. /\ tracked[l] /\ status[l] = "up"
          /\ \/ tracker'[l] = map
             \/ \E ch \in Chain, i \in 1 .. MaxLen :
                    i <= h[ch] /\ tracker'[l] = mark_as_having(map, ch, i)
        BY <1>1, <1>3, <1>8
    <2>2. Tracks(map, t, h)
        BY <1>4, <1>6, <1>8, <2>1, TracksTail
    <2>. QED
        BY <1>4, <2>1, <2>2, TracksMarked
<1>. QED
    BY <1>1, <1>5, <1>7, <1>8 DEF Delivers

\* A queue without bundles has no gaps.
LEMMA NoBundlesNoGap == \A s, h : NoneOf(s, "bundle") => NoGap(s, h)
BY DEF NoneOf, NoGap

\* One bundle in a queue greets nobody.
LEMMA GreetsBundle ==
    ASSUME NEW s \in Seq(Message), NEW h, GreetsWithin(s, h),
           NEW ch \in Chain, NEW i \in 1 .. MaxLen
    PROVE  GreetsWithin(Append(s, Bundle(ch, i)), h)
<1>1. /\ Len(s) \in Nat
      /\ Len(Append(s, Bundle(ch, i))) = Len(s) + 1
      /\ Append(s, Bundle(ch, i))[Len(s) + 1].type # "greeting"
      /\ \A n \in 1 .. Len(s) : Append(s, Bundle(ch, i))[n] = s[n]
    BY MessageFacts, AppendProperties, LenProperties
<1>2. \A n \in 1 .. Len(Append(s, Bundle(ch, i))) : n \in 1 .. Len(s) \/ n = Len(s) + 1
    BY <1>1
<1>. QED
    BY <1>1, <1>2 DEF GreetsWithin

\* A greeting in a queue.
LEMMA GreetsGreeting ==
    ASSUME NEW s \in Seq(Message), NEW h \in HasMaps, GreetsWithin(s, h),
           NEW map \in Maps, Covers(h, map)
    PROVE  GreetsWithin(Append(s, Greeting(map)), h)
<1>1. /\ Len(s) \in Nat
      /\ Len(Append(s, Greeting(map))) = Len(s) + 1
      /\ Append(s, Greeting(map))[Len(s) + 1] = Greeting(map)
      /\ \A n \in 1 .. Len(s) : Append(s, Greeting(map))[n] = s[n]
    BY MessageFacts, AppendProperties, LenProperties
<1>2. \A n \in 1 .. Len(Append(s, Greeting(map))) : n \in 1 .. Len(s) \/ n = Len(s) + 1
    BY <1>1
<1>3. Greeting(map).has = map
    BY DEF Greeting
<1>. QED
    BY <1>1, <1>2, <1>3 DEF GreetsWithin, Covers

\* A bundle is passed on, and maybe read.
LEMMA DeliversPassed ==
    ASSUME TypeOK, TypeOK', [Replicated!Next]_held, SentIsHeld, ToClientsSound,
           NEW ch \in Chain, NEW i \in 1 .. MaxLen, NEW read \in SUBSET Conn,
           Passed(ch, i, read),
           \A l \in read : i <= held[ClientOf[l]][ch],
           \A l \in Conn : \/ to_server'[l] = to_server[l]
                           \/ /\ to_server[l] # <<>> /\ to_server'[l] = Tail(to_server[l])
    PROVE  ToClientsSound'
<1> SUFFICES ASSUME NEW l \in Conn PROVE Delivers(l)'
    BY DEF ToClientsSound
<1>1. Delivers(l)
    BY DEF ToClientsSound
<1>2. PICK h : h = held'[ClientOf[l]]
    OBVIOUS
<1>3. /\ h \in HasMaps /\ to_client[l] \in Seq(Message) /\ to_server[l] \in Seq(Message)
      /\ tracker[l] \in Maps
      /\ NoGap(to_client[l], h) /\ GreetsWithin(to_server[l], h)
      /\ tracked[l] /\ status[l] = "up" => Tracks(tracker[l], to_client[l], h)
    BY <1>1, <1>2, DeliversAfter
<1>4. GreetsWithin(to_server'[l], h)
    BY <1>3, GreetsTail
<1>5. /\ tracked'[l] = tracked[l]
      /\ status'[l] = "up" => status[l] = "up"
      /\ \/ /\ to_client'[l] = to_client[l]
            /\ \/ tracker'[l] = tracker[l]
               \/ /\ l \in read \/ status[l] # "up"
                  /\ tracker'[l] = mark_as_having(tracker[l], ch, i)
         \/ /\ tracked[l] /\ status[l] = "up"
            /\ i = 1 \/ tracker[l][ch] = i - 1
            /\ to_client'[l] = Append(to_client[l], Bundle(ch, i))
            /\ tracker'[l] = mark_as_having(tracker[l], ch, i)
    BY DEF Passed
<1>6. CASE /\ to_client'[l] = to_client[l]
           /\ \/ tracker'[l] = tracker[l]
              \/ /\ l \in read \/ status[l] # "up"
                 /\ tracker'[l] = mark_as_having(tracker[l], ch, i)
    <2>1. l \in read => i <= h[ch]
        <3>1. ClientOf[l] \in Client \cup {Server}
            BY ConstantsAssumption
        <3>2. /\ held[ClientOf[l]] \in HasMaps
              /\ Covers(h, held[ClientOf[l]])
            BY <1>2, <3>1, StoresGrow
        <3>3. held[ClientOf[l]][ch] \in Nat /\ h[ch] \in Nat /\ i \in Nat
            BY <1>3, <3>2, Bounds DEF HasMaps
        <3>. QED
            BY <3>2, <3>3 DEF Covers
    <2>2. tracked'[l] /\ status'[l] = "up" =>
                /\ tracked[l] /\ status[l] = "up"
                /\ \/ tracker'[l] = tracker[l]
                   \/ \E d \in Chain, j \in 1 .. MaxLen :
                        j <= held'[ClientOf[l]][d] /\ tracker'[l] = mark_as_having(tracker[l], d, j)
        BY <1>2, <1>5, <1>6, <2>1
    <2>. QED
        BY <1>1, <1>2, <1>4, <1>6, <2>2, DeliversStep
<1>7. CASE /\ tracked[l] /\ status[l] = "up"
           /\ i = 1 \/ tracker[l][ch] = i - 1
           /\ to_client'[l] = Append(to_client[l], Bundle(ch, i))
           /\ tracker'[l] = mark_as_having(tracker[l], ch, i)
    <2>1. PICK s : s = to_client[l]
        OBVIOUS
    <2>2. PICK map : map = tracker[l]
        OBVIOUS
    <2>3. /\ s \in Seq(Message) /\ map \in Maps /\ NoGap(s, h) /\ Tracks(map, s, h)
          /\ i = 1 \/ map[ch] = i - 1
        BY <1>3, <1>7, <2>1, <2>2
    <2>4. /\ NoGap(Append(s, Bundle(ch, i)), h)
          /\ Tracks(mark_as_having(map, ch, i), Append(s, Bundle(ch, i)), h)
        BY <1>3, <2>3, NextIsSent
    <2>. QED
        BY <1>2, <1>4, <1>7, <2>1, <2>2, <2>4 DEF Delivers
<1>. QED
    BY <1>5, <1>6, <1>7

LEMMA DeliversKept ==
    ASSUME TypeOK, TypeOK', [Replicated!Next]_held, ToClientsSound,
           UNCHANGED <<to_client, to_server, tracked, tracker, status>>
    PROVE  ToClientsSound'
<1> SUFFICES ASSUME NEW l \in Conn PROVE Delivers(l)'
    BY DEF ToClientsSound
<1>1. Delivers(l)
    BY DEF ToClientsSound
<1>2. /\ NoGap(to_client[l], held'[ClientOf[l]])
      /\ GreetsWithin(to_server[l], held'[ClientOf[l]])
      /\ tracked[l] /\ status[l] = "up" => Tracks(tracker[l], to_client[l], held'[ClientOf[l]])
    BY <1>1, DeliversAfter
<1>. QED
    BY <1>2 DEF Delivers

LEMMA DeliversStop ==
    ASSUME TypeOK, TypeOK', [Replicated!Next]_held, ToClientsSound, Stops
    PROVE  ToClientsSound'
BY DeliversKept DEF Stops, Crashes

LEMMA DeliversRelayReceives ==
    ASSUME TypeOK, TypeOK', [Replicated!Next]_held, IndexInv, SentIsHeld, ToClientsSound,
           NEW ch \in Chain, RelayReceives(ch)
    PROVE  ToClientsSound'
<1>1. PICK i \in 1 .. MaxLen : Stops \/ (Passed(ch, i, {}) /\ UNCHANGED to_server)
    BY RelayReceivesCases, StopsFor
<1>2. CASE Stops
    BY <1>2, DeliversStop
<1>3. CASE Passed(ch, i, {}) /\ UNCHANGED to_server
    BY <1>3, DeliversPassed
<1>. QED
    BY <1>1, <1>2, <1>3

\* One connection changes, and its client has as much as before.
LEMMA DeliversOne ==
    ASSUME TypeOK, TypeOK', [Replicated!Next]_held, ToClientsSound,
           NEW k \in Conn, Delivers(k)',
           \A l \in Conn : l # k => /\ to_client'[l] = to_client[l]
                                    /\ to_server'[l] = to_server[l]
                                    /\ tracked'[l] = tracked[l] /\ tracker'[l] = tracker[l]
                                    /\ status'[l] = status[l]
    PROVE  ToClientsSound'
<1> SUFFICES ASSUME NEW l \in Conn, l # k PROVE Delivers(l)'
    BY DEF ToClientsSound
<1>1. Delivers(l)
    BY DEF ToClientsSound
<1>2. /\ NoGap(to_client[l], held'[ClientOf[l]])
      /\ GreetsWithin(to_server[l], held'[ClientOf[l]])
      /\ tracked[l] /\ status[l] = "up" => Tracks(tracker[l], to_client[l], held'[ClientOf[l]])
    BY <1>1, DeliversAfter
<1>. QED
    BY <1>2 DEF Delivers

\* What the server reads is held by the client.
LEMMA ReadIsHeld ==
    ASSUME TypeOK, SentIsHeld, NEW k \in Conn, NEW ch \in Chain, NEW i \in 1 .. MaxLen,
           to_server[k] # <<>>, Head(to_server[k]) = Bundle(ch, i)
    PROVE  i <= held[ClientOf[k]][ch]
<1>1. to_server[k] \in Seq(Message) /\ Fits(to_server[k], held[ClientOf[k]])
    BY DEF TypeOK, SentIsHeld, ToServerHeld
<1>2. /\ Head(to_server[k]).type = "bundle" /\ Head(to_server[k]).chain = ch
      /\ Head(to_server[k]).number = i
    BY MessageFacts
<1>. QED
    BY <1>1, <1>2, FirstIsHeld

LEMMA DeliversReceiveBundle ==
    ASSUME TypeOK, TypeOK', [Replicated!Next]_held, IndexInv, SentIsHeld, ToClientsSound,
           NEW k \in Conn, ReceiveBundle(k)
    PROVE  ToClientsSound'
<1>1. PICK ch \in Chain : \E i \in 1 .. MaxLen :
             /\ to_server[k] # <<>> /\ Head(to_server[k]) = Bundle(ch, i)
             /\ \/ Ignored(k, ch, i)
                \/ Ended(k)
                \/ Stops
                \/ Reads(k) /\ Passed(ch, i, {k})
    BY ReceiveBundleCases, StopsFor
<1>2. PICK i \in 1 .. MaxLen :
             /\ to_server[k] # <<>> /\ Head(to_server[k]) = Bundle(ch, i)
             /\ \/ Ignored(k, ch, i)
                \/ Ended(k)
                \/ Stops
                \/ Reads(k) /\ Passed(ch, i, {k})
    BY <1>1
<1>3. i <= held[ClientOf[k]][ch]
    BY <1>2, ReadIsHeld
<1>4. Delivers(k)
    BY DEF ToClientsSound
<1>5. /\ held'[ClientOf[k]] \in HasMaps /\ to_server[k] \in Seq(Message)
      /\ GreetsWithin(to_server[k], held'[ClientOf[k]])
    BY <1>4, DeliversAfter
<1>6. GreetsWithin(Tail(to_server[k]), held'[ClientOf[k]])
    BY <1>2, <1>5, GreetsTail
<1>7. i <= held'[ClientOf[k]][ch]
    <2>1. ClientOf[k] \in Client \cup {Server}
        BY ConstantsAssumption
    <2>2. held[ClientOf[k]] \in HasMaps /\ Covers(held'[ClientOf[k]], held[ClientOf[k]])
        BY <2>1, StoresGrow
    <2>3. held[ClientOf[k]][ch] \in Nat /\ held'[ClientOf[k]][ch] \in Nat /\ i \in Nat
        BY <1>5, <2>2, Bounds DEF HasMaps
    <2>. QED
        BY <1>3, <2>2, <2>3 DEF Covers
<1>8. CASE Ignored(k, ch, i)
    <2>1. /\ to_client'[k] = to_client[k] /\ status'[k] = status[k] /\ tracked'[k] = tracked[k]
          /\ tracker'[k] = tracker[k] \/ tracker'[k] = mark_as_having(tracker[k], ch, i)
          /\ to_server'[k] = Tail(to_server[k])
        BY <1>8 DEF Ignored, Reads, Noted, TypeOK
    <2>2. Delivers(k)'
        BY <1>4, <1>6, <1>7, <2>1, DeliversStep
    <2>3. \A l \in Conn : l # k => /\ to_client'[l] = to_client[l]
                                   /\ to_server'[l] = to_server[l]
                                   /\ tracked'[l] = tracked[l] /\ tracker'[l] = tracker[l]
                                   /\ status'[l] = status[l]
        BY <1>8 DEF Ignored, Reads, Noted, TypeOK
    <2>. QED
        BY <2>2, <2>3, DeliversOne
<1>9. CASE Ended(k)
    <2>1. /\ to_client'[k] = <<>> /\ status'[k] = "done"
          /\ to_server'[k] = Tail(to_server[k])
        BY <1>9 DEF Ended, Reads, TypeOK
    <2>2. Delivers(k)'
        BY <1>4, <1>6, <2>1, DeliversStep
    <2>3. \A l \in Conn : l # k => /\ to_client'[l] = to_client[l]
                                   /\ to_server'[l] = to_server[l]
                                   /\ tracked'[l] = tracked[l] /\ tracker'[l] = tracker[l]
                                   /\ status'[l] = status[l]
        BY <1>9 DEF Ended, Reads, Forgotten, TypeOK
    <2>. QED
        BY <2>2, <2>3, DeliversOne
<1>10. CASE Stops
    BY <1>10, DeliversStop
<1>11. CASE Reads(k) /\ Passed(ch, i, {k})
    <2>1. \A l \in Conn : \/ to_server'[l] = to_server[l]
                          \/ /\ to_server[l] # <<>> /\ to_server'[l] = Tail(to_server[l])
        BY <1>2, <1>11 DEF Reads, TypeOK
    <2>2. {k} \in SUBSET Conn /\ \A l \in {k} : i <= held[ClientOf[l]][ch]
        BY <1>3
    <2>. QED
        BY <1>11, <2>1, <2>2, DeliversPassed
<1>. QED
    BY <1>2, <1>8, <1>9, <1>10, <1>11

\* A connection before it is answered, or without an acceptance.
LEMMA DeliversAside ==
    ASSUME TypeOK, TypeOK', [Replicated!Next]_held, ToClientsSound, NEW k \in Conn, Aside(k)
    PROVE  ToClientsSound'
<1>1. /\ to_server'[k] = to_server[k] /\ to_client'[k] = to_client[k]
      /\ status'[k] \in {"dialled", "left", "done"}
    BY DEF Aside, TypeOK
<1>2. Delivers(k)
    BY DEF ToClientsSound
<1>3. GreetsWithin(to_server'[k], held'[ClientOf[k]])
    BY <1>1, <1>2, DeliversAfter
<1>4. Delivers(k)'
    BY <1>1, <1>2, <1>3, DeliversStep
<1>5. \A l \in Conn : l # k => /\ to_client'[l] = to_client[l]
                               /\ to_server'[l] = to_server[l]
                               /\ tracked'[l] = tracked[l] /\ tracker'[l] = tracker[l]
                               /\ status'[l] = status[l]
    BY DEF Aside, TypeOK
<1>. QED
    BY <1>4, <1>5, DeliversOne

LEMMA DeliversConnect ==
    ASSUME TypeOK, TypeOK', [Replicated!Next]_held, EndsInv, ToClientsSound,
           NEW k \in Conn, Accepts(k)
    PROVE  ToClientsSound'
<1>1. /\ ~tracked'[k] /\ to_server'[k] = to_server[k]
      /\ \/ to_client'[k] = Answer(k)
         \/ to_client'[k] = to_client[k] /\ to_client[k] = <<>>
    <2>1. status[k] \in {"dialled", "left"} /\ tracked' = tracked /\ to_server' = to_server
        BY DEF Accepts
    <2>2. ~tracked[k] /\ to_client[k] = <<>>
        BY <2>1 DEF EndsInv, EndSound
    <2>3. to_client' = [to_client EXCEPT ![k] = Answer(k)] \/ UNCHANGED to_client
        BY DEF Accepts
    <2>. QED
        BY <2>1, <2>2, <2>3 DEF TypeOK
<1>2. NoneOf(to_client'[k], "bundle")
    BY <1>1, AnswerMessages, NoneOfEmpty DEF NoneOf
<1>3. Delivers(k)'
    <2>1. GreetsWithin(to_server[k], held'[ClientOf[k]])
        BY DeliversAfter DEF ToClientsSound
    <2>2. NoGap(to_client'[k], held'[ClientOf[k]])
        BY <1>2, NoBundlesNoGap
    <2>. QED
        BY <1>1, <2>1, <2>2 DEF Delivers
<1>4. \A l \in Conn : l # k => /\ to_client'[l] = to_client[l]
                               /\ to_server'[l] = to_server[l]
                               /\ tracked'[l] = tracked[l] /\ tracker'[l] = tracker[l]
                               /\ status'[l] = status[l]
    BY DEF Accepts, TypeOK
<1>. QED
    BY <1>3, <1>4, DeliversOne

LEMMA DeliversLose ==
    ASSUME TypeOK, TypeOK', [Replicated!Next]_held, ToClientsSound, NEW k \in Conn, Lose(k)
    PROVE  ToClientsSound'
<1>1. PICK n \in 0 .. Len(to_server[k]) :
            to_server' = [to_server EXCEPT ![k] = SubSeq(@, 1, n)]
    BY DEF Lose
<1>2. /\ to_server'[k] = SubSeq(to_server[k], 1, n)
      /\ to_client'[k] = <<>> /\ status'[k] = "lost"
    BY <1>1 DEF Lose, TypeOK
<1>3. Delivers(k)
    BY DEF ToClientsSound
<1>4. to_server[k] \in Seq(Message) /\ GreetsWithin(to_server[k], held'[ClientOf[k]])
    BY <1>3, DeliversAfter
<1>5. GreetsWithin(to_server'[k], held'[ClientOf[k]])
    BY <1>2, <1>4, GreetsSubSeq
<1>6. Delivers(k)'
    BY <1>2, <1>3, <1>5, DeliversStep
<1>7. \A l \in Conn : l # k => /\ to_client'[l] = to_client[l]
                               /\ to_server'[l] = to_server[l]
                               /\ tracked'[l] = tracked[l] /\ tracker'[l] = tracker[l]
                               /\ status'[l] = status[l]
    BY <1>1 DEF Lose, TypeOK
<1>. QED
    BY <1>6, <1>7, DeliversOne

LEMMA DeliversReceiveEnd ==
    ASSUME TypeOK, TypeOK', [Replicated!Next]_held, ToClientsSound, NEW k \in Conn, ReceiveEnd(k)
    PROVE  ToClientsSound'
<1>1. to_server'[k] = to_server[k] /\ to_client'[k] = to_client[k] /\ status'[k] = "done"
    BY DEF ReceiveEnd, TypeOK
<1>2. Delivers(k)
    BY DEF ToClientsSound
<1>3. GreetsWithin(to_server'[k], held'[ClientOf[k]])
    BY <1>1, <1>2, DeliversAfter
<1>4. Delivers(k)'
    BY <1>1, <1>2, <1>3, DeliversStep
<1>5. \A l \in Conn : l # k => /\ to_client'[l] = to_client[l]
                               /\ to_server'[l] = to_server[l]
                               /\ tracked'[l] = tracked[l] /\ tracker'[l] = tracker[l]
                               /\ status'[l] = status[l]
    BY DEF ReceiveEnd, Forgotten, TypeOK
<1>. QED
    BY <1>4, <1>5, DeliversOne

\* The answer to a greeting continues what the client has said that it has.
LEMMA DeliversReceiveGreeting ==
    ASSUME TypeOK, TypeOK', [Replicated!Next]_held, ToClientsSound,
           NEW k \in Conn, ReceiveGreeting(k)
    PROVE  ToClientsSound'
<1>1. PICK from : from = Head(to_server[k]).has
    OBVIOUS
<1>2. PICK to : to = Allowed(BraidOf[k])
    OBVIOUS
<1>3. /\ from \in Maps /\ to \in Maps /\ to_server[k] # <<>>
      /\ Head(to_server[k]).type = "greeting"
    BY <1>1, <1>2, Received, MessageFacts, AllowedType, ConstantsAssumption
    DEF ReceiveGreeting, Readable
<1>4. PICK sent \in Between(from, to) :
        \/ Stops
        \/ /\ Reads(k)
           /\ tracked' = [tracked EXCEPT ![k] = TRUE]
           /\ tracker' = [tracker EXCEPT ![k] = Greater(from, to)]
           /\ \/ /\ to_client' = [to_client EXCEPT ![k] = IF status[k] = "up" THEN @ \o sent ELSE @]
                 /\ UNCHANGED status
              \/ /\ status[k] = "lost"
                 /\ status' = [status EXCEPT ![k] = "closed"]
                 /\ UNCHANGED to_client
    BY <1>1, <1>2, StopsFor DEF ReceiveGreeting
<1>5. CASE Stops
    BY <1>5, DeliversStop
<1>6. CASE ~Stops
    <2>1. /\ to_server'[k] = Tail(to_server[k])
          /\ tracker'[k] = Greater(from, to)
          /\ \/ /\ to_client'[k] = IF status[k] = "up" THEN to_client[k] \o sent ELSE to_client[k]
                /\ status'[k] = status[k]
             \/ status'[k] = "closed" /\ to_client'[k] = to_client[k]
        <3>0. Reads(k)
            BY <1>4, <1>6
        <3>1. to_server'[k] = Tail(to_server[k])
            BY <3>0 DEF Reads, TypeOK
        <3>2. tracker'[k] = Greater(from, to)
            BY <1>4, <1>6 DEF TypeOK
        <3>3. CASE /\ to_client' = [to_client EXCEPT ![k] = IF status[k] = "up" THEN @ \o sent ELSE @]
                   /\ UNCHANGED status
            <4>1. to_client'[k] = IF status[k] = "up" THEN to_client[k] \o sent ELSE to_client[k]
                BY <3>3 DEF TypeOK
            <4>. QED
                BY <3>1, <3>2, <3>3, <4>1
        <3>4. CASE status' = [status EXCEPT ![k] = "closed"] /\ UNCHANGED to_client
            <4>1. status'[k] = "closed" /\ to_client'[k] = to_client[k]
                BY <3>4 DEF TypeOK
            <4>. QED
                BY <3>1, <3>2, <4>1
        <3>. QED
            BY <1>4, <1>6, <3>3, <3>4
    <2>2. Delivers(k)
        BY DEF ToClientsSound
    <2>3. PICK h : h = held'[ClientOf[k]]
        OBVIOUS
    <2>4. PICK s : s = to_client[k]
        OBVIOUS
    <2>5. /\ h \in HasMaps /\ s \in Seq(Message) /\ to_server[k] \in Seq(Message)
          /\ NoGap(s, h) /\ GreetsWithin(to_server[k], h)
        BY <2>2, <2>3, <2>4, DeliversAfter
    <2>6. Covers(h, from)
        <3>1. Head(to_server[k]) = to_server[k][1] /\ 1 \in 1 .. Len(to_server[k])
            BY <1>3, <2>5, HeadTailProperties, LenProperties
        <3>. QED
            BY <1>1, <1>3, <2>5, <3>1 DEF GreetsWithin, Covers
    <2>7. sent \in Seq(Message) /\ NoGap(sent, h) /\ Tracks(Greater(from, to), s \o sent, h)
        BY <1>3, <2>5, <2>6, BetweenElements, BetweenNoGap, BetweenTracks
    <2>8. NoGap(s \o sent, h)
        BY <2>5, <2>7, NoGapConcat
    <2>9. GreetsWithin(to_server'[k], h)
        BY <1>3, <2>1, <2>5, GreetsTail
    <2>10. NoGap(to_client'[k], h)
        BY <2>1, <2>4, <2>5, <2>8
    <2>11. status'[k] = "up" => Tracks(tracker'[k], to_client'[k], h)
        BY <2>1, <2>4, <2>7
    <2>12. Delivers(k)'
        BY <2>3, <2>9, <2>10, <2>11 DEF Delivers
    <2>13. \A l \in Conn : l # k => /\ to_client'[l] = to_client[l]
                                    /\ to_server'[l] = to_server[l]
                                    /\ tracked'[l] = tracked[l] /\ tracker'[l] = tracker[l]
                                    /\ status'[l] = status[l]
        BY <1>4, <1>6, ZenonT(60) DEF Reads, TypeOK
    <2>. QED
        BY <2>12, <2>13, DeliversOne
<1>. QED
    BY <1>5, <1>6

LEMMA DeliversObtain ==
    ASSUME TypeOK, TypeOK', [Replicated!Next]_held, ToClientsSound,
           NEW c \in Client, NEW ch \in Chain, Obtain(c, ch)
    PROVE  ToClientsSound'
<1> SUFFICES ASSUME NEW l \in Conn PROVE Delivers(l)'
    BY DEF ToClientsSound
<1>1. PICK i : i = held[c][ch] + 1
    OBVIOUS
<1>2. i \in 1 .. MaxLen
    <2>1. held[c][ch] \in 0 .. MaxLen /\ held[c][ch] < MaxLen
        BY DEF TypeOK, Obtain
    <2>. QED
        BY <1>1, <2>1, Bounds
<1>3. /\ \/ to_server'[l] = to_server[l]
         \/ to_server'[l] = Append(to_server[l], Bundle(ch, i))
      /\ UNCHANGED <<status, tracked, tracker, to_client>>
    BY <1>1 DEF Obtain, Sends
<1>4. Delivers(l)
    BY DEF ToClientsSound
<1>5. /\ to_server[l] \in Seq(Message) /\ GreetsWithin(to_server[l], held'[ClientOf[l]])
    BY <1>4, DeliversAfter
<1>6. GreetsWithin(to_server'[l], held'[ClientOf[l]])
    BY <1>2, <1>3, <1>5, GreetsBundle
<1>. QED
    BY <1>3, <1>4, <1>6, DeliversStep

\* A client reads.
LEMMA DeliversTakes ==
    ASSUME TypeOK, TypeOK', [Replicated!Next]_held, ToClientsSound,
           NEW k \in Conn, NEW type, Takes(k, type),
           \A l \in Conn : l # k => to_server'[l] = to_server[l],
           GreetsWithin(to_server'[k], held'[ClientOf[k]]),
           type = "bundle" =>
                Head(to_client[k]).number <= held'[ClientOf[k]][Head(to_client[k]).chain]
    PROVE  ToClientsSound'
<1>1. /\ to_client[k] # <<>> /\ to_client' = [to_client EXCEPT ![k] = Tail(@)]
      /\ Head(to_client[k]).type = type
      /\ UNCHANGED <<status, tracked, tracker>>
    BY DEF Takes
<1>2. to_client'[k] = Tail(to_client[k])
    BY <1>1 DEF TypeOK
<1>3. Delivers(k)
    BY DEF ToClientsSound
<1>4. Delivers(k)'
    BY <1>1, <1>2, <1>3, DeliversStep
<1>5. \A l \in Conn : l # k => /\ to_client'[l] = to_client[l]
                               /\ to_server'[l] = to_server[l]
                               /\ tracked'[l] = tracked[l] /\ tracker'[l] = tracker[l]
                               /\ status'[l] = status[l]
    BY <1>1 DEF TypeOK
<1>. QED
    BY <1>4, <1>5, DeliversOne

LEMMA DeliversClientReceives ==
    ASSUME TypeOK, TypeOK', [Replicated!Next]_held, ToClientsSound, NEW k \in Conn,
           ClientReceivesAccept(k) \/ ClientReceivesGreeting(k) \/ ClientReceivesBundle(k)
    PROVE  ToClientsSound'
<1>1. PICK h : h = held'[ClientOf[k]]
    OBVIOUS
<1>2. Delivers(k)
    BY DEF ToClientsSound
<1>3. /\ h \in HasMaps /\ to_server[k] \in Seq(Message) /\ to_client[k] \in Seq(Message)
      /\ GreetsWithin(to_server[k], h) /\ NoGap(to_client[k], held[ClientOf[k]])
    BY <1>1, <1>2, DeliversAfter DEF Delivers
<1>4. CASE ClientReceivesAccept(k)
    <2>1. PICK map : map = held[ClientOf[k]]
        OBVIOUS
    <2>2. /\ Takes(k, "accept") /\ held' = held
          /\ \A l \in Conn : l # k => to_server'[l] = to_server[l]
          /\ to_server'[k] = Append(to_server[k], Greeting(map))
        BY <1>4, <2>1 DEF ClientReceivesAccept, TypeOK, clients
    <2>3. map \in Maps /\ Covers(h, map)
        <3>1. map \in Maps
            BY <2>1, ConstantsAssumption DEF TypeOK, Maps
        <3>2. h = map
            BY <1>1, <2>1, <2>2
        <3>3. \A ch \in Chain : map[ch] \in Nat
            BY <3>1, MapsAreHasMaps DEF HasMaps
        <3>. QED
            BY <3>1, <3>2, <3>3 DEF Covers
    <2>4. GreetsWithin(to_server'[k], h)
        BY <1>3, <2>2, <2>3, GreetsGreeting
    <2>. QED
        BY <1>1, <2>2, <2>4, DeliversTakes
<1>5. CASE ClientReceivesGreeting(k)
    <2>1. PICK map : map = Head(to_client[k]).has
        OBVIOUS
    <2>2. PICK own : own = held[ClientOf[k]]
        OBVIOUS
    <2>3. /\ Takes(k, "greeting")
          /\ \A l \in Conn : l # k => to_server'[l] = to_server[l]
          /\ \E sent \in Between(map, own) : to_server' = [to_server EXCEPT ![k] = @ \o sent]
        BY <1>5, <2>1, <2>2 DEF ClientReceivesGreeting, TypeOK
    <2>4. PICK sent \in Between(map, own) : to_server' = [to_server EXCEPT ![k] = @ \o sent]
        BY <2>3
    <2>5. map \in Maps /\ own \in Maps
        <3>1. Head(to_client[k]) \in Message /\ Head(to_client[k]).type = "greeting"
            BY <2>3, TakesType
        <3>. QED
            BY <2>1, <2>2, <3>1, MessageFacts, ConstantsAssumption DEF TypeOK, Maps
    <2>6. sent \in Seq(Message) /\ GreetsWithin(sent, h)
        BY <2>5, BetweenElements, BetweenGreets
    <2>7. to_server'[k] = to_server[k] \o sent
        BY <2>4 DEF TypeOK
    <2>8. GreetsWithin(to_server'[k], h)
        BY <1>3, <2>6, <2>7, GreetsConcat
    <2>. QED
        BY <1>1, <2>3, <2>8, DeliversTakes
<1>6. CASE ClientReceivesBundle(k)
    <2>1. PICK ch : ch = Head(to_client[k]).chain
        OBVIOUS
    <2>2. PICK i : i = Head(to_client[k]).number
        OBVIOUS
    <2>3. PICK c : c = ClientOf[k]
        OBVIOUS
    <2>4. /\ Takes(k, "bundle") /\ to_server' = to_server
          /\ held' = IF is_needed(held[c][ch], i) THEN [held EXCEPT ![c][ch] = i] ELSE held
        BY <1>6, <2>1, <2>2, <2>3 DEF ClientReceivesBundle
    <2>5. ch \in Chain /\ i \in 1 .. MaxLen /\ c \in Client /\ to_client[k] # <<>>
        <3>1. Head(to_client[k]) \in Message /\ Head(to_client[k]).type = "bundle"
            BY <2>4, TakesType
        <3>. QED
            BY <2>1, <2>2, <2>3, <2>4, <3>1, MessageFacts, ConstantsAssumption DEF Takes
    <2>6. i <= held[c][ch] + 1
        <3>1. /\ Head(to_client[k]) = to_client[k][1] /\ 1 \in 1 .. Len(to_client[k])
              /\ Head(to_client[k]).type = "bundle"
            BY <1>3, <2>4, <2>5, HeadTailProperties, LenProperties DEF Takes
        <3>. QED
            BY <1>3, <2>1, <2>2, <2>3, <3>1 DEF NoGap
    <2>7. i <= held'[c][ch]
        <3>1. held[c][ch] \in Nat /\ i \in Nat
            BY <2>5, Bounds DEF TypeOK
        <3>2. CASE is_needed(held[c][ch], i)
            BY <2>4, <2>5, <3>2, <3>1 DEF TypeOK
        <3>3. CASE ~is_needed(held[c][ch], i)
            BY <2>4, <2>6, <3>1, <3>3 DEF is_needed, AlreadySeen, MissingPrior
        <3>. QED
            BY <3>2, <3>3
    <2>8. \A l \in Conn : l # k => to_server'[l] = to_server[l]
        BY <2>4
    <2>9. GreetsWithin(to_server'[k], h)
        BY <1>3, <2>4
    <2>. QED
        BY <1>1, <2>1, <2>2, <2>3, <2>4, <2>7, <2>8, <2>9, DeliversTakes
<1>. QED
    BY <1>4, <1>5, <1>6

\* Every step keeps what is sent to the clients sound.
LEMMA NextDelivers ==
    ASSUME TypeOK, TypeOK', [Replicated!Next]_held, IndexInv, SentIsHeld, EndsInv,
           ToClientsSound, [Next]_vars
    PROVE  ToClientsSound'
<1>1. CASE UNCHANGED vars
    BY <1>1, DeliversKept DEF vars
<1>2. ASSUME NEW ch \in Chain, RelayReceives(ch) PROVE ToClientsSound'
    BY <1>2, DeliversRelayReceives
<1>3. ASSUME NEW ch \in Chain, NEW c \in Client, Obtain(c, ch) PROVE ToClientsSound'
    BY <1>3, DeliversObtain
<1>4. ASSUME NEW k \in Conn, Connect(k) \/ Lose(k) \/ ReceiveEnd(k) PROVE ToClientsSound'
    BY <1>4, ConnectCases, DeliversConnect, DeliversStop, DeliversLose, DeliversReceiveEnd
<1>7. ASSUME NEW k \in Conn, Dial(k) \/ Leave(k) \/ MissRequest(k) \/ Reject(k) \/ MissEnd(k)
      PROVE  ToClientsSound'
    BY <1>7, AsideCases, DeliversAside, DeliversStop
<1>5. ASSUME NEW k \in Conn, ReceiveGreeting(k) \/ ReceiveBundle(k) PROVE ToClientsSound'
    BY <1>5, DeliversReceiveGreeting, DeliversReceiveBundle
<1>6. ASSUME NEW k \in Conn,
             ClientReceivesAccept(k) \/ ClientReceivesGreeting(k) \/ ClientReceivesBundle(k)
      PROVE  ToClientsSound'
    BY <1>6, DeliversClientReceives
<1>. QED
    BY <1>1, <1>2, <1>3, <1>4, <1>5, <1>6, <1>7 DEF Next

\* A queue without gaps has none as NoGapToClient says it.
LEMMA DeliversMeansNoGap == TypeOK /\ ToClientsSound => NoGapToClient
<1> SUFFICES ASSUME TypeOK, ToClientsSound, NEW k \in Conn, NEW n \in DOMAIN to_client[k],
                    to_client[k][n].type = "bundle"
             PROVE  \E have \in WillHave(k, to_client[k][n].chain, n - 1) :
                        to_client[k][n].number - 1 <= have
    BY DEF NoGapToClient
<1>1. PICK s : s = to_client[k]
    OBVIOUS
<1>2. s \in Seq(Message) /\ n \in 1 .. Len(s) /\ Len(s) \in Nat
    BY <1>1, LenProperties DEF TypeOK
<1>3. PICK ch : ch = s[n].chain
    OBVIOUS
<1>4. PICK i : i = s[n].number
    OBVIOUS
<1>5. ch \in Chain /\ i \in Nat
    <2>1. s[n] \in Message /\ s[n].type = "bundle"
        BY <1>1, <1>2, ElementOfSeq
    <2>. QED
        BY <1>3, <1>4, <2>1, MessageFacts, Bounds
<1>6. \/ i <= held[ClientOf[k]][ch] + 1
      \/ \E m \in 1 .. (n - 1) : s[m] = Bundle(ch, i - 1)
    BY <1>1, <1>2, <1>3, <1>4 DEF ToClientsSound, Delivers, NoGap
<1>7. WillHave(k, ch, n - 1) = {held[ClientOf[k]][ch]} \cup
            {s[j].number : j \in {l \in 1 .. (n - 1) : s[l].type = "bundle" /\ s[l].chain = ch}}
    BY <1>1 DEF WillHave
<1>8. CASE i <= held[ClientOf[k]][ch] + 1
    <2>1. held[ClientOf[k]][ch] \in Nat
        BY <1>5, Bounds, ConstantsAssumption DEF TypeOK
    <2>2. held[ClientOf[k]][ch] \in WillHave(k, ch, n - 1)
        BY <1>7
    <2>3. i - 1 <= held[ClientOf[k]][ch]
        BY <1>5, <1>8, <2>1
    <2>. QED
        BY <1>1, <1>3, <1>4, <2>2, <2>3
<1>9. CASE \E m \in 1 .. (n - 1) : s[m] = Bundle(ch, i - 1)
    <2>1. PICK m \in 1 .. (n - 1) : s[m] = Bundle(ch, i - 1)
        BY <1>9
    <2>2. s[m].type = "bundle" /\ s[m].chain = ch /\ s[m].number = i - 1
        BY <2>1, MessageFacts
    <2>3. i - 1 \in WillHave(k, ch, n - 1)
        BY <1>7, <2>2
    <2>4. i - 1 <= i - 1
        BY <1>5
    <2>. QED
        BY <1>1, <1>3, <1>4, <2>3, <2>4
<1>. QED
    BY <1>6, <1>8, <1>9

-----------------------------------------------------------------------------
(* What the server has sent to those it serves. *)

\* A client that has greeted the server was sent what there is of a chain of its
\* braid, or had it.
Served(k, ch) ==
    tracked[k] /\ InBraid(BraidOf[k], ch) /\ <<BraidOf[k], ch>> \notin late =>
        Lesser(held[Server][ch], limit[BraidOf[k]][ch] - 1) <= tracker[k][ch]

NobodyIsBehind == ~crashed => \A k \in Conn : \A ch \in Chain : Served(k, ch)

LEMMA ServedTypes ==
    ASSUME TypeOK, NEW k \in Conn, NEW ch \in Chain
    PROVE  /\ BraidOf[k] \in Braid
           /\ held[Server][ch] \in Nat /\ limit[BraidOf[k]][ch] \in Nat
           /\ tracker[k][ch] \in Nat /\ tracker[k] \in Maps
BY Bounds, ConstantsAssumption DEF TypeOK, Maps

\* Nothing is served less when more is tracked.
LEMMA ServedKept ==
    ASSUME TypeOK, TypeOK', NEW k \in Conn, NEW ch \in Chain, Served(k, ch),
           tracked'[k] => tracked[k],
           held'[Server][ch] = held[Server][ch],
           limit'[BraidOf[k]][ch] = limit[BraidOf[k]][ch],
           late \subseteq late',
           tracked'[k] => tracker[k][ch] <= tracker'[k][ch]
    PROVE  Served(k, ch)'
<1>1. /\ held[Server][ch] \in Nat /\ limit[BraidOf[k]][ch] \in Nat
      /\ tracker[k][ch] \in Nat
    BY ServedTypes
<1>2. tracker'[k][ch] \in Nat
    BY Bounds DEF TypeOK
<1>. QED
    BY <1>1, <1>2 DEF Served, InBraid, Lesser

LEMMA MarkGrows ==
    ASSUME NEW map \in Maps, NEW ch \in Chain, NEW i \in 1 .. MaxLen, NEW d \in Chain
    PROVE  map[d] <= mark_as_having(map, ch, i)[d]
<1>1. map[d] \in Nat /\ map[ch] \in Nat /\ i \in Nat
    BY Bounds DEF Maps
<1>. QED
    BY <1>1 DEF mark_as_having, Maps

\* A bundle is passed on to all whose braid it is in.
LEMMA ServedPassed ==
    ASSUME TypeOK, TypeOK', IndexInv', EndsInv,
           \A l \in Conn : \A d \in Chain : Served(l, d),
           NEW k \in Conn, NEW ch \in Chain, NEW i \in 1 .. MaxLen, NEW read \in SUBSET Conn,
           Passed(ch, i, read),
           \/ UNCHANGED <<limit, subscribers, late>>
           \/ Joins(k, ch, i)
    PROVE  \A l \in Conn : \A d \in Chain : Served(l, d)'
<1> SUFFICES ASSUME NEW l \in Conn, NEW d \in Chain PROVE Served(l, d)'
    OBVIOUS
<1>1. PICK b : b = BraidOf[l]
    OBVIOUS
<1>2. /\ b \in Braid /\ held[Server][d] \in Nat /\ limit[b][d] \in Nat
      /\ tracker[l][d] \in Nat /\ tracker[l] \in Maps /\ i \in Nat
    BY <1>1, ServedTypes, Bounds
<1>3. held'[Server][d] \in Nat /\ limit'[b][d] \in 0 .. inf /\ tracker'[l][d] \in Nat
    BY <1>2, Bounds DEF TypeOK
<1>4. tracker[l][d] <= tracker'[l][d]
    <2>1. tracker'[l] = tracker[l] \/ tracker'[l] = mark_as_having(tracker[l], ch, i)
        BY DEF Passed
    <2>. QED
        BY <1>2, <2>1, MarkGrows
<1>5. tracked'[l] = tracked[l] /\ members' = members
    BY DEF Passed
<1>6. late \subseteq late'
    BY DEF Joins
<1>7. CASE Stored(ch, i) /\ d = ch
    <2> SUFFICES ASSUME tracked'[l], InBraid(b, d)', <<b, d>> \notin late'
                 PROVE  Lesser(held'[Server][d], limit'[b][d] - 1) <= tracker'[l][d]
        BY <1>1 DEF Served
    <2>1. held'[Server][d] = i /\ held[Server][d] = i - 1
        BY <1>7 DEF Passed, TypeOK
    <2>2. l \in subscribers'[ch]
        <3>1. l \in members'[b]
            BY <1>1, <1>5 DEF EndsInv, EndSound
        <3>. QED
            BY <1>1, <1>7, <3>1 DEF IndexInv, IndexAgrees
    <2>3. CASE i < limit'[b][d]
        <3>1. i <= tracker'[l][d]
            BY <1>1, <1>5, <1>7, <2>2, <2>3 DEF Passed
        <3>2. limit'[b][d] \in Nat
            BY <1>3, Bounds
        <3>. QED
            BY <1>2, <1>3, <2>1, <2>3, <3>1, <3>2 DEF Lesser
    <2>4. CASE ~(i < limit'[b][d])
        <3>1. limit'[b][d] = limit[b][d] /\ late' = late
            <4>1. CASE UNCHANGED <<limit, subscribers, late>>
                BY <4>1
            <4>2. CASE Joins(k, ch, i)
                <5>1. inf > i /\ BraidOf[k] \in Braid
                    BY <1>2, Bounds, ConstantsAssumption DEF inf
                <5>2. b # BraidOf[k]
                    BY <1>2, <1>7, <2>4, <4>2, <5>1, Bounds DEF Joins, TypeOK
                <5>3. limit'[b][d] = limit[b][d]
                    BY <1>2, <4>2, <5>2 DEF Joins, TypeOK
                <5>4. late' = late
                    BY <1>7, <4>2 DEF Joins
                <5>. QED
                    BY <5>3, <5>4
            <4>. QED
                BY <4>1, <4>2
        <3>2. Lesser(held[Server][d], limit[b][d] - 1) <= tracker[l][d]
            BY <1>1, <1>5, <3>1 DEF Served, InBraid
        <3>. QED
            BY <1>2, <1>3, <1>4, <2>1, <2>4, <3>1, <3>2 DEF Lesser
    <2>. QED
        BY <2>3, <2>4
<1>8. CASE ~(Stored(ch, i) /\ d = ch)
    <2>1. held'[Server][d] = held[Server][d]
        <3>1. CASE Stored(ch, i)
            <4>1. held' = [held EXCEPT ![Server][ch] = i] /\ d # ch
                BY <1>8, <3>1 DEF Passed
            <4>. QED
                BY <4>1 DEF TypeOK
        <3>2. CASE ~Stored(ch, i)
            BY <3>2 DEF Passed
        <3>. QED
            BY <3>1, <3>2
    <2>2. CASE UNCHANGED <<limit, subscribers, late>>
        BY <1>1, <1>4, <1>5, <1>6, <2>1, <2>2, ServedKept
    <2>3. CASE Joins(k, ch, i)
        <3>1. CASE b = BraidOf[k] /\ d = ch
            <4>1. <<b, d>> \in late'
                BY <1>8, <2>3, <3>1 DEF Joins
            <4>. QED
                BY <1>1, <4>1 DEF Served
        <3>2. CASE ~(b = BraidOf[k] /\ d = ch)
            <4>1. limit'[b][d] = limit[b][d]
                BY <1>2, <2>3, <3>2, ConstantsAssumption DEF Joins, TypeOK
            <4>. QED
                BY <1>1, <1>4, <1>5, <1>6, <2>1, <4>1, ServedKept
        <3>. QED
            BY <3>1, <3>2
    <2>. QED
        BY <2>2, <2>3
<1>. QED
    BY <1>7, <1>8


\* A step at one connection that gets nothing from anyone.
LEMMA ServedOne ==
    ASSUME TypeOK, TypeOK', \A l \in Conn : \A d \in Chain : Served(l, d),
           UNCHANGED <<limit, late>>, \A d \in Chain : held'[Server][d] = held[Server][d],
           NEW k \in Conn,
           \A l \in Conn : l # k => tracked'[l] = tracked[l] /\ tracker'[l] = tracker[l],
           tracked'[k] => /\ tracked[k]
                          /\ \A d \in Chain : tracker[k][d] <= tracker'[k][d]
    PROVE  \A l \in Conn : \A d \in Chain : Served(l, d)'
<1> SUFFICES ASSUME NEW l \in Conn, NEW d \in Chain PROVE Served(l, d)'
    OBVIOUS
<1>1. tracker[l][d] \in Nat
    BY ServedTypes
<1>2. /\ tracked'[l] => tracked[l]
      /\ tracked'[l] => tracker[l][d] <= tracker'[l][d]
    BY <1>1
<1>3. late \subseteq late' /\ limit'[BraidOf[l]][d] = limit[BraidOf[l]][d]
    OBVIOUS
<1>. QED
    BY <1>2, <1>3, ServedKept

\* The answer to a greeting brings the client up to date.
LEMMA ServedReceiveGreeting ==
    ASSUME TypeOK, TypeOK', \A l \in Conn : \A d \in Chain : Served(l, d),
           NEW k \in Conn, ReceiveGreeting(k)
    PROVE  crashed' \/ \A l \in Conn : \A d \in Chain : Served(l, d)'
<1>1. PICK from : from = Head(to_server[k]).has
    OBVIOUS
<1>2. PICK to : to = Allowed(BraidOf[k])
    OBVIOUS
<1>3. from \in Maps /\ to \in Maps
    BY <1>1, <1>2, Received, MessageFacts, AllowedType, ConstantsAssumption
    DEF ReceiveGreeting, Readable
<1>4. \/ crashed'
      \/ /\ tracked' = [tracked EXCEPT ![k] = TRUE]
         /\ tracker' = [tracker EXCEPT ![k] = Greater(from, to)]
         /\ UNCHANGED <<held, limit, late>>
    BY <1>1, <1>2 DEF ReceiveGreeting, SendRaises, Crashes, clients
<1>5. ASSUME /\ tracked' = [tracked EXCEPT ![k] = TRUE]
             /\ tracker' = [tracker EXCEPT ![k] = Greater(from, to)]
             /\ UNCHANGED <<held, limit, late>>,
             NEW l \in Conn, NEW d \in Chain
      PROVE  Served(l, d)'
    <2>1. CASE l # k
        <3>1. tracked'[l] = tracked[l] /\ tracker'[l] = tracker[l]
            BY <1>5, <2>1 DEF TypeOK
        <3>. QED
            BY <1>5, <3>1 DEF Served, InBraid
    <2>2. CASE l = k
        <3>1. tracker'[k][d] = Greater(from, to)[d]
            BY <1>5 DEF TypeOK
        <3>2. from[d] \in Nat /\ to[d] \in Nat
            BY <1>3, Bounds DEF Maps
        <3>3. to[d] <= tracker'[k][d]
            BY <3>1, <3>2 DEF Greater
        <3>4. to[d] = Lesser(held[Server][d], limit[BraidOf[k]][d])
            BY <1>2 DEF Allowed
        <3>5. held[Server][d] \in Nat /\ limit[BraidOf[k]][d] \in Nat
            BY ServedTypes
        <3>6. tracker'[k][d] \in Nat
            BY Bounds DEF TypeOK
        <3>7. Lesser(held[Server][d], limit[BraidOf[k]][d] - 1) <= tracker'[k][d]
            BY <3>2, <3>3, <3>4, <3>5, <3>6 DEF Lesser
        <3>. QED
            BY <1>5, <2>2, <3>7 DEF Served
    <2>. QED
        BY <2>1, <2>2
<1>. QED
    BY <1>4, <1>5

LEMMA ServedReceiveBundle ==
    ASSUME TypeOK, TypeOK', IndexInv, IndexInv', EndsInv,
           \A l \in Conn : \A d \in Chain : Served(l, d),
           NEW k \in Conn, ReceiveBundle(k)
    PROVE  crashed' \/ \A l \in Conn : \A d \in Chain : Served(l, d)'
<1>1. PICK ch \in Chain : \E i \in 1 .. MaxLen :
             \/ Ignored(k, ch, i)
             \/ Ended(k)
             \/ Stops
             \/ /\ Passed(ch, i, {k})
                /\ \/ InBraid(BraidOf[k], ch) /\ UNCHANGED <<limit, subscribers, late>>
                   \/ Joins(k, ch, i)
    BY ReceiveBundleCases, StopsFor
<1>2. PICK i \in 1 .. MaxLen :
             \/ Ignored(k, ch, i)
             \/ Ended(k)
             \/ Stops
             \/ /\ Passed(ch, i, {k})
                /\ \/ InBraid(BraidOf[k], ch) /\ UNCHANGED <<limit, subscribers, late>>
                   \/ Joins(k, ch, i)
    BY <1>1
<1>3. CASE Ignored(k, ch, i)
    <2>1. tracker[k] \in Maps /\ \A d \in Chain : tracker[k][d] <= tracker[k][d]
        BY ServedTypes
    <2>2. \A d \in Chain : tracker[k][d] <= mark_as_having(tracker[k], ch, i)[d]
        BY <2>1, MarkGrows
    <2>3. /\ tracker'[k] = tracker[k] \/ tracker'[k] = mark_as_having(tracker[k], ch, i)
          /\ \A l \in Conn : l # k => tracked'[l] = tracked[l] /\ tracker'[l] = tracker[l]
          /\ tracked' = tracked /\ held' = held /\ UNCHANGED <<limit, late>>
        BY <1>3 DEF Ignored, Noted, TypeOK, clients
    <2>4. \A d \in Chain : tracker[k][d] <= tracker'[k][d]
        BY <2>1, <2>2, <2>3
    <2>5. \A d \in Chain : held'[Server][d] = held[Server][d]
        BY <2>3
    <2>. QED
        BY <2>3, <2>4, <2>5, ServedOne
<1>4. CASE Ended(k)
    <2>1. /\ ~tracked'[k]
          /\ \A l \in Conn : l # k => tracked'[l] = tracked[l] /\ tracker'[l] = tracker[l]
          /\ held' = held /\ UNCHANGED <<limit, late>>
        BY <1>4 DEF Ended, Forgotten, TypeOK, clients
    <2>2. \A d \in Chain : held'[Server][d] = held[Server][d]
        BY <2>1
    <2>. QED
        BY <2>1, <2>2, ServedOne
<1>5. CASE Stops
    BY <1>5 DEF Stops, Crashes
<1>6. CASE /\ Passed(ch, i, {k})
           /\ \/ InBraid(BraidOf[k], ch) /\ UNCHANGED <<limit, subscribers, late>>
              \/ Joins(k, ch, i)
    BY <1>6, ServedPassed
<1>. QED
    BY <1>2, <1>3, <1>4, <1>5, <1>6

LEMMA ServedRelayReceives ==
    ASSUME TypeOK, TypeOK', IndexInv, IndexInv', EndsInv,
           \A l \in Conn : \A d \in Chain : Served(l, d),
           NEW ch \in Chain, RelayReceives(ch)
    PROVE  crashed' \/ \A l \in Conn : \A d \in Chain : Served(l, d)'
<1>1. PICK i \in 1 .. MaxLen :
            \/ Stops
            \/ Passed(ch, i, {}) /\ UNCHANGED <<limit, subscribers, to_server, late>>
    BY RelayReceivesCases, StopsFor
<1>2. CASE Stops
    BY <1>2 DEF Stops, Crashes
<1>3. CASE Passed(ch, i, {}) /\ UNCHANGED <<limit, subscribers, to_server, late>>
    <2> SUFFICES ASSUME NEW l \in Conn PROVE \A d \in Chain : Served(l, d)'
        OBVIOUS
    <2>1. {} \in SUBSET Conn
        OBVIOUS
    <2>. QED
        BY <1>3, <2>1, ServedPassed
<1>. QED
    BY <1>1, <1>2, <1>3

\* Nothing happens after the server's process has ended.
LEMMA StillRunning == Next => ~crashed
BY DEF Next, RelayReceives, Obtain, Dial, Leave, MissRequest, Reject, Connect, Requested, Lose, MissEnd,
       ReceiveEnd, ReceiveGreeting, ReceiveBundle, Readable, ClientReceivesAccept,
       ClientReceivesGreeting, ClientReceivesBundle, Takes

\* Every step leaves those who are served up to date.
LEMMA NextServed ==
    ASSUME TypeOK, TypeOK', IndexInv, IndexInv', EndsInv, NobodyIsBehind, [Next]_vars
    PROVE  NobodyIsBehind'
<1> SUFFICES ASSUME ~crashed' PROVE \A k \in Conn : \A ch \in Chain : Served(k, ch)'
    BY DEF NobodyIsBehind
<1>1. CASE UNCHANGED vars
    BY <1>1 DEF NobodyIsBehind, Served, InBraid, vars
<1>2. CASE Next
    <2>1. \A k \in Conn : \A ch \in Chain : Served(k, ch)
        <3>1. ~crashed
            BY <1>2, StillRunning
        <3>. QED
            BY <3>1 DEF NobodyIsBehind
    <2>2. ASSUME NEW ch \in Chain, RelayReceives(ch)
          PROVE  \A l \in Conn : \A d \in Chain : Served(l, d)'
        BY <2>1, <2>2, ServedRelayReceives
    <2>3. ASSUME /\ UNCHANGED <<limit, late, tracked, tracker>>
                 /\ \A d \in Chain : held'[Server][d] = held[Server][d]
          PROVE  \A l \in Conn : \A d \in Chain : Served(l, d)'
        BY <2>1, <2>3 DEF Served, InBraid
    <2>4. ASSUME NEW c \in Client
          PROVE  c # Server
        BY ConstantsAssumption
    <2>5. ASSUME NEW ch \in Chain, NEW c \in Client, Obtain(c, ch)
          PROVE  \A l \in Conn : \A d \in Chain : Served(l, d)'
        <3>1. \A d \in Chain : held'[Server][d] = held[Server][d]
            BY <2>4, <2>5 DEF Obtain, TypeOK
        <3>. QED
            BY <2>3, <2>5, <3>1 DEF Obtain
    <2>6. ASSUME NEW k \in Conn, Connect(k) \/ Lose(k)
          PROVE  \A l \in Conn : \A d \in Chain : Served(l, d)'
        BY <2>3, <2>6, ConnectCases DEF Stops, Crashes, Accepts, Lose, clients
    <2>10. ASSUME NEW k \in Conn, Dial(k) \/ Leave(k) \/ MissRequest(k) \/ Reject(k) \/ MissEnd(k)
           PROVE  \A l \in Conn : \A d \in Chain : Served(l, d)'
        BY <2>3, <2>10, AsideCases DEF Stops, Crashes, Aside, clients
    <2>7. ASSUME NEW k \in Conn, ReceiveEnd(k)
          PROVE  \A l \in Conn : \A d \in Chain : Served(l, d)'
        <3>1. /\ ~tracked'[k]
              /\ \A l \in Conn : l # k => tracked'[l] = tracked[l] /\ tracker'[l] = tracker[l]
              /\ held' = held /\ UNCHANGED <<limit, late>>
            BY <2>7 DEF ReceiveEnd, Forgotten, TypeOK, clients
        <3>2. \A d \in Chain : held'[Server][d] = held[Server][d]
            BY <3>1
        <3>. QED
            BY <2>1, <3>1, <3>2, ServedOne
    <2>8. ASSUME NEW k \in Conn, ReceiveGreeting(k) \/ ReceiveBundle(k)
          PROVE  \A l \in Conn : \A d \in Chain : Served(l, d)'
        BY <2>1, <2>8, ServedReceiveGreeting, ServedReceiveBundle
    <2>9. ASSUME NEW k \in Conn,
                 ClientReceivesAccept(k) \/ ClientReceivesGreeting(k) \/ ClientReceivesBundle(k)
          PROVE  \A l \in Conn : \A d \in Chain : Served(l, d)'
        <3>1. UNCHANGED <<limit, late, tracked, tracker>>
            BY <2>9 DEF ClientReceivesAccept, ClientReceivesGreeting, ClientReceivesBundle, Takes
        <3>2. \A d \in Chain : held'[Server][d] = held[Server][d]
            <4>1. ClientOf[k] # Server
                BY <2>4, ConstantsAssumption
            <4>2. \/ held' = held
                  \/ \E d \in Chain : \E i : held' = [held EXCEPT ![ClientOf[k]][d] = i]
                <5>1. CASE ClientReceivesBundle(k)
                    <6>1. Head(to_client[k]).chain \in Chain
                        BY <5>1, TakesType, MessageFacts DEF ClientReceivesBundle
                    <6>. QED
                        BY <5>1, <6>1 DEF ClientReceivesBundle
                <5>. QED
                    BY <2>9, <5>1 DEF ClientReceivesAccept, ClientReceivesGreeting, clients
            <4>. QED
                BY <4>1, <4>2 DEF TypeOK
        <3>. QED
            BY <2>3, <3>1, <3>2
    <2>. QED
        BY <1>2, <2>2, <2>5, <2>6, <2>7, <2>8, <2>9, <2>10 DEF Next
<1>. QED
    BY <1>1, <1>2

\* Those served are up to date as CaughtUp says it.
LEMMA ServedMeansCaughtUp == TypeOK /\ NobodyIsBehind => CaughtUp
<1> SUFFICES ASSUME TypeOK, NobodyIsBehind, NEW k \in on_braid, NEW ch \in ChainsOf(BraidOf[k]),
                    ~crashed, tracked[k], <<BraidOf[k], ch>> \notin late
             PROVE  tracker[k][ch] >= Lesser(held[Server][ch], limit[BraidOf[k]][ch] - 1)
    BY DEF CaughtUp
<1>1. k \in Conn /\ ch \in Chain /\ InBraid(BraidOf[k], ch)
    BY DEF TypeOK, ChainsOf
<1>2. Lesser(held[Server][ch], limit[BraidOf[k]][ch] - 1) <= tracker[k][ch]
    BY <1>1 DEF NobodyIsBehind, Served
<1>3. /\ held[Server][ch] \in Nat /\ limit[BraidOf[k]][ch] \in Nat /\ tracker[k][ch] \in Nat
    BY <1>1, ServedTypes
<1>. QED
    BY <1>2, <1>3 DEF Lesser

-----------------------------------------------------------------------------
(* What is sent to the server. *)

\* The server gets no gap from the client of k as long as it reads, it has what
\* its greeting says, and the client knows what the server gets.
Serves(k) ==
    /\ status[k] \in {"up", "lost"} => NoGap(to_server[k], held[Server])
    /\ GreetsWithin(to_client[k], held[Server])
    /\ known[k] /\ status[k] = "up" => /\ Covers(remote[k], held[ClientOf[k]])
                                       /\ Tracks(remote[k], to_server[k], held[Server])

ToServerSound == \A k \in Conn : Serves(k)

\* The server's store may have grown.
LEMMA ServesAfter ==
    ASSUME TypeOK, TypeOK', [Replicated!Next]_held, NEW l \in Conn, Serves(l)
    PROVE  /\ held'[Server] \in HasMaps
           /\ to_client[l] \in Seq(Message) /\ to_server[l] \in Seq(Message)
           /\ remote[l] \in Maps
           /\ status[l] \in {"up", "lost"} => NoGap(to_server[l], held'[Server])
           /\ GreetsWithin(to_client[l], held'[Server])
           /\ known[l] /\ status[l] = "up" => Tracks(remote[l], to_server[l], held'[Server])
<1>1. /\ held[Server] \in HasMaps /\ held'[Server] \in HasMaps
      /\ Covers(held'[Server], held[Server])
    BY StoresGrow
<1>2. to_client[l] \in Seq(Message) /\ to_server[l] \in Seq(Message) /\ remote[l] \in Maps
    BY DEF TypeOK, Maps
<1>. QED
    BY <1>1, <1>2, NoGapGrows, GreetsGrows, TracksGrows DEF Serves

\* It stays so if the queue to the server is the same or is read, and the client
\* has and knows the same.
LEMMA ServesStep ==
    ASSUME TypeOK, TypeOK', [Replicated!Next]_held, NEW l \in Conn, Serves(l),
           status'[l] \in {"up", "lost"} =>
                /\ status[l] \in {"up", "lost"}
                /\ \/ to_server'[l] = to_server[l]
                   \/ /\ to_server[l] # <<>> /\ to_server'[l] = Tail(to_server[l])
                      /\ Head(to_server[l]).type = "bundle" =>
                            Head(to_server[l]).number <= held'[Server][Head(to_server[l]).chain],
           GreetsWithin(to_client'[l], held'[Server]),
           known'[l] /\ status'[l] = "up" =>
                /\ known[l] /\ status[l] = "up" /\ remote'[l] = remote[l]
                /\ held'[ClientOf[l]] = held[ClientOf[l]]
    PROVE  Serves(l)'
<1>1. PICK h : h = held'[Server]
    OBVIOUS
<1>2. PICK s : s = to_server[l]
    OBVIOUS
<1>3. PICK map : map = remote[l]
    OBVIOUS
<1>4. /\ h \in HasMaps /\ s \in Seq(Message) /\ map \in Maps
      /\ status[l] \in {"up", "lost"} => NoGap(s, h)
      /\ known[l] /\ status[l] = "up" => Tracks(map, s, h)
    BY <1>1, <1>2, <1>3, ServesAfter
<1>5. PICK t : t = to_server'[l]
    OBVIOUS
<1>6. status'[l] \in {"up", "lost"} =>
        /\ status[l] \in {"up", "lost"}
        /\ \/ t = s
           \/ /\ s # <<>> /\ t = Tail(s)
              /\ Head(s).type = "bundle" => Head(s).number <= h[Head(s).chain]
    BY <1>1, <1>2, <1>5
<1>7. status'[l] \in {"up", "lost"} => NoGap(t, h)
    BY <1>4, <1>6, NoGapTail
<1>8. ASSUME known'[l], status'[l] = "up"
      PROVE  Covers(remote'[l], held'[ClientOf[l]]) /\ Tracks(remote'[l], t, h)
    <2>1. /\ known[l] /\ status[l] = "up" /\ remote'[l] = map
          /\ held'[ClientOf[l]] = held[ClientOf[l]]
        BY <1>3, <1>8
    <2>2. Covers(map, held[ClientOf[l]])
        BY <1>3, <2>1 DEF Serves
    <2>3. Tracks(map, t, h)
        BY <1>4, <1>6, <1>8, <2>1, TracksTail
    <2>. QED
        BY <2>1, <2>2, <2>3
<1>. QED
    BY <1>1, <1>5, <1>7, <1>8 DEF Serves

\* One connection changes, and the clients have as much as before.
LEMMA ServesOne ==
    ASSUME TypeOK, TypeOK', [Replicated!Next]_held, ToServerSound,
           NEW k \in Conn, Serves(k)',
           \A l \in Conn : l # k =>
                /\ to_client'[l] = to_client[l] /\ to_server'[l] = to_server[l]
                /\ known'[l] = known[l] /\ remote'[l] = remote[l]
                /\ status'[l] = status[l]
                /\ known[l] /\ status[l] = "up" => held'[ClientOf[l]] = held[ClientOf[l]]
    PROVE  ToServerSound'
<1> SUFFICES ASSUME NEW l \in Conn, l # k PROVE Serves(l)'
    BY DEF ToServerSound
<1>1. Serves(l)
    BY DEF ToServerSound
<1>2. GreetsWithin(to_client[l], held'[Server])
    BY <1>1, ServesAfter
<1>. QED
    BY <1>1, <1>2, ServesStep

LEMMA ServesSame ==
    ASSUME TypeOK, TypeOK', [Replicated!Next]_held, ToServerSound,
           UNCHANGED <<held, to_client, to_server, known, remote, status>>
    PROVE  ToServerSound'
BY DEF ToServerSound, Serves

LEMMA ServesStop ==
    ASSUME TypeOK, TypeOK', [Replicated!Next]_held, ToServerSound, Stops
    PROVE  ToServerSound'
BY ServesSame DEF Stops, Crashes

\* A bundle is passed on, and maybe read.
LEMMA ServesPassed ==
    ASSUME TypeOK, TypeOK', [Replicated!Next]_held, ToServerSound,
           NEW ch \in Chain, NEW i \in 1 .. MaxLen, NEW read \in SUBSET Conn,
           Passed(ch, i, read),
           ~MissingPrior(held[Server][ch], i),
           \A l \in Conn : \/ to_server'[l] = to_server[l]
                           \/ /\ to_server[l] # <<>> /\ to_server'[l] = Tail(to_server[l])
                              /\ Head(to_server[l]) = Bundle(ch, i)
    PROVE  ToServerSound'
<1> SUFFICES ASSUME NEW l \in Conn PROVE Serves(l)'
    BY DEF ToServerSound
<1>1. Serves(l)
    BY DEF ToServerSound
<1>2. PICK h : h = held'[Server]
    OBVIOUS
<1>3. /\ h \in HasMaps /\ to_client[l] \in Seq(Message) /\ GreetsWithin(to_client[l], h)
    BY <1>1, <1>2, ServesAfter
<1>4. i <= h[ch]
    <2>1. held[Server][ch] \in Nat /\ i \in Nat
        BY Bounds DEF TypeOK
    <2>2. CASE Stored(ch, i)
        <3>1. held' = [held EXCEPT ![Server][ch] = i]
            BY <2>2 DEF Passed
        <3>2. held'[Server][ch] = i
            BY <3>1 DEF TypeOK
        <3>. QED
            BY <1>2, <2>1, <3>2
    <2>3. CASE ~Stored(ch, i)
        <3>1. i <= held[Server][ch]
            BY <2>1, <2>3 DEF Stored, is_needed, AlreadySeen
        <3>. QED
            BY <1>2, <2>3, <3>1 DEF Passed
    <2>. QED
        BY <2>2, <2>3
<1>5. /\ status'[l] \in {"up", "lost"} => status'[l] = status[l]
      /\ known' = known /\ remote' = remote
      /\ to_client'[l] = to_client[l] \/ to_client'[l] = Append(to_client[l], Bundle(ch, i))
    BY DEF Passed
<1>6. held'[ClientOf[l]] = held[ClientOf[l]]
    <2>1. ClientOf[l] # Server /\ ClientOf[l] \in Client
        BY ConstantsAssumption
    <2>2. held' = held \/ held' = [held EXCEPT ![Server][ch] = i]
        BY DEF Passed
    <2>3. CASE held' = [held EXCEPT ![Server][ch] = i]
        BY <2>1, <2>3 DEF TypeOK
    <2>. QED
        BY <2>2, <2>3
<1>7. GreetsWithin(to_client'[l], held'[Server])
    BY <1>2, <1>3, <1>5, GreetsBundle
<1>8. \/ to_server'[l] = to_server[l]
      \/ /\ to_server[l] # <<>> /\ to_server'[l] = Tail(to_server[l])
         /\ Head(to_server[l]).type = "bundle" =>
                Head(to_server[l]).number <= held'[Server][Head(to_server[l]).chain]
    <2>1. Bundle(ch, i).chain = ch /\ Bundle(ch, i).number = i
        BY DEF Bundle
    <2>. QED
        BY <1>2, <1>4, <2>1
<1>. QED
    BY <1>1, <1>5, <1>6, <1>7, <1>8, ServesStep

LEMMA ServesRelayReceives ==
    ASSUME TypeOK, TypeOK', [Replicated!Next]_held, IndexInv, ToServerSound,
           NEW ch \in Chain, RelayReceives(ch)
    PROVE  ToServerSound'
<1>1. PICK i \in 1 .. MaxLen :
            \/ Stops
            \/ Passed(ch, i, {}) /\ ~MissingPrior(held[Server][ch], i) /\ UNCHANGED to_server
    BY RelayReceivesCases, StopsFor
<1>2. CASE Stops
    BY <1>2, ServesStop
<1>3. CASE Passed(ch, i, {}) /\ ~MissingPrior(held[Server][ch], i) /\ UNCHANGED to_server
    BY <1>3, ServesPassed
<1>. QED
    BY <1>1, <1>2, <1>3

LEMMA ServesReceiveBundle ==
    ASSUME TypeOK, TypeOK', [Replicated!Next]_held, IndexInv, EndsInv, ToServerSound,
           NEW k \in Conn, ReceiveBundle(k)
    PROVE  ToServerSound'
<1>1. PICK ch \in Chain : \E i \in 1 .. MaxLen :
             /\ to_server[k] # <<>> /\ Head(to_server[k]) = Bundle(ch, i)
             /\ \/ Ignored(k, ch, i)
                \/ Ended(k)
                \/ Stops
                \/ Reads(k) /\ Passed(ch, i, {k}) /\ ~MissingPrior(held[Server][ch], i)
    BY ReceiveBundleCases, StopsFor
<1>2. PICK i \in 1 .. MaxLen :
             /\ to_server[k] # <<>> /\ Head(to_server[k]) = Bundle(ch, i)
             /\ \/ Ignored(k, ch, i)
                \/ Ended(k)
                \/ Stops
                \/ Reads(k) /\ Passed(ch, i, {k}) /\ ~MissingPrior(held[Server][ch], i)
    BY <1>1
<1>3. ~Ignored(k, ch, i)
    <2> SUFFICES ASSUME k \in ReadOnly PROVE FALSE
        BY DEF Ignored
    <2>1. to_server[k] \in Seq(Message)
        BY DEF TypeOK
    <2>2. Head(to_server[k]) = to_server[k][1] /\ 1 \in 1 .. Len(to_server[k])
        BY <1>2, <2>1, HeadTailProperties, LenProperties
    <2>. QED
        BY <1>2, <2>2, MessageFacts DEF EndsInv, Silent, NoneOf
<1>4. CASE Ended(k)
    <2>1. /\ to_client'[k] = <<>> /\ status'[k] = "done"
          /\ \A l \in Conn : l # k => /\ to_client'[l] = to_client[l]
                                      /\ to_server'[l] = to_server[l]
                                      /\ known'[l] = known[l] /\ remote'[l] = remote[l]
                                      /\ status'[l] = status[l]
          /\ held' = held
        BY <1>4 DEF Ended, Reads, TypeOK, clients
    <2>2. Serves(k)'
        BY <2>1, GreetsEmpty DEF Serves
    <2>. QED
        BY <2>1, <2>2, ServesOne
<1>5. CASE Stops
    BY <1>5, ServesStop
<1>6. CASE Reads(k) /\ Passed(ch, i, {k}) /\ ~MissingPrior(held[Server][ch], i)
    <2>1. \A l \in Conn : \/ to_server'[l] = to_server[l]
                          \/ /\ to_server[l] # <<>> /\ to_server'[l] = Tail(to_server[l])
                             /\ Head(to_server[l]) = Bundle(ch, i)
        BY <1>2, <1>6 DEF Reads, TypeOK
    <2>2. {k} \in SUBSET Conn
        OBVIOUS
    <2>. QED
        BY <1>6, <2>1, <2>2, ServesPassed
<1>. QED
    BY <1>2, <1>3, <1>4, <1>5, <1>6

LEMMA ServesAside ==
    ASSUME TypeOK, TypeOK', [Replicated!Next]_held, ToServerSound, NEW k \in Conn, Aside(k)
    PROVE  ToServerSound'
<1>1. /\ status'[k] \in {"dialled", "left", "done"}
      /\ to_client'[k] = to_client[k] /\ known' = known
    BY DEF Aside, TypeOK, clients
<1>2. Serves(k)
    BY DEF ToServerSound
<1>3. GreetsWithin(to_client'[k], held'[Server])
    BY <1>1, <1>2, ServesAfter
<1>4. Serves(k)'
    BY <1>1, <1>2, <1>3, ServesStep
<1>5. \A l \in Conn : l # k => /\ to_client'[l] = to_client[l]
                               /\ to_server'[l] = to_server[l]
                               /\ known'[l] = known[l] /\ remote'[l] = remote[l]
                               /\ status'[l] = status[l]
                               /\ held'[ClientOf[l]] = held[ClientOf[l]]
    BY DEF Aside, TypeOK, clients
<1>. QED
    BY <1>4, <1>5, ServesOne

\* The server's greeting says what it has.
LEMMA ServesConnect ==
    ASSUME TypeOK, TypeOK', [Replicated!Next]_held, EndsInv, ToServerSound,
           NEW k \in Conn, Accepts(k)
    PROVE  ToServerSound'
<1>1. /\ ~known'[k] /\ to_server'[k] = <<>> /\ held' = held
      /\ \/ to_client'[k] = Answer(k)
         \/ to_client'[k] = <<>>
    <2>1. /\ status[k] \in {"dialled", "left"} /\ held' = held /\ known' = known
          /\ to_server' = to_server
          /\ \/ to_client'[k] = Answer(k)
             \/ status[k] = "left" /\ to_client'[k] = to_client[k]
        BY DEF Accepts, TypeOK, clients
    <2>2. ~known[k] /\ to_server[k] = <<>> /\ (to_client[k] # <<>> => status[k] = "up")
        BY <2>1 DEF EndsInv, EndSound
    <2>. QED
        BY <2>1, <2>2
<1>2. PICK h : h = held'[Server]
    OBVIOUS
<1>3. h \in HasMaps /\ h = held[Server]
    BY <1>1, <1>2, StoresGrow
<1>4. GreetsWithin(to_client'[k], h)
    <2>1. PICK map : map = Subset(held[Server], BraidOf[k])
        OBVIOUS
    <2>2. map \in Maps
        BY <2>1, SubsetType, ConstantsAssumption DEF TypeOK, Maps
    <2>3. Covers(h, map)
        BY <1>3, <2>1 DEF Covers, Subset, HasMaps
    <2>4. <<>> \in Seq(Message) /\ Accept \in Message
        BY MessageFacts
    <2>5. <<Accept>> \in Seq(Message) /\ <<Greeting(map)>> \in Seq(Message)
        BY <2>2, MessageFacts
    <2>6. Append(<<>>, Greeting(map)) = <<Greeting(map)>>
        BY <2>2, MessageFacts
    <2>7. GreetsWithin(<<Greeting(map)>>, h)
        BY <1>3, <2>2, <2>3, <2>4, <2>6, GreetsEmpty, GreetsGreeting
    <2>8. GreetsWithin(<<Accept>>, h)
        BY <2>4 DEF GreetsWithin, Accept
    <2>9. GreetsWithin(<<Accept>> \o <<>>, h) /\ GreetsWithin(<<Accept>> \o <<Greeting(map)>>, h)
        BY <2>4, <2>5, <2>7, <2>8, GreetsEmpty, GreetsConcat
    <2>10. Answer(k) = <<Accept>> \o <<>> \/ Answer(k) = <<Accept>> \o <<Greeting(map)>>
        BY <2>1 DEF Answer
    <2>. QED
        BY <1>1, <2>9, <2>10, GreetsEmpty
<1>5. Serves(k)'
    BY <1>1, <1>2, <1>4, NoGapEmpty DEF Serves
<1>6. \A l \in Conn : l # k => /\ to_client'[l] = to_client[l]
                               /\ to_server'[l] = to_server[l]
                               /\ known'[l] = known[l] /\ remote'[l] = remote[l]
                               /\ status'[l] = status[l]
    BY DEF Accepts, TypeOK, clients
<1>. QED
    BY <1>1, <1>5, <1>6, ServesOne

LEMMA ServesLose ==
    ASSUME TypeOK, TypeOK', [Replicated!Next]_held, ToServerSound, NEW k \in Conn, Lose(k)
    PROVE  ToServerSound'
<1>1. PICK n \in 0 .. Len(to_server[k]) :
            to_server' = [to_server EXCEPT ![k] = SubSeq(@, 1, n)]
    BY DEF Lose
<1>2. /\ to_server'[k] = SubSeq(to_server[k], 1, n)
      /\ to_client'[k] = <<>> /\ ~known'[k] /\ held' = held
      /\ status[k] = "up"
    BY <1>1 DEF Lose, TypeOK
<1>3. to_server[k] \in Seq(Message) /\ NoGap(to_server[k], held'[Server])
    BY <1>2, ServesAfter DEF ToServerSound
<1>4. NoGap(to_server'[k], held'[Server])
    BY <1>2, <1>3, NoGapSubSeq
<1>5. Serves(k)'
    BY <1>2, <1>4, GreetsEmpty DEF Serves
<1>6. \A l \in Conn : l # k => /\ to_client'[l] = to_client[l]
                               /\ to_server'[l] = to_server[l]
                               /\ known'[l] = known[l] /\ remote'[l] = remote[l]
                               /\ status'[l] = status[l]
    BY <1>1 DEF Lose, TypeOK
<1>. QED
    BY <1>2, <1>5, <1>6, ServesOne

LEMMA ServesReceiveEnd ==
    ASSUME TypeOK, TypeOK', [Replicated!Next]_held, ToServerSound, NEW k \in Conn, ReceiveEnd(k)
    PROVE  ToServerSound'
<1>1. /\ to_client' = to_client /\ to_server' = to_server /\ known' = known /\ remote' = remote
      /\ held' = held /\ status' = [status EXCEPT ![k] = "done"]
    BY DEF ReceiveEnd, clients
<1>2. status'[k] = "done" /\ \A l \in Conn : l # k => status'[l] = status[l]
    BY <1>1 DEF TypeOK
<1>3. Serves(k)'
    BY <1>1, <1>2 DEF ToServerSound, Serves
<1>. QED
    BY <1>1, <1>2, <1>3, ServesOne

LEMMA ServesReceiveGreeting ==
    ASSUME TypeOK, TypeOK', [Replicated!Next]_held, ToServerSound,
           NEW k \in Conn, ReceiveGreeting(k)
    PROVE  ToServerSound'
<1>1. PICK from : from = Head(to_server[k]).has
    OBVIOUS
<1>2. PICK to : to = Allowed(BraidOf[k])
    OBVIOUS
<1>3. /\ from \in Maps /\ to \in Maps /\ to_server[k] # <<>>
      /\ Head(to_server[k]).type = "greeting"
    BY <1>1, <1>2, Received, MessageFacts, AllowedType, ConstantsAssumption
    DEF ReceiveGreeting, Readable
<1>4. PICK sent \in Between(from, to) :
        \/ Stops
        \/ /\ Reads(k) /\ UNCHANGED clients
           /\ \/ /\ to_client' = [to_client EXCEPT ![k] = IF status[k] = "up" THEN @ \o sent ELSE @]
                 /\ UNCHANGED status
              \/ /\ status' = [status EXCEPT ![k] = "closed"]
                 /\ UNCHANGED to_client
    BY <1>1, <1>2, StopsFor DEF ReceiveGreeting
<1>5. CASE Stops
    BY <1>5, ServesStop
<1>6. CASE ~Stops
    <2>1. /\ held' = held /\ known' = known /\ remote' = remote
          /\ to_server'[k] = Tail(to_server[k])
          /\ \A l \in Conn : l # k => to_server'[l] = to_server[l]
        <3>1. Reads(k) /\ UNCHANGED clients
            BY <1>4, <1>6
        <3>. QED
            BY <3>1 DEF Reads, clients, TypeOK
    <2>2. /\ to_client'[k] = to_client[k] \/ to_client'[k] = to_client[k] \o sent
          /\ status'[k] = status[k] \/ status'[k] = "closed"
          /\ \A l \in Conn : l # k => to_client'[l] = to_client[l] /\ status'[l] = status[l]
        <3>1. CASE /\ to_client' = [to_client EXCEPT ![k] = IF status[k] = "up" THEN @ \o sent ELSE @]
                   /\ UNCHANGED status
            BY <3>1 DEF TypeOK
        <3>2. CASE status' = [status EXCEPT ![k] = "closed"] /\ UNCHANGED to_client
            BY <3>2 DEF TypeOK
        <3>. QED
            BY <1>4, <1>6, <3>1, <3>2
    <2>3. Serves(k)
        BY DEF ToServerSound
    <2>4. PICK h : h = held'[Server]
        OBVIOUS
    <2>5. to_client[k] \in Seq(Message) /\ GreetsWithin(to_client[k], h)
        BY <2>3, <2>4, ServesAfter
    <2>6. sent \in Seq(Message) /\ GreetsWithin(sent, h)
        BY <1>3, BetweenElements, BetweenGreets
    <2>7. GreetsWithin(to_client'[k], h)
        BY <2>2, <2>5, <2>6, GreetsConcat
    <2>8. Serves(k)'
        BY <1>3, <2>1, <2>2, <2>3, <2>4, <2>7, ServesStep
    <2>. QED
        BY <2>1, <2>2, <2>8, ServesOne
<1>. QED
    BY <1>5, <1>6

\* One message in a queue is no gap, if it is no bundle.
LEMMA NoGapGreeting ==
    ASSUME NEW s \in Seq(Message), NEW h, NoGap(s, h), NEW map \in Maps
    PROVE  /\ NoGap(Append(s, Greeting(map)), h)
           /\ \A other : Tracks(other, s, h) => Tracks(other, Append(s, Greeting(map)), h)
<1>1. Greeting(map) \in Message /\ Greeting(map).type = "greeting"
    BY MessageFacts
<1>2. /\ <<Greeting(map)>> \in Seq(Message)
      /\ Append(s, Greeting(map)) = s \o <<Greeting(map)>>
    BY <1>1, OneMessage
<1>3. NoGap(<<Greeting(map)>>, h)
    BY <1>1 DEF NoGap
<1>. QED
    BY <1>2, <1>3, NoGapConcat, TracksConcat

\* A client sends the next bundle of a chain to the server that it takes to have
\* all before it.
LEMMA ServesObtain ==
    ASSUME TypeOK, TypeOK', [Replicated!Next]_held, ToServerSound,
           NEW c \in Client, NEW ch \in Chain, Obtain(c, ch)
    PROVE  ToServerSound'
<1> SUFFICES ASSUME NEW l \in Conn PROVE Serves(l)'
    BY DEF ToServerSound
<1>1. PICK i : i = held[c][ch] + 1
    OBVIOUS
<1>2. i \in 1 .. MaxLen /\ held[c][ch] = i - 1 /\ i \in Nat
    <2>1. held[c][ch] \in 0 .. MaxLen /\ held[c][ch] < MaxLen
        BY DEF TypeOK, Obtain
    <2>. QED
        BY <1>1, <2>1, Bounds
<1>3. held' = [held EXCEPT ![c][ch] = i]
    BY <1>1 DEF Obtain, TypeOK
<1>4. /\ known' = known /\ status' = status /\ to_client' = to_client
      /\ IF ClientOf[l] = c /\ status[l] = "up" /\ known[l] /\ ~has(remote[l], ch, i)
         THEN /\ to_server'[l] = Append(to_server[l], Bundle(ch, i))
              /\ remote'[l] = mark_as_having(remote[l], ch, i)
         ELSE to_server'[l] = to_server[l] /\ remote'[l] = remote[l]
    BY <1>1 DEF Obtain, Sends
<1>5. Serves(l)
    BY DEF ToServerSound
<1>6. PICK h : h = held'[Server]
    OBVIOUS
<1>7. PICK s : s = to_server[l]
    OBVIOUS
<1>8. PICK map : map = remote[l]
    OBVIOUS
<1>9. /\ h \in HasMaps /\ s \in Seq(Message) /\ map \in Maps
      /\ status[l] \in {"up", "lost"} => NoGap(s, h)
      /\ GreetsWithin(to_client[l], h)
      /\ known[l] /\ status[l] = "up" => Tracks(map, s, h)
    BY <1>5, <1>6, <1>7, <1>8, ServesAfter
<1>10. CASE ~(ClientOf[l] = c /\ status[l] = "up" /\ known[l])
    <2>1. known[l] /\ status[l] = "up" => held'[ClientOf[l]] = held[ClientOf[l]]
        BY <1>3, <1>10, ConstantsAssumption DEF TypeOK
    <2>. QED
        BY <1>4, <1>5, <1>6, <1>9, <1>10, <2>1, ServesStep
<1>11. CASE ClientOf[l] = c /\ status[l] = "up" /\ known[l]
    <2>1. PICK own : own = held[c]
        OBVIOUS
    <2>2. own \in Maps /\ Covers(map, own) /\ own[ch] = i - 1
        BY <1>2, <1>5, <1>8, <1>11, <2>1 DEF Serves, TypeOK, Maps
    <2>3. PICK now : now = held'[c]
        OBVIOUS
    <2>4. now = [own EXCEPT ![ch] = i]
        BY <1>3, <2>1, <2>3 DEF TypeOK
    <2>5. map[ch] \in Nat /\ i - 1 <= map[ch]
        BY <1>9, <2>2, Bounds DEF Covers, Maps
    <2>6. CASE has(map, ch, i)
        <3>1. Covers(map, now)
            BY <2>2, <2>4, <2>6 DEF Covers, has, Maps
        <3>2. to_server'[l] = s /\ remote'[l] = map
            BY <1>4, <1>7, <1>8, <2>6
        <3>. QED
            BY <1>4, <1>6, <1>9, <1>11, <2>3, <3>1, <3>2 DEF Serves
    <2>7. CASE ~has(map, ch, i)
        <3>1. map[ch] = i - 1
            BY <1>2, <2>5, <2>7 DEF has
        <3>2. /\ to_server'[l] = Append(s, Bundle(ch, i))
              /\ remote'[l] = mark_as_having(map, ch, i)
            BY <1>4, <1>7, <1>8, <1>11, <2>7
        <3>3. NoGap(s, h) /\ Tracks(map, s, h)
            BY <1>9, <1>11
        <3>4. /\ NoGap(Append(s, Bundle(ch, i)), h)
              /\ Tracks(mark_as_having(map, ch, i), Append(s, Bundle(ch, i)), h)
            BY <1>2, <1>9, <3>1, <3>3, NextIsSent
        <3>5. Covers(mark_as_having(map, ch, i), now)
            <4> SUFFICES ASSUME NEW d \in Chain PROVE now[d] <= mark_as_having(map, ch, i)[d]
                BY DEF Covers
            <4>1. mark_as_having(map, ch, i)[d] = IF d = ch THEN i ELSE map[d]
                BY <1>2, <1>9, <3>1 DEF mark_as_having, Maps
            <4>2. now[d] = IF d = ch THEN i ELSE own[d]
                BY <2>2, <2>4 DEF Maps
            <4>. QED
                BY <1>2, <2>2, <4>1, <4>2 DEF Covers
        <3>. QED
            BY <1>4, <1>6, <1>9, <1>11, <2>3, <3>2, <3>4, <3>5 DEF Serves
    <2>. QED
        BY <2>6, <2>7
<1>. QED
    BY <1>10, <1>11

\* A client that reads is up, and no other connection of its client is.
LEMMA ServesTakes ==
    ASSUME TypeOK, TypeOK', [Replicated!Next]_held, EndsInv, ToServerSound,
           NEW k \in Conn, NEW type, Takes(k, type), Serves(k)',
           \A l \in Conn : l # k => /\ to_server'[l] = to_server[l]
                                    /\ known'[l] = known[l] /\ remote'[l] = remote[l],
           \A c \in Client : c # ClientOf[k] => held'[c] = held[c]
    PROVE  ToServerSound'
<1>1. status[k] = "up"
    BY DEF Takes, EndsInv, EndSound
<1>2. \A l \in Conn : l # k => /\ to_client'[l] = to_client[l] /\ status'[l] = status[l]
    BY DEF Takes, TypeOK
<1>3. \A l \in Conn : l # k /\ status[l] = "up" => held'[ClientOf[l]] = held[ClientOf[l]]
    BY <1>1, ConstantsAssumption DEF EndsInv, OneUp
<1>. QED
    BY <1>2, <1>3, ServesOne

LEMMA ServesClientReceives ==
    ASSUME TypeOK, TypeOK', [Replicated!Next]_held, EndsInv, SentIsHeld, ToServerSound,
           NEW k \in Conn,
           ClientReceivesAccept(k) \/ ClientReceivesGreeting(k) \/ ClientReceivesBundle(k)
    PROVE  ToServerSound'
<1>1. PICK type : Takes(k, type)
    BY DEF ClientReceivesAccept, ClientReceivesGreeting, ClientReceivesBundle
<1>2. PICK h : h = held'[Server]
    OBVIOUS
<1>3. PICK s : s = to_server[k]
    OBVIOUS
<1>4. PICK t : t = to_client[k]
    OBVIOUS
<1>5. Serves(k) /\ status[k] = "up" /\ t # <<>>
    BY <1>1, <1>4 DEF ToServerSound, Takes, EndsInv, EndSound
<1>6. /\ h \in HasMaps /\ s \in Seq(Message) /\ t \in Seq(Message) /\ remote[k] \in Maps
      /\ NoGap(s, h) /\ GreetsWithin(t, h)
      /\ known[k] => Tracks(remote[k], s, h)
    BY <1>2, <1>3, <1>4, <1>5, ServesAfter
<1>7. to_client'[k] = Tail(t) /\ status'[k] = "up" /\ Head(t) = Head(to_client[k])
    BY <1>1, <1>4, <1>5 DEF Takes, TypeOK
<1>8. GreetsWithin(to_client'[k], h)
    BY <1>5, <1>6, <1>7, GreetsTail
<1>9. PICK c : c = ClientOf[k]
    OBVIOUS
<1>10. c \in Client /\ c # Server
    BY <1>9, ConstantsAssumption
<1>11. CASE ClientReceivesAccept(k)
    <2>1. PICK map : map = held[c]
        OBVIOUS
    <2>2. map \in Maps
        BY <1>10, <2>1 DEF TypeOK, Maps
    <2>3. /\ to_server' = [to_server EXCEPT ![k] = Append(@, Greeting(map))]
          /\ known' = known /\ remote' = remote /\ held' = held
        BY <1>9, <1>11, <2>1 DEF ClientReceivesAccept, clients
    <2>4. to_server'[k] = Append(s, Greeting(map))
        BY <1>3, <2>3 DEF TypeOK
    <2>5. NoGap(to_server'[k], h) /\ (known[k] => Tracks(remote[k], to_server'[k], h))
        BY <1>6, <2>2, <2>4, NoGapGreeting
    <2>6. Serves(k)'
        BY <1>2, <1>5, <1>8, <2>3, <2>5 DEF Serves
    <2>7. \A l \in Conn : l # k => to_server'[l] = to_server[l]
        BY <2>3 DEF TypeOK
    <2>. QED
        BY <1>1, <2>3, <2>6, <2>7, ServesTakes
<1>12. CASE ClientReceivesGreeting(k)
    <2>1. PICK map : map = Head(t).has
        OBVIOUS
    <2>2. PICK own : own = held[c]
        OBVIOUS
    <2>3. Head(t) \in Message /\ Head(t).type = "greeting"
        BY <1>7, <1>12, TakesType DEF ClientReceivesGreeting
    <2>4. map \in Maps /\ own \in Maps
        BY <1>10, <2>1, <2>2, <2>3, MessageFacts DEF TypeOK, Maps
    <2>5. PICK sent \in Between(map, own) :
            /\ to_server' = [to_server EXCEPT ![k] = @ \o sent]
            /\ known' = [known EXCEPT ![k] = TRUE]
            /\ remote' = [remote EXCEPT ![k] = Greater(map, own)]
            /\ held' = held
        BY <1>7, <1>9, <1>12, <2>1, <2>2 DEF ClientReceivesGreeting
    <2>6. Covers(h, map)
        <3>1. Head(t) = t[1] /\ 1 \in 1 .. Len(t)
            BY <1>5, <1>6, HeadTailProperties, LenProperties
        <3>. QED
            BY <1>6, <2>1, <2>3, <3>1 DEF GreetsWithin, Covers
    <2>7. /\ sent \in Seq(Message) /\ NoGap(sent, h)
          /\ Tracks(Greater(map, own), s \o sent, h)
        BY <1>6, <2>4, <2>6, BetweenElements, BetweenNoGap, BetweenTracks
    <2>8. NoGap(s \o sent, h)
        BY <1>6, <2>7, NoGapConcat
    <2>9. Covers(Greater(map, own), own)
        <3>1. \A d \in Chain : map[d] \in Nat /\ own[d] \in Nat
            BY <2>4, Bounds DEF Maps
        <3>. QED
            BY <3>1 DEF Covers, Greater
    <2>10. to_server'[k] = s \o sent /\ remote'[k] = Greater(map, own)
        BY <1>3, <2>5 DEF TypeOK
    <2>11. held'[ClientOf[k]] = own
        BY <1>9, <2>2, <2>5
    <2>12. Serves(k)'
        BY <1>2, <1>8, <2>7, <2>8, <2>9, <2>10, <2>11 DEF Serves
    <2>13. \A l \in Conn : l # k => /\ to_server'[l] = to_server[l]
                                    /\ known'[l] = known[l] /\ remote'[l] = remote[l]
        BY <2>5 DEF TypeOK
    <2>. QED
        BY <1>1, <2>5, <2>12, <2>13, ServesTakes
<1>13. CASE ClientReceivesBundle(k)
    <2>1. PICK ch : ch = Head(t).chain
        OBVIOUS
    <2>2. PICK i : i = Head(t).number
        OBVIOUS
    <2>3. /\ to_server' = to_server /\ known' = known
          /\ remote' = IF known[k] THEN [remote EXCEPT ![k] = mark_as_having(@, ch, i)] ELSE remote
          /\ held' = IF is_needed(held[c][ch], i) THEN [held EXCEPT ![c][ch] = i] ELSE held
        BY <1>7, <1>9, <1>13, <2>1, <2>2 DEF ClientReceivesBundle
    <2>4. ch \in Chain /\ i \in 1 .. MaxLen /\ i <= held[Server][ch]
        <3>1. Head(t).type = "bundle"
            BY <1>7, <1>13, TakesType DEF ClientReceivesBundle
        <3>2. Fits(t, held[Server])
            BY <1>4 DEF SentIsHeld, ToClientHeld
        <3>. QED
            BY <1>5, <1>6, <2>1, <2>2, <3>1, <3>2, FirstIsHeld
    <2>5. held'[Server] = held[Server]
        BY <1>10, <2>3 DEF TypeOK
    <2>6. \A l \in Conn : l # k => remote'[l] = remote[l]
        BY <2>3 DEF TypeOK
    <2>7. \A d \in Client : d # c => held'[d] = held[d]
        BY <1>10, <2>3 DEF TypeOK
    <2>8. ASSUME known[k]
          PROVE  Covers(remote'[k], held'[c]) /\ Tracks(remote'[k], s, h)
        <3>1. PICK map : map = remote[k]
            OBVIOUS
        <3>2. remote'[k] = mark_as_having(map, ch, i) /\ map \in Maps
            BY <1>6, <2>3, <2>8, <3>1 DEF TypeOK
        <3>3. Tracks(map, s, h) /\ i <= h[ch]
            BY <1>2, <1>6, <2>4, <2>5, <2>8, <3>1
        <3>4. Tracks(mark_as_having(map, ch, i), s, h)
            BY <2>4, <3>2, <3>3, TracksMarked
        <3>5. Covers(map, held[c])
            BY <1>5, <1>9, <2>8, <3>1 DEF Serves
        <3>6. Covers(mark_as_having(map, ch, i), held'[c])
            <4> SUFFICES ASSUME NEW d \in Chain
                         PROVE  held'[c][d] <= mark_as_having(map, ch, i)[d]
                BY DEF Covers
            <4>1. /\ held[c][d] \in Nat /\ map[d] \in Nat /\ map[ch] \in Nat /\ i \in Nat
                  /\ held[c][d] <= map[d]
                BY <1>10, <2>4, <3>2, <3>5, Bounds DEF TypeOK, Maps, Covers
            <4>2. held'[c][d] = held[c][d] \/ (d = ch /\ held'[c][d] = i)
                BY <1>10, <2>3 DEF TypeOK
            <4>3. map[d] <= mark_as_having(map, ch, i)[d] /\ i <= mark_as_having(map, ch, i)[ch]
                BY <2>4, <3>2, <4>1 DEF mark_as_having, Maps
            <4>4. mark_as_having(map, ch, i)[d] \in Nat
                BY <2>4, <3>2, MarkType, Bounds DEF Maps
            <4>. QED
                BY <4>1, <4>2, <4>3, <4>4
        <3>. QED
            BY <3>2, <3>4, <3>6
    <2>9. Serves(k)'
        BY <1>2, <1>3, <1>6, <1>8, <1>9, <2>3, <2>8 DEF Serves
    <2>. QED
        BY <1>1, <1>9, <2>3, <2>6, <2>7, <2>9, ServesTakes
<1>. QED
    BY <1>11, <1>12, <1>13

\* Every step keeps what is sent to the server sound.
LEMMA NextServes ==
    ASSUME TypeOK, TypeOK', [Replicated!Next]_held, IndexInv, SentIsHeld, EndsInv,
           ToServerSound, [Next]_vars
    PROVE  ToServerSound'
<1>1. CASE UNCHANGED vars
    BY <1>1, ServesSame DEF vars
<1>2. ASSUME NEW ch \in Chain, RelayReceives(ch) PROVE ToServerSound'
    BY <1>2, ServesRelayReceives
<1>3. ASSUME NEW ch \in Chain, NEW c \in Client, Obtain(c, ch) PROVE ToServerSound'
    BY <1>3, ServesObtain
<1>4. ASSUME NEW k \in Conn, Connect(k) \/ Lose(k) \/ ReceiveEnd(k) PROVE ToServerSound'
    BY <1>4, ConnectCases, ServesConnect, ServesStop, ServesLose, ServesReceiveEnd
<1>5. ASSUME NEW k \in Conn, ReceiveGreeting(k) \/ ReceiveBundle(k) PROVE ToServerSound'
    BY <1>5, ServesReceiveGreeting, ServesReceiveBundle
<1>6. ASSUME NEW k \in Conn,
             ClientReceivesAccept(k) \/ ClientReceivesGreeting(k) \/ ClientReceivesBundle(k)
      PROVE  ToServerSound'
    BY <1>6, ServesClientReceives
<1>7. ASSUME NEW k \in Conn, Dial(k) \/ Leave(k) \/ MissRequest(k) \/ Reject(k) \/ MissEnd(k)
      PROVE  ToServerSound'
    BY <1>7, AsideCases, ServesAside, ServesStop
<1>. QED
    BY <1>1, <1>2, <1>3, <1>4, <1>5, <1>6, <1>7 DEF Next

-----------------------------------------------------------------------------
(* Why the server ends. *)

\* Passing on a bundle raises at a connection in the way of its chain: who is up to
\* date is not taken to lack what comes before the next bundle.
LEMMA RaisesIsKnown ==
    ASSUME TypeOK, EndsInv, NobodyIsBehind, ~crashed,
           NEW ch \in Chain, NEW i \in 1 .. MaxLen, Raises(ch, i)
    PROVE  \E k \in Conn : InTheWay(k, ch)
<1>1. PICK k \in Conn :
        \/ k \in members[BraidOf[k]] \ on_braid
        \/ /\ k \in on_braid /\ tracked[k]
           /\ \/ status[k] = "closed" /\ tracker[k][ch] <= i - 1
              \/ /\ i # 1 /\ InBraid(BraidOf[k], ch) /\ i < limit[BraidOf[k]][ch]
                 /\ tracker[k][ch] < i - 1
    BY DEF Raises
<1>2. held[Server][ch] = i - 1
    BY DEF Raises
<1>3. CASE k \in members[BraidOf[k]] \ on_braid
    BY <1>3 DEF EndsInv, EndSound, InTheWay
<1>4. CASE k \in on_braid /\ tracked[k] /\ status[k] = "closed" /\ tracker[k][ch] <= i - 1
    BY <1>2, <1>4 DEF InTheWay
<1>5. CASE /\ k \in on_braid /\ tracked[k] /\ InBraid(BraidOf[k], ch)
           /\ i < limit[BraidOf[k]][ch] /\ tracker[k][ch] < i - 1
    <2>1. /\ held[Server][ch] \in Nat /\ limit[BraidOf[k]][ch] \in Nat
          /\ tracker[k][ch] \in Nat /\ i \in Nat
        BY ServedTypes, Bounds
    <2>2. ~(Lesser(held[Server][ch], limit[BraidOf[k]][ch] - 1) <= tracker[k][ch])
        BY <1>2, <1>5, <2>1 DEF Lesser
    <2>3. <<BraidOf[k], ch>> \in late
        BY <1>5, <2>2 DEF NobodyIsBehind, Served
    <2>. QED
        BY <1>2, <1>5, <2>3 DEF InTheWay
<1>. QED
    BY <1>1, <1>3, <1>4, <1>5

\* A bundle that the server reads continues what it has.
LEMMA NoneIsMissing ==
    ASSUME TypeOK, ToServerSound, NEW k \in Conn, NEW ch \in Chain, NEW i \in 1 .. MaxLen,
           to_server[k] # <<>>, Head(to_server[k]) = Bundle(ch, i), status[k] \in {"up", "lost"}
    PROVE  ~MissingPrior(held[Server][ch], i)
<1>1. to_server[k] \in Seq(Message) /\ NoGap(to_server[k], held[Server])
    BY DEF TypeOK, ToServerSound, Serves
<1>2. Head(to_server[k]) = to_server[k][1] /\ 1 \in 1 .. Len(to_server[k])
    BY <1>1, HeadTailProperties, LenProperties
<1>3. /\ to_server[k][1].type = "bundle" /\ to_server[k][1].chain = ch
      /\ to_server[k][1].number = i
    BY <1>2, MessageFacts
<1>4. i <= held[Server][ch] + 1
    BY <1>1, <1>2, <1>3 DEF NoGap
<1>5. i \in Nat /\ held[Server][ch] \in Nat
    BY Bounds DEF TypeOK
<1>. QED
    BY <1>4, <1>5 DEF MissingPrior, AlreadySeen

\* Every step that ends the server does it for a known reason.
LEMMA NextKnown ==
    ASSUME TypeOK, IndexInv, EndsInv, NobodyIsBehind, ToServerSound,
           OnlyKnownCrashes, [Next]_vars
    PROVE  OnlyKnownCrashes'
<1>1. CASE UNCHANGED vars
    BY <1>1 DEF OnlyKnownCrashes, InTheWay, index, vars
<1>2. CASE Next
    <2>1. ~crashed
        BY <1>2, StillRunning
    <2>2. ASSUME SendFails PROVE OnlyKnownCrashes'
        <3>1. PICK to \in SUBSET Conn : SendRaises(to)
            BY <2>2 DEF SendFails
        <3>2. /\ \E k \in Conn : status[k] \in {"left", "lost"}
              /\ cause' = Sending /\ status' = status
            BY <3>1 DEF SendRaises, Crashes
        <3>. QED
            BY <3>2 DEF OnlyKnownCrashes
    <2>3. ASSUME NEW ch \in Chain, NEW i \in 1 .. MaxLen,
                 Crashes(Passing(ch)), Raises(ch, i)
          PROVE  OnlyKnownCrashes'
        <3>1. PICK k \in Conn : InTheWay(k, ch)
            BY <2>1, <2>3, RaisesIsKnown
        <3>2. cause' = Passing(ch) /\ UNCHANGED <<held, status, tracked, tracker, index, late>>
            BY <2>3 DEF Crashes
        <3>3. InTheWay(k, ch)'
            BY <3>1, <3>2 DEF InTheWay, index
        <3>. QED
            BY <3>2, <3>3 DEF OnlyKnownCrashes
    <2>4. ASSUME crashed' = crashed PROVE OnlyKnownCrashes'
        BY <2>1, <2>4 DEF OnlyKnownCrashes
    <2>5. ASSUME NEW ch \in Chain, RelayReceives(ch) PROVE OnlyKnownCrashes'
        <3>1. PICK i \in 1 .. MaxLen :
                (Crashes(Passing(ch)) /\ Raises(ch, i)) \/ SendFails \/ crashed' = crashed
            BY <2>5, RelayReceivesCases DEF Passed
        <3>. QED
            BY <2>2, <2>3, <2>4, <3>1
    <2>6. ASSUME NEW k \in Conn, ReceiveBundle(k) PROVE OnlyKnownCrashes'
        <3>1. PICK ch \in Chain : \E i \in 1 .. MaxLen :
                /\ to_server[k] # <<>> /\ Head(to_server[k]) = Bundle(ch, i)
                /\ status[k] \in {"up", "lost"}
                /\ \/ Ignored(k, ch, i) \/ Ended(k) \/ SendFails \/ Passed(ch, i, {k})
                   \/ /\ Crashes(Passing(ch))
                      /\ MissingPrior(held[Server][ch], i) \/ Raises(ch, i)
            BY <2>6, ReceiveBundleCases
        <3>2. PICK i \in 1 .. MaxLen :
                /\ to_server[k] # <<>> /\ Head(to_server[k]) = Bundle(ch, i)
                /\ status[k] \in {"up", "lost"}
                /\ \/ Ignored(k, ch, i) \/ Ended(k) \/ SendFails \/ Passed(ch, i, {k})
                   \/ /\ Crashes(Passing(ch))
                      /\ MissingPrior(held[Server][ch], i) \/ Raises(ch, i)
            BY <3>1
        <3>3. ~MissingPrior(held[Server][ch], i)
            BY <3>2, NoneIsMissing
        <3>4. Ignored(k, ch, i) \/ Ended(k) \/ Passed(ch, i, {k}) => crashed' = crashed
            BY DEF Ignored, Ended, Passed
        <3>. QED
            BY <2>2, <2>3, <2>4, <3>2, <3>3, <3>4
    <2>7. ASSUME NEW k \in Conn, ReceiveGreeting(k) \/ Connect(k) \/ Reject(k)
          PROVE  OnlyKnownCrashes'
        <3>1. SendRaises({k}) \/ crashed' = crashed
            BY <2>7 DEF ReceiveGreeting, Connect, Reject
        <3>. QED
            BY <2>2, <2>4, <3>1 DEF SendFails
    <2>8. ASSUME NEW k \in Conn, MissRequest(k) \/ MissEnd(k) PROVE OnlyKnownCrashes'
        <3>1. CASE Crashes(Reading) \/ Crashes(Sending)
            <4>1. status'[k] \in {"left", "lost"} /\ cause' \in {Reading, Sending}
                BY <2>8, <3>1 DEF MissRequest, MissEnd, Crashes
            <4>. QED
                BY <4>1 DEF OnlyKnownCrashes
        <3>2. CASE ~(Crashes(Reading) \/ Crashes(Sending))
            BY <2>4, <2>8, <3>2 DEF MissRequest, MissEnd
        <3>. QED
            BY <3>1, <3>2
    <2>9. ASSUME NEW k \in Conn,
                 \/ Dial(k) \/ Leave(k) \/ Lose(k) \/ ReceiveEnd(k)
                 \/ ClientReceivesAccept(k) \/ ClientReceivesGreeting(k) \/ ClientReceivesBundle(k)
          PROVE  OnlyKnownCrashes'
        BY <2>4, <2>9 DEF Dial, Leave, Lose, ReceiveEnd, ClientReceivesAccept,
                          ClientReceivesGreeting, ClientReceivesBundle, Takes
    <2>10. ASSUME NEW c \in Client, NEW ch \in Chain, Obtain(c, ch) PROVE OnlyKnownCrashes'
        BY <2>4, <2>10 DEF Obtain
    <2>. QED
        BY <1>2, <2>5, <2>6, <2>7, <2>8, <2>9, <2>10 DEF Next
<1>. QED
    BY <1>1, <1>2

-----------------------------------------------------------------------------
(* The theorems. *)

\* What the proofs above need of one another.
IInv == /\ TypeOK /\ IndexInv /\ SentIsHeld /\ EndsInv
        /\ ToClientsSound /\ ToServerSound
        /\ NobodyIsBehind /\ OnlyKnownCrashes

LEMMA InitIInv == Init => IInv
<1> SUFFICES ASSUME Init PROVE IInv
    OBVIOUS
<1>1. TypeOK
    BY InitType
<1>2. IndexInv
    BY ConstantsAssumption DEF Init, IndexInv, MembersAreOnBraid, IndexAgrees
<1>3. SentIsHeld
    BY FitsEmpty DEF Init, SentIsHeld, ToServerHeld, ToClientHeld
<1>4. EndsInv
    <2>1. ASSUME NEW k \in Conn PROVE EndSound(k)
        BY ConstantsAssumption DEF Init, EndSound
    <2>2. ASSUME NEW k \in Conn PROVE Silent(k)
        BY NoneOfEmpty DEF Init, Silent
    <2>3. OneUp
        BY DEF Init, OneUp
    <2>. QED
        BY <2>1, <2>2, <2>3 DEF EndsInv
<1>5. ToClientsSound
    BY NoGapEmpty, GreetsEmpty DEF Init, ToClientsSound, Delivers
<1>6. ToServerSound
    BY NoGapEmpty, GreetsEmpty DEF Init, ToServerSound, Serves
<1>7. NobodyIsBehind
    BY DEF Init, NobodyIsBehind, Served
<1>8. OnlyKnownCrashes
    BY DEF Init, OnlyKnownCrashes
<1>. QED
    BY <1>1, <1>2, <1>3, <1>4, <1>5, <1>6, <1>7, <1>8 DEF IInv

LEMMA NextIInv == IInv /\ [Next]_vars => IInv'
<1> SUFFICES ASSUME IInv, [Next]_vars PROVE IInv'
    OBVIOUS
<1>1. /\ TypeOK /\ IndexInv /\ SentIsHeld /\ EndsInv
      /\ ToClientsSound /\ ToServerSound
      /\ NobodyIsBehind /\ OnlyKnownCrashes
    BY DEF IInv
<1>2. TypeOK'
    BY <1>1, NextType
<1>3. IndexInv'
    BY <1>1, NextIndex
<1>4. SentIsHeld'
    BY <1>1, <1>2, NextSent
<1>5. [Replicated!Next]_held
    BY <1>1, NextRefines
<1>6. EndsInv'
    BY <1>1, <1>2, NextEnds
<1>7. ToClientsSound'
    BY <1>1, <1>2, <1>5, NextDelivers
<1>8. ToServerSound'
    BY <1>1, <1>2, <1>5, NextServes
<1>9. NobodyIsBehind'
    BY <1>1, <1>2, <1>3, NextServed
<1>10. OnlyKnownCrashes'
    BY <1>1, NextKnown
<1>. QED
    BY <1>2, <1>3, <1>4, <1>6, <1>7, <1>8, <1>9, <1>10 DEF IInv

\* The invariant holds in every behaviour of the server and its clients.
THEOREM AlwaysSound == Spec => []IInv
BY InitIInv, NextIInv, PTL DEF Spec

\* NoGapToClient: whatever order greetings, their answers, bundles of others and
\* bundles from elsewhere come in, no client is sent a bundle of a chain before
\* the one that precedes it.
THEOREM NoGapsReachClients == Spec => []NoGapToClient
<1>1. IInv => NoGapToClient
    BY DeliversMeansNoGap DEF IInv
<1>. QED
    BY <1>1, AlwaysSound, PTL

\* CaughtUp: a client that has greeted the server was sent, or has, all that the
\* server's store has of its braid, except for chains that joined the braid late.
THEOREM ClientsAreCaughtUp == Spec => []CaughtUp
<1>1. IInv => CaughtUp
    BY ServedMeansCaughtUp DEF IInv
<1>. QED
    BY <1>1, AlwaysSound, PTL

\* OnlyKnownCrashes: the server's loop ends only when it reads from, or sends to, a
\* client that is gone, or when it passes on a bundle at a connection that is in the
\* way of its chain: closed after a failed send, behind because the chain joined its
\* braid late, or kept in the index for ever because its braid was empty when it
\* ended.  No bundle that the server reads has a gap before it.
THEOREM KnownCrashesOnly == Spec => []OnlyKnownCrashes
<1>1. IInv => OnlyKnownCrashes
    BY DEF IInv
<1>. QED
    BY <1>1, AlwaysSound, PTL
=============================================================================
