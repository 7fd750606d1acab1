--------------------------- MODULE PeerSyncProofs ---------------------------
(***************************************************************************)
(* Proofs about PeerSync, for any number of instances, chains, connections *)
(* and bundles: what is sent, that PeerSync implements ReplicatedChains,   *)
(* and who is offered bundles.                                             *)
(***************************************************************************)
EXTENDS PeerSync, TLAPS, SequenceTheorems, FiniteSetTheorems

-----------------------------------------------------------------------------
(* The ends of a connection. *)

\* The other end of an end is the other end of the same connection, and the
\* two belong to different instances.
LEMMA OtherEnd ==
    ASSUME NEW e \in End
    PROVE  /\ Other(e) \in End
           /\ Other(e) # e
           /\ Other(Other(e)) = e
           /\ Other(e)[1] = e[1]
           /\ e[1] \in Conn
           /\ Owner(e) \in Instance
           /\ Owner(Other(e)) \in Instance
           /\ Owner(Other(e)) # Owner(e)
BY ConstantsAssumption DEF End, Other, Owner

\* The two ends of a connection are the client's and the server's.
LEMMA BothEnds ==
    ASSUME NEW k \in Conn
    PROVE  <<k, "client">> \in End /\ <<k, "server">> \in End
BY DEF End

-----------------------------------------------------------------------------
(* Messages. *)

\* Bundles, the acceptance and greetings are messages, and are told apart by
\* their type.
LEMMA MessageTypes ==
    /\ Accept \in Message
    /\ Accept.type = "accept"
    /\ \A map \in HasMaps : Greeting(map) \in Message
    /\ \A c \in Chain, i \in Nat : Bundle(c, i) \in Bundles
    /\ Bundles \subseteq Message
    /\ \A m \in Message : m.type = "bundle" =>
          /\ m.chain \in Chain
          /\ m.number \in Nat
          /\ m = Bundle(m.chain, m.number)
    /\ \A m \in Message : m.type = "greeting" => m.has \in HasMaps
    /\ \A map : Greeting(map).type = "greeting" /\ Greeting(map).has = map
    /\ \A c, i : /\ Bundle(c, i).type = "bundle"
                 /\ Bundle(c, i).chain = c
                 /\ Bundle(c, i).number = i
BY DEF Message, Bundles, Accept, Greeting, Bundle

\* mark_as_having keeps a map a map, and raises one entry to i.
LEMMA MarkAsHaving ==
    ASSUME NEW map \in HasMaps, NEW c \in Chain, NEW i \in Nat
    PROVE  /\ mark_as_having(map, c, i) \in HasMaps
           /\ mark_as_having(map, c, i)[c] = IF map[c] < i THEN i ELSE map[c]
           /\ \A d \in Chain : d # c => mark_as_having(map, c, i)[d] = map[d]
BY DEF mark_as_having, HasMaps
-----------------------------------------------------------------------------
(* Queues. *)

\* a has at least what b has, of every chain.
AtLeast(x, y) == \A c \in Chain : y[c] <= x[c]

\* A queue without gaps stays without gaps when the reader's store grows.
LEMMA NoGapGrows ==
    ASSUME NEW s \in Seq(Message), NEW h \in HasMaps, NEW g \in HasMaps,
           AtLeast(g, h), NoGap(s, h)
    PROVE  NoGap(s, g)
<1> SUFFICES ASSUME NEW n \in 1 .. Len(s), s[n].type = "bundle"
             PROVE  \/ s[n].number <= g[s[n].chain] + 1
                    \/ \E m \in 1 .. (n - 1) :
                          s[m] = Bundle(s[n].chain, s[n].number - 1)
    BY DEF NoGap
<1>1. s[n] \in Message
    BY ElementOfSeq
<1>2. s[n].chain \in Chain /\ s[n].number \in Nat
    BY <1>1, MessageTypes
<1>3. h[s[n].chain] <= g[s[n].chain]
    BY <1>2 DEF AtLeast
<1>4. \/ s[n].number <= h[s[n].chain] + 1
      \/ \E m \in 1 .. (n - 1) : s[m] = Bundle(s[n].chain, s[n].number - 1)
    BY DEF NoGap
<1>5. h[s[n].chain] \in Nat /\ g[s[n].chain] \in Nat
    BY <1>2 DEF HasMaps
<1>6. CASE s[n].number <= h[s[n].chain] + 1
    BY <1>2, <1>3, <1>5, <1>6
<1>. QED
    BY <1>4, <1>6

\* The empty queue has no gaps.
LEMMA NoGapEmpty == \A h : NoGap(<<>>, h)
BY DEF NoGap

\* Reading the first message leaves no gap, if what it carries is held.
LEMMA NoGapTail ==
    ASSUME NEW s \in Seq(Message), NEW h \in HasMaps, s # <<>>, NoGap(s, h),
           Head(s).type = "bundle" => Head(s).number <= h[Head(s).chain]
    PROVE  NoGap(Tail(s), h)
<1> DEFINE t == Tail(s)
<1>1. /\ t \in Seq(Message)
      /\ Len(t) = Len(s) - 1
      /\ \A n \in 1 .. Len(t) : t[n] = s[n + 1]
      /\ Len(s) \in Nat
      /\ Head(s) = s[1]
    BY HeadTailProperties, LenProperties
<1> SUFFICES ASSUME NEW n \in 1 .. Len(t), t[n].type = "bundle",
                    ~(t[n].number <= h[t[n].chain] + 1)
             PROVE  \E m \in 1 .. (n - 1) :
                          t[m] = Bundle(t[n].chain, t[n].number - 1)
    BY DEF NoGap
<1> HIDE DEF t
<1>2. n \in Nat /\ n + 1 \in 1 .. Len(s) /\ t[n] = s[n + 1]
    BY <1>1
<1>3. t[n].chain \in Chain /\ t[n].number \in Nat /\ h[t[n].chain] \in Nat
    BY <1>1, <1>2, MessageTypes, ElementOfSeq DEF HasMaps
<1>4. PICK m \in 1 .. n : s[m] = Bundle(t[n].chain, t[n].number - 1)
    <2> DEFINE j == n + 1
    <2>1. j \in 1 .. Len(s) /\ t[n] = s[j] /\ j - 1 = n
        BY <1>2
    <2> HIDE DEF j
    <2>2. \/ s[j].number <= h[s[j].chain] + 1
          \/ \E m \in 1 .. (j - 1) : s[m] = Bundle(s[j].chain, s[j].number - 1)
        BY <2>1 DEF NoGap
    <2>. QED
        BY <2>1, <2>2
<1>5. m # 1
    <2> SUFFICES ASSUME m = 1 PROVE FALSE
        OBVIOUS
    <2>1. Head(s) = Bundle(t[n].chain, t[n].number - 1)
        BY <1>1, <1>4
    <2>2. /\ Head(s).type = "bundle" /\ Head(s).chain = t[n].chain
          /\ Head(s).number = t[n].number - 1
        BY <2>1, MessageTypes
    <2>. QED
        BY <2>2, <1>3
<1>6. m - 1 \in 1 .. (n - 1) /\ t[m - 1] = s[m]
    BY <1>1, <1>2, <1>5
<1>. QED
    BY <1>4, <1>6

\* A queue without gaps followed by one without gaps has none.
LEMMA NoGapConcat ==
    ASSUME NEW s \in Seq(Message), NEW t \in Seq(Message), NEW h,
           NoGap(s, h), NoGap(t, h)
    PROVE  NoGap(s \o t, h)
<1> DEFINE u == s \o t
<1>1. /\ Len(s) \in Nat /\ Len(t) \in Nat
      /\ Len(u) = Len(s) + Len(t)
      /\ \A n \in 1 .. Len(s) + Len(t) :
            u[n] = IF n <= Len(s) THEN s[n] ELSE t[n - Len(s)]
    BY ConcatProperties, LenProperties
<1> HIDE DEF u
<1> SUFFICES ASSUME NEW n \in 1 .. Len(u), u[n].type = "bundle",
                    ~(u[n].number <= h[u[n].chain] + 1)
             PROVE  \E m \in 1 .. (n - 1) :
                          u[m] = Bundle(u[n].chain, u[n].number - 1)
    BY DEF NoGap, u
<1>2. CASE n <= Len(s)
    <2>1. n \in 1 .. Len(s) /\ u[n] = s[n]
        BY <1>1, <1>2
    <2>2. PICK m \in 1 .. (n - 1) : s[m] = Bundle(u[n].chain, u[n].number - 1)
        BY <2>1 DEF NoGap
    <2>3. u[m] = s[m]
        BY <1>1, <2>1
    <2>. QED
        BY <2>2, <2>3
<1>3. CASE ~(n <= Len(s))
    <2>1. n - Len(s) \in 1 .. Len(t) /\ u[n] = t[n - Len(s)]
        BY <1>1, <1>3
    <2>2. PICK m \in 1 .. (n - Len(s) - 1) :
                t[m] = Bundle(u[n].chain, u[n].number - 1)
        BY <2>1 DEF NoGap
    <2>3. m + Len(s) \in 1 .. (n - 1) /\ u[m + Len(s)] = t[m]
        BY <1>1, <2>1
    <2>. QED
        BY <2>2, <2>3
<1>. QED
    BY <1>2, <1>3

\* A bundle may follow in a queue that holds its predecessor, or when the
\* reader does.
LEMMA NoGapAppend ==
    ASSUME NEW s \in Seq(Message), NEW h \in HasMaps, NoGap(s, h),
           NEW c \in Chain, NEW i \in Nat,
           i <= h[c] + 1 \/ Queued(s, c, i - 1)
    PROVE  NoGap(s \o <<Bundle(c, i)>>, h)
<1> DEFINE t == <<Bundle(c, i)>>
           u == s \o t
<1>1. /\ t \in Seq(Message) /\ Len(t) = 1 /\ t[1] = Bundle(c, i)
      /\ Bundle(c, i).chain = c /\ Bundle(c, i).number = i
    BY MessageTypes
<1>2. /\ Len(s) \in Nat
      /\ Len(u) = Len(s) + 1
      /\ \A n \in 1 .. Len(s) + 1 :
            u[n] = IF n <= Len(s) THEN s[n] ELSE t[n - Len(s)]
    BY <1>1, ConcatProperties, LenProperties
<1> HIDE DEF u
<1> SUFFICES ASSUME NEW n \in 1 .. Len(u), u[n].type = "bundle",
                    ~(u[n].number <= h[u[n].chain] + 1)
             PROVE  \E m \in 1 .. (n - 1) :
                          u[m] = Bundle(u[n].chain, u[n].number - 1)
    BY DEF NoGap, u
<1>3. CASE n <= Len(s)
    <2>1. n \in 1 .. Len(s) /\ u[n] = s[n]
        BY <1>2, <1>3
    <2>2. PICK m \in 1 .. (n - 1) : s[m] = Bundle(u[n].chain, u[n].number - 1)
        BY <2>1 DEF NoGap
    <2>3. u[m] = s[m]
        BY <1>2, <2>1
    <2>. QED
        BY <2>2, <2>3
<1>4. CASE ~(n <= Len(s))
    <2>1. n = Len(s) + 1 /\ u[n] = Bundle(c, i)
        BY <1>1, <1>2, <1>4
    <2>2. PICK m \in 1 .. Len(s) : s[m] = Bundle(c, i - 1)
        BY <1>1, <2>1 DEF Queued
    <2>3. u[m] = s[m] /\ m \in 1 .. (n - 1)
        BY <1>2, <2>1
    <2>. QED
        BY <1>1, <2>1, <2>2, <2>3
<1>. QED
    BY <1>3, <1>4

\* What was queued still is after more is sent.
LEMMA QueuedConcat ==
    ASSUME NEW s \in Seq(Message), NEW t \in Seq(Message), NEW c, NEW i,
           Queued(s, c, i) \/ Queued(t, c, i)
    PROVE  Queued(s \o t, c, i)
<1> DEFINE u == s \o t
<1>1. /\ Len(s) \in Nat /\ Len(t) \in Nat
      /\ Len(u) = Len(s) + Len(t)
      /\ \A n \in 1 .. Len(s) + Len(t) :
            u[n] = IF n <= Len(s) THEN s[n] ELSE t[n - Len(s)]
    BY ConcatProperties, LenProperties
<1> HIDE DEF u
<1>2. CASE Queued(s, c, i)
    <2>1. PICK n \in 1 .. Len(s) : s[n] = Bundle(c, i)
        BY <1>2 DEF Queued
    <2>2. n \in 1 .. Len(u) /\ u[n] = s[n]
        BY <1>1
    <2>. QED
        BY <2>1, <2>2 DEF Queued, u
<1>3. CASE Queued(t, c, i)
    <2>1. PICK n \in 1 .. Len(t) : t[n] = Bundle(c, i)
        BY <1>3 DEF Queued
    <2>2. n + Len(s) \in 1 .. Len(u) /\ u[n + Len(s)] = t[n]
        BY <1>1
    <2>. QED
        BY <2>1, <2>2 DEF Queued, u
<1>. QED
    BY <1>2, <1>3

\* What was queued still is after the first message is read, unless it was
\* that message.
LEMMA QueuedTail ==
    ASSUME NEW s \in Seq(Message), s # <<>>, NEW c, NEW i, Queued(s, c, i)
    PROVE  Head(s) = Bundle(c, i) \/ Queued(Tail(s), c, i)
<1>1. /\ Len(Tail(s)) = Len(s) - 1
      /\ \A n \in 1 .. Len(Tail(s)) : Tail(s)[n] = s[n + 1]
      /\ Len(s) \in Nat
      /\ Head(s) = s[1]
    BY HeadTailProperties, LenProperties
<1>2. PICK n \in 1 .. Len(s) : s[n] = Bundle(c, i)
    BY DEF Queued
<1>3. CASE n = 1
    BY <1>1, <1>2, <1>3
<1>4. CASE n # 1
    <2>1. n - 1 \in 1 .. Len(Tail(s)) /\ Tail(s)[n - 1] = s[n]
        BY <1>1, <1>4
    <2>. QED
        BY <1>2, <2>1 DEF Queued
<1>. QED
    BY <1>3, <1>4
-----------------------------------------------------------------------------
(* What get_bundles offers a peer that has sent its greeting. *)

\* The bundles a peer is missing are finitely many.
LEMMA MissingIsFinite ==
    ASSUME NEW map \in HasMaps, NEW have \in HasMaps
    PROVE  IsFiniteSet(Missing(map, have))
<1> DEFINE Of(c) == {Bundle(c, i) : i \in (map[c] + 1) .. have[c]}
           All == {Of(c) : c \in Chain}
<1>1. ASSUME NEW c \in Chain PROVE IsFiniteSet(Of(c))
    <2> DEFINE I == (map[c] + 1) .. have[c]
               f == [i \in I |-> Bundle(c, i)]
    <2>1. IsFiniteSet(I)
        BY FS_Interval DEF HasMaps
    <2>2. f \in [I -> Of(c)] /\ \A t \in Of(c) : \E i \in I : f[i] = t
        OBVIOUS
    <2>3. f \in Surjection(I, Of(c))
        BY <2>2 DEF Surjection
    <2>. QED
        BY <2>1, <2>3, FS_Surjection
<1>2. IsFiniteSet(All)
    <2> DEFINE g == [c \in Chain |-> Of(c)]
    <2>1. g \in [Chain -> All] /\ \A t \in All : \E c \in Chain : g[c] = t
        OBVIOUS
    <2>2. g \in Surjection(Chain, All)
        BY <2>1 DEF Surjection
    <2>. QED
        BY <2>2, FS_Surjection, ConstantsAssumption
<1>3. IsFiniteSet(UNION All)
    <2>1. \A T \in All : IsFiniteSet(T)
        BY <1>1
    <2> HIDE DEF All
    <2>. QED
        BY <1>2, <2>1, FS_UNION
<1>. QED
    BY <1>3 DEF Missing

\* A bundle is missing when its number lies between the two maps.
LEMMA MissingElements ==
    ASSUME NEW map \in HasMaps, NEW have \in HasMaps
    PROVE  /\ \A b \in Missing(map, have) :
                /\ b \in Bundles
                /\ map[b.chain] < b.number /\ b.number <= have[b.chain]
           /\ \A c \in Chain, i \in Nat :
                map[c] < i /\ i <= have[c] => Bundle(c, i) \in Missing(map, have)
<1>1. ASSUME NEW b \in Missing(map, have)
      PROVE  b \in Bundles /\ map[b.chain] < b.number /\ b.number <= have[b.chain]
    <2>1. PICK c \in Chain : \E i \in (map[c] + 1) .. have[c] : b = Bundle(c, i)
        BY DEF Missing
    <2>2. PICK i \in (map[c] + 1) .. have[c] : b = Bundle(c, i)
        BY <2>1
    <2>3. map[c] \in Nat /\ have[c] \in Nat
        BY DEF HasMaps
    <2>4. i \in Nat /\ map[c] < i /\ i <= have[c]
        BY <2>3
    <2>. QED
        BY <2>2, <2>4, MessageTypes
<1>2. ASSUME NEW c \in Chain, NEW i \in Nat, map[c] < i, i <= have[c]
      PROVE  Bundle(c, i) \in Missing(map, have)
    <2>1. map[c] \in Nat /\ have[c] \in Nat
        BY DEF HasMaps
    <2>2. i \in (map[c] + 1) .. have[c]
        BY <1>2, <2>1
    <2>. QED
        BY <2>2 DEF Missing
<1>. QED
    BY <1>1, <1>2

\* What is offered is a queue of the missing bundles, all of them, without
\* gaps for a peer whose store has what its greeting said; and so is any
\* part of it that is sent before a send fails.
LEMMA OffersProperties ==
    ASSUME NEW map \in HasMaps, NEW have \in HasMaps, NEW s \in Offers(map, have)
    PROVE  /\ s \in Seq(Message)
           /\ \A n \in 1 .. Len(s) :
                /\ s[n] \in Bundles
                /\ map[s[n].chain] < s[n].number
                /\ s[n].number <= have[s[n].chain]
           /\ \A c \in Chain, i \in Nat :
                map[c] < i /\ i <= have[c] => Queued(s, c, i)
           /\ \A h \in HasMaps : AtLeast(h, map) => NoGap(s, h)
<1> DEFINE todo == Missing(map, have)
<1>1. /\ s \in [1 .. Cardinality(todo) -> todo]
      /\ \A b \in todo : \E n \in DOMAIN s : s[n] = b
      /\ \A m, n \in DOMAIN s :
            m < n /\ s[m].chain = s[n].chain => s[m].number < s[n].number
    BY DEF Offers
<1>2. Cardinality(todo) \in Nat
    BY MissingIsFinite, FS_CardinalityType
<1>3. todo \subseteq Message
    BY MissingElements, MessageTypes
<1>4. s \in Seq(todo) /\ s \in Seq(Message) /\ DOMAIN s = 1 .. Len(s)
    <2> HIDE DEF todo
    <2>. QED
        BY <1>1, <1>2, <1>3
<1>5. \A n \in 1 .. Len(s) : s[n] \in todo
    BY <1>1, <1>4
<1>6. \A n \in 1 .. Len(s) :
        /\ s[n] \in Bundles
        /\ map[s[n].chain] < s[n].number
        /\ s[n].number <= have[s[n].chain]
    BY <1>5, MissingElements
<1>7. ASSUME NEW c \in Chain, NEW i \in Nat, map[c] < i, i <= have[c]
      PROVE  Queued(s, c, i)
    <2>1. Bundle(c, i) \in todo
        BY <1>7, MissingElements
    <2>. QED
        BY <2>1, <1>1, <1>4 DEF Queued
<1>8. ASSUME NEW h \in HasMaps, AtLeast(h, map)
      PROVE  NoGap(s, h)
    <2> SUFFICES ASSUME NEW n \in 1 .. Len(s), s[n].type = "bundle",
                        ~(s[n].number <= h[s[n].chain] + 1)
                 PROVE  \E m \in 1 .. (n - 1) :
                            s[m] = Bundle(s[n].chain, s[n].number - 1)
        BY DEF NoGap
    <2> DEFINE c == s[n].chain
               i == s[n].number
    <2>1. c \in Chain /\ i \in Nat /\ i <= have[c]
        BY <1>6 DEF Bundles
    <2>2. map[c] \in Nat /\ h[c] \in Nat /\ have[c] \in Nat /\ map[c] <= h[c]
        BY <2>1, <1>8 DEF HasMaps, AtLeast
    <2>3. i - 1 \in Nat /\ map[c] < i - 1 /\ i - 1 <= have[c]
        BY <2>1, <2>2
    <2>4. PICK m \in 1 .. Len(s) : s[m] = Bundle(c, i - 1)
        BY <1>7, <2>1, <2>3 DEF Queued
    <2>5. s[m].chain = c /\ s[m].number = i - 1
        BY <2>4, MessageTypes
    <2>6. ~(n < m) /\ n # m
        <3>1. n \in DOMAIN s /\ m \in DOMAIN s
            BY <1>4
        <3>2. n < m => s[n].number < s[m].number
            BY <1>1, <3>1, <2>5
        <3>3. s[n].number \in Nat /\ s[m].number = s[n].number - 1
            BY <2>1, <2>5
        <3>. QED
            BY <3>2, <3>3
    <2>. QED
        BY <2>4, <2>6, <1>4, LenProperties
<1>. QED
    BY <1>4, <1>6, <1>7, <1>8

\* The first messages of a queue without gaps have none, and are messages of
\* that queue.
LEMMA Prefix ==
    ASSUME NEW s \in Seq(Message), NEW j \in 0 .. Len(s)
    PROVE  /\ SubSeq(s, 1, j) \in Seq(Message)
           /\ Len(SubSeq(s, 1, j)) = j
           /\ \A n \in 1 .. j : SubSeq(s, 1, j)[n] = s[n]
           /\ \A h : NoGap(s, h) => NoGap(SubSeq(s, 1, j), h)
<1> DEFINE t == SubSeq(s, 1, j)
<1>1. /\ Len(s) \in Nat /\ j \in Nat
      /\ \A n \in 1 .. j : s[n] \in Message
    BY LenProperties, ElementOfSeq
<1>2. t \in Seq(Message) /\ Len(t) = j /\ \A n \in 1 .. j : t[n] = s[n]
    BY <1>1, SubSeqProperties
<1> HIDE DEF t
<1>3. ASSUME NEW h, NoGap(s, h)
      PROVE  NoGap(t, h)
    <2> SUFFICES ASSUME NEW n \in 1 .. Len(t), t[n].type = "bundle",
                        ~(t[n].number <= h[t[n].chain] + 1)
                 PROVE  \E m \in 1 .. (n - 1) :
                            t[m] = Bundle(t[n].chain, t[n].number - 1)
        BY DEF NoGap
    <2>1. n \in 1 .. Len(s) /\ t[n] = s[n]
        BY <1>1, <1>2
    <2>2. PICK m \in 1 .. (n - 1) : s[m] = Bundle(t[n].chain, t[n].number - 1)
        BY <2>1, <1>3 DEF NoGap
    <2>. QED
        BY <1>1, <1>2, <2>2
<1>. QED
    BY <1>2, <1>3 DEF t
-----------------------------------------------------------------------------
(* Type correctness. *)

Boxes == [End -> Seq(Message)]

\* The links, the Connection objects and the queues after the effects shared
\* by the handlers are of the right type.
LEMMA EffectTypes ==
    ASSUME TypeOK
    PROVE  /\ \A S : LinksWithout(S) \in [Conn -> {"unused", "up", "cut"}]
           /\ \A S : Closed(S) \in [End -> Statuses]
           /\ \A e \in End : inbox[e] # <<>> => Consumed(e) \in Boxes
<1>1. \A S : LinksWithout(S) \in [Conn -> {"unused", "up", "cut"}]
    BY DEF TypeOK, LinksWithout
<1>2. \A S : Closed(S) \in [End -> Statuses]
    BY DEF TypeOK, Closed, Statuses
<1>3. ASSUME NEW e \in End, inbox[e] # <<>>
      PROVE  Consumed(e) \in Boxes
    <2>1. inbox[e] \in Seq(Message)
        BY DEF TypeOK
    <2>2. Tail(inbox[e]) \in Seq(Message)
        BY <1>3, <2>1, HeadTailProperties
    <2>. QED
        BY <2>2 DEF Consumed, Boxes, TypeOK
<1>. QED
    BY <1>1, <1>2, <1>3

\* Sending keeps the queues well formed.
LEMMA PostedType ==
    ASSUME NEW box \in Boxes, NEW S, NEW msgs \in Seq(Message)
    PROVE  Posted(box, S, msgs) \in Boxes
<1>1. \A e \in End : box[e] \o msgs \in Seq(Message)
    BY ConcatProperties DEF Boxes
<1>. QED
    BY <1>1 DEF Posted, Boxes

\* Emptying the queues of closed ends keeps the queues well formed.
LEMMA DrainedType ==
    ASSUME NEW box \in Boxes, NEW S
    PROVE  Drained(box, S) \in Boxes
BY EmptySeq DEF Drained, Boxes

\* Marking keeps trackers maps.
LEMMA MarkedType ==
    ASSUME NEW trk \in [End -> HasMaps], NEW S, NEW c \in Chain, NEW i \in Nat
    PROVE  Marked(trk, S, c, i) \in [End -> HasMaps]
BY MarkAsHaving DEF Marked

\* The end of a process leaves a state of the right type.
LEMMA DiesType ==
    ASSUME TypeOK, NEW p \in Instance, NEW box \in Boxes, Dies(p, box)
    PROVE  /\ link' \in [Conn -> {"unused", "up", "cut"}]
           /\ status' \in [End -> Statuses]
           /\ greeted' \in SUBSET End
           /\ tracker' \in [End -> HasMaps]
           /\ inbox' \in Boxes
<1>1. EmptyMap \in HasMaps
    BY DEF EmptyMap, HasMaps
<1>2. link' \in [Conn -> {"unused", "up", "cut"}]
    BY DEF Dies, TypeOK
<1>3. status' \in [End -> Statuses]
    BY DEF Dies, TypeOK, Statuses
<1>4. greeted' \in SUBSET End
    BY DEF Dies, TypeOK
<1>5. tracker' \in [End -> HasMaps]
    BY <1>1 DEF Dies, TypeOK
<1>6. inbox' \in Boxes
    BY EmptySeq DEF Dies, Boxes
<1>. QED
    BY <1>2, <1>3, <1>4, <1>5, <1>6

\* The message an end reads is a message, and the rest of its queue is one.
LEMMA ReadingType ==
    ASSUME TypeOK, NEW e \in End, inbox[e] # <<>>
    PROVE  /\ inbox[e] \in Seq(Message)
           /\ Head(inbox[e]) \in Message
           /\ Head(inbox[e]) = inbox[e][1]
           /\ 1 \in 1 .. Len(inbox[e])
           /\ Head(inbox[e]).type = "greeting" => Head(inbox[e]).has \in HasMaps
           /\ Head(inbox[e]).type = "bundle" =>
                /\ Head(inbox[e]).chain \in Chain
                /\ Head(inbox[e]).number \in Nat
                /\ Head(inbox[e]) = Bundle(Head(inbox[e]).chain, Head(inbox[e]).number)
           /\ store[Owner(e)] \in HasMaps
<1>1. inbox[e] \in Seq(Message) /\ store[Owner(e)] \in HasMaps
    BY OtherEnd DEF TypeOK
<1>2. Head(inbox[e]) \in Message
    BY <1>1, HeadTailProperties
<1>3. Head(inbox[e]) = inbox[e][1] /\ 1 \in 1 .. Len(inbox[e])
    BY <1>1, EmptySeq
<1>. QED
    BY <1>1, <1>2, <1>3, MessageTypes

\* One bundle is a queue of messages.
LEMMA BundleQueue ==
    ASSUME NEW c \in Chain, NEW i \in Nat
    PROVE  /\ <<Bundle(c, i)>> \in Seq(Message)
           /\ Len(<<Bundle(c, i)>>) = 1
           /\ <<Bundle(c, i)>>[1] = Bundle(c, i)
           /\ Queued(<<Bundle(c, i)>>, c, i)
BY MessageTypes DEF Queued

\* The initial state is of the right type.
LEMMA InitType == Init => TypeOK
<1> SUFFICES ASSUME Init PROVE TypeOK
    OBVIOUS
<1>1. EmptyMap \in HasMaps
    BY DEF EmptyMap, HasMaps
<1>2. <<>> \in Seq(Message)
    BY EmptySeq
<1>. QED
    BY <1>1, <1>2 DEF Init, TypeOK, Statuses
\* Every handler leaves a state of the right type.
LEMMA HandlerType ==
    ASSUME TypeOK, NEW e \in End, Handler(e)
    PROVE  TypeOK'
<1> DEFINE b == Head(inbox[e])
           p == Owner(e)
<1>1. p \in Instance /\ e \in DOMAIN status
    BY OtherEnd DEF TypeOK
<1>2. inbox \in Boxes
    BY DEF TypeOK, Boxes
<1>3. CASE ReceiveAccept(e)
    <2>1. <<Greeting(store[p])>> \in Seq(Message)
        BY <1>1, MessageTypes DEF TypeOK
    <2>2. inbox[e] # <<>> /\ Consumed(e) \in Boxes
        BY <1>3, EffectTypes DEF ReceiveAccept
    <2>3. \A S, T : Drained(Posted(Consumed(e), S, <<Greeting(store[p])>>), T) \in Boxes
        BY <2>1, <2>2, PostedType, DrainedType
    <2>4. inbox' \in Boxes
        BY <1>3, <2>3 DEF ReceiveAccept
    <2>5. link' \in [Conn -> {"unused", "up", "cut"}]
        BY <1>3, EffectTypes DEF ReceiveAccept
    <2>6. status' \in [End -> Statuses]
        BY <1>3 DEF ReceiveAccept, TypeOK, Statuses
    <2>. QED
        BY <1>3, <2>4, <2>5, <2>6 DEF ReceiveAccept, TypeOK, Boxes
<1>4. CASE ReceiveGreeting(e)
    <2>1. /\ inbox[e] # <<>> /\ Consumed(e) \in Boxes
          /\ b.has \in HasMaps /\ store[p] \in HasMaps
        BY <1>4, EffectTypes, ReadingType DEF ReceiveGreeting, Reading
    <2>2. \A s \in Offers(b.has, store[p]) : s \in Seq(Message)
        BY <2>1, OffersProperties
    <2>3. \A s \in Offers(b.has, store[p]) : \A S, T :
            Drained(Posted(Consumed(e), S, s), T) \in Boxes
        BY <2>1, <2>2, PostedType, DrainedType
    <2>4. inbox' \in Boxes
        BY <1>4, <2>3 DEF ReceiveGreeting
    <2>5. /\ link' \in [Conn -> {"unused", "up", "cut"}]
          /\ status' \in [End -> Statuses]
        BY <1>4, EffectTypes DEF ReceiveGreeting
    <2>6. Greeted(b.has, store[p]) \in HasMaps
        BY <2>1 DEF Greeted, HasMaps
    <2>7. tracker' \in [End -> HasMaps] /\ greeted' \in SUBSET End
        BY <1>4, <2>6 DEF ReceiveGreeting, TypeOK
    <2>. QED
        BY <1>4, <2>4, <2>5, <2>7 DEF ReceiveGreeting, TypeOK, Boxes
<1>5. CASE ReceiveGreetingRaises(e)
    <2>1. b.has \in HasMaps /\ store[p] \in HasMaps
        BY <1>5, ReadingType DEF ReceiveGreetingRaises, Reading
    <2>2. PICK s \in Offers(b.has, store[p]) : \E n \in 1 .. Len(s) :
            Dies(p, Posted(inbox, {e}, SubSeq(s, 1, n - 1)))
        BY <1>5 DEF ReceiveGreetingRaises
    <2>3. PICK n \in 1 .. Len(s) : Dies(p, Posted(inbox, {e}, SubSeq(s, 1, n - 1)))
        BY <2>2
    <2>4. s \in Seq(Message) /\ Len(s) \in Nat
        BY <2>1, OffersProperties, LenProperties
    <2>5. n - 1 \in 0 .. Len(s)
        BY <2>4
    <2>6. SubSeq(s, 1, n - 1) \in Seq(Message)
        BY <2>4, <2>5, Prefix
    <2>7. Posted(inbox, {e}, SubSeq(s, 1, n - 1)) \in Boxes
        BY <1>2, <2>6, PostedType
    <2>8. /\ link' \in [Conn -> {"unused", "up", "cut"}]
          /\ status' \in [End -> Statuses]
          /\ greeted' \in SUBSET End
          /\ tracker' \in [End -> HasMaps]
          /\ inbox' \in Boxes
        BY <1>1, <2>3, <2>7, DiesType
    <2>. QED
        BY <1>5, <2>8 DEF ReceiveGreetingRaises, TypeOK, Boxes
<1>6. CASE ReceiveDuplicate(e)
    <2>1. /\ inbox[e] # <<>> /\ Consumed(e) \in Boxes
          /\ b.chain \in Chain /\ b.number \in Nat
        BY <1>6, EffectTypes, ReadingType DEF ReceiveDuplicate, Reading
    <2>2. inbox' \in Boxes
        BY <1>6, <2>1, DrainedType DEF ReceiveDuplicate
    <2>3. /\ link' \in [Conn -> {"unused", "up", "cut"}]
          /\ status' \in [End -> Statuses]
        BY <1>6, EffectTypes DEF ReceiveDuplicate
    <2>4. tracker' \in [End -> HasMaps]
        BY <1>6, <2>1, MarkedType DEF ReceiveDuplicate, Noted, TypeOK
    <2>. QED
        BY <1>6, <2>2, <2>3, <2>4 DEF ReceiveDuplicate, TypeOK, Boxes
<1>7. CASE ReceiveBundle(e)
    <2>1. /\ inbox[e] # <<>> /\ Consumed(e) \in Boxes
          /\ b.chain \in Chain /\ b.number \in Nat /\ b \in Message
          /\ store[p] \in HasMaps
        BY <1>7, EffectTypes, ReadingType DEF ReceiveBundle, Reading
    <2>2. <<b>> \in Seq(Message)
        BY <2>1
    <2>3. \A S, T : Drained(Posted(Consumed(e), S, <<b>>), T) \in Boxes
        BY <2>1, <2>2, PostedType, DrainedType
    <2>4. inbox' \in Boxes
        BY <1>7, <2>3 DEF ReceiveBundle
    <2>5. /\ link' \in [Conn -> {"unused", "up", "cut"}]
          /\ status' \in [End -> Statuses]
        BY <1>7, EffectTypes DEF ReceiveBundle
    <2>6. Noted(e, b.chain, b.number) \in [End -> HasMaps]
        BY <2>1, MarkedType DEF Noted, TypeOK
    <2>7. tracker' \in [End -> HasMaps]
        <3>1. PICK to : tracker' = Marked(Noted(e, b.chain, b.number), to, b.chain, b.number)
            BY <1>7 DEF ReceiveBundle
        <3>. QED
            BY <2>1, <2>6, <3>1, MarkedType
    <2>8. store' \in [Instance -> HasMaps]
        BY <1>7, <1>1, <2>1 DEF ReceiveBundle, TypeOK, HasMaps
    <2>. QED
        BY <1>7, <2>4, <2>5, <2>7, <2>8 DEF ReceiveBundle, TypeOK, Boxes
<1>8. CASE ReceiveBundleRaises(e)
    <2>1. /\ b.chain \in Chain /\ b.number \in Nat /\ b \in Message
          /\ store[p] \in HasMaps
        BY <1>8, ReadingType DEF ReceiveBundleRaises, Reading
    <2>2. <<b>> \in Seq(Message)
        BY <2>1
    <2>3. PICK to : Dies(p, Posted(inbox, to, <<b>>))
        BY <1>8 DEF ReceiveBundleRaises
    <2>4. Posted(inbox, to, <<b>>) \in Boxes
        BY <1>2, <2>2, PostedType
    <2>5. /\ link' \in [Conn -> {"unused", "up", "cut"}]
          /\ status' \in [End -> Statuses]
          /\ greeted' \in SUBSET End
          /\ tracker' \in [End -> HasMaps]
          /\ inbox' \in Boxes
        BY <1>1, <2>3, <2>4, DiesType
    <2>6. store' \in [Instance -> HasMaps]
        BY <1>8, <1>1, <2>1 DEF ReceiveBundleRaises, TypeOK, HasMaps
    <2>. QED
        BY <2>5, <2>6 DEF TypeOK, Boxes
<1>9. CASE ReceiveClosed(e)
    <2>1. /\ b \in Message /\ store[p] \in HasMaps
          /\ b.type = "bundle" => b.chain \in Chain /\ b.number \in Nat
        BY <1>9, ReadingType DEF ReceiveClosed
    <2>2. <<b>> \in Seq(Message)
        BY <2>1
    <2>3. PICK to : Dies(p, Posted(inbox, to, <<b>>))
        BY <1>9 DEF ReceiveClosed
    <2>4. Posted(inbox, to, <<b>>) \in Boxes
        BY <1>2, <2>2, PostedType
    <2>5. /\ link' \in [Conn -> {"unused", "up", "cut"}]
          /\ status' \in [End -> Statuses]
          /\ greeted' \in SUBSET End
          /\ tracker' \in [End -> HasMaps]
          /\ inbox' \in Boxes
        BY <1>1, <2>3, <2>4, DiesType
    <2>6. store' \in [Instance -> HasMaps]
        BY <1>9, <1>1, <2>1 DEF ReceiveClosed, TypeOK, HasMaps
    <2>. QED
        BY <2>5, <2>6 DEF TypeOK, Boxes
<1>10. CASE ReceiveEof(e)
    <2>1. EmptyMap \in HasMaps /\ <<>> \in Seq(Message)
        BY EmptySeq DEF EmptyMap, HasMaps
    <2>. QED
        BY <1>10, <2>1 DEF ReceiveEof, TypeOK, Statuses
<1>. QED
    BY <1>3, <1>4, <1>5, <1>6, <1>7, <1>8, <1>9, <1>10 DEF Handler

\* Every step leaves a state of the right type.
LEMMA NextType ==
    ASSUME TypeOK, [Next]_vars
    PROVE  TypeOK'
<1>0. inbox \in Boxes
    BY DEF TypeOK, Boxes
<1>1. ASSUME NEW k \in Conn, ConnectTo(k)
      PROVE  TypeOK'
    BY <1>1, BothEnds DEF ConnectTo, TypeOK, Statuses
<1>2. ASSUME NEW k \in Conn, AcceptRequest(k)
      PROVE  TypeOK'
    <2> DEFINE e == <<k, "server">>
    <2>1. e \in End /\ store[Owner(e)] \in HasMaps
        BY BothEnds, OtherEnd DEF TypeOK
    <2>2. /\ <<>> \in Seq(Message)
          /\ <<Accept>> \in Seq(Message)
          /\ <<Greeting(store[Owner(e)])>> \in Seq(Message)
        BY <2>1, MessageTypes
    <2>3. /\ <<Accept>> \o <<>> \in Seq(Message)
          /\ <<Accept>> \o <<Greeting(store[Owner(e)])>> \in Seq(Message)
        BY <2>2, ConcatProperties
    <2>4. /\ Posted(inbox, {e}, <<Accept>> \o <<>>) \in Boxes
          /\ Posted(inbox, {e}, <<Accept>> \o <<Greeting(store[Owner(e)])>>) \in Boxes
        BY <1>0, <2>3, PostedType
    <2>5. inbox' \in Boxes
        <3>1. ServerGreeting(k) \in {<<>>, <<Greeting(store[Owner(e)])>>}
            BY DEF ServerGreeting, Owner
        <3>. QED
            BY <1>2, <2>4, <3>1 DEF AcceptRequest
    <2>6. link' \in [Conn -> {"unused", "up", "cut"}]
        BY <1>2, EffectTypes DEF AcceptRequest
    <2>7. status' \in [End -> Statuses]
        BY <1>2, <2>1 DEF AcceptRequest, TypeOK, Statuses
    <2>. QED
        BY <1>2, <2>5, <2>6, <2>7 DEF AcceptRequest, TypeOK, Boxes
<1>3. ASSUME NEW k \in Conn, RejectRequest(k)
      PROVE  TypeOK'
    <2>1. link' \in [Conn -> {"unused", "up", "cut"}]
        BY <1>3, EffectTypes DEF RejectRequest
    <2>. QED
        BY <1>3, <2>1, BothEnds DEF RejectRequest, TypeOK, Statuses
<1>4. ASSUME NEW k \in Conn, CutLink(k)
      PROVE  TypeOK'
    BY <1>4 DEF CutLink, TypeOK
<1>5. ASSUME NEW e \in End, Handler(e)
      PROVE  TypeOK'
    BY <1>5, HandlerType
<1>6. ASSUME NEW c \in Chain, Commit(c)
      PROVE  TypeOK'
    <2> DEFINE p == Writer[c]
               i == store[p][c] + 1
    <2>1. p \in Instance /\ store[p] \in HasMaps /\ i \in Nat
        BY ConstantsAssumption DEF TypeOK, HasMaps
    <2>2. <<Bundle(c, i)>> \in Seq(Message)
        BY <2>1, BundleQueue
    <2>3. \A S, T : Drained(Posted(inbox, S, <<Bundle(c, i)>>), T) \in Boxes
        BY <1>0, <2>2, PostedType, DrainedType
    <2>4. inbox' \in Boxes
        BY <1>6, <2>3 DEF Commit
    <2>5. /\ link' \in [Conn -> {"unused", "up", "cut"}]
          /\ status' \in [End -> Statuses]
        BY <1>6, EffectTypes DEF Commit
    <2>6. tracker' \in [End -> HasMaps]
        <3>1. PICK to : tracker' = Marked(tracker, to, c, i)
            BY <1>6 DEF Commit
        <3>2. tracker \in [End -> HasMaps]
            BY DEF TypeOK
        <3>. QED
            BY <2>1, <3>1, <3>2, MarkedType
    <2>7. store' \in [Instance -> HasMaps]
        BY <1>6, <2>1 DEF Commit, TypeOK, HasMaps
    <2>. QED
        BY <1>6, <2>4, <2>5, <2>6, <2>7 DEF Commit, TypeOK, Boxes
<1>7. ASSUME NEW p \in Instance, Crash(p)
      PROVE  TypeOK'
    <2>1. /\ link' \in [Conn -> {"unused", "up", "cut"}]
          /\ status' \in [End -> Statuses]
          /\ greeted' \in SUBSET End
          /\ tracker' \in [End -> HasMaps]
          /\ inbox' \in Boxes
        BY <1>0, <1>7, DiesType DEF Crash
    <2>. QED
        BY <1>7, <2>1 DEF Crash, TypeOK, Boxes
<1>8. CASE UNCHANGED vars
    BY <1>8 DEF vars, TypeOK
<1>. QED
    BY <1>1, <1>2, <1>3, <1>4, <1>5, <1>6, <1>7, <1>8 DEF Next

\* Type correctness: every variable of the sync protocol keeps its type, so
\* queues only ever hold well-formed messages (relay.py, connection.py).
THEOREM TypeCorrect == Spec => []TypeOK
<1>1. TypeOK /\ [Next]_vars => TypeOK'
    BY NextType
<1>. QED
    BY InitType, <1>1, PTL DEF Spec
-----------------------------------------------------------------------------
(* The inductive invariant. *)

\* A Connection object, and so a tracker, exists only for a connection that
\* was opened.
LinkIsUsed ==
    /\ \A e \in End : status[e] # "idle" => link[e[1]] # "unused"
    /\ \A f \in greeted : link[f[1]] # "unused"

\* What the trackers and the queues say of the stores, with the types.
SyncInv ==
    /\ TypeOK
    /\ LinkIsUsed
    /\ SentIsHeld
    /\ NoGapInFlight
    /\ TrackerIsSound

\* The queue of g with its first message read, if g is one of "read".
Rest(read, g) == IF g \in read THEN Tail(inbox[g]) ELSE inbox[g]

\* A step in which the ends in "read" each read a message, and sent[g] is
\* appended to the queue of g, keeps the queues truthful and without gaps and
\* the trackers sound if: stores only grow; only closed connections are
\* emptied; what is read is stored; what is sent is held by the sender; what
\* is sent continues the queue; and a tracker changes only to what the peer
\* holds or is sent.
LEMMA QueueStep ==
    ASSUME SyncInv, TypeOK',
           NEW read \in SUBSET End,
           NEW sent \in Boxes,
           \A p \in Instance : AtLeast(store'[p], store[p]),
           \A g \in End : \/ inbox'[g] = <<>> /\ link'[g[1]] # "up"
                          \/ inbox'[g] = Rest(read, g) \o sent[g],
           \A g \in read :
              /\ inbox[g] # <<>>
              /\ Head(inbox[g]).type = "bundle" =>
                    Head(inbox[g]).number <= store'[Owner(g)][Head(inbox[g]).chain],
           \A g \in End : \A n \in 1 .. Len(sent[g]) :
              Truthful(sent[g][n], store'[Owner(Other(g))]),
           \A g \in End :
              \/ NoGap(sent[g], store'[Owner(g)])
              \/ /\ g \notin read
                 /\ \E c \in Chain, i \in Nat :
                       sent[g] = <<Bundle(c, i)>> /\ Queued(inbox[g], c, i - 1),
           \A f \in greeted' : link'[f[1]] = "up" =>
              \A c \in Chain :
                \/ tracker'[f][c] <= store'[Owner(Other(f))][c]
                \/ Queued(sent[Other(f)], c, tracker'[f][c])
                \/ /\ f \in greeted
                   /\ link[f[1]] = "up"
                   /\ tracker'[f][c] = tracker[f][c]
    PROVE  SentIsHeld' /\ NoGapInFlight' /\ TrackerIsSound'
<1>1. ASSUME NEW g \in End
      PROVE  /\ inbox[g] \in Seq(Message)
             /\ sent[g] \in Seq(Message)
             /\ Rest(read, g) \in Seq(Message)
             /\ store[Owner(g)] \in HasMaps
             /\ store'[Owner(g)] \in HasMaps
             /\ AtLeast(store'[Owner(g)], store[Owner(g)])
             /\ Owner(g) \in Instance
    BY OtherEnd, HeadTailProperties DEF SyncInv, TypeOK, Boxes, Rest
<1>2. ASSUME NEW g \in End, NEW n \in 1 .. Len(Rest(read, g))
      PROVE  /\ \E j \in 1 .. Len(inbox[g]) : Rest(read, g)[n] = inbox[g][j]
             /\ Rest(read, g)[n] \in Message
    <2>1. CASE g \in read
        <3>1. /\ Len(Tail(inbox[g])) = Len(inbox[g]) - 1
              /\ \A j \in 1 .. Len(Tail(inbox[g])) : Tail(inbox[g])[j] = inbox[g][j + 1]
              /\ Len(inbox[g]) \in Nat
            BY <1>1, <2>1, HeadTailProperties, LenProperties
        <3>2. n + 1 \in 1 .. Len(inbox[g]) /\ Rest(read, g)[n] = inbox[g][n + 1]
            BY <2>1, <3>1 DEF Rest
        <3>. QED
            BY <1>1, <3>2, ElementOfSeq
    <2>2. CASE g \notin read
        BY <1>1, <2>2, ElementOfSeq DEF Rest
    <2>. QED
        BY <2>1, <2>2
<1>3. SentIsHeld'
    <2> SUFFICES ASSUME NEW g \in End, NEW n \in 1 .. Len(inbox'[g])
                 PROVE  Truthful(inbox'[g][n], store'[Owner(Other(g))])
        BY DEF SentIsHeld
    <2> DEFINE s == Rest(read, g)
               t == sent[g]
    <2>1. inbox'[g] = s \o t
        BY EmptySeq
    <2>2. /\ Len(s) \in Nat /\ Len(t) \in Nat
          /\ Len(s \o t) = Len(s) + Len(t)
          /\ \A j \in 1 .. Len(s) + Len(t) :
                (s \o t)[j] = IF j <= Len(s) THEN s[j] ELSE t[j - Len(s)]
        BY <1>1, ConcatProperties, LenProperties
    <2>3. CASE n <= Len(s)
        <3>1. n \in 1 .. Len(s) /\ inbox'[g][n] = s[n]
            BY <2>1, <2>2, <2>3
        <3>2. PICK j \in 1 .. Len(inbox[g]) : s[n] = inbox[g][j]
            BY <1>2, <3>1
        <3>3. Truthful(s[n], store[Owner(Other(g))])
            BY <3>2 DEF SyncInv, SentIsHeld
        <3>4. s[n] \in Message
            BY <1>2, <3>1
        <3>5. /\ store[Owner(Other(g))] \in HasMaps /\ store'[Owner(Other(g))] \in HasMaps
              /\ AtLeast(store'[Owner(Other(g))], store[Owner(Other(g))])
            BY <1>1, OtherEnd
        <3>6. s[n].type = "greeting" => s[n].has \in HasMaps
            BY <3>4, MessageTypes
        <3>7. s[n].type = "bundle" => s[n].chain \in Chain /\ s[n].number \in Nat
            BY <3>4, MessageTypes
        <3>. HIDE DEF s
        <3>8. Truthful(s[n], store'[Owner(Other(g))])
            BY <3>3, <3>5, <3>6, <3>7 DEF Truthful, AtLeast, HasMaps
        <3>. QED
            BY <3>1, <3>8
    <2>4. CASE ~(n <= Len(s))
        <3>1. n - Len(s) \in 1 .. Len(t) /\ inbox'[g][n] = t[n - Len(s)]
            BY <2>1, <2>2, <2>4
        <3>. QED
            BY <3>1
    <2>. QED
        BY <2>3, <2>4
<1>4. NoGapInFlight'
    <2> SUFFICES ASSUME NEW g \in End
                 PROVE  NoGap(inbox'[g], store'[Owner(g)])
        BY DEF NoGapInFlight
    <2>1. NoGap(inbox[g], store'[Owner(g)])
        BY <1>1, NoGapGrows DEF SyncInv, NoGapInFlight
    <2>2. NoGap(Rest(read, g), store'[Owner(g)])
        BY <1>1, <2>1, NoGapTail DEF Rest
    <2>3. CASE inbox'[g] = <<>>
        BY <2>3, NoGapEmpty
    <2>4. CASE inbox'[g] = Rest(read, g) \o sent[g] /\ NoGap(sent[g], store'[Owner(g)])
        BY <1>1, <2>2, <2>4, NoGapConcat
    <2>5. ASSUME inbox'[g] = Rest(read, g) \o sent[g], g \notin read,
                 NEW c \in Chain, NEW i \in Nat,
                 sent[g] = <<Bundle(c, i)>>, Queued(inbox[g], c, i - 1)
          PROVE  NoGap(inbox'[g], store'[Owner(g)])
        <3>1. inbox'[g] = inbox[g] \o <<Bundle(c, i)>>
            BY <2>5 DEF Rest
        <3>2. /\ inbox[g] \in Seq(Message)
              /\ store'[Owner(g)] \in HasMaps
              /\ Queued(inbox[g], c, i - 1)
            BY <1>1, <2>5
        <3>3. NoGap(inbox[g] \o <<Bundle(c, i)>>, store'[Owner(g)])
            BY <2>1, <2>5, <3>2, NoGapAppend
        <3>. QED
            BY <3>1, <3>3
    <2>. QED
        BY <2>3, <2>4, <2>5
<1>5. TrackerIsSound'
    <2> SUFFICES ASSUME NEW f \in greeted', link'[f[1]] = "up", NEW c \in Chain,
                        ~(tracker'[f][c] <= store'[Owner(Other(f))][c])
                 PROVE  Queued(inbox'[Other(f)], c, tracker'[f][c])
        BY DEF TrackerIsSound
    <2> DEFINE g == Other(f)
    <2>1. f \in End /\ g \in End /\ g[1] = f[1] /\ tracker'[f][c] \in Nat
        BY OtherEnd DEF TypeOK, HasMaps
    <2>2. inbox'[g] = Rest(read, g) \o sent[g]
        BY <2>1
    <2>3. CASE Queued(sent[g], c, tracker'[f][c])
        BY <1>1, <2>1, <2>2, <2>3, QueuedConcat
    <2>4. CASE /\ f \in greeted
               /\ link[f[1]] = "up"
               /\ tracker'[f][c] = tracker[f][c]
        <3>1. /\ store[Owner(g)][c] \in Nat /\ store'[Owner(g)][c] \in Nat
              /\ store[Owner(g)][c] <= store'[Owner(g)][c]
            BY <1>1, <2>1 DEF HasMaps, AtLeast
        <3>2. ~(tracker[f][c] <= store[Owner(g)][c])
            BY <2>1, <2>4, <3>1
        <3>3. Queued(inbox[g], c, tracker[f][c])
            BY <2>4, <3>2 DEF SyncInv, TrackerIsSound
        <3>4. Queued(Rest(read, g), c, tracker[f][c])
            <4>1. CASE g \in read
                <5>1. Head(inbox[g]) # Bundle(c, tracker[f][c])
                    BY <2>1, <2>4, <4>1, MessageTypes
                <5>2. Queued(Tail(inbox[g]), c, tracker[f][c])
                    BY <1>1, <2>1, <3>3, <4>1, <5>1, QueuedTail
                <5>. QED
                    BY <4>1, <5>2 DEF Rest
            <4>2. CASE g \notin read
                BY <3>3, <4>2 DEF Rest
            <4>. QED
                BY <4>1, <4>2
        <3>. QED
            BY <1>1, <2>1, <2>2, <2>4, <3>4, QueuedConcat
    <2>. QED
        BY <2>3, <2>4
<1>. QED
    BY <1>3, <1>4, <1>5

-----------------------------------------------------------------------------
(* The steps of PeerSync preserve the inductive invariant. *)

\* What the other ends are sent when the ends in "senders" send msgs.
Sending(senders, msgs) ==
    [g \in End |-> IF Other(g) \in senders /\ link[g[1]] = "up" THEN msgs ELSE <<>>]

\* A step that sends and reads nothing.
LEMMA PostedOnly ==
    ASSUME inbox \in Boxes, NEW senders, NEW msgs, inbox' = Posted(inbox, senders, msgs)
    PROVE  \A g \in End : inbox'[g] = inbox[g] \o Sending(senders, msgs)[g]
<1> SUFFICES ASSUME NEW g \in End
             PROVE  inbox'[g] = inbox[g] \o Sending(senders, msgs)[g]
    OBVIOUS
<1>1. inbox[g] \o <<>> = inbox[g]
    BY ConcatEmptySeq DEF Boxes
<1>. QED
    BY <1>1 DEF Posted, Sending

\* Draining a closed end only empties the queue of a connection that is no longer
\* up.
LEMMA SendingProperties ==
    ASSUME TypeOK, NEW box \in Boxes, NEW senders, NEW msgs \in Seq(Message),
           NEW failed \in SUBSET End, NEW left \in SUBSET failed
    PROVE  /\ Sending(senders, msgs) \in Boxes
           /\ \A g \in End : Posted(box, senders, msgs)[g] =
                                box[g] \o Sending(senders, msgs)[g]
           /\ \A g \in End :
                \/ /\ Drained(Posted(box, senders, msgs), left)[g] = <<>>
                   /\ LinksWithout(failed)[g[1]] = "cut"
                \/ Drained(Posted(box, senders, msgs), left)[g] =
                      box[g] \o Sending(senders, msgs)[g]
           /\ \A k \in Conn : LinksWithout(failed)[k] = "up" => link[k] = "up"
<1>1. Sending(senders, msgs) \in Boxes
    BY EmptySeq DEF Sending, Boxes
<1>2. \A g \in End : Posted(box, senders, msgs)[g] = box[g] \o Sending(senders, msgs)[g]
    <2> SUFFICES ASSUME NEW g \in End
                 PROVE  Posted(box, senders, msgs)[g] = box[g] \o Sending(senders, msgs)[g]
        OBVIOUS
    <2>1. box[g] \o <<>> = box[g]
        BY ConcatEmptySeq DEF Boxes
    <2>. QED
        BY <2>1 DEF Posted, Sending
<1>3. ASSUME NEW g \in End
      PROVE  \/ /\ Drained(Posted(box, senders, msgs), left)[g] = <<>>
                /\ LinksWithout(failed)[g[1]] = "cut"
             \/ Drained(Posted(box, senders, msgs), left)[g] =
                   box[g] \o Sending(senders, msgs)[g]
    BY <1>2, OtherEnd DEF Drained, LinksWithout
<1>4. \A k \in Conn : LinksWithout(failed)[k] = "up" => link[k] = "up"
    BY DEF LinksWithout
<1>. QED
    BY <1>1, <1>2, <1>3, <1>4

\* A step that sends nothing and leaves the stores alone: queues are only
\* emptied, with their connections, and trackers only go away.
LEMMA QuietStep ==
    ASSUME SyncInv, TypeOK', store' = store,
           \A g \in End : \/ inbox'[g] = <<>> /\ link'[g[1]] # "up"
                          \/ inbox'[g] = inbox[g],
           \A f \in greeted' : link'[f[1]] = "up" =>
                 f \in greeted /\ link[f[1]] = "up" /\ tracker'[f] = tracker[f]
    PROVE  SentIsHeld' /\ NoGapInFlight' /\ TrackerIsSound'
<1> DEFINE sent == [g \in End |-> <<>>]
<1>1. sent \in Boxes
    BY EmptySeq DEF Boxes
<1>2. \A p \in Instance : AtLeast(store'[p], store[p])
    BY DEF AtLeast, SyncInv, TypeOK, HasMaps
<1>3. ASSUME NEW g \in End
      PROVE  \/ inbox'[g] = <<>> /\ link'[g[1]] # "up"
             \/ inbox'[g] = Rest({}, g) \o sent[g]
    <2>1. inbox[g] \o <<>> = inbox[g]
        BY ConcatEmptySeq DEF SyncInv, TypeOK
    <2>. QED
        BY <2>1 DEF Rest
<1>4. \A g \in End : \/ NoGap(sent[g], store'[Owner(g)])
                     \/ /\ g \notin {}
                        /\ \E c \in Chain, i \in Nat :
                              sent[g] = <<Bundle(c, i)>> /\ Queued(inbox[g], c, i - 1)
    BY NoGapEmpty
<1>5. \A g \in End : Len(sent[g]) = 0
    BY EmptySeq
<1> HIDE DEF sent
<1>6. \A g \in End : \A n \in 1 .. Len(sent[g]) :
              Truthful(sent[g][n], store'[Owner(Other(g))])
    BY <1>5
<1>7. \A f \in greeted' : link'[f[1]] = "up" =>
              \A c \in Chain :
                \/ tracker'[f][c] <= store'[Owner(Other(f))][c]
                \/ Queued(sent[Other(f)], c, tracker'[f][c])
                \/ /\ f \in greeted
                   /\ link[f[1]] = "up"
                   /\ tracker'[f][c] = tracker[f][c]
    OBVIOUS
<1>8. /\ {} \in SUBSET End
      /\ \A g \in {} :
              /\ inbox[g] # <<>>
              /\ Head(inbox[g]).type = "bundle" =>
                    Head(inbox[g]).number <= store'[Owner(g)][Head(inbox[g]).chain]
    OBVIOUS
<1>. QED
    BY <1>1, <1>2, <1>3, <1>4, <1>6, <1>7, <1>8, QueueStep

\* When a process ends, its queues are emptied with its connections; the
\* others keep what was sent to them.
LEMMA DiesStep ==
    ASSUME SyncInv, NEW p \in Instance, NEW box \in Boxes, Dies(p, box)
    PROVE  /\ \A g \in End : \/ inbox'[g] = <<>> /\ link'[g[1]] # "up"
                             \/ inbox'[g] = box[g]
           /\ \A f \in greeted' : link'[f[1]] = "up" =>
                 f \in greeted /\ link[f[1]] = "up" /\ tracker'[f] = tracker[f]
           /\ LinkIsUsed'
<1>1. \A g \in End : \/ inbox'[g] = <<>> /\ link'[g[1]] # "up"
                     \/ inbox'[g] = box[g]
    BY OtherEnd DEF Dies, SyncInv, TypeOK, End, Owner
<1>2. \A f \in greeted' : link'[f[1]] = "up" =>
                 f \in greeted /\ link[f[1]] = "up" /\ tracker'[f] = tracker[f]
    BY OtherEnd DEF Dies, SyncInv, TypeOK
<1>3. LinkIsUsed'
    BY OtherEnd DEF Dies, SyncInv, LinkIsUsed, TypeOK
<1>. QED
    BY <1>1, <1>2, <1>3

\* The end of a process is such a step, when nothing was sent before.
LEMMA DiesQuietly ==
    ASSUME SyncInv, TypeOK', store' = store, NEW p \in Instance, Dies(p, inbox)
    PROVE  SyncInv'
<1>1. inbox \in Boxes
    BY DEF SyncInv, TypeOK, Boxes
<1>. QED
    BY <1>1, DiesStep, QuietStep DEF SyncInv

\* Closing failed ends, and opening e, keeps trackers to opened connections.
LEMMA LinkStaysUsed ==
    ASSUME SyncInv, NEW failed \in SUBSET End, NEW e \in End,
           link[e[1]] # "unused",
           link' = LinksWithout(failed),
           \A f \in End : status'[f] # "idle" => status[f] # "idle" \/ f \in failed \/ f = e,
           greeted' \subseteq greeted \cup {e}
    PROVE  LinkIsUsed'
<1>1. \A k \in Conn : link'[k] = "unused" => link[k] = "unused"
    BY DEF LinksWithout
<1>2. \A f \in failed : link'[f[1]] = "cut"
    BY OtherEnd DEF LinksWithout
<1>. QED
    BY <1>1, <1>2, OtherEnd DEF SyncInv, LinkIsUsed, TypeOK

\* The steps of the network, and of ends that only go away, are quiet.
LEMMA NetworkStep ==
    ASSUME SyncInv, TypeOK',
           \/ \E k \in Conn : ConnectTo(k) \/ RejectRequest(k) \/ CutLink(k)
           \/ \E p \in Instance : Crash(p)
           \/ \E e \in End : ReceiveEof(e)
    PROVE  SyncInv'
<1>1. ASSUME NEW k \in Conn, ConnectTo(k)
      PROVE  SyncInv'
    <2>1. \A f \in greeted : link[f[1]] # "unused"
        BY DEF SyncInv, LinkIsUsed
    <2>2. \A f \in greeted' : link'[f[1]] = "up" =>
                 f \in greeted /\ link[f[1]] = "up" /\ tracker'[f] = tracker[f]
        BY <1>1, <2>1, OtherEnd DEF ConnectTo, SyncInv, TypeOK
    <2>3. LinkIsUsed'
        BY <1>1, OtherEnd DEF ConnectTo, SyncInv, LinkIsUsed, TypeOK, End
    <2>. QED
        BY <1>1, <2>2, <2>3, QuietStep DEF ConnectTo, SyncInv
<1>2. ASSUME NEW k \in Conn, RejectRequest(k)
      PROVE  SyncInv'
    <2>1. \A j \in Conn : /\ LinksWithout({<<k, "server">>})[j] = "up" => link[j] = "up"
                          /\ LinksWithout({<<k, "server">>})[j] = "unused" => link[j] = "unused"
        BY DEF LinksWithout
    <2>2. \A f \in greeted' : link'[f[1]] = "up" =>
                 f \in greeted /\ link[f[1]] = "up" /\ tracker'[f] = tracker[f]
        BY <1>2, <2>1, OtherEnd DEF RejectRequest, SyncInv, TypeOK
    <2>3. LinkIsUsed'
        <3> DEFINE e == <<k, "server">>
        <3>1. e \in End /\ e[1] = k /\ {e} \in SUBSET End
            BY BothEnds
        <3>2. /\ link[k] # "unused" /\ link' = LinksWithout({e})
              /\ greeted' = greeted /\ status' = [status EXCEPT ![e] = "removed"]
            BY <1>2 DEF RejectRequest
        <3>3. \A f \in End : status'[f] # "idle" => status[f] # "idle" \/ f \in {e} \/ f = e
            BY <3>2 DEF SyncInv, TypeOK
        <3>. HIDE DEF e
        <3>. QED
            BY <3>1, <3>2, <3>3, LinkStaysUsed
    <2>. QED
        BY <1>2, <2>2, <2>3, QuietStep DEF RejectRequest, SyncInv
<1>3. ASSUME NEW k \in Conn, CutLink(k)
      PROVE  SyncInv'
    <2>1. \A f \in greeted' : link'[f[1]] = "up" =>
                 f \in greeted /\ link[f[1]] = "up" /\ tracker'[f] = tracker[f]
        BY <1>3, OtherEnd DEF CutLink, SyncInv, TypeOK
    <2>2. LinkIsUsed'
        BY <1>3, OtherEnd DEF CutLink, SyncInv, LinkIsUsed, TypeOK
    <2>. QED
        BY <1>3, <2>1, <2>2, QuietStep DEF CutLink, SyncInv
<1>4. ASSUME NEW p \in Instance, Crash(p)
      PROVE  SyncInv'
    BY <1>4, DiesQuietly DEF Crash
<1>5. ASSUME NEW e \in End, ReceiveEof(e)
      PROVE  SyncInv'
    <2>1. \A g \in End : \/ inbox'[g] = <<>> /\ link'[g[1]] # "up"
                         \/ inbox'[g] = inbox[g]
        BY <1>5 DEF ReceiveEof, SyncInv, TypeOK
    <2>2. \A f \in greeted' : link'[f[1]] = "up" =>
                 f \in greeted /\ link[f[1]] = "up" /\ tracker'[f] = tracker[f]
        BY <1>5 DEF ReceiveEof, SyncInv, TypeOK
    <2>3. LinkIsUsed'
        BY <1>5 DEF ReceiveEof, SyncInv, LinkIsUsed, TypeOK
    <2>. QED
        BY <1>5, <2>1, <2>2, <2>3, QuietStep DEF ReceiveEof, SyncInv
<1>. QED
    BY <1>1, <1>2, <1>3, <1>4, <1>5

\* The end e sends no more than acceptances and greetings, in msgs.
Greets(e, msgs, read) ==
    /\ msgs \in Seq(Message)
    /\ \A n \in 1 .. Len(msgs) : msgs[n] = Accept \/ msgs[n] = Greeting(store[Owner(e)])
    /\ read \in SUBSET {e}
    /\ e \in read => inbox[e] # <<>> /\ Head(inbox[e]).type # "bundle"
    /\ \A g \in End : \/ inbox'[g] = <<>> /\ link'[g[1]] # "up"
                     \/ inbox'[g] = Rest(read, g) \o Sending({e}, msgs)[g]
    /\ \A k \in Conn : link'[k] = "up" => link[k] = "up"
    /\ store' = store /\ greeted' = greeted /\ tracker' = tracker

\* An end that sends its acceptance or its greeting, and reads none or one
\* message that is not a bundle, keeps queues and trackers sound.
LEMMA GreetingStep ==
    ASSUME SyncInv, TypeOK', NEW e \in End, NEW msgs, NEW read, Greets(e, msgs, read)
    PROVE  SentIsHeld' /\ NoGapInFlight' /\ TrackerIsSound'
<1> USE DEF Greets
<1> DEFINE sent == Sending({e}, msgs)
<1>1. sent \in Boxes
    BY EmptySeq DEF Boxes, Sending
<1>2. \A p \in Instance : AtLeast(store'[p], store[p])
    BY DEF AtLeast, SyncInv, TypeOK, HasMaps
<1>3. ASSUME NEW g \in End, NEW n \in 1 .. Len(sent[g])
      PROVE  /\ Other(g) = e
             /\ sent[g][n] = Accept \/ sent[g][n] = Greeting(store[Owner(e)])
    <2>1. CASE Other(g) = e /\ link[g[1]] = "up"
        BY <2>1 DEF Sending
    <2>2. CASE ~(Other(g) = e /\ link[g[1]] = "up")
        <3>1. sent[g] = <<>>
            BY <2>2 DEF Sending
        <3>. QED
            BY <3>1, EmptySeq
    <2>. QED
        BY <2>1, <2>2
<1> HIDE DEF sent
<1>4. \A g \in End : \A n \in 1 .. Len(sent[g]) :
              Truthful(sent[g][n], store'[Owner(Other(g))])
    BY <1>2, <1>3, MessageTypes, OtherEnd DEF Truthful, AtLeast
<1>5. \A g \in End : \/ NoGap(sent[g], store'[Owner(g)])
                     \/ /\ g \notin read
                        /\ \E c \in Chain, i \in Nat :
                              sent[g] = <<Bundle(c, i)>> /\ Queued(inbox[g], c, i - 1)
    BY <1>3, MessageTypes DEF NoGap
<1>6. \A f \in greeted' : link'[f[1]] = "up" =>
              \A c \in Chain :
                \/ tracker'[f][c] <= store'[Owner(Other(f))][c]
                \/ Queued(sent[Other(f)], c, tracker'[f][c])
                \/ /\ f \in greeted
                   /\ link[f[1]] = "up"
                   /\ tracker'[f][c] = tracker[f][c]
    BY OtherEnd DEF SyncInv, TypeOK
<1>7. /\ read \in SUBSET End
      /\ \A g \in read :
              /\ inbox[g] # <<>>
              /\ Head(inbox[g]).type = "bundle" =>
                    Head(inbox[g]).number <= store'[Owner(g)][Head(inbox[g]).chain]
    OBVIOUS
<1>8. \A g \in End : \/ inbox'[g] = <<>> /\ link'[g[1]] # "up"
                     \/ inbox'[g] = Rest(read, g) \o sent[g]
    BY DEF sent
<1>. QED
    BY <1>1, <1>2, <1>4, <1>5, <1>6, <1>7, <1>8, QueueStep

\* The two steps of the handshake that send.
LEMMA HandshakeStep ==
    ASSUME SyncInv, TypeOK',
           \/ \E k \in Conn : AcceptRequest(k)
           \/ \E e \in End : ReceiveAccept(e)
    PROVE  SyncInv'
<1>1. ASSUME NEW k \in Conn, AcceptRequest(k)
      PROVE  SyncInv'
    <2> DEFINE e == <<k, "server">>
               greeting == ServerGreeting(k)
    <2>1. PICK failed \in Failures({e}) :
              /\ status' = [status EXCEPT ![e] = IF e \in failed THEN "dead" ELSE "open"]
              /\ link' = LinksWithout(failed)
              /\ inbox' = Posted(inbox, {e},
                              <<Accept>> \o (IF e \in failed THEN <<>> ELSE greeting))
        BY <1>1 DEF AcceptRequest
    <2> DEFINE rest == IF e \in failed THEN <<>> ELSE greeting
               msgs == <<Accept>> \o rest
    <2>2. e \in End /\ e[1] = k /\ failed \in SUBSET End /\ Owner(e) \in Instance
        BY BothEnds, OtherEnd DEF Failures
    <2>3. /\ rest \in Seq(Message)
          /\ \A n \in 1 .. Len(rest) : rest[n] = Greeting(store[Owner(e)])
        <3>1. Greeting(store[Owner(e)]) \in Message
            BY <2>2, MessageTypes DEF SyncInv, TypeOK
        <3>2. greeting = <<>> \/ greeting = <<Greeting(store[Owner(e)])>>
            BY DEF ServerGreeting, Owner
        <3> DEFINE m == Greeting(store[Owner(e)])
        <3>3. rest = <<>> \/ rest = <<m>>
            BY <3>2
        <3>. HIDE DEF rest, m
        <3>4. CASE rest = <<>>
            BY <3>4, EmptySeq
        <3>5. CASE rest = <<m>>
            BY <3>1, <3>5 DEF m
        <3>. QED
            BY <3>3, <3>4, <3>5
    <2>4. /\ msgs \in Seq(Message)
          /\ \A n \in 1 .. Len(msgs) :
                msgs[n] = Accept \/ msgs[n] = Greeting(store[Owner(e)])
        <3>. HIDE DEF rest
        <3>1. /\ <<Accept>> \in Seq(Message) /\ Len(<<Accept>>) = 1
              /\ <<Accept>>[1] = Accept
            BY MessageTypes
        <3>2. /\ msgs \in Seq(Message)
              /\ Len(msgs) = 1 + Len(rest)
              /\ \A n \in 1 .. 1 + Len(rest) :
                   msgs[n] = IF n <= 1 THEN <<Accept>>[n] ELSE rest[n - 1]
            BY <2>3, <3>1, ConcatProperties
        <3>3. Len(rest) \in Nat
            BY <2>3, LenProperties
        <3>. HIDE DEF msgs
        <3>4. ASSUME NEW n \in 1 .. Len(msgs)
              PROVE  msgs[n] = Accept \/ msgs[n] = Greeting(store[Owner(e)])
            <4>1. CASE n = 1
                BY <3>1, <3>2, <3>3, <4>1
            <4>2. CASE n # 1
                <5>1. n - 1 \in 1 .. Len(rest) /\ msgs[n] = rest[n - 1]
                    BY <3>2, <3>3, <4>2
                <5>. QED
                    BY <2>3, <5>1
            <4>. QED
                BY <4>1, <4>2
        <3>. QED
            BY <3>2, <3>4
    <2>5. inbox' = Posted(inbox, {e}, msgs)
        BY <2>1
    <2> HIDE DEF e, msgs, rest, greeting
    <2>6. \A g \in End : inbox'[g] = inbox[g] \o Sending({e}, msgs)[g]
        <3>1. inbox \in Boxes
            BY DEF SyncInv, TypeOK, Boxes
        <3>. QED
            BY <2>5, <3>1, PostedOnly
    <2>7. \A g \in End : \/ inbox'[g] = <<>> /\ link'[g[1]] # "up"
                         \/ inbox'[g] = Rest({}, g) \o Sending({e}, msgs)[g]
        BY <2>6 DEF Rest
    <2>8. /\ \A j \in Conn : link'[j] = "up" => link[j] = "up"
          /\ store' = store /\ greeted' = greeted /\ tracker' = tracker
          /\ link[k] # "unused"
        BY <1>1, <2>1 DEF LinksWithout, AcceptRequest
    <2>9. SentIsHeld' /\ NoGapInFlight' /\ TrackerIsSound'
        <3>1. e \in End /\ Greets(e, msgs, {})
            BY <2>2, <2>4, <2>7, <2>8 DEF Greets
        <3>. QED
            BY <3>1, GreetingStep
    <2>10. LinkIsUsed'
        <3>1. \A f \in End : status'[f] # "idle" =>
                    status[f] # "idle" \/ f \in failed \/ f = e
            BY <2>1 DEF SyncInv, TypeOK
        <3>2. greeted' \subseteq greeted \cup {e} /\ link' = LinksWithout(failed)
            BY <2>1, <2>8
        <3>. QED
            BY <2>2, <2>8, <3>1, <3>2, LinkStaysUsed
    <2>. QED
        BY <2>9, <2>10 DEF SyncInv
<1>2. ASSUME NEW e \in End, ReceiveAccept(e)
      PROVE  SyncInv'
    <2> DEFINE greeting == <<Greeting(store[Owner(e)])>>
    <2>0. PICK failed \in Failures({e}) : \E left \in Left(e, failed) :
              /\ status' = [status EXCEPT ![e] = IF e \in failed THEN "dead" ELSE "open"]
              /\ link' = LinksWithout(failed)
              /\ inbox' = Drained(Posted(Consumed(e), {e} \ failed, greeting), left)
        BY <1>2 DEF ReceiveAccept
    <2>1. PICK left \in Left(e, failed) :
              /\ status' = [status EXCEPT ![e] = IF e \in failed THEN "dead" ELSE "open"]
              /\ link' = LinksWithout(failed)
              /\ inbox' = Drained(Posted(Consumed(e), {e} \ failed, greeting), left)
        BY <2>0
    <2>2. /\ failed \in SUBSET {e} /\ failed \in SUBSET End /\ left \in SUBSET failed
          /\ inbox[e] # <<>> /\ Head(inbox[e]).type # "bundle"
          /\ status[e] # "idle" /\ link[e[1]] # "unused"
          /\ store' = store /\ greeted' = greeted /\ tracker' = tracker
        BY <1>2, MessageTypes DEF Failures, Left, ReceiveAccept, SyncInv, LinkIsUsed
    <2>3. /\ greeting \in Seq(Message) /\ Len(greeting) = 1
          /\ greeting[1] = Greeting(store[Owner(e)])
        <3>1. store[Owner(e)] \in HasMaps
            BY OtherEnd DEF SyncInv, TypeOK
        <3>2. Greeting(store[Owner(e)]) \in Message
            BY <3>1, MessageTypes
        <3>. QED
            BY <3>2
    <2>4. Consumed(e) \in Boxes /\ \A g \in End : Consumed(e)[g] = Rest({e}, g)
        BY <2>2, EffectTypes DEF Consumed, Rest, SyncInv, TypeOK
    <2> HIDE DEF greeting
    <2>5. ASSUME NEW g \in End
          PROVE  \/ inbox'[g] = <<>> /\ link'[g[1]] # "up"
                 \/ inbox'[g] = Rest({e}, g) \o Sending({e} \ failed, greeting)[g]
        <3> DEFINE box == Consumed(e)
                   from == {e} \ failed
        <3>1. TypeOK /\ box \in Boxes /\ greeting \in Seq(Message)
            BY <2>3, <2>4 DEF SyncInv
        <3>2. inbox' = Drained(Posted(box, from, greeting), left) /\ box[g] = Rest({e}, g)
            BY <2>1, <2>4
        <3>. HIDE DEF box, from
        <3>3. \/ /\ Drained(Posted(box, from, greeting), left)[g] = <<>>
                 /\ LinksWithout(failed)[g[1]] = "cut"
              \/ Drained(Posted(box, from, greeting), left)[g] =
                    box[g] \o Sending(from, greeting)[g]
            BY <2>2, <3>1, SendingProperties, ZenonT(30)
        <3>. QED
            BY <2>1, <3>2, <3>3 DEF from
    <2> DEFINE msgs == IF e \in failed THEN <<>> ELSE greeting
               read == {e}
    <2>6. /\ msgs \in Seq(Message)
          /\ \A n \in 1 .. Len(msgs) :
                msgs[n] = Accept \/ msgs[n] = Greeting(store[Owner(e)])
        <3>1. msgs = <<>> \/ msgs = greeting
            OBVIOUS
        <3>. HIDE DEF msgs
        <3>2. CASE msgs = <<>>
            BY <3>2, EmptySeq
        <3>3. CASE msgs = greeting
            <4>1. \A n \in 1 .. Len(greeting) : n = 1
                BY <2>3
            <4>. QED
                BY <2>3, <3>3, <4>1
        <3>. QED
            BY <3>1, <3>2, <3>3
    <2>7. \A g \in End : Sending({e} \ failed, greeting)[g] = Sending({e}, msgs)[g]
        BY DEF Sending
    <2>8. /\ read \in SUBSET {e}
          /\ e \in read => inbox[e] # <<>> /\ Head(inbox[e]).type # "bundle"
          /\ \A j \in Conn : link'[j] = "up" => link[j] = "up"
        BY <2>1, <2>2 DEF LinksWithout
    <2>9. \A g \in End : \/ inbox'[g] = <<>> /\ link'[g[1]] # "up"
                         \/ inbox'[g] = Rest(read, g) \o Sending({e}, msgs)[g]
        BY <2>5, <2>7
    <2> HIDE DEF msgs, read
    <2>10. SentIsHeld' /\ NoGapInFlight' /\ TrackerIsSound'
        <3>1. Greets(e, msgs, read)
            BY <2>2, <2>6, <2>8, <2>9 DEF Greets
        <3>. QED
            BY <3>1, GreetingStep
    <2>11. LinkIsUsed'
        BY <2>1, <2>2, LinkStaysUsed DEF SyncInv, TypeOK
    <2>. QED
        BY <2>10, <2>11 DEF SyncInv
<1>. QED
    BY <1>1, <1>2

\* An end that answers a greeting with bundles of its store keeps queues and
\* trackers sound, if these bundles leave no gap at the peer.
LEMMA OfferStep ==
    ASSUME SyncInv, TypeOK', NEW e \in End, NEW msgs \in Seq(Message),
           \A n \in 1 .. Len(msgs) : Truthful(msgs[n], store[Owner(e)]),
           NoGap(msgs, store[Owner(Other(e))]),
           NEW read \in SUBSET {e},
           e \in read => inbox[e] # <<>> /\ Head(inbox[e]).type # "bundle",
           \A g \in End : \/ inbox'[g] = <<>> /\ link'[g[1]] # "up"
                          \/ inbox'[g] = Rest(read, g) \o Sending({e}, msgs)[g],
           store' = store,
           \A f \in greeted' : link'[f[1]] = "up" =>
              \A c \in Chain :
                \/ tracker'[f][c] <= store[Owner(Other(f))][c]
                \/ f = e /\ link[f[1]] = "up" /\ Queued(msgs, c, tracker'[f][c])
                \/ /\ f \in greeted
                   /\ link[f[1]] = "up"
                   /\ tracker'[f][c] = tracker[f][c]
    PROVE  SentIsHeld' /\ NoGapInFlight' /\ TrackerIsSound'
<1> DEFINE sent == Sending({e}, msgs)
<1>1. sent \in Boxes
    BY EmptySeq DEF Boxes, Sending
<1>2. \A p \in Instance : AtLeast(store'[p], store[p])
    BY DEF AtLeast, SyncInv, TypeOK, HasMaps
<1>3. ASSUME NEW g \in End
      PROVE  \/ sent[g] = <<>>
             \/ Other(g) = e /\ g = Other(e) /\ sent[g] = msgs
    BY OtherEnd DEF Sending
<1>4. link[e[1]] = "up" => sent[Other(e)] = msgs
    BY OtherEnd DEF Sending
<1>5. \A g \in End : \/ inbox'[g] = <<>> /\ link'[g[1]] # "up"
                     \/ inbox'[g] = Rest(read, g) \o sent[g]
    OBVIOUS
<1> HIDE DEF sent
<1>6. ASSUME NEW g \in End, NEW n \in 1 .. Len(sent[g])
      PROVE  Truthful(sent[g][n], store'[Owner(Other(g))])
    BY <1>3, <1>6, EmptySeq
<1>7. \A g \in End : \/ NoGap(sent[g], store'[Owner(g)])
                     \/ /\ g \notin read
                        /\ \E c \in Chain, i \in Nat :
                              sent[g] = <<Bundle(c, i)>> /\ Queued(inbox[g], c, i - 1)
    BY <1>3, NoGapEmpty
<1>8. ASSUME NEW f \in greeted', link'[f[1]] = "up", NEW c \in Chain
      PROVE  \/ tracker'[f][c] <= store'[Owner(Other(f))][c]
             \/ Queued(sent[Other(f)], c, tracker'[f][c])
             \/ /\ f \in greeted
                /\ link[f[1]] = "up"
                /\ tracker'[f][c] = tracker[f][c]
    BY <1>4, <1>8
<1>9. /\ read \in SUBSET End
      /\ \A g \in read :
              /\ inbox[g] # <<>>
              /\ Head(inbox[g]).type = "bundle" =>
                    Head(inbox[g]).number <= store'[Owner(g)][Head(inbox[g]).chain]
    OBVIOUS
<1>. QED
    BY <1>1, <1>2, <1>5, <1>6, <1>7, <1>8, <1>9, QueueStep

\* What is offered in answer to a greeting is truthful, leaves no gap at the
\* peer, and makes the tracker true of the peer.
LEMMA Answer ==
    ASSUME SyncInv, NEW e \in End, Reading(e, "greeting"),
           NEW offered \in Offers(Head(inbox[e]).has, store[Owner(e)])
    PROVE  /\ offered \in Seq(Message)
           /\ \A n \in 1 .. Len(offered) : Truthful(offered[n], store[Owner(e)])
           /\ NoGap(offered, store[Owner(Other(e))])
           /\ \A c \in Chain :
                LET new == Greeted(Head(inbox[e]).has, store[Owner(e)])[c]
                IN  new <= store[Owner(Other(e))][c] \/ Queued(offered, c, new)
<1> DEFINE map == Head(inbox[e]).has
           mine == store[Owner(e)]
           theirs == store[Owner(Other(e))]
<1>1. TypeOK /\ inbox[e] # <<>> /\ Head(inbox[e]).type = "greeting"
    BY DEF Reading, SyncInv
<1>2. map \in HasMaps /\ mine \in HasMaps /\ theirs \in HasMaps
    BY <1>1, ReadingType, OtherEnd DEF TypeOK
<1>3. AtLeast(theirs, map)
    <2>1. 1 \in 1 .. Len(inbox[e]) /\ inbox[e][1] = Head(inbox[e])
        BY <1>1, ReadingType
    <2>2. Truthful(Head(inbox[e]), theirs)
        BY <2>1 DEF SyncInv, SentIsHeld
    <2>. QED
        BY <1>1, <2>2 DEF Truthful, AtLeast
<1> HIDE DEF map, mine, theirs
<1>4. offered \in Offers(map, mine)
    BY DEF map, mine
<1>5. /\ offered \in Seq(Message)
      /\ \A n \in 1 .. Len(offered) :
            /\ offered[n] \in Bundles
            /\ map[offered[n].chain] < offered[n].number
            /\ offered[n].number <= mine[offered[n].chain]
      /\ \A c \in Chain, i \in Nat : map[c] < i /\ i <= mine[c] => Queued(offered, c, i)
      /\ \A h \in HasMaps : AtLeast(h, map) => NoGap(offered, h)
    BY <1>2, <1>4, OffersProperties
<1>6. ASSUME NEW n \in 1 .. Len(offered)
      PROVE  Truthful(offered[n], mine)
    <2>1. /\ offered[n].type = "bundle"
          /\ offered[n].chain \in Chain
          /\ offered[n].number \in Nat
        BY <1>5 DEF Bundles
    <2>2. map[offered[n].chain] \in Nat
        BY <1>2, <2>1 DEF HasMaps
    <2>. QED
        BY <1>5, <2>1, <2>2 DEF Truthful
<1>7. ASSUME NEW c \in Chain
      PROVE  LET new == Greeted(map, mine)[c]
             IN  new <= theirs[c] \/ Queued(offered, c, new)
    <2>1. map[c] \in Nat /\ mine[c] \in Nat /\ theirs[c] \in Nat /\ map[c] <= theirs[c]
        BY <1>2, <1>3 DEF HasMaps, AtLeast
    <2>2. Greeted(map, mine)[c] = IF map[c] < mine[c] THEN mine[c] ELSE map[c]
        BY DEF Greeted
    <2>. QED
        BY <1>5, <2>1, <2>2
<1>. QED
    BY <1>2, <1>3, <1>5, <1>6, <1>7 DEF map, mine, theirs

\* Answering a greeting preserves the invariant.
LEMMA ReceiveGreetingStep ==
    ASSUME SyncInv, TypeOK', NEW e \in End, ReceiveGreeting(e)
    PROVE  SyncInv'
<1> DEFINE map == Head(inbox[e]).has
           mine == store[Owner(e)]
           box == Consumed(e)
           from == {e}
<1>0. PICK offered \in Offers(map, mine), failed \in Failures({e}) :
           \E left \in Left(e, failed) :
              /\ inbox' = Drained(Posted(box, from, offered), left)
              /\ status' = Closed(failed)
              /\ link' = LinksWithout(failed)
    BY DEF ReceiveGreeting
<1>1. PICK left \in Left(e, failed) :
              /\ inbox' = Drained(Posted(box, from, offered), left)
              /\ status' = Closed(failed)
              /\ link' = LinksWithout(failed)
    BY <1>0
<1>2. /\ Reading(e, "greeting")
      /\ greeted' = greeted \cup {e}
      /\ tracker' = [tracker EXCEPT ![e] = Greeted(map, mine)]
      /\ store' = store
    BY DEF ReceiveGreeting
<1>3. /\ offered \in Seq(Message)
      /\ \A n \in 1 .. Len(offered) : Truthful(offered[n], store[Owner(e)])
      /\ NoGap(offered, store[Owner(Other(e))])
      /\ \A c \in Chain :
            \/ Greeted(map, mine)[c] <= store[Owner(Other(e))][c]
            \/ Queued(offered, c, Greeted(map, mine)[c])
    BY <1>1, <1>2, Answer
<1>4. /\ failed \in SUBSET End /\ left \in SUBSET failed
      /\ inbox[e] # <<>> /\ Head(inbox[e]).type # "bundle"
      /\ link[e[1]] # "unused"
    BY <1>2 DEF Failures, Left, Reading, SyncInv, LinkIsUsed
<1>5. TypeOK /\ box \in Boxes /\ \A g \in End : box[g] = Rest({e}, g)
    BY <1>4, EffectTypes DEF Consumed, Rest, SyncInv, TypeOK
<1> HIDE DEF map, mine, box, from
<1>6. ASSUME NEW g \in End
      PROVE  \/ inbox'[g] = <<>> /\ link'[g[1]] # "up"
             \/ inbox'[g] = Rest({e}, g) \o Sending({e}, offered)[g]
    <2>1. \/ /\ Drained(Posted(box, from, offered), left)[g] = <<>>
             /\ LinksWithout(failed)[g[1]] = "cut"
          \/ Drained(Posted(box, from, offered), left)[g] =
                box[g] \o Sending(from, offered)[g]
        BY <1>3, <1>4, <1>5, SendingProperties
    <2>. QED
        BY <1>1, <1>5, <2>1 DEF from
<1>7. ASSUME NEW f \in greeted', link'[f[1]] = "up", NEW c \in Chain
      PROVE  \/ tracker'[f][c] <= store[Owner(Other(f))][c]
             \/ f = e /\ link[f[1]] = "up" /\ Queued(offered, c, tracker'[f][c])
             \/ /\ f \in greeted
                /\ link[f[1]] = "up"
                /\ tracker'[f][c] = tracker[f][c]
    <2>1. f \in End /\ f[1] \in Conn
        BY <1>2, OtherEnd DEF SyncInv, TypeOK
    <2>2. link[f[1]] = "up"
        BY <1>1, <1>7, <2>1 DEF LinksWithout
    <2>3. CASE f = e
        <3>1. tracker'[f] = Greeted(map, mine)
            BY <1>2, <2>3 DEF SyncInv, TypeOK
        <3>. QED
            BY <1>3, <2>2, <2>3, <3>1
    <2>4. CASE f # e
        <3>1. f \in greeted /\ tracker'[f] = tracker[f]
            BY <1>2, <2>1, <2>4 DEF SyncInv, TypeOK
        <3>. QED
            BY <2>2, <3>1
    <2>. QED
        BY <2>3, <2>4
<1>8. SentIsHeld' /\ NoGapInFlight' /\ TrackerIsSound'
    <2> DEFINE read == {e}
    <2>1. /\ read \in SUBSET {e}
          /\ e \in read => inbox[e] # <<>> /\ Head(inbox[e]).type # "bundle"
        BY <1>4
    <2>2. \A g \in End : \/ inbox'[g] = <<>> /\ link'[g[1]] # "up"
                         \/ inbox'[g] = Rest(read, g) \o Sending({e}, offered)[g]
        BY <1>6
    <2>. HIDE DEF read
    <2>. QED
        BY <1>2, <1>3, <1>7, <2>1, <2>2, OfferStep
<1>9. LinkIsUsed'
    <2>1. \A f \in End : status'[f] # "idle" =>
                    status[f] # "idle" \/ f \in failed \/ f = e
        BY <1>1 DEF Closed
    <2>. QED
        BY <1>1, <1>2, <1>4, <2>1, LinkStaysUsed
<1>. QED
    BY <1>8, <1>9 DEF SyncInv

\* A failure in the middle of the answer to a greeting.
LEMMA ReceiveGreetingRaisesStep ==
    ASSUME SyncInv, TypeOK', NEW e \in End, ReceiveGreetingRaises(e)
    PROVE  SyncInv'
<1> DEFINE map == Head(inbox[e]).has
           p == Owner(e)
           from == {e}
<1>1. Reading(e, "greeting") /\ store' = store
    BY DEF ReceiveGreetingRaises
<1>2. PICK offered \in Offers(map, store[p]) :
        \E n \in 1 .. Len(offered) :
              Dies(p, Posted(inbox, from, SubSeq(offered, 1, n - 1)))
    BY DEF ReceiveGreetingRaises
<1>3. PICK n \in 1 .. Len(offered) :
              Dies(p, Posted(inbox, from, SubSeq(offered, 1, n - 1)))
    BY <1>2
<1>4. /\ offered \in Seq(Message)
      /\ \A j \in 1 .. Len(offered) : Truthful(offered[j], store[Owner(e)])
      /\ NoGap(offered, store[Owner(Other(e))])
    BY <1>1, <1>2, Answer
<1>5. n - 1 \in 0 .. Len(offered)
    BY <1>4, LenProperties
<1> DEFINE msgs == SubSeq(offered, 1, n - 1)
<1>6. /\ msgs \in Seq(Message)
      /\ Len(msgs) = n - 1
      /\ \A j \in 1 .. (n - 1) : msgs[j] = offered[j]
      /\ NoGap(msgs, store[Owner(Other(e))])
    BY <1>4, <1>5, Prefix
<1>7. Dies(p, Posted(inbox, from, msgs))
    BY <1>3
<1> HIDE DEF msgs, from, map, p
<1>8. \A j \in 1 .. Len(msgs) : Truthful(msgs[j], store[Owner(e)])
    BY <1>4, <1>5, <1>6, LenProperties
<1>9. TypeOK /\ inbox \in Boxes /\ p \in Instance /\ {} \in SUBSET End
    BY OtherEnd DEF SyncInv, TypeOK, Boxes, p
<1>10. /\ Posted(inbox, from, msgs) \in Boxes
       /\ \A g \in End : Posted(inbox, from, msgs)[g] = inbox[g] \o Sending(from, msgs)[g]
    BY <1>6, <1>9, PostedType, SendingProperties
<1>11. /\ \A g \in End : \/ inbox'[g] = <<>> /\ link'[g[1]] # "up"
                         \/ inbox'[g] = Posted(inbox, from, msgs)[g]
       /\ \A f \in greeted' : link'[f[1]] = "up" =>
              f \in greeted /\ link[f[1]] = "up" /\ tracker'[f] = tracker[f]
       /\ LinkIsUsed'
    BY <1>7, <1>9, <1>10, DiesStep
<1>12. SentIsHeld' /\ NoGapInFlight' /\ TrackerIsSound'
    <2> DEFINE read == {}
    <2>1. /\ read \in SUBSET {e}
          /\ e \in read => inbox[e] # <<>> /\ Head(inbox[e]).type # "bundle"
        OBVIOUS
    <2>2. \A g \in End : \/ inbox'[g] = <<>> /\ link'[g[1]] # "up"
                         \/ inbox'[g] = Rest(read, g) \o Sending({e}, msgs)[g]
        BY <1>10, <1>11 DEF Rest, from
    <2>3. \A f \in greeted' : link'[f[1]] = "up" =>
              \A c \in Chain :
                \/ tracker'[f][c] <= store[Owner(Other(f))][c]
                \/ f = e /\ link[f[1]] = "up" /\ Queued(msgs, c, tracker'[f][c])
                \/ /\ f \in greeted
                   /\ link[f[1]] = "up"
                   /\ tracker'[f][c] = tracker[f][c]
        BY <1>11
    <2>. HIDE DEF read
    <2>. QED
        BY <1>1, <1>6, <1>8, <2>1, <2>2, <2>3, OfferStep
<1>. QED
    BY <1>11, <1>12 DEF SyncInv

\* A step that stores bundle i of chain c at p, or finds it there, has read it
\* at the ends in "read", and sends it from ends whose trackers say that the
\* peer has its predecessor.
Spreads(p, c, i, read, from) ==
    /\ 1 <= i
    /\ i <= store'[p][c]
    /\ \A q \in Instance : AtLeast(store'[q], store[q])
    /\ \A g \in read : /\ Owner(g) = p
                       /\ inbox[g] # <<>>
                       /\ Head(inbox[g]) = Bundle(c, i)
    /\ \A f \in from : Owner(f) = p /\ is_valid_extension(tracker[f], c, i)
    /\ \A g \in End :
          \/ inbox'[g] = <<>> /\ link'[g[1]] # "up"
          \/ inbox'[g] = Rest(read, g) \o Sending(from, <<Bundle(c, i)>>)[g]
    /\ \A f \in greeted' : link'[f[1]] = "up" =>
          /\ f \in greeted
          /\ link[f[1]] = "up"
          /\ \/ tracker'[f] = tracker[f]
             \/ /\ f \in from \cup read
                /\ tracker'[f] = mark_as_having(tracker[f], c, i)

\* Such a step keeps queues and trackers sound.
LEMMA BundleStep ==
    ASSUME SyncInv, TypeOK', NEW p \in Instance, NEW c \in Chain, NEW i \in Nat,
           NEW read \in SUBSET End, NEW from \in SUBSET greeted,
           Spreads(p, c, i, read, from)
    PROVE  SentIsHeld' /\ NoGapInFlight' /\ TrackerIsSound'
<1> USE DEF Spreads
<1> DEFINE b == <<Bundle(c, i)>>
           sent == Sending(from, b)
<1>1. /\ b \in Seq(Message) /\ Len(b) = 1 /\ b[1] = Bundle(c, i) /\ Queued(b, c, i)
      /\ Bundle(c, i).type = "bundle" /\ Bundle(c, i).chain = c /\ Bundle(c, i).number = i
    BY BundleQueue, MessageTypes
<1>2. sent \in Boxes
    BY <1>1, EmptySeq DEF Boxes, Sending
<1>3. ASSUME NEW g \in End
      PROVE  \/ sent[g] = <<>>
             \/ Other(g) \in from /\ link[g[1]] = "up" /\ sent[g] = b
    BY DEF Sending
<1>4. \A g \in End : \/ inbox'[g] = <<>> /\ link'[g[1]] # "up"
                     \/ inbox'[g] = Rest(read, g) \o sent[g]
    OBVIOUS
<1>5. ASSUME NEW f \in from, link[f[1]] = "up"
      PROVE  f \in End /\ sent[Other(f)] = b
    BY <1>5, OtherEnd DEF Sending, SyncInv, TypeOK
<1> HIDE DEF sent, b
<1>6. ASSUME NEW g \in End, NEW n \in 1 .. Len(sent[g])
      PROVE  Truthful(sent[g][n], store'[Owner(Other(g))])
    <2>1. sent[g] = b /\ Owner(Other(g)) = p /\ n = 1
        <3>1. sent[g] # <<>>
            BY <1>6, EmptySeq
        <3>2. Other(g) \in from /\ sent[g] = b
            BY <1>3, <3>1
        <3>3. Len(sent[g]) = 1
            BY <1>1, <3>2
        <3>4. n = 1
            BY <1>6, <3>3
        <3>. QED
            BY <3>2, <3>4
    <2>. QED
        BY <1>1, <2>1 DEF Truthful
<1>7. ASSUME NEW g \in End
      PROVE  \/ NoGap(sent[g], store'[Owner(g)])
             \/ /\ g \notin read
                /\ \E d \in Chain, j \in Nat :
                       sent[g] = <<Bundle(d, j)>> /\ Queued(inbox[g], d, j - 1)
    <2>1. CASE sent[g] = <<>>
        BY <2>1, NoGapEmpty
    <2>2. CASE Other(g) \in from /\ link[g[1]] = "up" /\ sent[g] = b
        <3> DEFINE f == Other(g)
        <3>1. /\ f \in greeted /\ Owner(f) = p /\ f \in End /\ g = Other(f)
              /\ Owner(g) # p /\ f[1] = g[1] /\ Owner(g) \in Instance
            BY <2>2, OtherEnd
        <3>2. g \notin read
            BY <3>1
        <3>3. \/ tracker[f][c] <= store[Owner(g)][c]
              \/ Queued(inbox[g], c, tracker[f][c])
            BY <2>2, <3>1 DEF SyncInv, TrackerIsSound
        <3>4. i = 1 \/ tracker[f][c] = i - 1
            BY <2>2 DEF is_valid_extension
        <3>5. /\ store[Owner(g)][c] \in Nat /\ store'[Owner(g)][c] \in Nat
              /\ store[Owner(g)][c] <= store'[Owner(g)][c]
            BY <3>1 DEF SyncInv, TypeOK, HasMaps, AtLeast
        <3>6. CASE i <= store'[Owner(g)][c] + 1
            <4>1. NoGap(b, store'[Owner(g)])
                BY <1>1, <3>6 DEF NoGap
            <4>. QED
                BY <2>2, <4>1
        <3>7. CASE Queued(inbox[g], c, i - 1)
            BY <2>2, <3>2, <3>7 DEF b
        <3>. HIDE DEF f
        <3>. QED
            BY <3>3, <3>4, <3>5, <3>6, <3>7
    <2>. QED
        BY <1>3, <2>1, <2>2
<1>8. ASSUME NEW f \in greeted', link'[f[1]] = "up", NEW d \in Chain
      PROVE  \/ tracker'[f][d] <= store'[Owner(Other(f))][d]
             \/ Queued(sent[Other(f)], d, tracker'[f][d])
             \/ /\ f \in greeted
                /\ link[f[1]] = "up"
                /\ tracker'[f][d] = tracker[f][d]
    <2>1. /\ f \in greeted /\ f \in End /\ link[f[1]] = "up"
          /\ tracker[f] \in HasMaps /\ tracker[f][d] \in Nat
        BY <1>8 DEF SyncInv, TypeOK, HasMaps
    <2>2. CASE tracker'[f] = tracker[f]
        BY <2>1, <2>2
    <2>3. CASE /\ f \in from \cup read
               /\ tracker'[f] = mark_as_having(tracker[f], c, i)
        <3>1. \/ tracker'[f][d] = tracker[f][d]
              \/ d = c /\ tracker'[f][d] = i
            BY <2>1, <2>3 DEF mark_as_having, HasMaps
        <3>2. CASE d = c /\ tracker'[f][d] = i /\ f \in from
            BY <1>1, <1>5, <2>1, <3>2
        <3>3. CASE d = c /\ tracker'[f][d] = i /\ f \in read
            <4>1. inbox[f] # <<>> /\ Head(inbox[f]) = Bundle(c, i) /\ TypeOK
                BY <3>3 DEF SyncInv
            <4>2. inbox[f][1] = Bundle(c, i) /\ 1 \in 1 .. Len(inbox[f])
                BY <2>1, <4>1, ReadingType
            <4>3. Truthful(Bundle(c, i), store[Owner(Other(f))])
                BY <2>1, <4>2 DEF SyncInv, SentIsHeld
            <4>4. i <= store[Owner(Other(f))][c]
                BY <1>1, <4>3 DEF Truthful
            <4>5. /\ store[Owner(Other(f))][c] \in Nat /\ store'[Owner(Other(f))][c] \in Nat
                  /\ store[Owner(Other(f))][c] <= store'[Owner(Other(f))][c]
                BY <2>1, OtherEnd DEF SyncInv, TypeOK, HasMaps, AtLeast
            <4>. QED
                BY <3>3, <4>4, <4>5
        <3>. QED
            BY <2>1, <2>3, <3>1, <3>2, <3>3
    <2>. QED
        BY <1>8, <2>2, <2>3
<1>9. \A g \in read :
              /\ inbox[g] # <<>>
              /\ Head(inbox[g]).type = "bundle" =>
                    Head(inbox[g]).number <= store'[Owner(g)][Head(inbox[g]).chain]
    BY <1>1
<1>. QED
    BY <1>2, <1>4, <1>6, <1>7, <1>8, <1>9, QueueStep

\* A bundle that is read has a number, is known to its chain's numbering, and
\* its predecessor is in the reader's store.
LEMMA Arrival ==
    ASSUME SyncInv, NEW e \in End, inbox[e] # <<>>, Head(inbox[e]).type = "bundle",
           status[e] # "idle"
    PROVE  LET b == Head(inbox[e])
           IN  /\ inbox[e] # <<>>
               /\ b.chain \in Chain
               /\ b.number \in Nat
               /\ b = Bundle(b.chain, b.number)
               /\ 1 <= b.number
               /\ b.number <= store[Owner(e)][b.chain] + 1
               /\ b.number <= store[Owner(Other(e))][b.chain]
               /\ link[e[1]] # "unused"
<1> DEFINE b == Head(inbox[e])
<1>1. TypeOK /\ inbox[e] # <<>> /\ b.type = "bundle" /\ link[e[1]] # "unused"
    BY DEF SyncInv, LinkIsUsed
<1>2. /\ b.chain \in Chain /\ b.number \in Nat /\ b = Bundle(b.chain, b.number)
      /\ b = inbox[e][1] /\ 1 \in 1 .. Len(inbox[e])
    BY <1>1, ReadingType
<1> HIDE DEF b
<1>3. 1 <= b.number /\ b.number <= store[Owner(Other(e))][b.chain]
    <2>1. Truthful(b, store[Owner(Other(e))])
        BY <1>2 DEF SyncInv, SentIsHeld
    <2>. QED
        BY <1>1, <2>1 DEF Truthful
<1>4. b.number <= store[Owner(e)][b.chain] + 1
    <2>1. NoGap(inbox[e], store[Owner(e)])
        BY DEF SyncInv, NoGapInFlight
    <2>2. \/ b.number <= store[Owner(e)][b.chain] + 1
          \/ \E m \in 1 .. (1 - 1) : inbox[e][m] = Bundle(b.chain, b.number - 1)
        BY <1>1, <1>2, <2>1 DEF NoGap
    <2>. QED
        BY <2>2
<1>. QED
    BY <1>1, <1>2, <1>3, <1>4 DEF b

\* The ends a bundle is sent to have trackers that it extends, and are not the
\* end it came from.
LEMMA Recipients ==
    ASSUME TypeOK, NEW p, NEW c \in Chain, NEW i \in Nat, NEW trk,
           trk = tracker \/ \E e \in End : trk = Noted(e, c, i),
           NEW to \in Reached(p, trk, c, i)
    PROVE  /\ to \in SUBSET greeted
           /\ \A f \in to : /\ Owner(f) = p
                            /\ is_valid_extension(tracker[f], c, i)
                            /\ trk[f] = tracker[f]
<1>1. ASSUME NEW f \in to
      PROVE  /\ f \in greeted /\ Owner(f) = p
             /\ ~has(trk[f], c, i) /\ is_valid_extension(trk[f], c, i)
    BY DEF Reached, Targets, Raising
<1>2. ASSUME NEW f \in to
      PROVE  trk[f] = tracker[f]
    <2>1. CASE trk = tracker
        BY <2>1
    <2>2. ASSUME NEW e \in End, trk = Noted(e, c, i)
          PROVE  trk[f] = tracker[f]
        <3>1. f \in End /\ tracker[f] \in HasMaps
            BY <1>1 DEF TypeOK
        <3>2. CASE f = e
            <4>1. trk[f] = mark_as_having(tracker[f], c, i)
                BY <1>1, <2>2, <3>1, <3>2 DEF Noted, Marked
            <4>2. has(trk[f], c, i)
                BY <3>1, <4>1 DEF has, mark_as_having, HasMaps
            <4>. QED
                BY <1>1, <4>2
        <3>3. CASE f # e
            BY <2>2, <3>1, <3>3 DEF Noted, Marked
        <3>. QED
            BY <3>2, <3>3
    <2>. QED
        BY <2>1, <2>2
<1>. QED
    BY <1>1, <1>2

\* Raising one entry of one store, to the next number, makes every store hold
\* at least what it did.
LEMMA StoreGrows ==
    ASSUME TypeOK, NEW p \in Instance, NEW c \in Chain, NEW i \in Nat,
           store[p][c] <= i, store' = [store EXCEPT ![p][c] = i]
    PROVE  /\ \A q \in Instance : AtLeast(store'[q], store[q])
           /\ i <= store'[p][c]
BY DEF TypeOK, HasMaps, AtLeast

\* What a handler that spreads bundle i of chain c does to the variables other
\* than the store: it has read it at the ends in "read", which leaves the queues
\* "box", and sends it from the ends "to", of which "failed" fail, and those in
\* "left" have nothing left to handle.
Spreading(p, c, i, read, box, to, failed, left) ==
    /\ \A g \in End : box[g] = Rest(read, g)
    /\ \A g \in read : /\ Owner(g) = p
                       /\ inbox[g] # <<>>
                       /\ Head(inbox[g]) = Bundle(c, i)
                       /\ link[g[1]] # "unused"
    /\ \A f \in to : Owner(f) = p /\ is_valid_extension(tracker[f], c, i)
    /\ failed \subseteq to \cup read
    /\ left \subseteq failed
    /\ inbox' = Drained(Posted(box, to \ failed, <<Bundle(c, i)>>), left)
    /\ \A f \in End : \/ tracker'[f] = tracker[f]
                      \/ /\ f \in to \cup read
                         /\ tracker'[f] = mark_as_having(tracker[f], c, i)
    /\ greeted' = greeted
    /\ status' = Closed(failed)
    /\ link' = LinksWithout(failed)

\* Spreading a bundle preserves the invariant.
LEMMA SpreadStep ==
    ASSUME SyncInv, TypeOK', NEW p \in Instance, NEW c \in Chain, NEW i \in Nat,
           1 <= i, i <= store'[p][c],
           \A q \in Instance : AtLeast(store'[q], store[q]),
           NEW read \in SUBSET End, NEW box \in Boxes, NEW to \in SUBSET greeted,
           NEW failed \in SUBSET End, NEW left \in SUBSET failed,
           Spreading(p, c, i, read, box, to, failed, left)
    PROVE  SyncInv'
<1> USE DEF Spreading
<1> DEFINE from == to \ failed
           b == <<Bundle(c, i)>>
<1>1. TypeOK /\ from \in SUBSET greeted /\ b \in Seq(Message)
    BY BundleQueue DEF SyncInv
<1>2. inbox' = Drained(Posted(box, from, b), left)
    OBVIOUS
<1>3. \A f \in from : Owner(f) = p /\ is_valid_extension(tracker[f], c, i)
    OBVIOUS
<1>4. \A f \in End : link'[f[1]] = "up" => link[f[1]] = "up" /\ f \notin failed
    BY OtherEnd DEF LinksWithout
<1>5. ASSUME NEW f \in greeted', link'[f[1]] = "up"
      PROVE  /\ f \in greeted
             /\ link[f[1]] = "up"
             /\ \/ tracker'[f] = tracker[f]
                \/ /\ f \in from \cup read
                   /\ tracker'[f] = mark_as_having(tracker[f], c, i)
    BY <1>4, <1>5 DEF SyncInv, TypeOK
<1> HIDE DEF from
<1>6. ASSUME NEW g \in End
      PROVE  \/ inbox'[g] = <<>> /\ link'[g[1]] # "up"
             \/ inbox'[g] = Rest(read, g) \o Sending(from, <<Bundle(c, i)>>)[g]
    <2>. HIDE DEF b
    <2>1. \/ /\ Drained(Posted(box, from, b), left)[g] = <<>>
             /\ LinksWithout(failed)[g[1]] = "cut"
          \/ Drained(Posted(box, from, b), left)[g] = box[g] \o Sending(from, b)[g]
        BY <1>1, SendingProperties
    <2>. QED
        BY <1>2, <2>1 DEF b
<1>7. SentIsHeld' /\ NoGapInFlight' /\ TrackerIsSound'
    <2>1. Spreads(p, c, i, read, from)
        BY <1>3, <1>5, <1>6 DEF Spreads
    <2>. QED
        BY <1>1, <2>1, BundleStep
<1>8. LinkIsUsed'
    <2>1. \A k \in Conn : link'[k] = "unused" => link[k] = "unused"
        BY DEF LinksWithout
    <2>2. \A f \in failed : link[f[1]] # "unused" /\ f \in End
        BY DEF SyncInv, LinkIsUsed
    <2>. QED
        BY <2>1, <2>2, OtherEnd DEF SyncInv, LinkIsUsed, TypeOK, Closed
<1>. QED
    BY <1>7, <1>8 DEF SyncInv

\* The trackers after noting where a bundle came from and where it went.
LEMMA MarkedTrackers ==
    ASSUME TypeOK, NEW e \in End, NEW c \in Chain, NEW i \in Nat,
           NEW to \in SUBSET greeted, NEW trk,
           trk = Noted(e, c, i), \A f \in to : trk[f] = tracker[f],
           NEW f \in End
    PROVE  /\ \/ Marked(trk, to, c, i)[f] = tracker[f]
              \/ /\ f \in to \cup {e}
                 /\ Marked(trk, to, c, i)[f] = mark_as_having(tracker[f], c, i)
           /\ \/ trk[f] = tracker[f]
              \/ f = e /\ trk[f] = mark_as_having(tracker[f], c, i)
BY DEF Noted, Marked

\* A committed bundle.
LEMMA CommitStep ==
    ASSUME SyncInv, TypeOK', NEW c \in Chain, Commit(c)
    PROVE  SyncInv'
<1> DEFINE p == Writer[c]
           i == store[p][c] + 1
<1>1. PICK to \in Reached(p, tracker, c, i) : \E failed \in Failures(to) :
              /\ tracker' = Marked(tracker, to, c, i)
              /\ inbox' = Drained(Posted(inbox, to \ failed, <<Bundle(c, i)>>), failed)
              /\ status' = Closed(failed)
              /\ link' = LinksWithout(failed)
    BY DEF Commit
<1>2. PICK failed \in Failures(to) :
              /\ tracker' = Marked(tracker, to, c, i)
              /\ inbox' = Drained(Posted(inbox, to \ failed, <<Bundle(c, i)>>), failed)
              /\ status' = Closed(failed)
              /\ link' = LinksWithout(failed)
    BY <1>1
<1>3. store' = [store EXCEPT ![p][c] = i] /\ greeted' = greeted
    BY DEF Commit
<1>4. TypeOK /\ p \in Instance /\ i \in Nat /\ 1 <= i /\ store[p][c] <= i
    BY ConstantsAssumption DEF SyncInv, TypeOK, HasMaps
<1> HIDE DEF p, i
<1>5. /\ \A q \in Instance : AtLeast(store'[q], store[q])
      /\ i <= store'[p][c]
    BY <1>3, <1>4, StoreGrows
<1>6. /\ to \in SUBSET greeted
      /\ \A f \in to : Owner(f) = p /\ is_valid_extension(tracker[f], c, i)
    BY <1>1, <1>4, Recipients
<1>7. failed \in SUBSET to /\ failed \in SUBSET End /\ inbox \in Boxes
    BY <1>6 DEF Failures, SyncInv, TypeOK, Boxes
<1>8. \A f \in End : \/ tracker'[f] = tracker[f]
                     \/ /\ f \in to \cup {}
                        /\ tracker'[f] = mark_as_having(tracker[f], c, i)
    BY <1>2 DEF Marked
<1>9. Spreading(p, c, i, {}, inbox, to, failed, failed)
    BY <1>2, <1>3, <1>6, <1>7, <1>8 DEF Spreading, Rest
<1>. QED
    BY <1>4, <1>5, <1>6, <1>7, <1>9, SpreadStep

\* A bundle that the store has, or that it now stores and offers to others.
LEMMA ReceiveBundleStep ==
    ASSUME SyncInv, TypeOK', NEW e \in End, ReceiveDuplicate(e) \/ ReceiveBundle(e)
    PROVE  SyncInv'
<1> DEFINE b == Head(inbox[e])
           p == Owner(e)
           c == b.chain
           i == b.number
           trk == Noted(e, c, i)
           box == Consumed(e)
           read == {e}
<1>1. Reading(e, "bundle") /\ greeted' = greeted
    BY DEF ReceiveDuplicate, ReceiveBundle
<1>2. /\ inbox[e] # <<>> /\ c \in Chain /\ i \in Nat /\ b = Bundle(c, i) /\ 1 <= i
      /\ link[e[1]] # "unused"
    BY <1>1, Arrival DEF Reading
<1>3. /\ TypeOK /\ p \in Instance /\ read \in SUBSET End
      /\ box \in Boxes /\ \A g \in End : box[g] = Rest(read, g)
    BY <1>2, EffectTypes, OtherEnd DEF Consumed, Rest, SyncInv, TypeOK
<1>4. \A g \in read : /\ Owner(g) = p
                      /\ inbox[g] # <<>>
                      /\ Head(inbox[g]) = Bundle(c, i)
                      /\ link[g[1]] # "unused"
    BY <1>2
<1>5. CASE ReceiveDuplicate(e)
    <2>0. PICK failed \in Failures({e}) : \E left \in Left(e, failed) :
              /\ inbox' = Drained(Consumed(e), left)
              /\ status' = Closed(failed)
              /\ link' = LinksWithout(failed)
        BY <1>5 DEF ReceiveDuplicate
    <2>1. PICK left \in Left(e, failed) :
              /\ inbox' = Drained(Consumed(e), left)
              /\ status' = Closed(failed)
              /\ link' = LinksWithout(failed)
        BY <2>0
    <2>2. /\ AlreadySeen(store[p][c], i) /\ tracker' = trk /\ store' = store
        BY <1>5 DEF ReceiveDuplicate
    <2> DEFINE to == {}
    <2> HIDE DEF b, p, c, i, trk, box
    <2>3. /\ failed \in SUBSET End /\ failed \subseteq to \cup read
          /\ to \in SUBSET greeted /\ left \in SUBSET failed
        BY DEF Failures, Left
    <2>4. /\ \A q \in Instance : AtLeast(store'[q], store[q])
          /\ i <= store'[p][c]
        BY <1>2, <1>3, <2>2 DEF AlreadySeen, SyncInv, TypeOK, HasMaps, AtLeast
    <2>5. \A f \in End : \/ tracker'[f] = tracker[f]
                         \/ /\ f \in to \cup read
                            /\ tracker'[f] = mark_as_having(tracker[f], c, i)
        BY <2>2 DEF trk, Noted, Marked
    <2>6. inbox' = Drained(Posted(box, to \ failed, <<Bundle(c, i)>>), left)
        <3>1. Posted(box, to \ failed, <<Bundle(c, i)>>) = box
            BY <1>3 DEF Posted, Boxes
        <3>. QED
            BY <2>1, <3>1 DEF box
    <2>7. \A f \in to : Owner(f) = p /\ is_valid_extension(tracker[f], c, i)
        OBVIOUS
    <2> HIDE DEF read, to
    <2>8. Spreading(p, c, i, read, box, to, failed, left)
        BY <1>1, <1>3, <1>4, <2>1, <2>3, <2>5, <2>6, <2>7 DEF Spreading
    <2>. QED
        BY <1>2, <1>3, <2>3, <2>4, <2>8, SpreadStep
<1>6. CASE ReceiveBundle(e)
    <2> DEFINE to == Targets(p, trk, c, i)
    <2>0. PICK failed \in Failures(to \cup {e}) : \E left \in Left(e, failed) :
              /\ inbox' = Drained(Posted(Consumed(e), to \ failed, <<b>>), left)
              /\ status' = Closed(failed)
              /\ link' = LinksWithout(failed)
        BY <1>6 DEF ReceiveBundle
    <2>1. to \in Reached(p, trk, c, i) /\ tracker' = Marked(trk, to, c, i)
        BY <1>6 DEF ReceiveBundle, Reached
    <2>2. PICK left \in Left(e, failed) :
              /\ inbox' = Drained(Posted(Consumed(e), to \ failed, <<b>>), left)
              /\ status' = Closed(failed)
              /\ link' = LinksWithout(failed)
        BY <2>0
    <2>3. is_needed(store[p][c], i) /\ store' = [store EXCEPT ![p][c] = i]
        BY <1>6 DEF ReceiveBundle
    <2> HIDE DEF b, p, c, i, trk, box, to
    <2>4. /\ to \in SUBSET greeted
          /\ \A f \in to : /\ Owner(f) = p /\ is_valid_extension(tracker[f], c, i)
                           /\ trk[f] = tracker[f]
        BY <1>2, <1>3, <2>1, Recipients DEF trk
    <2>5. /\ failed \in SUBSET End /\ failed \subseteq to \cup read
          /\ left \in SUBSET failed
        BY <2>4 DEF Failures, Left, SyncInv, TypeOK
    <2>6. store[p][c] <= i
        BY <1>2, <1>3, <2>3 DEF is_needed, AlreadySeen, TypeOK, HasMaps
    <2>7. /\ \A q \in Instance : AtLeast(store'[q], store[q])
          /\ i <= store'[p][c]
        BY <1>2, <1>3, <2>3, <2>6, StoreGrows
    <2>8. \A f \in End : \/ tracker'[f] = tracker[f]
                         \/ /\ f \in to \cup read
                            /\ tracker'[f] = mark_as_having(tracker[f], c, i)
        BY <1>2, <1>3, <2>1, <2>4, MarkedTrackers DEF trk
    <2>9. inbox' = Drained(Posted(box, to \ failed, <<Bundle(c, i)>>), left)
        BY <1>2, <2>2 DEF box
    <2> HIDE DEF read
    <2>10. Spreading(p, c, i, read, box, to, failed, left)
        BY <1>1, <1>3, <1>4, <2>2, <2>4, <2>5, <2>8, <2>9 DEF Spreading
    <2>. QED
        BY <1>2, <1>3, <2>4, <2>5, <2>7, <2>10, SpreadStep
<1>. QED
    BY <1>5, <1>6

\* A process that stores a bundle it has read, sends it to some peers, and ends.
LEMMA SpreadAndDie ==
    ASSUME SyncInv, TypeOK', NEW e \in End, NEW c \in Chain, NEW i \in Nat,
           status[e] # "idle", inbox[e] # <<>>, Head(inbox[e]) = Bundle(c, i),
           is_needed(store[Owner(e)][c], i),
           store' = [store EXCEPT ![Owner(e)][c] = i],
           NEW to \in Reached(Owner(e), Noted(e, c, i), c, i),
           Dies(Owner(e), Posted(inbox, to, <<Bundle(c, i)>>))
    PROVE  SyncInv'
<1> DEFINE p == Owner(e)
           trk == Noted(e, c, i)
<1>1. Bundle(c, i).type = "bundle" /\ Bundle(c, i).number = i
    BY MessageTypes
<1>2. 1 <= i
    BY <1>1, Arrival
<1>3. TypeOK /\ p \in Instance /\ inbox \in Boxes /\ store[p][c] \in Nat
    BY OtherEnd DEF SyncInv, TypeOK, Boxes, HasMaps
<1>4. /\ to \in Reached(p, trk, c, i) /\ is_needed(store[p][c], i)
      /\ store' = [store EXCEPT ![p][c] = i]
    OBVIOUS
<1>5. Dies(p, Posted(inbox, to, <<Bundle(c, i)>>))
    OBVIOUS
<1> HIDE DEF p, trk
<1>6. /\ to \in SUBSET greeted
      /\ \A f \in to : Owner(f) = p /\ is_valid_extension(tracker[f], c, i)
    BY <1>3, <1>4, Recipients DEF trk
<1>7. store[p][c] <= i
    BY <1>3, <1>4 DEF is_needed, AlreadySeen
<1>8. /\ \A q \in Instance : AtLeast(store'[q], store[q])
      /\ i <= store'[p][c]
    BY <1>3, <1>4, <1>7, StoreGrows
<1> DEFINE msgs == <<Bundle(c, i)>>
<1>9. msgs \in Seq(Message) /\ {} \in SUBSET End /\ {} \in SUBSET {}
    BY BundleQueue
<1>10. Dies(p, Posted(inbox, to, msgs))
    BY <1>5
<1> HIDE DEF msgs
<1>11. /\ Posted(inbox, to, msgs) \in Boxes
       /\ \A g \in End : Posted(inbox, to, msgs)[g] = inbox[g] \o Sending(to, msgs)[g]
    <2>1. Posted(inbox, to, msgs) \in Boxes
        BY <1>3, <1>9, PostedType
    <2>2. ASSUME NEW g \in End
          PROVE  Posted(inbox, to, msgs)[g] = inbox[g] \o Sending(to, msgs)[g]
        <3>1. inbox[g] \o <<>> = inbox[g]
            BY <1>3, ConcatEmptySeq DEF Boxes
        <3>. QED
            BY <3>1 DEF Posted, Sending
    <2>. QED
        BY <2>1, <2>2
<1>12. /\ \A g \in End : \/ inbox'[g] = <<>> /\ link'[g[1]] # "up"
                         \/ inbox'[g] = Posted(inbox, to, msgs)[g]
       /\ \A f \in greeted' : link'[f[1]] = "up" =>
              f \in greeted /\ link[f[1]] = "up" /\ tracker'[f] = tracker[f]
       /\ LinkIsUsed'
    BY <1>3, <1>10, <1>11, DiesStep
<1>13. Spreads(p, c, i, {}, to)
    BY <1>2, <1>6, <1>8, <1>11, <1>12 DEF Spreads, Rest, msgs
<1>14. SentIsHeld' /\ NoGapInFlight' /\ TrackerIsSound'
    BY <1>3, <1>6, <1>9, <1>13, BundleStep
<1>. QED
    BY <1>12, <1>14 DEF SyncInv

\* The handler of a bundle raises after the store applied it: the only way, as
\* no bundle arrives without its predecessor.
LEMMA ReceiveBundleRaisesStep ==
    ASSUME SyncInv, TypeOK', NEW e \in End, ReceiveBundleRaises(e)
    PROVE  SyncInv'
<1> DEFINE b == Head(inbox[e])
           p == Owner(e)
           c == b.chain
           i == b.number
<1>1. status[e] # "idle" /\ inbox[e] # <<>> /\ b.type = "bundle"
    BY DEF ReceiveBundleRaises, Reading
<1>2. c \in Chain /\ i \in Nat /\ b = Bundle(c, i) /\ i <= store[p][c] + 1
    BY <1>1, Arrival
<1>3. store[p][c] \in Nat
    BY <1>2, OtherEnd DEF SyncInv, TypeOK, HasMaps
<1>4. is_needed(store[p][c], i)
    <2>1. ~MissingPrior(store[p][c], i)
        BY <1>2, <1>3 DEF MissingPrior, AlreadySeen
    <2>. QED
        BY <2>1 DEF ReceiveBundleRaises
<1>5. /\ store' = [store EXCEPT ![p][c] = i]
      /\ \E to \in Reached(p, Noted(e, c, i), c, i) : Dies(p, Posted(inbox, to, <<b>>))
    BY <1>4 DEF ReceiveBundleRaises
<1>6. PICK to \in Reached(p, Noted(e, c, i), c, i) : Dies(p, Posted(inbox, to, <<b>>))
    BY <1>5
<1>7. Dies(p, Posted(inbox, to, <<Bundle(c, i)>>))
    BY <1>2, <1>6
<1> HIDE DEF b, c, i
<1>. QED
    BY <1>1, <1>2, <1>4, <1>5, <1>6, <1>7, SpreadAndDie DEF b

\* The rest of a batch: a bundle to store, or the process just ends.
LEMMA ReceiveClosedStep ==
    ASSUME SyncInv, TypeOK', NEW e \in End, ReceiveClosed(e)
    PROVE  SyncInv'
<1> DEFINE b == Head(inbox[e])
           p == Owner(e)
           c == b.chain
           i == b.number
           needed == b.type = "bundle" /\ is_needed(store[p][c], i)
<1>1. status[e] # "idle" /\ inbox[e] # <<>> /\ p \in Instance
    BY OtherEnd DEF ReceiveClosed
<1>2. CASE needed
    <2>1. c \in Chain /\ i \in Nat /\ b = Bundle(c, i)
        BY <1>1, <1>2, Arrival
    <2>2. /\ store' = [store EXCEPT ![p][c] = i]
          /\ \E to \in Reached(p, Noted(e, c, i), c, i) : Dies(p, Posted(inbox, to, <<b>>))
        BY <1>2 DEF ReceiveClosed
    <2>3. PICK to \in Reached(p, Noted(e, c, i), c, i) : Dies(p, Posted(inbox, to, <<b>>))
        BY <2>2
    <2>4. Dies(p, Posted(inbox, to, <<Bundle(c, i)>>)) /\ is_needed(store[p][c], i)
        BY <1>2, <2>1, <2>3
    <2> HIDE DEF b, c, i
    <2>. QED
        BY <1>1, <2>1, <2>2, <2>3, <2>4, SpreadAndDie DEF b
<1>3. CASE ~needed
    <2>1. store' = store /\ Dies(p, Posted(inbox, {}, <<b>>))
        BY <1>3 DEF ReceiveClosed
    <2>2. Posted(inbox, {}, <<b>>) = inbox
        BY DEF Posted, SyncInv, TypeOK
    <2>. QED
        BY <1>1, <2>1, <2>2, DiesQuietly
<1>. QED
    BY <1>2, <1>3

\* The initial state satisfies the invariant: all queues are empty and there
\* are no trackers.
LEMMA InitSync == Init => SyncInv
<1> SUFFICES ASSUME Init PROVE SyncInv
    OBVIOUS
<1>1. TypeOK
    BY InitType
<1>2. \A e \in End : inbox[e] = <<>> /\ Len(inbox[e]) = 0
    BY EmptySeq DEF Init
<1>3. LinkIsUsed /\ TrackerIsSound
    BY DEF Init, LinkIsUsed, TrackerIsSound
<1>4. SentIsHeld
    BY <1>2 DEF SentIsHeld
<1>5. NoGapInFlight
    BY <1>2, NoGapEmpty DEF NoGapInFlight
<1>. QED
    BY <1>1, <1>3, <1>4, <1>5 DEF SyncInv

\* Every step preserves the invariant.
LEMMA NextSync ==
    ASSUME SyncInv, [Next]_vars
    PROVE  SyncInv'
<1>1. TypeOK'
    BY NextType DEF SyncInv
<1>2. ASSUME NEW k \in Conn,
             ConnectTo(k) \/ RejectRequest(k) \/ CutLink(k)
      PROVE  SyncInv'
    BY <1>1, <1>2, NetworkStep
<1>3. ASSUME NEW k \in Conn, AcceptRequest(k)
      PROVE  SyncInv'
    BY <1>1, <1>3, HandshakeStep
<1>4. ASSUME NEW e \in End, Handler(e)
      PROVE  SyncInv'
    <2>1. CASE ReceiveAccept(e)
        BY <1>1, <2>1, HandshakeStep
    <2>2. CASE ReceiveGreeting(e)
        BY <1>1, <2>2, ReceiveGreetingStep
    <2>3. CASE ReceiveGreetingRaises(e)
        BY <1>1, <2>3, ReceiveGreetingRaisesStep
    <2>4. CASE ReceiveDuplicate(e) \/ ReceiveBundle(e)
        BY <1>1, <2>4, ReceiveBundleStep
    <2>5. CASE ReceiveBundleRaises(e)
        BY <1>1, <2>5, ReceiveBundleRaisesStep
    <2>6. CASE ReceiveEof(e)
        BY <1>1, <2>6, NetworkStep
    <2>7. CASE ReceiveClosed(e)
        BY <1>1, <2>7, ReceiveClosedStep
    <2>. QED
        BY <1>4, <2>1, <2>2, <2>3, <2>4, <2>5, <2>6, <2>7 DEF Handler
<1>5. ASSUME NEW c \in Chain, Commit(c)
      PROVE  SyncInv'
    BY <1>1, <1>5, CommitStep
<1>6. ASSUME NEW p \in Instance, Crash(p)
      PROVE  SyncInv'
    BY <1>1, <1>6, NetworkStep
<1>7. CASE UNCHANGED vars
    BY <1>7 DEF vars, SyncInv, TypeOK, LinkIsUsed, SentIsHeld, NoGapInFlight,
                TrackerIsSound
<1>. QED
    BY <1>2, <1>3, <1>4, <1>5, <1>6, <1>7 DEF Next

\* In every reachable state, whatever connections are cut, processes crash and
\* sends fail: what is in flight is held by its sender, no bundle travels
\* ahead of its predecessor, and no tracker overestimates a peer it reaches.
THEOREM SyncIsSafe == Spec => [](SentIsHeld /\ NoGapInFlight /\ TrackerIsSound)
<1>1. SyncInv /\ [Next]_vars => SyncInv'
    BY NextSync
<1>2. SyncInv => SentIsHeld /\ NoGapInFlight /\ TrackerIsSound
    BY DEF SyncInv
<1>. QED
    BY InitSync, <1>1, <1>2, PTL DEF Spec
-----------------------------------------------------------------------------
(* PeerSync implements ReplicatedChains. *)

\* Storing the next bundle of a chain is a step of ReplicatedChains, if the
\* writer of the chain stores it or some other instance holds it.
LEMMA StoreNext ==
    ASSUME TypeOK, NEW p \in Instance, NEW c \in Chain, NEW i \in Nat,
           i = store[p][c] + 1,
           store' = [store EXCEPT ![p][c] = i],
           Writer[c] = p \/ \E q \in Instance : i <= store[q][c]
    PROVE  Abstract!Next
<1>1. store[p] \in HasMaps /\ store[p][c] \in Nat
    BY DEF TypeOK, HasMaps
<1>2. store' = [store EXCEPT ![p][c] = @ + 1]
    BY <1>1 DEF TypeOK, HasMaps
<1>3. CASE Writer[c] = p
    BY <1>2, <1>3 DEF Abstract!Next, Abstract!Extend
<1>4. CASE \E q \in Instance : i <= store[q][c]
    <2>1. PICK q \in Instance : i <= store[q][c]
        BY <1>4
    <2>2. store[p][c] < store[q][c]
        <3>1. store[q][c] \in Nat
            BY DEF TypeOK, HasMaps
        <3>. QED
            BY <1>1, <2>1, <3>1
    <2>. QED
        BY <1>2, <2>2 DEF Abstract!Next, Abstract!Learn
<1>. QED
    BY <1>3, <1>4

\* A bundle that is read, if the store needs it, is the next one of its chain
\* and is in the store of the instance that sent it.
LEMMA NeededIsNext ==
    ASSUME SyncInv, NEW e \in End, inbox[e] # <<>>, Head(inbox[e]).type = "bundle",
           status[e] # "idle",
           store' = [store EXCEPT ![Owner(e)][Head(inbox[e]).chain] =
                                       Head(inbox[e]).number],
           is_needed(store[Owner(e)][Head(inbox[e]).chain], Head(inbox[e]).number)
    PROVE  Abstract!Next
<1> DEFINE b == Head(inbox[e])
           p == Owner(e)
           q == Owner(Other(e))
<1>1. /\ b.chain \in Chain /\ b.number \in Nat /\ b.number <= store[q][b.chain]
    BY Arrival
<1>2. TypeOK /\ p \in Instance /\ q \in Instance /\ store[p][b.chain] \in Nat
    BY <1>1, OtherEnd DEF SyncInv, TypeOK, HasMaps
<1>3. b.number = store[p][b.chain] + 1
    BY <1>1, <1>2 DEF is_needed, MissingPrior, AlreadySeen
<1> HIDE DEF b, p, q
<1>4. store' = [store EXCEPT ![p][b.chain] = b.number]
    BY DEF b, p
<1>. QED
    BY <1>1, <1>2, <1>3, <1>4, StoreNext

\* Every step of PeerSync is a step of ReplicatedChains or leaves the stores.
LEMMA NextRefines ==
    ASSUME SyncInv, [Next]_vars
    PROVE  [Abstract!Next]_store
<1>1. ASSUME NEW e \in End, Handler(e)
      PROVE  [Abstract!Next]_store
    <2> DEFINE m == Head(inbox[e])
               needed == m.type = "bundle" /\ is_needed(store[Owner(e)][m.chain], m.number)
    <2>1. CASE ReceiveBundle(e)
        BY <2>1, NeededIsNext DEF ReceiveBundle, Reading
    <2>2. CASE ReceiveBundleRaises(e) \/ ReceiveClosed(e)
        <3>1. /\ inbox[e] # <<>> /\ status[e] # "idle"
              /\ store' = IF needed THEN [store EXCEPT ![Owner(e)][m.chain] = m.number]
                          ELSE store
            BY <2>2 DEF ReceiveBundleRaises, ReceiveClosed, Reading
        <3>2. CASE needed
            BY <3>1, <3>2, NeededIsNext
        <3>3. CASE ~needed
            BY <3>1, <3>3
        <3>. QED
            BY <3>2, <3>3
    <2>3. CASE ~ReceiveBundle(e) /\ ~ReceiveBundleRaises(e) /\ ~ReceiveClosed(e)
        <3>1. UNCHANGED store
            BY <1>1, <2>3 DEF Handler, ReceiveAccept, ReceiveGreeting,
                  ReceiveGreetingRaises, ReceiveDuplicate, ReceiveEof
        <3>. QED
            BY <3>1
    <2>. QED
        BY <2>1, <2>2, <2>3
<1>2. ASSUME NEW c \in Chain, Commit(c)
      PROVE  [Abstract!Next]_store
    <2> DEFINE p == Writer[c]
               i == store[p][c] + 1
    <2>1. TypeOK /\ p \in Instance /\ i \in Nat
        BY ConstantsAssumption DEF SyncInv, TypeOK, HasMaps
    <2>2. store' = [store EXCEPT ![p][c] = i]
        BY <1>2 DEF Commit
    <2>. HIDE DEF i
    <2>3. Abstract!Next
        BY <2>1, <2>2, StoreNext DEF i
    <2>. QED
        BY <2>3
<1>3. ASSUME NEW k \in Conn,
             ConnectTo(k) \/ AcceptRequest(k) \/ RejectRequest(k) \/ CutLink(k)
      PROVE  UNCHANGED store
    BY <1>3 DEF ConnectTo, AcceptRequest, RejectRequest, CutLink
<1>4. ASSUME NEW p \in Instance, Crash(p)
      PROVE  UNCHANGED store
    BY <1>4 DEF Crash
<1>5. CASE UNCHANGED vars
    BY <1>5 DEF vars
<1>. QED
    BY <1>1, <1>2, <1>3, <1>4, <1>5 DEF Next

\* The stores of a network of connected instances evolve as ReplicatedChains
\* says: every store always holds a prefix of every chain, grows by one bundle
\* at a time and never holds what no writer has committed.
THEOREM Refinement == Spec => ImplementsReplicatedChains
<1>1. Init => Abstract!Init
    BY DEF Init, Abstract!Init, EmptyMap
<1>2. SyncInv /\ [Next]_vars => SyncInv'
    BY NextSync
<1>3. SyncInv /\ [Next]_vars => [Abstract!Next]_store
    BY NextRefines
<1>. QED
    BY InitSync, <1>1, <1>2, <1>3, PTL DEF Spec, ImplementsReplicatedChains, Abstract!Spec
-----------------------------------------------------------------------------
(***************************************************************************)
(* Who is offered bundles.  A listener that gave no permission to write is *)
(* sent none, whatever fails; and as long as no send fails, every peer     *)
(* that has greeted is offered all that there is.                          *)
(***************************************************************************)

(* Queues without messages of a type. *)

Lacks(s, type) == \A n \in 1 .. Len(s) : s[n].type # type

LEMMA LacksEmpty == \A type : Lacks(<<>>, type)
BY EmptySeq DEF Lacks

LEMMA LacksTail ==
    ASSUME NEW s \in Seq(Message), s # <<>>, NEW type, Lacks(s, type)
    PROVE  Lacks(Tail(s), type) /\ Tail(s) \in Seq(Message)
<1>1. /\ Tail(s) \in Seq(Message)
      /\ Len(Tail(s)) = Len(s) - 1
      /\ \A n \in 1 .. Len(Tail(s)) : Tail(s)[n] = s[n + 1]
      /\ Len(s) \in Nat
    BY HeadTailProperties, LenProperties
<1>2. \A n \in 1 .. Len(Tail(s)) : n + 1 \in 1 .. Len(s)
    BY <1>1
<1>. QED
    BY <1>1, <1>2 DEF Lacks

LEMMA LacksConcat ==
    ASSUME NEW s \in Seq(Message), NEW t \in Seq(Message), NEW type,
           Lacks(s, type), Lacks(t, type)
    PROVE  Lacks(s \o t, type)
<1>1. /\ Len(s) \in Nat /\ Len(t) \in Nat
      /\ Len(s \o t) = Len(s) + Len(t)
      /\ \A j \in 1 .. Len(s) + Len(t) :
            (s \o t)[j] = IF j <= Len(s) THEN s[j] ELSE t[j - Len(s)]
    BY ConcatProperties, LenProperties
<1>2. ASSUME NEW n \in 1 .. Len(s \o t)
      PROVE  (s \o t)[n].type # type
    <2>1. CASE n <= Len(s)
        <3>1. n \in 1 .. Len(s) /\ (s \o t)[n] = s[n]
            BY <1>1, <2>1
        <3>. QED
            BY <3>1 DEF Lacks
    <2>2. CASE ~(n <= Len(s))
        <3>1. n - Len(s) \in 1 .. Len(t) /\ (s \o t)[n] = t[n - Len(s)]
            BY <1>1, <2>2
        <3>. QED
            BY <3>1 DEF Lacks
    <2>. QED
        BY <2>1, <2>2
<1>. QED
    BY <1>2 DEF Lacks

-----------------------------------------------------------------------------
(* Connections that are read only. *)

\* The dialer of a read-only connection never gets the greeting that would
\* make it send; ReadOnlyIsRespected is the last conjunct.
ReadOnlySound ==
    \A k \in ReadOnly :
        /\ <<k, "client">> \notin greeted
        /\ status[<<k, "server">>] # "opening"
        /\ Lacks(inbox[<<k, "client">>], "greeting")
        /\ Lacks(inbox[<<k, "server">>], "bundle")

\* A step that sends msgs from the ends in "senders" and reads at those in "read".
LEMMA PostKeepsReadOnly ==
    ASSUME TypeOK, ReadOnlySound, NEW senders, NEW msgs \in Seq(Message),
           NEW read \in SUBSET End, \A g \in read : inbox[g] # <<>>,
           \A g \in End : \/ inbox'[g] = <<>>
                          \/ inbox'[g] = Rest(read, g) \o Sending(senders, msgs)[g],
           \A k \in ReadOnly : <<k, "server">> \in senders => Lacks(msgs, "greeting"),
           \A k \in ReadOnly : <<k, "client">> \in senders => Lacks(msgs, "bundle"),
           \A k \in ReadOnly : /\ <<k, "client">> \notin greeted'
                               /\ status'[<<k, "server">>] # "opening"
    PROVE  ReadOnlySound'
<1> SUFFICES ASSUME NEW k \in ReadOnly
             PROVE  /\ Lacks(inbox'[<<k, "client">>], "greeting")
                    /\ Lacks(inbox'[<<k, "server">>], "bundle")
    BY DEF ReadOnlySound
<1>1. k \in Conn /\ <<k, "client">> \in End /\ <<k, "server">> \in End
    BY ConstantsAssumption, BothEnds
<1>2. /\ Other(<<k, "client">>) = <<k, "server">>
      /\ Other(<<k, "server">>) = <<k, "client">>
    BY DEF Other
<1>3. ASSUME NEW g \in End, NEW type, Lacks(inbox[g], type),
             Other(g) \in senders => Lacks(msgs, type)
      PROVE  Lacks(inbox'[g], type)
    <2>1. inbox[g] \in Seq(Message)
        BY DEF TypeOK
    <2>2. Rest(read, g) \in Seq(Message) /\ Lacks(Rest(read, g), type)
        BY <1>3, <2>1, LacksTail DEF Rest
    <2>3. Sending(senders, msgs)[g] \in Seq(Message)
        BY EmptySeq DEF Sending
    <2>4. Lacks(Sending(senders, msgs)[g], type)
        <3>1. CASE Other(g) \in senders /\ link[g[1]] = "up"
            BY <1>3, <3>1 DEF Sending
        <3>2. CASE ~(Other(g) \in senders /\ link[g[1]] = "up")
            <4>1. Sending(senders, msgs)[g] = <<>>
                BY <3>2 DEF Sending
            <4>. QED
                BY <4>1, LacksEmpty
        <3>. QED
            BY <3>1, <3>2
    <2>5. Lacks(Rest(read, g) \o Sending(senders, msgs)[g], type)
        BY <2>2, <2>3, <2>4, LacksConcat
    <2>. QED
        BY <2>5, LacksEmpty
<1>. QED
    BY <1>1, <1>2, <1>3 DEF ReadOnlySound

\* A step that only empties queues.
LEMMA QuietReadOnly ==
    ASSUME ReadOnlySound, greeted' \subseteq greeted,
           \A g \in End : inbox'[g] = <<>> \/ inbox'[g] = inbox[g],
           \A k \in ReadOnly : status'[<<k, "server">>] # "opening"
    PROVE  ReadOnlySound'
<1>1. \A k \in ReadOnly : <<k, "client">> \in End /\ <<k, "server">> \in End
    BY ConstantsAssumption, BothEnds
<1>. QED
    BY <1>1, LacksEmpty DEF ReadOnlySound

\* Bundles are sent by ends that have been greeted, and no dialer of a
\* read-only connection is one.
LEMMA BundleReadOnly ==
    ASSUME TypeOK, ReadOnlySound, NEW senders \in SUBSET greeted,
           NEW c \in Chain, NEW i \in Nat,
           NEW read \in SUBSET End, \A g \in read : inbox[g] # <<>>,
           \A g \in End : \/ inbox'[g] = <<>>
                          \/ inbox'[g] = Rest(read, g) \o Sending(senders, <<Bundle(c, i)>>)[g],
           greeted' \subseteq greeted,
           \A k \in ReadOnly : status'[<<k, "server">>] # "opening"
    PROVE  ReadOnlySound'
<1> DEFINE msgs == <<Bundle(c, i)>>
<1>1. msgs \in Seq(Message) /\ Lacks(msgs, "greeting")
    <2>1. Len(msgs) = 1 /\ msgs[1] = Bundle(c, i)
        OBVIOUS
    <2>2. Bundle(c, i).type = "bundle"
        BY MessageTypes
    <2>3. msgs \in Seq(Message)
        BY BundleQueue
    <2>. QED
        BY <2>1, <2>2, <2>3 DEF Lacks
<1>2. \A k \in ReadOnly : <<k, "client">> \notin senders /\ <<k, "client">> \notin greeted'
    BY DEF ReadOnlySound
<1>3. \A g \in End : \/ inbox'[g] = <<>>
                     \/ inbox'[g] = Rest(read, g) \o Sending(senders, msgs)[g]
    OBVIOUS
<1> HIDE DEF msgs
<1>. QED
    BY <1>1, <1>2, <1>3, PostKeepsReadOnly

\* What Posted and Drained do to each queue.
LEMMA PostedQueues ==
    ASSUME TypeOK, NEW read \in SUBSET End, NEW box \in Boxes,
           \A g \in End : box[g] = Rest(read, g),
           NEW senders, NEW msgs \in Seq(Message), NEW left \in SUBSET End,
           inbox' = Drained(Posted(box, senders, msgs), left)
    PROVE  \A g \in End : \/ inbox'[g] = <<>>
                          \/ inbox'[g] = Rest(read, g) \o Sending(senders, msgs)[g]
<1>1. \A g \in End : Posted(box, senders, msgs)[g] = box[g] \o Sending(senders, msgs)[g]
    BY SendingProperties, ZenonT(60)
<1>. QED
    BY <1>1 DEF Drained

\* A process that ends, having sent msgs from the ends in "senders".
LEMMA DiesQueues ==
    ASSUME TypeOK, ReadOnlySound, NEW p, NEW senders, NEW msgs \in Seq(Message),
           Dies(p, Posted(inbox, senders, msgs))
    PROVE  /\ \A g \in End : \/ inbox'[g] = <<>>
                             \/ inbox'[g] = Rest({}, g) \o Sending(senders, msgs)[g]
           /\ greeted' \subseteq greeted
           /\ \A k \in ReadOnly : status'[<<k, "server">>] # "opening"
<1>1. inbox \in Boxes
    BY DEF TypeOK, Boxes
<1>2. \A g \in End : Posted(inbox, senders, msgs)[g] = inbox[g] \o Sending(senders, msgs)[g]
    <2>1. {} \in SUBSET End /\ {} \in SUBSET {}
        OBVIOUS
    <2>. QED
        BY <1>1, <2>1, SendingProperties
<1>3. \A g \in End : \/ inbox'[g] = <<>>
                     \/ inbox'[g] = Posted(inbox, senders, msgs)[g]
    BY DEF Dies
<1>4. \A g \in End : Rest({}, g) = inbox[g]
    BY DEF Rest
<1>5. greeted' \subseteq greeted
    BY DEF Dies
<1>6. \A k \in ReadOnly : status'[<<k, "server">>] # "opening"
    <2>1. \A k \in ReadOnly : <<k, "server">> \in End
        BY ConstantsAssumption, BothEnds
    <2>. QED
        BY <2>1 DEF Dies, ReadOnlySound
<1>. QED
    BY <1>2, <1>3, <1>4, <1>5, <1>6

\* The steps that send nothing, or nothing but the handshake.
LEMMA NetworkReadOnly ==
    ASSUME TypeOK, ReadOnlySound,
           \/ \E k \in Conn : ConnectTo(k) \/ RejectRequest(k) \/ CutLink(k)
           \/ \E p \in Instance : Crash(p)
           \/ \E e \in End : ReceiveEof(e)
           \/ UNCHANGED vars
    PROVE  ReadOnlySound'
<1>1. \A k \in ReadOnly : <<k, "server">> \in End /\ <<k, "client">> # <<k, "server">>
    BY ConstantsAssumption, BothEnds
<1>2. ASSUME NEW k \in Conn, ConnectTo(k) \/ RejectRequest(k) \/ CutLink(k)
      PROVE  ReadOnlySound'
    <2>1. \A j \in ReadOnly : status'[<<j, "server">>] # "opening"
        BY <1>1, <1>2 DEF ConnectTo, RejectRequest, CutLink, ReadOnlySound, TypeOK
    <2>. QED
        BY <1>2, <2>1, QuietReadOnly DEF ConnectTo, RejectRequest, CutLink
<1>3. ASSUME NEW p \in Instance, Crash(p)
      PROVE  ReadOnlySound'
    <2>1. \A k \in ReadOnly : status'[<<k, "server">>] # "opening"
        BY <1>1, <1>3 DEF Crash, Dies, ReadOnlySound
    <2>2. /\ greeted' \subseteq greeted
          /\ \A g \in End : inbox'[g] = <<>> \/ inbox'[g] = inbox[g]
        BY <1>3 DEF Crash, Dies
    <2>. QED
        BY <2>1, <2>2, QuietReadOnly
<1>4. ASSUME NEW e \in End, ReceiveEof(e)
      PROVE  ReadOnlySound'
    <2>1. \A k \in ReadOnly : status'[<<k, "server">>] # "opening"
        BY <1>1, <1>4 DEF ReceiveEof, ReadOnlySound, TypeOK
    <2>2. /\ greeted' \subseteq greeted
          /\ \A g \in End : inbox'[g] = <<>> \/ inbox'[g] = inbox[g]
        BY <1>4 DEF ReceiveEof, TypeOK
    <2>. QED
        BY <2>1, <2>2, QuietReadOnly
<1>5. CASE UNCHANGED vars
    BY <1>5, QuietReadOnly DEF vars, ReadOnlySound
<1>. QED
    BY <1>2, <1>3, <1>4, <1>5

LEMMA AcceptRequestReadOnly ==
    ASSUME TypeOK, ReadOnlySound, NEW k \in Conn, AcceptRequest(k)
    PROVE  ReadOnlySound'
<1>1. PICK e : e = <<k, "server">>
    OBVIOUS
<1>2. e \in End /\ Owner(e) = Listener[k] /\ Owner(e) \in Instance
    BY <1>1, BothEnds, OtherEnd DEF Owner
<1>3. PICK failed \in Failures({e}) :
          /\ status' = [status EXCEPT ![e] = IF e \in failed THEN "dead" ELSE "open"]
          /\ inbox' = Posted(inbox, {e},
                          <<Accept>> \o (IF e \in failed THEN <<>> ELSE ServerGreeting(k)))
    BY <1>1 DEF AcceptRequest
<1>4. PICK rest : rest = IF e \in failed THEN <<>> ELSE ServerGreeting(k)
    OBVIOUS
<1>5. /\ rest \in Seq(Message)
      /\ k \in ReadOnly => rest = <<>>
    <2>1. Greeting(store[Listener[k]]) \in Message
        BY <1>2, MessageTypes DEF TypeOK
    <2>. QED
        BY <1>4, <2>1, EmptySeq DEF ServerGreeting
<1>6. PICK msgs : msgs = <<Accept>> \o rest
    OBVIOUS
<1>7. msgs \in Seq(Message) /\ (k \in ReadOnly => Lacks(msgs, "greeting"))
    <2>1. /\ <<Accept>> \in Seq(Message) /\ Len(<<Accept>>) = 1 /\ <<Accept>>[1] = Accept
          /\ Accept.type = "accept"
        BY MessageTypes
    <2>2. Lacks(<<Accept>>, "greeting")
        BY <2>1 DEF Lacks
    <2>3. msgs \in Seq(Message)
        BY <1>5, <1>6, <2>1, ConcatProperties
    <2>. QED
        BY <1>5, <1>6, <2>1, <2>2, <2>3, LacksEmpty, LacksConcat
<1> PICK from : from = {e}
    OBVIOUS
<1>8. \A g \in End : \/ inbox'[g] = <<>>
                     \/ inbox'[g] = Rest({}, g) \o Sending(from, msgs)[g]
    <2>1. inbox' = Posted(inbox, from, msgs) /\ inbox \in Boxes
        BY <1>3, <1>4, <1>6 DEF TypeOK, Boxes
    <2>2. {} \in SUBSET End /\ {} \in SUBSET {}
        OBVIOUS
    <2>3. \A g \in End : Posted(inbox, from, msgs)[g] = inbox[g] \o Sending(from, msgs)[g]
        BY <1>7, <2>1, <2>2, SendingProperties, ZenonT(60)
    <2>. QED
        BY <2>1, <2>3 DEF Rest
<1>9. \A j \in ReadOnly : /\ <<j, "client">> \notin greeted'
                          /\ status'[<<j, "server">>] # "opening"
    <2>1. \A j \in ReadOnly : <<j, "server">> \in End
        BY ConstantsAssumption, BothEnds
    <2>2. greeted' = greeted
        BY DEF AcceptRequest
    <2>. QED
        BY <1>3, <2>1, <2>2 DEF ReadOnlySound, TypeOK
<1>10. /\ \A j \in ReadOnly : <<j, "server">> \in from => Lacks(msgs, "greeting")
       /\ \A j \in ReadOnly : <<j, "client">> \in from => Lacks(msgs, "bundle")
       /\ {} \in SUBSET End /\ \A g \in {} : inbox[g] # <<>>
    BY <1>1, <1>7
<1>. QED
    BY <1>7, <1>8, <1>9, <1>10, PostKeepsReadOnly

LEMMA ReceiveAcceptReadOnly ==
    ASSUME TypeOK, ReadOnlySound, NEW e \in End, ReceiveAccept(e)
    PROVE  ReadOnlySound'
<1>1. PICK failed \in Failures({e}) : \E left \in Left(e, failed) :
          /\ status' = [status EXCEPT ![e] = IF e \in failed THEN "dead" ELSE "open"]
          /\ inbox' = Drained(Posted(Consumed(e), {e} \ failed,
                                     <<Greeting(store[Owner(e)])>>), left)
    BY DEF ReceiveAccept
<1>2. PICK left \in Left(e, failed) :
          inbox' = Drained(Posted(Consumed(e), {e} \ failed,
                                     <<Greeting(store[Owner(e)])>>), left)
    BY <1>1
<1>3. PICK msgs : msgs = <<Greeting(store[Owner(e)])>>
    OBVIOUS
<1>4. msgs \in Seq(Message) /\ Lacks(msgs, "bundle")
    <2>1. Greeting(store[Owner(e)]) \in Message
        BY OtherEnd, MessageTypes DEF TypeOK
    <2>2. Greeting(store[Owner(e)]).type = "greeting"
        BY MessageTypes
    <2>3. Len(msgs) = 1 /\ msgs[1] = Greeting(store[Owner(e)])
        BY <1>3
    <2>. QED
        BY <1>3, <2>1, <2>2, <2>3 DEF Lacks
<1>5. PICK box : box = Consumed(e)
    OBVIOUS
<1>6. inbox[e] # <<>> /\ status[e] = "opening" /\ greeted' = greeted
    BY DEF ReceiveAccept
<1>7. box \in Boxes /\ \A g \in End : box[g] = Rest({e}, g)
    BY <1>5, <1>6, EffectTypes DEF Consumed, Rest, TypeOK
<1>8. left \in SUBSET End
    BY <1>1, <1>2 DEF Failures, Left
<1>12. PICK from : from = {e} \ failed
    OBVIOUS
<1>13. PICK read \in SUBSET End : read = {e}
    OBVIOUS
<1>9. \A g \in End : \/ inbox'[g] = <<>>
                     \/ inbox'[g] = Rest(read, g) \o Sending(from, msgs)[g]
    <2>1. \A g \in End : box[g] = Rest(read, g)
        BY <1>7, <1>13
    <2>2. inbox' = Drained(Posted(box, from, msgs), left)
        BY <1>2, <1>3, <1>5, <1>12
    <2>3. msgs \in Seq(Message) /\ box \in Boxes /\ left \in SUBSET End
        BY <1>4, <1>7, <1>8
    <2>. QED
        BY <2>1, <2>2, <2>3, PostedQueues, ZenonT(60)
<1>10. \A k \in ReadOnly : /\ <<k, "client">> \notin greeted'
                           /\ status'[<<k, "server">>] # "opening"
                           /\ <<k, "server">> # e
    <2>1. \A k \in ReadOnly : <<k, "server">> \in End
        BY ConstantsAssumption, BothEnds
    <2>. QED
        BY <1>1, <1>6, <2>1 DEF ReadOnlySound, TypeOK
<1>11. /\ \A k \in ReadOnly : <<k, "server">> \in from => Lacks(msgs, "greeting")
       /\ \A k \in ReadOnly : <<k, "client">> \in from => Lacks(msgs, "bundle")
       /\ \A k \in ReadOnly : /\ <<k, "client">> \notin greeted'
                              /\ status'[<<k, "server">>] # "opening"
       /\ \A g \in read : inbox[g] # <<>>
    BY <1>4, <1>6, <1>10, <1>12, <1>13
<1>. QED
    BY <1>4, <1>9, <1>11, PostKeepsReadOnly

\* The end that reads, as a set, and the rest of the queues.
LEMMA ReadQueues ==
    ASSUME TypeOK, NEW e \in End, inbox[e] # <<>>
    PROVE  \E read \in SUBSET End, box \in Boxes :
              /\ read = {e} /\ box = Consumed(e)
              /\ \A g \in read : inbox[g] # <<>>
              /\ \A g \in End : box[g] = Rest(read, g)
<1>1. Consumed(e) \in Boxes
    BY EffectTypes
<1>2. \A g \in End : Consumed(e)[g] = Rest({e}, g)
    BY DEF Consumed, Rest, TypeOK
<1>. QED
    BY <1>1, <1>2

\* Closing ends opens none.
LEMMA ClosedReadOnly ==
    ASSUME ReadOnlySound, NEW failed, status' = Closed(failed)
    PROVE  \A k \in ReadOnly : status'[<<k, "server">>] # "opening"
BY ConstantsAssumption, BothEnds DEF ReadOnlySound, Closed

\* What answers a greeting are bundles.
LEMMA OffersLackGreetings ==
    ASSUME TypeOK, NEW e \in End, inbox[e] # <<>>, Head(inbox[e]).type = "greeting",
           NEW offered \in Offers(Head(inbox[e]).has, store[Owner(e)])
    PROVE  offered \in Seq(Message) /\ Lacks(offered, "greeting")
<1>1. Head(inbox[e]).has \in HasMaps /\ store[Owner(e)] \in HasMaps
    BY ReadingType
<1>2. /\ offered \in Seq(Message)
      /\ \A n \in 1 .. Len(offered) : offered[n] \in Bundles
    BY <1>1, OffersProperties
<1>3. \A b \in Bundles : b.type = "bundle"
    BY DEF Bundles
<1>. QED
    BY <1>2, <1>3 DEF Lacks

\* The dialer of a read-only connection reads no greeting.
LEMMA NoGreetingReadOnly ==
    ASSUME TypeOK, ReadOnlySound, NEW e \in End, inbox[e] # <<>>,
           Head(inbox[e]).type = "greeting"
    PROVE  \A k \in ReadOnly : e # <<k, "client">>
<1>1. Head(inbox[e]) = inbox[e][1] /\ 1 \in 1 .. Len(inbox[e])
    BY ReadingType
<1>. QED
    BY <1>1 DEF ReadOnlySound, Lacks

LEMMA ReceiveGreetingReadOnly ==
    ASSUME TypeOK, ReadOnlySound, NEW e \in End,
           ReceiveGreeting(e) \/ ReceiveGreetingRaises(e)
    PROVE  ReadOnlySound'
<1>1. inbox[e] # <<>> /\ Head(inbox[e]).type = "greeting"
    BY DEF ReceiveGreeting, ReceiveGreetingRaises, Reading
<1>2. \A k \in ReadOnly : e # <<k, "client">>
    BY <1>1, NoGreetingReadOnly
<1>3. CASE ReceiveGreeting(e)
    <2>1. PICK offered \in Offers(Head(inbox[e]).has, store[Owner(e)]),
               failed \in Failures({e}) : \E left \in Left(e, failed) :
                  /\ inbox' = Drained(Posted(Consumed(e), {e}, offered), left)
                  /\ status' = Closed(failed)
        BY <1>3 DEF ReceiveGreeting
    <2>2. PICK left \in Left(e, failed) :
                  inbox' = Drained(Posted(Consumed(e), {e}, offered), left)
        BY <2>1
    <2>3. greeted' = greeted \cup {e}
        BY <1>3 DEF ReceiveGreeting
    <2>4. offered \in Seq(Message) /\ Lacks(offered, "greeting")
        BY <1>1, OffersLackGreetings
    <2>5. PICK read \in SUBSET End, box \in Boxes :
              /\ read = {e} /\ box = Consumed(e)
              /\ \A g \in read : inbox[g] # <<>>
              /\ \A g \in End : box[g] = Rest(read, g)
        BY <1>1, ReadQueues
    <2>6. left \in SUBSET End
        BY <2>1, <2>2 DEF Failures, Left
    <2>7. \A g \in End : \/ inbox'[g] = <<>>
                         \/ inbox'[g] = Rest(read, g) \o Sending(read, offered)[g]
        <3>1. inbox' = Drained(Posted(box, read, offered), left)
            BY <2>2, <2>5
        <3>2. offered \in Seq(Message) /\ left \in SUBSET End
              /\ \A g \in End : box[g] = Rest(read, g)
            BY <2>4, <2>5, <2>6
        <3>. QED
            BY <3>1, <3>2, PostedQueues, ZenonT(60)
    <2>8. \A k \in ReadOnly : status'[<<k, "server">>] # "opening"
        BY <2>1, ClosedReadOnly
    <2>9. \A k \in ReadOnly : <<k, "client">> \notin greeted' /\ <<k, "client">> \notin read
        BY <1>2, <2>3, <2>5 DEF ReadOnlySound
    <2>10. /\ \A g \in read : inbox[g] # <<>>
           /\ \A k \in ReadOnly : <<k, "server">> \in read => Lacks(offered, "greeting")
           /\ \A k \in ReadOnly : <<k, "client">> \in read => Lacks(offered, "bundle")
           /\ \A k \in ReadOnly : /\ <<k, "client">> \notin greeted'
                                  /\ status'[<<k, "server">>] # "opening"
        BY <2>4, <2>5, <2>8, <2>9
    <2>. QED
        BY <2>4, <2>7, <2>10, PostKeepsReadOnly
<1>4. CASE ReceiveGreetingRaises(e)
    <2>0. PICK offered \in Offers(Head(inbox[e]).has, store[Owner(e)]) :
              \E n \in 1 .. Len(offered) :
                  Dies(Owner(e), Posted(inbox, {e}, SubSeq(offered, 1, n - 1)))
        BY <1>4 DEF ReceiveGreetingRaises
    <2>1. PICK n \in 1 .. Len(offered) :
              Dies(Owner(e), Posted(inbox, {e}, SubSeq(offered, 1, n - 1)))
        BY <2>0
    <2>2. offered \in Seq(Message) /\ Lacks(offered, "greeting")
        BY <1>1, OffersLackGreetings
    <2>3. PICK msgs : msgs = SubSeq(offered, 1, n - 1)
        OBVIOUS
    <2>4. msgs \in Seq(Message) /\ Lacks(msgs, "greeting")
        <3>1. Len(offered) \in Nat
            BY <2>2, LenProperties
        <3>2. n - 1 \in 0 .. Len(offered)
            BY <3>1
        <3>3. /\ msgs \in Seq(Message) /\ Len(msgs) = n - 1
              /\ \A j \in 1 .. n - 1 : msgs[j] = offered[j]
            BY <2>2, <2>3, <3>2, Prefix
        <3>4. \A j \in 1 .. n - 1 : j \in 1 .. Len(offered)
            BY <3>1
        <3>. QED
            BY <2>2, <3>3, <3>4 DEF Lacks
    <2>5. PICK from : from = {e}
        OBVIOUS
    <2>6. PICK p : p = Owner(e)
        OBVIOUS
    <2>7. Dies(p, Posted(inbox, from, msgs))
        BY <2>1, <2>3, <2>5, <2>6
    <2>8. /\ \A g \in End : \/ inbox'[g] = <<>>
                            \/ inbox'[g] = Rest({}, g) \o Sending(from, msgs)[g]
          /\ greeted' \subseteq greeted
          /\ \A k \in ReadOnly : status'[<<k, "server">>] # "opening"
        <3>1. msgs \in Seq(Message)
            BY <2>4
        <3>. QED
            BY <2>7, <3>1, DiesQueues
    <2>9. /\ {} \in SUBSET End /\ \A g \in {} : inbox[g] # <<>>
          /\ \A k \in ReadOnly : <<k, "server">> \in from => Lacks(msgs, "greeting")
          /\ \A k \in ReadOnly : <<k, "client">> \in from => Lacks(msgs, "bundle")
          /\ \A k \in ReadOnly : /\ <<k, "client">> \notin greeted'
                                 /\ status'[<<k, "server">>] # "opening"
        BY <1>2, <2>4, <2>5, <2>8 DEF ReadOnlySound
    <2>. QED
        BY <2>4, <2>8, <2>9, PostKeepsReadOnly
<1>. QED
    BY <1>3, <1>4

LEMMA ReceiveDuplicateReadOnly ==
    ASSUME TypeOK, ReadOnlySound, NEW e \in End, ReceiveDuplicate(e)
    PROVE  ReadOnlySound'
<1>1. inbox[e] # <<>> /\ greeted' = greeted
    BY DEF ReceiveDuplicate, Reading
<1>2. PICK failed \in Failures({e}) : \E left \in Left(e, failed) :
              /\ inbox' = Drained(Consumed(e), left)
              /\ status' = Closed(failed)
    BY DEF ReceiveDuplicate
<1>3. PICK left \in Left(e, failed) : inbox' = Drained(Consumed(e), left)
    BY <1>2
<1>4. PICK read \in SUBSET End, box \in Boxes :
              /\ read = {e} /\ box = Consumed(e)
              /\ \A g \in read : inbox[g] # <<>>
              /\ \A g \in End : box[g] = Rest(read, g)
    BY <1>1, ReadQueues
<1>5. \A g \in End : \/ inbox'[g] = <<>>
                     \/ inbox'[g] = Rest(read, g) \o Sending({}, <<>>)[g]
    <2> SUFFICES ASSUME NEW g \in End
                 PROVE  \/ inbox'[g] = <<>>
                        \/ inbox'[g] = Rest(read, g) \o Sending({}, <<>>)[g]
        OBVIOUS
    <2>1. inbox'[g] = <<>> \/ inbox'[g] = box[g]
        BY <1>3, <1>4 DEF Drained
    <2>2. Sending({}, <<>>)[g] = <<>>
        BY DEF Sending
    <2>3. box[g] \in Seq(Message)
        BY DEF Boxes
    <2>4. box[g] \o <<>> = box[g]
        BY <2>3, ConcatEmptySeq
    <2>. QED
        BY <1>4, <2>1, <2>2, <2>4
<1>6. <<>> \in Seq(Message)
    BY EmptySeq
<1>7. \A k \in ReadOnly : status'[<<k, "server">>] # "opening"
    BY <1>2, ClosedReadOnly
<1>8. \A k \in ReadOnly : <<k, "client">> \notin greeted'
    BY <1>1 DEF ReadOnlySound
<1>9. \A k \in ReadOnly : /\ <<k, "client">> \notin greeted'
                          /\ status'[<<k, "server">>] # "opening"
    BY <1>7, <1>8
<1>10. PICK from : from = {}
    OBVIOUS
<1>11. PICK msgs \in Seq(Message) : msgs = <<>>
    BY <1>6
<1>12. /\ \A g \in read : inbox[g] # <<>>
       /\ \A g \in End : \/ inbox'[g] = <<>>
                         \/ inbox'[g] = Rest(read, g) \o Sending(from, msgs)[g]
       /\ \A k \in ReadOnly : <<k, "server">> \in from => Lacks(msgs, "greeting")
       /\ \A k \in ReadOnly : <<k, "client">> \in from => Lacks(msgs, "bundle")
    BY <1>4, <1>5, <1>10, <1>11
<1>. QED
    BY <1>9, <1>12, PostKeepsReadOnly

LEMMA CommitReadOnly ==
    ASSUME TypeOK, ReadOnlySound, NEW c \in Chain, Commit(c)
    PROVE  ReadOnlySound'
<1> DEFINE p == Writer[c]
           i == store[p][c] + 1
<1>1. PICK to \in Reached(p, tracker, c, i) : \E failed \in Failures(to) :
              /\ inbox' = Drained(Posted(inbox, to \ failed, <<Bundle(c, i)>>), failed)
              /\ status' = Closed(failed)
    BY DEF Commit
<1>2. PICK failed \in Failures(to) :
              /\ inbox' = Drained(Posted(inbox, to \ failed, <<Bundle(c, i)>>), failed)
              /\ status' = Closed(failed)
    BY <1>1
<1>3. i \in Nat /\ greeted' = greeted
    BY ConstantsAssumption DEF TypeOK, HasMaps, Commit
<1> HIDE DEF p, i
<1>4. to \in SUBSET greeted
    BY <1>3, Recipients
<1>5. PICK n \in Nat : n = i
    BY <1>3
<1>6. PICK from \in SUBSET greeted : from = to \ failed
    BY <1>4
<1>7. PICK msgs \in Seq(Message) : msgs = <<Bundle(c, n)>>
    BY BundleQueue
<1>8. \A g \in End : \/ inbox'[g] = <<>>
                     \/ inbox'[g] = Rest({}, g) \o Sending(from, msgs)[g]
    <2>1. inbox' = Drained(Posted(inbox, from, msgs), failed)
        BY <1>2, <1>5, <1>6, <1>7
    <2>2. inbox \in Boxes /\ failed \in SUBSET End
        BY <1>4 DEF TypeOK, Boxes, Failures
    <2>3. {} \in SUBSET End /\ \A g \in End : inbox[g] = Rest({}, g)
        BY DEF Rest
    <2>. QED
        BY <2>1, <2>2, <2>3, PostedQueues, ZenonT(60)
<1>9. \A k \in ReadOnly : status'[<<k, "server">>] # "opening"
    BY <1>2, ClosedReadOnly
<1>10. /\ {} \in SUBSET End /\ \A g \in {} : inbox[g] # <<>>
       /\ \A g \in End : \/ inbox'[g] = <<>>
                         \/ inbox'[g] = Rest({}, g) \o Sending(from, <<Bundle(c, n)>>)[g]
       /\ greeted' \subseteq greeted
    BY <1>3, <1>7, <1>8
<1>. QED
    BY <1>9, <1>10, BundleReadOnly

LEMMA ReceiveBundleReadOnly ==
    ASSUME TypeOK, ReadOnlySound, NEW e \in End, ReceiveBundle(e)
    PROVE  ReadOnlySound'
<1>1. PICK b : b = Head(inbox[e])
    OBVIOUS
<1>2. /\ inbox[e] # <<>> /\ b.type = "bundle" /\ greeted' = greeted
    BY <1>1 DEF ReceiveBundle, Reading
<1>3. b.chain \in Chain /\ b.number \in Nat /\ b = Bundle(b.chain, b.number)
    BY <1>1, <1>2, ReadingType
<1>4. PICK to : to = Targets(Owner(e), Noted(e, b.chain, b.number), b.chain, b.number)
    OBVIOUS
<1>5. to \in SUBSET greeted
    BY <1>4 DEF Targets
<1>6. PICK failed \in Failures(to \cup {e}) : \E left \in Left(e, failed) :
              /\ inbox' = Drained(Posted(Consumed(e), to \ failed, <<b>>), left)
              /\ status' = Closed(failed)
    BY <1>1, <1>4 DEF ReceiveBundle
<1>7. PICK left \in Left(e, failed) :
              inbox' = Drained(Posted(Consumed(e), to \ failed, <<b>>), left)
    BY <1>6
<1>8. PICK from \in SUBSET greeted : from = to \ failed
    BY <1>5
<1>9. PICK read \in SUBSET End, box \in Boxes :
              /\ read = {e} /\ box = Consumed(e)
              /\ \A g \in read : inbox[g] # <<>>
              /\ \A g \in End : box[g] = Rest(read, g)
    BY <1>2, ReadQueues
<1>10. PICK c \in Chain, i \in Nat : b = Bundle(c, i)
    BY <1>3
<1>11. PICK msgs \in Seq(Message) : msgs = <<Bundle(c, i)>>
    BY BundleQueue
<1>12. \A g \in End : \/ inbox'[g] = <<>>
                      \/ inbox'[g] = Rest(read, g) \o Sending(from, msgs)[g]
    <2>1. inbox' = Drained(Posted(box, from, msgs), left)
        BY <1>7, <1>8, <1>9, <1>10, <1>11
    <2>2. left \in SUBSET End /\ \A g \in End : box[g] = Rest(read, g)
        BY <1>5, <1>9 DEF Left, TypeOK, Failures
    <2>. QED
        BY <2>1, <2>2, PostedQueues, ZenonT(60)
<1>13. \A k \in ReadOnly : status'[<<k, "server">>] # "opening"
    BY <1>6, ClosedReadOnly
<1>14. /\ \A g \in read : inbox[g] # <<>>
       /\ \A g \in End : \/ inbox'[g] = <<>>
                         \/ inbox'[g] = Rest(read, g) \o Sending(from, <<Bundle(c, i)>>)[g]
       /\ greeted' \subseteq greeted
    BY <1>2, <1>9, <1>11, <1>12
<1>. QED
    BY <1>13, <1>14, BundleReadOnly

\* A handler of a bundle that raises may have sent it to some before.
LEMMA RaisesReadOnly ==
    ASSUME TypeOK, ReadOnlySound, NEW p, NEW to \in SUBSET greeted,
           NEW b, to = {} \/ b \in Bundles, NEW e \in End, b = Head(inbox[e]),
           inbox[e] # <<>>, Dies(p, Posted(inbox, to, <<b>>))
    PROVE  ReadOnlySound'
<1>1. PICK msgs : msgs = <<b>>
    OBVIOUS
<1>2. b \in Message /\ msgs \in Seq(Message) /\ Len(msgs) = 1 /\ msgs[1] = b
    BY <1>1, ReadingType
<1>3. Lacks(msgs, "greeting") \/ to = {}
    BY <1>2 DEF Lacks, Bundles
<1>4. Dies(p, Posted(inbox, to, msgs))
    BY <1>1
<1>5. /\ \A g \in End : \/ inbox'[g] = <<>>
                        \/ inbox'[g] = Rest({}, g) \o Sending(to, msgs)[g]
      /\ greeted' \subseteq greeted
      /\ \A k \in ReadOnly : status'[<<k, "server">>] # "opening"
    BY <1>2, <1>4, DiesQueues
<1>6. /\ {} \in SUBSET End /\ \A g \in {} : inbox[g] # <<>>
      /\ \A k \in ReadOnly : <<k, "server">> \in to => Lacks(msgs, "greeting")
      /\ \A k \in ReadOnly : <<k, "client">> \in to => Lacks(msgs, "bundle")
      /\ \A k \in ReadOnly : /\ <<k, "client">> \notin greeted'
                             /\ status'[<<k, "server">>] # "opening"
    BY <1>3, <1>5 DEF ReadOnlySound
<1>. QED
    BY <1>2, <1>5, <1>6, PostKeepsReadOnly

LEMMA BundleRaisesReadOnly ==
    ASSUME TypeOK, ReadOnlySound, NEW e \in End, ReceiveBundleRaises(e) \/ ReceiveClosed(e)
    PROVE  ReadOnlySound'
<1>1. PICK b : b = Head(inbox[e])
    OBVIOUS
<1>2. PICK p : p = Owner(e)
    OBVIOUS
<1>3. inbox[e] # <<>>
    BY DEF ReceiveBundleRaises, ReceiveClosed, Reading
<1>4. \E to : /\ \/ to = {}
                 \/ /\ b.type = "bundle"
                    /\ to \in Reached(p, Noted(e, b.chain, b.number), b.chain, b.number)
              /\ Dies(p, Posted(inbox, to, <<b>>))
    <2>1. CASE ReceiveBundleRaises(e)
        BY <1>1, <1>2, <2>1 DEF ReceiveBundleRaises, Reading
    <2>2. CASE ReceiveClosed(e)
        BY <1>1, <1>2, <2>2 DEF ReceiveClosed
    <2>. QED
        BY <2>1, <2>2
<1>5. PICK to : /\ \/ to = {}
                   \/ /\ b.type = "bundle"
                      /\ to \in Reached(p, Noted(e, b.chain, b.number), b.chain, b.number)
                /\ Dies(p, Posted(inbox, to, <<b>>))
    BY <1>4
<1>6. b.type = "bundle" => b \in Bundles /\ b.chain \in Chain /\ b.number \in Nat
    BY <1>1, <1>3, ReadingType, MessageTypes
<1>7. to \in SUBSET greeted
    <2>1. CASE to = {}
        BY <2>1
    <2>2. CASE b.type = "bundle" /\ to \in Reached(p, Noted(e, b.chain, b.number), b.chain, b.number)
        BY <2>2 DEF Reached, Targets
    <2>. QED
        BY <1>5, <2>1, <2>2
<1>8. to = {} \/ b \in Bundles
    BY <1>5, <1>6
<1>. QED
    BY <1>1, <1>3, <1>5, <1>7, <1>8, RaisesReadOnly

LEMMA NextReadOnly ==
    ASSUME TypeOK, ReadOnlySound, [Next]_vars
    PROVE  ReadOnlySound'
<1>1. ASSUME NEW e \in End, Handler(e)
      PROVE  ReadOnlySound'
    BY <1>1, ReceiveAcceptReadOnly, ReceiveGreetingReadOnly, ReceiveDuplicateReadOnly,
       ReceiveBundleReadOnly, BundleRaisesReadOnly, NetworkReadOnly DEF Handler
<1>2. ASSUME NEW k \in Conn,
             ConnectTo(k) \/ AcceptRequest(k) \/ RejectRequest(k) \/ CutLink(k)
      PROVE  ReadOnlySound'
    BY <1>2, AcceptRequestReadOnly, NetworkReadOnly
<1>3. ASSUME NEW c \in Chain, Commit(c)
      PROVE  ReadOnlySound'
    BY <1>3, CommitReadOnly
<1>4. ASSUME NEW p \in Instance, Crash(p)
      PROVE  ReadOnlySound'
    BY <1>4, NetworkReadOnly
<1>5. CASE UNCHANGED vars
    BY <1>5, NetworkReadOnly
<1>. QED
    BY <1>1, <1>2, <1>3, <1>4, <1>5 DEF Next

\* A listener that gave no permission to write is sent no bundle, whatever is
\* cut, crashes or fails: its read-only signal in place of a greeting is enough.
THEOREM ReadOnlyHolds == Spec => []ReadOnlyIsRespected
<1>1. Init => ReadOnlySound
    <2>1. \A k \in ReadOnly : <<k, "client">> \in End /\ <<k, "server">> \in End
        BY ConstantsAssumption, BothEnds
    <2>. QED
        BY <2>1, LacksEmpty DEF Init, ReadOnlySound
<1>2. TypeOK /\ ReadOnlySound /\ [Next]_vars => ReadOnlySound'
    BY NextReadOnly
<1>3. ReadOnlySound => ReadOnlyIsRespected
    BY DEF ReadOnlySound, ReadOnlyIsRespected, Lacks
<1>. QED
    BY <1>1, <1>2, <1>3, TypeCorrect, PTL DEF Spec

-----------------------------------------------------------------------------
(* Everything is offered, as long as no send fails. *)

\* No Connection object is kept that is closed, so none raises.
OfferInv ==
    /\ \A e \in End : status[e] # "dead"
    /\ \A f \in greeted : status[f] = "open"
    /\ OfferedToEveryPeer

LEMMA NothingFails ==
    ASSUME ~SendsFail, TypeOK
    PROVE  /\ \A S : \A failed \in Failures(S) : failed = {}
           /\ Closed({}) = status
<1>1. \A S : \A failed \in Failures(S) : failed = {}
    BY DEF Failures
<1>2. Closed({}) = status
    BY DEF Closed, TypeOK
<1>. QED
    BY <1>1, <1>2

\* The steps of one end that leave the stores and the trackers of others.
LEMMA OwnStepOffers ==
    ASSUME TypeOK, TypeOK', OfferInv, store' = store, NEW e \in End,
           \A f \in End : f # e => status'[f] = status[f],
           status'[e] # "dead",
           greeted' \subseteq greeted \cup {e},
           \A f \in greeted' : f # e => tracker'[f] = tracker[f],
           e \in greeted' => /\ status'[e] = "open"
                            /\ \A c \in Chain : store[Owner(e)][c] <= tracker'[e][c]
    PROVE  OfferInv'
<1>1. greeted' \subseteq End
    BY DEF TypeOK
<1>2. \A f \in greeted' : f # e => f \in greeted
    OBVIOUS
<1>3. \A f \in End : status'[f] # "dead"
    BY DEF OfferInv
<1>4. \A f \in greeted' : status'[f] = "open"
    BY <1>1, <1>2 DEF OfferInv
<1>5. OfferedToEveryPeer'
    BY <1>1, <1>2 DEF OfferInv, OfferedToEveryPeer
<1>. QED
    BY <1>3, <1>4, <1>5 DEF OfferInv

\* A process that ends takes its trackers along; no other has been told more.
LEMMA DiesOffers ==
    ASSUME TypeOK, OfferInv, NEW p, NEW box, Dies(p, box),
           \A q \in Instance : q # p => store'[q] = store[q]
    PROVE  OfferInv'
<1>1. \A f \in greeted' : /\ f \in greeted /\ f \in End /\ Owner(f) # p
                          /\ tracker'[f] = tracker[f] /\ status'[f] = status[f]
    BY DEF Dies, TypeOK
<1>2. \A e \in End : status'[e] # "dead"
    BY DEF Dies, OfferInv
<1>3. \A f \in greeted' : status'[f] = "open"
    BY <1>1 DEF OfferInv
<1>4. OfferedToEveryPeer'
    BY <1>1, OtherEnd DEF OfferInv, OfferedToEveryPeer
<1>. QED
    BY <1>2, <1>3, <1>4 DEF OfferInv

\* A new bundle that all who do not have it are sent.
LEMMA SpreadOffers ==
    ASSUME TypeOK, OfferInv, NEW p \in Instance, NEW c \in Chain, NEW i \in Nat,
           store' = [store EXCEPT ![p][c] = i],
           NEW trk \in [End -> HasMaps],
           \A f \in End : \A d \in Chain : tracker[f][d] <= trk[f][d],
           tracker' = Marked(trk, Targets(p, trk, c, i), c, i),
           greeted' = greeted, status' = status
    PROVE  OfferInv'
<1>1. ASSUME NEW f \in greeted, NEW d \in Chain
      PROVE  store'[Owner(f)][d] <= tracker'[f][d]
    <2>1. /\ f \in End /\ Owner(f) \in Instance /\ status[f] = "open"
          /\ tracker[f] \in HasMaps /\ trk[f] \in HasMaps
          /\ store[Owner(f)] \in HasMaps
        BY OtherEnd DEF TypeOK, OfferInv
    <2>2. store[Owner(f)][d] <= tracker[f][d] /\ tracker[f][d] <= trk[f][d]
        BY <2>1 DEF OfferInv, OfferedToEveryPeer
    <2>3. /\ store[Owner(f)][d] \in Nat /\ tracker[f][d] \in Nat /\ trk[f][d] \in Nat
        BY <2>1 DEF HasMaps
    <2>4. /\ f \in Targets(p, trk, c, i) => tracker'[f] = mark_as_having(trk[f], c, i)
          /\ f \notin Targets(p, trk, c, i) => tracker'[f] = trk[f]
        BY <2>1 DEF Marked
    <2>5. /\ mark_as_having(trk[f], c, i)[c] = IF trk[f][c] < i THEN i ELSE trk[f][c]
          /\ \A x \in Chain : x # c => mark_as_having(trk[f], c, i)[x] = trk[f][x]
        BY <2>1, MarkAsHaving
    <2>6. CASE Owner(f) = p /\ d = c
        <3>1. store'[Owner(f)][d] = i
            BY <2>1, <2>6 DEF TypeOK, HasMaps
        <3>2. CASE f \in Targets(p, trk, c, i)
            BY <2>3, <2>4, <2>5, <2>6, <3>1, <3>2
        <3>3. CASE f \notin Targets(p, trk, c, i)
            <4>1. has(trk[f], c, i)
                BY <2>6, <3>3 DEF Targets
            <4>. QED
                BY <2>4, <2>6, <3>1, <3>3, <4>1 DEF has
        <3>. QED
            BY <3>2, <3>3
    <2>7. CASE ~(Owner(f) = p /\ d = c)
        <3>1. store'[Owner(f)][d] = store[Owner(f)][d]
            BY <2>1, <2>7 DEF TypeOK, HasMaps
        <3>2. trk[f][d] <= tracker'[f][d]
            <4>1. CASE d = c
                BY <2>3, <2>4, <2>5, <4>1
            <4>2. CASE d # c
                BY <2>3, <2>4, <2>5, <4>2
            <4>. QED
                BY <4>1, <4>2
        <3>3. tracker'[f][d] \in Nat
            <4>1. mark_as_having(trk[f], c, i) \in HasMaps
                BY <2>1, MarkAsHaving
            <4>. QED
                BY <2>1, <2>4, <4>1 DEF HasMaps
        <3>. QED
            BY <2>2, <2>3, <3>1, <3>2, <3>3
    <2>. QED
        BY <2>6, <2>7
<1>. QED
    BY <1>1 DEF OfferInv, OfferedToEveryPeer

\* The writer's trackers are up to date, so that the next bundle extends them all.
LEMMA CommitOffers ==
    ASSUME ~SendsFail, TypeOK, OfferInv, NEW c \in Chain, Commit(c)
    PROVE  OfferInv'
<1> DEFINE p == Writer[c]
           i == store[p][c] + 1
<1>1. PICK to \in Reached(p, tracker, c, i) : \E failed \in Failures(to) :
              /\ tracker' = Marked(tracker, to, c, i)
              /\ status' = Closed(failed)
    BY DEF Commit
<1>2. tracker' = Marked(tracker, to, c, i) /\ status' = status
    BY <1>1, NothingFails
<1>3. /\ p \in Instance /\ i \in Nat /\ greeted' = greeted
      /\ store' = [store EXCEPT ![p][c] = i] /\ i = store[p][c] + 1 /\ store[p][c] \in Nat
    BY ConstantsAssumption DEF TypeOK, HasMaps, Commit
<1> HIDE DEF p, i
<1>4. Raising(p, tracker, c, i) = {}
    <2> SUFFICES ASSUME NEW f \in Raising(p, tracker, c, i)
                 PROVE  FALSE
        OBVIOUS
    <2>1. /\ f \in greeted /\ Owner(f) = p /\ ~has(tracker[f], c, i)
          /\ (status[f] = "dead" \/ ~is_valid_extension(tracker[f], c, i))
        BY DEF Raising, Targets
    <2>2. f \in End /\ tracker[f][c] \in Nat /\ status[f] = "open"
        BY <2>1 DEF TypeOK, HasMaps, OfferInv
    <2>3. store[p][c] <= tracker[f][c]
        BY <2>1, <2>2 DEF OfferInv, OfferedToEveryPeer
    <2>4. tracker[f][c] # i - 1 /\ ~(i <= tracker[f][c])
        BY <2>1, <2>2 DEF has, is_valid_extension
    <2>. QED
        BY <1>3, <2>2, <2>3, <2>4
<1>5. to = Targets(p, tracker, c, i)
    BY <1>1, <1>4 DEF Reached
<1>6. /\ tracker \in [End -> HasMaps]
      /\ \A f \in End : \A d \in Chain : tracker[f][d] <= tracker[f][d]
    BY DEF TypeOK, HasMaps
<1>7. PICK trk \in [End -> HasMaps] : trk = tracker
    BY <1>6
<1>8. /\ \A f \in End : \A d \in Chain : tracker[f][d] <= trk[f][d]
      /\ tracker' = Marked(trk, Targets(p, trk, c, i), c, i)
    BY <1>2, <1>5, <1>6, <1>7
<1>9. PICK n \in Nat : n = i
    BY <1>3
<1>10. /\ store' = [store EXCEPT ![p][c] = n]
       /\ tracker' = Marked(trk, Targets(p, trk, c, n), c, n)
    BY <1>3, <1>8, <1>9
<1>. QED
    BY <1>2, <1>3, <1>8, <1>10, SpreadOffers

\* Noting what a peer has makes no tracker less.
LEMMA NotedIsMore ==
    ASSUME TypeOK, NEW e \in End, NEW c \in Chain, NEW i \in Nat
    PROVE  /\ Noted(e, c, i) \in [End -> HasMaps]
           /\ \A f \in End : \A d \in Chain : tracker[f][d] <= Noted(e, c, i)[f][d]
<1>1. tracker \in [End -> HasMaps]
    BY DEF TypeOK
<1>2. Noted(e, c, i) \in [End -> HasMaps]
    BY <1>1, MarkedType DEF Noted
<1>3. ASSUME NEW f \in End, NEW d \in Chain
      PROVE  tracker[f][d] <= Noted(e, c, i)[f][d]
    <2>1. tracker[f] \in HasMaps /\ tracker[f][d] \in Nat
        BY <1>1 DEF HasMaps
    <2>2. \/ Noted(e, c, i)[f] = tracker[f]
          \/ Noted(e, c, i)[f] = mark_as_having(tracker[f], c, i)
        BY DEF Noted, Marked
    <2>3. /\ mark_as_having(tracker[f], c, i)[c] = IF tracker[f][c] < i THEN i ELSE tracker[f][c]
          /\ \A x \in Chain : x # c => mark_as_having(tracker[f], c, i)[x] = tracker[f][x]
        BY <2>1, MarkAsHaving
    <2>4. tracker[f][d] <= mark_as_having(tracker[f], c, i)[d]
        <3>1. CASE d = c
            BY <2>1, <2>3, <3>1
        <3>2. CASE d # c
            BY <2>1, <2>3, <3>2
        <3>. QED
            BY <3>1, <3>2
    <2>. QED
        BY <2>1, <2>2, <2>4
<1>. QED
    BY <1>2, <1>3

LEMMA ReceiveBundleOffers ==
    ASSUME ~SendsFail, TypeOK, OfferInv, NEW e \in End, ReceiveBundle(e)
    PROVE  OfferInv'
<1>1. inbox[e] # <<>> /\ Head(inbox[e]).type = "bundle" /\ greeted' = greeted
    BY DEF ReceiveBundle, Reading
<1>2. PICK b : b = Head(inbox[e])
    OBVIOUS
<1>3. PICK c \in Chain, i \in Nat : c = b.chain /\ i = b.number
    BY <1>1, <1>2, ReadingType
<1>4. PICK p \in Instance : p = Owner(e)
    BY OtherEnd
<1>5. PICK trk \in [End -> HasMaps] : trk = Noted(e, c, i)
    BY NotedIsMore
<1>6. \A f \in End : \A d \in Chain : tracker[f][d] <= trk[f][d]
    BY <1>5, NotedIsMore
<1>7. /\ store' = [store EXCEPT ![p][c] = i]
      /\ tracker' = Marked(trk, Targets(p, trk, c, i), c, i)
    BY <1>2, <1>3, <1>4, <1>5 DEF ReceiveBundle
<1>8. status' = status
    <2>1. PICK S : \E failed \in Failures(S) : status' = Closed(failed)
        BY DEF ReceiveBundle
    <2>. QED
        BY <2>1, NothingFails
<1>. QED
    BY <1>1, <1>6, <1>7, <1>8, SpreadOffers

LEMMA ReceiveDuplicateOffers ==
    ASSUME ~SendsFail, TypeOK, OfferInv, NEW e \in End, ReceiveDuplicate(e)
    PROVE  OfferInv'
<1>1. /\ inbox[e] # <<>> /\ Head(inbox[e]).type = "bundle"
      /\ greeted' = greeted /\ store' = store
    BY DEF ReceiveDuplicate, Reading
<1>2. PICK c \in Chain, i \in Nat : c = Head(inbox[e]).chain /\ i = Head(inbox[e]).number
    BY <1>1, ReadingType
<1>3. tracker' = Noted(e, c, i)
    BY <1>2 DEF ReceiveDuplicate
<1>4. status' = status
    <2>1. PICK failed \in Failures({e}) : status' = Closed(failed)
        BY DEF ReceiveDuplicate
    <2>. QED
        BY <2>1, NothingFails
<1>5. \A f \in End : \A d \in Chain : tracker[f][d] <= tracker'[f][d]
    BY <1>3, NotedIsMore
<1>6. tracker' \in [End -> HasMaps]
    BY <1>3, NotedIsMore
<1>7. ASSUME NEW f \in greeted, NEW d \in Chain
      PROVE  store[Owner(f)][d] <= tracker'[f][d]
    <2>1. f \in End /\ Owner(f) \in Instance /\ status[f] = "open"
        BY OtherEnd DEF TypeOK, OfferInv
    <2>2. store[Owner(f)][d] <= tracker[f][d] /\ tracker[f][d] <= tracker'[f][d]
        BY <1>5, <2>1 DEF OfferInv, OfferedToEveryPeer
    <2>3. store[Owner(f)][d] \in Nat /\ tracker[f][d] \in Nat /\ tracker'[f][d] \in Nat
        BY <1>6, <2>1 DEF TypeOK, HasMaps
    <2>. QED
        BY <2>2, <2>3
<1>. QED
    BY <1>1, <1>4, <1>7 DEF OfferInv, OfferedToEveryPeer

LEMMA ReceiveGreetingOffers ==
    ASSUME ~SendsFail, TypeOK, TypeOK', OfferInv, NEW e \in End, ReceiveGreeting(e)
    PROVE  OfferInv'
<1>1. /\ inbox[e] # <<>> /\ Head(inbox[e]).type = "greeting" /\ status[e] = "open"
      /\ greeted' = greeted \cup {e} /\ store' = store
      /\ tracker' = [tracker EXCEPT ![e] = Greeted(Head(inbox[e]).has, store[Owner(e)])]
    BY DEF ReceiveGreeting, Reading
<1>2. status' = status
    <2>1. PICK failed \in Failures({e}) : status' = Closed(failed)
        BY DEF ReceiveGreeting
    <2>. QED
        BY <2>1, NothingFails
<1>3. Head(inbox[e]).has \in HasMaps /\ store[Owner(e)] \in HasMaps
    BY <1>1, ReadingType
<1>4. \A c \in Chain : store[Owner(e)][c] <= tracker'[e][c]
    <2>1. tracker'[e] = Greeted(Head(inbox[e]).has, store[Owner(e)])
        BY <1>1 DEF TypeOK
    <2>. QED
        BY <1>3, <2>1 DEF Greeted, HasMaps
<1>5. \A f \in greeted' : f # e => tracker'[f] = tracker[f]
    BY <1>1 DEF TypeOK
<1>. QED
    BY <1>1, <1>2, <1>4, <1>5, OwnStepOffers

\* An end that opens has no tracker yet.
LEMMA HandshakeOffers ==
    ASSUME ~SendsFail, TypeOK, TypeOK', OfferInv,
           \/ \E k \in Conn : ConnectTo(k) \/ AcceptRequest(k) \/ RejectRequest(k)
           \/ \E e \in End : ReceiveAccept(e)
           \/ \E e \in End : ReceiveEof(e),
           \A k \in Conn : link[k] = "unused" => <<k, "client">> \notin greeted
    PROVE  OfferInv'
<1>1. ASSUME NEW e \in End, e \notin greeted,
             store' = store, greeted' = greeted, tracker' = tracker,
             NEW how \in {"opening", "open", "removed"}, status' = [status EXCEPT ![e] = how]
      PROVE  OfferInv'
    <2>1. /\ \A f \in End : f # e => status'[f] = status[f]
          /\ status'[e] # "dead"
        BY <1>1 DEF TypeOK
    <2>. QED
        BY <1>1, <2>1, OwnStepOffers
<1>2. \A f \in greeted : status[f] = "open"
    BY DEF OfferInv
<1>3. ASSUME NEW k \in Conn, ConnectTo(k)
      PROVE  OfferInv'
    <2>1. <<k, "client">> \in End /\ <<k, "client">> \notin greeted
        BY <1>3, BothEnds DEF ConnectTo
    <2>. QED
        BY <1>1, <1>3, <2>1 DEF ConnectTo
<1>4. ASSUME NEW k \in Conn, AcceptRequest(k)
      PROVE  OfferInv'
    <2>1. <<k, "server">> \in End /\ <<k, "server">> \notin greeted
        BY <1>2, <1>4, BothEnds DEF AcceptRequest
    <2>2. PICK failed \in Failures({<<k, "server">>}) :
             status' = [status EXCEPT ![<<k, "server">>] =
                              IF <<k, "server">> \in failed THEN "dead" ELSE "open"]
        BY <1>4 DEF AcceptRequest
    <2>3. status' = [status EXCEPT ![<<k, "server">>] = "open"]
        BY <2>2, NothingFails
    <2>4. store' = store /\ greeted' = greeted /\ tracker' = tracker
        BY <1>4 DEF AcceptRequest
    <2>. QED
        BY <1>1, <2>1, <2>3, <2>4
<1>5. ASSUME NEW k \in Conn, RejectRequest(k)
      PROVE  OfferInv'
    <2>1. <<k, "server">> \in End /\ <<k, "server">> \notin greeted
        BY <1>2, <1>5, BothEnds DEF RejectRequest
    <2>. QED
        BY <1>1, <1>5, <2>1 DEF RejectRequest
<1>6. ASSUME NEW e \in End, ReceiveAccept(e)
      PROVE  OfferInv'
    <2>1. e \notin greeted
        BY <1>2, <1>6 DEF ReceiveAccept
    <2>2. PICK failed \in Failures({e}) :
             status' = [status EXCEPT ![e] = IF e \in failed THEN "dead" ELSE "open"]
        BY <1>6 DEF ReceiveAccept
    <2>3. status' = [status EXCEPT ![e] = "open"]
        BY <2>2, NothingFails
    <2>4. store' = store /\ greeted' = greeted /\ tracker' = tracker
        BY <1>6 DEF ReceiveAccept
    <2>. QED
        BY <1>1, <2>1, <2>3, <2>4
<1>7. ASSUME NEW e \in End, ReceiveEof(e)
      PROVE  OfferInv'
    <2>1. /\ store' = store /\ greeted' = greeted \ {e}
          /\ \A f \in End : f # e => status'[f] = status[f] /\ tracker'[f] = tracker[f]
          /\ status'[e] # "dead"
        BY <1>7 DEF ReceiveEof, TypeOK
    <2>2. greeted' \subseteq End
        BY DEF TypeOK
    <2>. QED
        BY <2>1, <2>2, OwnStepOffers
<1>. QED
    BY <1>3, <1>4, <1>5, <1>6, <1>7

LEMMA NextOffers ==
    ASSUME ~SendsFail, SyncInv, TypeOK', OfferInv, [Next]_vars
    PROVE  OfferInv'
<1>1. TypeOK /\ \A k \in Conn : link[k] = "unused" => <<k, "client">> \notin greeted
    BY DEF SyncInv, LinkIsUsed
<1>2. ASSUME NEW k \in Conn, ConnectTo(k) \/ AcceptRequest(k) \/ RejectRequest(k)
      PROVE  OfferInv'
    BY <1>1, <1>2, HandshakeOffers
<1>3. ASSUME NEW k \in Conn, CutLink(k)
      PROVE  OfferInv'
    BY <1>3 DEF CutLink, OfferInv, OfferedToEveryPeer
<1>4. ASSUME NEW c \in Chain, Commit(c)
      PROVE  OfferInv'
    BY <1>1, <1>4, CommitOffers
<1>5. ASSUME NEW p \in Instance, Crash(p)
      PROVE  OfferInv'
    <2>1. PICK box : box = inbox
        OBVIOUS
    <2>2. Dies(p, box) /\ \A q \in Instance : q # p => store'[q] = store[q]
        BY <1>5, <2>1 DEF Crash
    <2>. QED
        BY <1>1, <2>2, DiesOffers
<1>6. ASSUME NEW e \in End, Handler(e)
      PROVE  OfferInv'
    <2>1. CASE ReceiveAccept(e) \/ ReceiveEof(e)
        BY <1>1, <2>1, HandshakeOffers
    <2>2. CASE ReceiveGreeting(e)
        BY <1>1, <2>2, ReceiveGreetingOffers
    <2>3. CASE ReceiveDuplicate(e)
        BY <1>1, <2>3, ReceiveDuplicateOffers
    <2>4. CASE ReceiveBundle(e)
        BY <1>1, <2>4, ReceiveBundleOffers
    <2>5. CASE ReceiveBundleRaises(e)
        <3>1. PICK p : p = Owner(e)
            OBVIOUS
        <3>2. PICK to : Dies(p, Posted(inbox, to, <<Head(inbox[e])>>))
            BY <2>5, <3>1 DEF ReceiveBundleRaises
        <3>3. PICK box : box = Posted(inbox, to, <<Head(inbox[e])>>)
            OBVIOUS
        <3>4. \A q \in Instance : q # p => store'[q] = store[q]
            BY <1>1, <2>5, <3>1 DEF ReceiveBundleRaises, TypeOK
        <3>. QED
            BY <1>1, <3>2, <3>3, <3>4, DiesOffers
    <2>6. ~ReceiveGreetingRaises(e) /\ ~ReceiveClosed(e)
        BY DEF ReceiveGreetingRaises, ReceiveClosed, OfferInv
    <2>. QED
        BY <1>6, <2>1, <2>2, <2>3, <2>4, <2>5, <2>6 DEF Handler
<1>7. CASE UNCHANGED vars
    BY <1>7 DEF vars, OfferInv, OfferedToEveryPeer
<1>. QED
    BY <1>2, <1>3, <1>4, <1>5, <1>6, <1>7 DEF Next

\* As long as no send fails, everything in a store has been offered to every
\* peer that has greeted: what is received or committed while greetings and
\* other bundles are on their way is not left out.
THEOREM AllIsOffered ==
    ASSUME ~SendsFail
    PROVE  Spec => []OfferedToEveryPeer
<1>1. Init => OfferInv
    BY DEF Init, OfferInv, OfferedToEveryPeer
<1>2. SyncInv /\ [Next]_vars => SyncInv'
    BY NextSync
<1>3. SyncInv /\ SyncInv' /\ OfferInv /\ [Next]_vars => OfferInv'
    <2>1. SyncInv' => TypeOK'
        BY DEF SyncInv
    <2>. QED
        BY <2>1, NextOffers
<1>4. OfferInv => OfferedToEveryPeer
    BY DEF OfferInv
<1>. QED
    BY InitSync, <1>1, <1>2, <1>3, <1>4, PTL DEF Spec
=============================================================================
