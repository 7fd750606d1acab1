------------------------ MODULE DirectoryTreeProofs ------------------------
(***************************************************************************)
(* Proofs about DirectoryTree, for any keys, values and bundlers and any   *)
(* number of bundles, changes and calls.                                   *)
(***************************************************************************)
EXTENDS DirectoryTree, TLAPS, SequenceTheorems, FiniteSetTheorems,
        WellFoundedInduction

Bundles == [by : Bundler \cup {None}, changes : Seq(Change), calls : Seq(Call)]

\* What a store can be.
StoreOK(store) ==
    /\ store \in Seq(Bundles)
    /\ Len(store) <= MaxBundles
    /\ \A n \in DOMAIN store : Len(store[n].changes) <= MaxChanges

\* The timestamp of a bundler is that of a bundle it has committed.
StampIsOwn ==
    \A b \in Bundler : stamp[b] # 0 => stamp[b] \in DOMAIN log /\ log[stamp[b]].by = b

\* What a change in a list for bundler b says of a directory of the program: its
\* offset in the same list, or its address.
Means(store, b, list, muid, h) ==
    \/ muid.time = 0 /\ h.bundler = b /\ h.offset = muid.offset /\ h.offset \in DOMAIN list
    \/ /\ muid.time # 0 /\ muid \in Muids(store)
       /\ store[muid.time].by = h.bundler /\ h.offset = muid.offset

\* An entry points to nothing that is later than the store.
Known(store, ch) ==
    ch.type = "entry" /\ ch.occupant.type = "pointee" => ch.occupant.muid.time <= Len(store)

LogKnown == \A m \in Muids(log) : Known(log, At(log, m))

\* The handles in one change, and in all changes of a list.
Meant(store, b, list, ch) ==
    /\ Known(store, ch)
    /\ ch.type = "entry" =>
        /\ ch.owner # NoHandle => Means(store, b, list, ch.container, ch.owner)
        /\ ch.guest # NoHandle => /\ ch.occupant.type = "pointee"
                                  /\ Means(store, b, list, ch.occupant.muid, ch.guest)

AllMeant(store, b, list) == \A i \in DOMAIN list : Meant(store, b, list, list[i])

PendingResolve == \A b \in Bundler : AllMeant(log, b, changes[b])

\* The inductive invariant.
IInv == TypeOK /\ StoreOK(log) /\ LogKnown /\ StampIsOwn /\ PendingResolve /\ HandlesResolve

-----------------------------------------------------------------------------
(* Muids, stores and what is in them. *)

LEMMA Bounds == MaxBundles \in Nat /\ MaxChanges \in Nat /\ MaxCalls \in Nat /\ None \notin Bundler
BY ConstantsAssumption

\* A muid is a pair of numbers.
LEMMA MuidFacts ==
    /\ Root \in Muid
    /\ \A t \in -1 .. MaxBundles, i \in 0 .. MaxChanges : [time |-> t, offset |-> i] \in Muid
    /\ \A m \in Muid : m.time \in -1 .. MaxBundles /\ m.offset \in 0 .. MaxChanges
                       /\ m = [time |-> m.time, offset |-> m.offset]
BY Bounds DEF Muid, Root

\* Muid.create gives muids.
LEMMA AbsoluteFacts ==
    ASSUME NEW m \in Muid, NEW t \in 1 .. MaxBundles
    PROVE  /\ Absolute(m, t) \in Muid
           /\ Absolute(m, t).time # 0
           /\ Absolute(m, t).offset = m.offset
           /\ m.time # 0 => Absolute(m, t) = m
           /\ m.time = 0 => Absolute(m, t) = [time |-> t, offset |-> m.offset]
<1>1. Absolute(m, t) = [time |-> IF m.time = 0 THEN t ELSE m.time, offset |-> m.offset]
  BY DEF Absolute, Muid
<1>2. QED
  BY <1>1, MuidFacts, Bounds

\* The muids of a store are those of its changes.
LEMMA MuidsFacts ==
    ASSUME NEW store, StoreOK(store)
    PROVE  /\ DOMAIN store = 1 .. Len(store) /\ Len(store) \in 0 .. MaxBundles
           /\ \A m \in Muids(store) :
                  /\ m \in Muid /\ m.time \in 1 .. MaxBundles
                  /\ m.time \in DOMAIN store
                  /\ m.offset \in DOMAIN store[m.time].changes
                  /\ At(store, m) \in Change
           /\ \A t \in DOMAIN store : \A i \in DOMAIN store[t].changes :
                  [time |-> t, offset |-> i] \in Muids(store)
<1>1. DOMAIN store = 1 .. Len(store) /\ Len(store) \in 0 .. MaxBundles
  BY Bounds, LenProperties DEF StoreOK
<1>2. ASSUME NEW t \in DOMAIN store
      PROVE  /\ store[t] \in Bundles /\ t \in 1 .. MaxBundles
             /\ DOMAIN store[t].changes = 1 .. Len(store[t].changes)
             /\ Len(store[t].changes) \in 0 .. MaxChanges
             /\ \A i \in DOMAIN store[t].changes : store[t].changes[i] \in Change
  <2>1. store[t] \in Bundles /\ t \in 1 .. MaxBundles
    BY <1>1, <1>2, ElementOfSeq, Bounds DEF StoreOK
  <2>2. store[t].changes \in Seq(Change) /\ Len(store[t].changes) <= MaxChanges
    BY <2>1, <1>2 DEF Bundles, StoreOK
  <2>3. QED
    BY <2>1, <2>2, LenProperties, ElementOfSeq, Bounds
<1>3. ASSUME NEW m \in Muids(store)
      PROVE  /\ m \in Muid /\ m.time \in 1 .. MaxBundles
             /\ m.time \in DOMAIN store
             /\ m.offset \in DOMAIN store[m.time].changes
             /\ At(store, m) \in Change
  <2>1. PICK t \in DOMAIN store : m \in [time : {t}, offset : DOMAIN store[t].changes]
    BY <1>3 DEF Muids
  <2>2. m.time = t /\ m.offset \in DOMAIN store[t].changes
        /\ m = [time |-> m.time, offset |-> m.offset]
    BY <2>1
  <2>3. m.offset \in 0 .. MaxChanges /\ t \in 1 .. MaxBundles /\ t \in -1 .. MaxBundles
    BY <2>2, <1>2, Bounds
  <2>4. QED
    BY <2>2, <2>3, <1>2, MuidFacts DEF At
<1>4. ASSUME NEW t \in DOMAIN store, NEW i \in DOMAIN store[t].changes
      PROVE  [time |-> t, offset |-> i] \in Muids(store)
  BY <1>4 DEF Muids
<1>5. QED
  BY <1>1, <1>3, <1>4

\* A store with one bundle more has what it had, and the changes of the bundle.
LEMMA StoreGrows ==
    ASSUME NEW store, StoreOK(store), Len(store) < MaxBundles,
           NEW bundle \in Bundles, Len(bundle.changes) <= MaxChanges
    PROVE  LET grown == Append(store, bundle)
               n     == Len(store) + 1
           IN  /\ StoreOK(grown) /\ Len(grown) = n
               /\ DOMAIN grown = DOMAIN store \cup {n} /\ n \in 1 .. MaxBundles
               /\ n \notin DOMAIN store
               /\ grown[n] = bundle
               /\ \A t \in DOMAIN store : grown[t] = store[t]
               /\ Muids(store) \subseteq Muids(grown)
               /\ \A m \in Muids(store) : At(grown, m) = At(store, m)
               /\ \A m \in Muids(grown) :
                      \/ m \in Muids(store)
                      \/ /\ m.time = n /\ m.offset \in DOMAIN bundle.changes
                         /\ At(grown, m) = bundle.changes[m.offset]
               /\ \A i \in DOMAIN bundle.changes :
                      /\ [time |-> n, offset |-> i] \in Muids(grown)
                      /\ At(grown, [time |-> n, offset |-> i]) = bundle.changes[i]
<1> DEFINE grown == Append(store, bundle)
           n     == Len(store) + 1
<1>1. store \in Seq(Bundles) /\ DOMAIN store = 1 .. Len(store) /\ Len(store) \in Nat
  BY LenProperties DEF StoreOK
<1>2. /\ grown \in Seq(Bundles) /\ Len(grown) = n
      /\ grown[n] = bundle /\ \A t \in DOMAIN store : grown[t] = store[t]
  BY <1>1, AppendProperties
<1>3. DOMAIN grown = DOMAIN store \cup {n} /\ n \in 1 .. MaxBundles /\ n \notin DOMAIN store
  BY <1>1, <1>2, LenProperties, Bounds
<1> HIDE DEF grown
<1>4. StoreOK(grown)
  <2>1. ASSUME NEW t \in DOMAIN grown
        PROVE  Len(grown[t].changes) <= MaxChanges
    BY <1>2, <1>3 DEF StoreOK
  <2>2. QED
    BY <1>2, <1>3, <2>1, Bounds DEF StoreOK
<1>5. ASSUME NEW m \in Muids(store)
      PROVE  m \in Muids(grown) /\ At(grown, m) = At(store, m)
  <2>1. /\ m.time \in DOMAIN store /\ m.offset \in DOMAIN store[m.time].changes
        /\ m = [time |-> m.time, offset |-> m.offset]
    BY MuidsFacts, MuidFacts
  <2>2. grown[m.time] = store[m.time] /\ m.time \in DOMAIN grown
    BY <1>2, <1>3, <2>1
  <2>3. [time |-> m.time, offset |-> m.offset] \in Muids(grown)
    BY <2>1, <2>2, <1>4, MuidsFacts
  <2>4. QED
    BY <2>1, <2>2, <2>3 DEF At
<1>6. ASSUME NEW m \in Muids(grown)
      PROVE  \/ m \in Muids(store)
             \/ /\ m.time = n /\ m.offset \in DOMAIN bundle.changes
                /\ At(grown, m) = bundle.changes[m.offset]
  <2>1. /\ m.time \in DOMAIN grown /\ m.offset \in DOMAIN grown[m.time].changes
        /\ m = [time |-> m.time, offset |-> m.offset]
    BY <1>4, MuidsFacts, MuidFacts
  <2>2. CASE m.time \in DOMAIN store
    BY <2>1, <2>2, <1>2, MuidsFacts
  <2>3. CASE m.time = n
    BY <2>1, <2>3, <1>2 DEF At
  <2>4. QED
    BY <2>1, <2>2, <2>3, <1>3
<1>7. ASSUME NEW i \in DOMAIN bundle.changes
      PROVE  /\ [time |-> n, offset |-> i] \in Muids(grown)
             /\ At(grown, [time |-> n, offset |-> i]) = bundle.changes[i]
  BY <1>2, <1>3, <1>4, <1>7, MuidsFacts DEF At
<1>8. QED
  BY <1>2, <1>3, <1>4, <1>5, <1>6, <1>7 DEF grown, n

\* The parts of a change.
LEMMA ChangeFacts ==
    /\ \A ch \in Change : ch.type \in {"container", "clearance", "entry"}
    /\ \A ch \in Change : ch.type = "clearance" => ch.container \in Muid
    /\ \A ch \in Change : ch.type = "entry" =>
           /\ ch.container \in Muid /\ ch.key \in Key /\ ch.occupant \in Occupant
           /\ ch.owner \in Handle \cup {NoHandle} /\ ch.guest \in Handle \cup {NoHandle}
BY DEF Change

\* What can be under a key.
LEMMA OccupantFacts ==
    /\ Deletion \in Occupant /\ Deletion.type = "deletion"
    /\ \A v \in Value : Plain(v) \in Occupant
    /\ \A v : Plain(v).type = "value" /\ Plain(v).value = v
    /\ \A m \in Muid : Pointee(m) \in Occupant
    /\ \A m : Pointee(m).type = "pointee" /\ Pointee(m).muid = m
    /\ \A o \in Occupant : /\ o.type \in {"value", "pointee", "deletion"}
                           /\ o.type = "pointee" => o.muid \in Muid
                           /\ o.type = "deletion" => o = Deletion
BY DEF Occupant, Deletion, Plain, Pointee

\* The entries that are found are entries of the container and the key.
LEMMA EntriesFacts ==
    ASSUME NEW store, NEW c, NEW k, NEW asof
    PROVE  /\ \A m \in LastEntry(store, c, k, asof) :
                  /\ m \in Muids(store) /\ m.time < asof
                  /\ At(store, m).type = "entry" /\ At(store, m).key = k
                  /\ Absolute(At(store, m).container, m.time) = c
           /\ GetEntryByKey(store, c, k, asof) \subseteq LastEntry(store, c, k, asof)
BY DEF LastEntry, About, GetEntryByKey

\* What an entry contains is something that can be under a key.
LEMMA OccupantOfType ==
    ASSUME NEW store, StoreOK(store),
           NEW found \in SUBSET {m \in Muids(store) : At(store, m).type = "entry"}
    PROVE  OccupantOf(store, found) \in Occupant
<1>1. CASE found = {}
  BY <1>1, OccupantFacts DEF OccupantOf
<1>2. CASE found # {}
  <2> DEFINE m == CHOOSE m \in found : TRUE
             there == At(store, m).occupant
  <2>1. m \in found
    BY <1>2
  <2> HIDE DEF m
  <2>2. m \in Muids(store) /\ At(store, m).type = "entry" /\ At(store, m) \in Change
        /\ m.time \in 1 .. MaxBundles
    BY <2>1, MuidsFacts
  <2>3. there \in Occupant
    BY <2>2, ChangeFacts
  <2>4. OccupantOf(store, found) =
            IF there.type = "pointee" THEN Pointee(Absolute(there.muid, m.time)) ELSE there
    BY <1>2 DEF OccupantOf, m
  <2> HIDE DEF there
  <2>5. there.type = "pointee" => Absolute(there.muid, m.time) \in Muid
    BY <2>2, <2>3, OccupantFacts, AbsoluteFacts
  <2>6. QED
    BY <2>3, <2>4, <2>5, OccupantFacts
<1>3. QED
  BY <1>1, <1>2

\* What is under a key is something that can be there.
LEMMA FindType ==
    ASSUME NEW store, StoreOK(store), NEW c, NEW k, NEW asof
    PROVE  /\ Find(store, c, k, asof) \in Occupant
           /\ GetEntryByKey(store, c, k, asof) \in SUBSET Muid
<1>1. GetEntryByKey(store, c, k, asof) \in SUBSET {m \in Muids(store) : At(store, m).type = "entry"}
  BY EntriesFacts
<1>2. QED
  BY <1>1, OccupantOfType, MuidsFacts DEF Find

-----------------------------------------------------------------------------
(* Paths of one and two keys. *)

\* A path of one key.
LEMMA OneKey ==
    ASSUME NEW k
    PROVE  /\ Len(<<k>>) = 1 /\ DOMAIN <<k>> = {1} /\ <<k>>[1] = k
           /\ Front(<<k>>) = <<>> /\ Last(<<k>>) = k
           /\ SubSeq(<<k>>, 1, 0) = <<>>
           /\ k \in Key => <<k>> \in Path
BY DEF Front, Last, Path

\* A path of two keys.
LEMMA TwoKeys ==
    ASSUME NEW k, NEW l
    PROVE  /\ Len(<<k, l>>) = 2 /\ DOMAIN <<k, l>> = {1, 2}
           /\ <<k, l>>[1] = k /\ <<k, l>>[2] = l
           /\ Front(<<k, l>>) = <<k>> /\ Last(<<k, l>>) = l
           /\ SubSeq(<<k, l>>, 1, 0) = <<>> /\ SubSeq(<<k, l>>, 1, 1) = <<k>>
           /\ k \in Key /\ l \in Key => <<k, l>> \in Path
<1>1. SubSeq(<<k, l>>, 1, 1) = <<k>> /\ SubSeq(<<k, l>>, 1, 0) = <<>>
  <2> DEFINE q == <<k, l>>
             r == SubSeq(q, 1, 1)
  <2>1. q \in Seq({k, l}) /\ Len(q) = 2 /\ q[1] = k
    OBVIOUS
  <2> HIDE DEF q
  <2>2. r = [i \in 1 .. 1 |-> q[i]] /\ SubSeq(q, 1, 0) = <<>>
    BY <2>1
  <2>3. r = <<k>>
    <3>1. r = [i \in 1 .. 1 |-> k]
      BY <2>1, <2>2
    <3>2. <<k>> = [i \in 1 .. 1 |-> k]
      OBVIOUS
    <3>3. QED
      BY <3>1, <3>2
  <2>4. QED
    BY <2>2, <2>3 DEF q
<1>2. QED
  BY <1>1 DEF Front, Last, Path

\* There are no other paths.
LEMMA PathCases ==
    ASSUME NEW p \in Path
    PROVE  \/ \E k \in Key : p = <<k>>
           \/ \E k, l \in Key : p = <<k, l>>
BY DEF Path

\* What is read under a key of the root directory.
InRoot(store, k, asof) == GetContainer(store, Find(store, Root, k, asof))

\* What can be read.
Readable == Occupant \cup {Lost}

\* The greatest of the first indices.
LEMMA MaxFacts == Max({1}) = 1 /\ Max({1, 2}) = 2 /\ Max({2}) = 2
BY DEF Max

\* No key leads to the root directory.
LEMMA GetNothing ==
    ASSUME NEW store, NEW asof
    PROVE  Get(store, <<>>, asof) = Pointee(Root)
<1> DEFINE q == <<>>
           D == DOMAIN q
           Body(g) == [s \in SUBSET D |->
                         IF s = {} THEN Pointee(Root)
                         ELSE Traverse(store, g[s \ {Max(s)}], q[Max(s)], asof)]
           gets == [s \in SUBSET D |-> Pointee(Root)]
<1>1. Get(store, q, asof) = (CHOOSE g : g = Body(g))[D]
  BY DEF Get, FoldLeft, MapThenFoldSet
<1>2. D = {}
  OBVIOUS
<1> HIDE DEF q, D
<1>3. gets = Body(gets)
  BY <1>2
<1> HIDE DEF Body
<1>4. PICK g : g = Body(g) /\ g = CHOOSE h : h = Body(h)
  BY <1>3
<1>5. g[D] = Pointee(Root)
  BY <1>2, <1>4 DEF Body
<1>6. QED
  BY <1>1, <1>4, <1>5 DEF q

\* One key leads to what is under it in the root directory.
LEMMA GetOne ==
    ASSUME NEW store, NEW asof, NEW k
    PROVE  Get(store, <<k>>, asof) = InRoot(store, k, asof)
<1> DEFINE q == <<k>>
           D == DOMAIN q
           Body(g) == [s \in SUBSET D |->
                         IF s = {} THEN Pointee(Root)
                         ELSE Traverse(store, g[s \ {Max(s)}], q[Max(s)], asof)]
           gets == [s \in SUBSET D |-> IF s = {} THEN Pointee(Root)
                                       ELSE InRoot(store, k, asof)]
<1>1. Get(store, q, asof) = (CHOOSE g : g = Body(g))[D]
  BY DEF Get, FoldLeft, MapThenFoldSet
<1>2. D = {1} /\ q[1] = k
  BY OneKey
<1>3. SUBSET D = {{}, {1}} /\ {1} \ {1} = {} /\ {1} # {}
  BY <1>2
<1>4. \A j : Traverse(store, Pointee(Root), j, asof) = InRoot(store, j, asof)
  BY OccupantFacts DEF Traverse, InRoot
<1> HIDE DEF q, D
<1>5. gets = Body(gets)
  <2>1. ASSUME NEW s \in SUBSET D
        PROVE  gets[s] = Body(gets)[s]
    <3>1. CASE s = {}
      BY <3>1
    <3>2. CASE s = {1}
      BY <1>2, <1>3, <1>4, <3>2, MaxFacts
    <3>3. QED
      BY <1>3, <3>1, <3>2
  <2>2. QED
    BY <2>1
<1> HIDE DEF Body
<1>6. PICK g : g = Body(g) /\ g = CHOOSE h : h = Body(h)
  BY <1>5
<1>7. g[{}] = Pointee(Root) /\ g[{1}] = InRoot(store, k, asof)
  <2>1. \A s \in SUBSET D :
            g[s] = IF s = {} THEN Pointee(Root)
                   ELSE Traverse(store, g[s \ {Max(s)}], q[Max(s)], asof)
    BY <1>6 DEF Body
  <2>2. g[{}] = Pointee(Root)
    BY <1>3, <2>1
  <2>3. g[{1}] = Traverse(store, g[{}], k, asof)
    BY <1>2, <1>3, <2>1, MaxFacts
  <2>4. QED
    BY <1>4, <2>2, <2>3
<1>8. QED
  BY <1>1, <1>2, <1>6, <1>7 DEF q

\* Two keys lead to what is under the second in what the first leads to.
LEMMA GetTwo ==
    ASSUME NEW store, NEW asof, NEW k, NEW l
    PROVE  Get(store, <<k, l>>, asof) = Traverse(store, InRoot(store, k, asof), l, asof)
<1> DEFINE q == <<k, l>>
           D == DOMAIN q
           Body(g) == [s \in SUBSET D |->
                         IF s = {} THEN Pointee(Root)
                         ELSE Traverse(store, g[s \ {Max(s)}], q[Max(s)], asof)]
           gets == [s \in SUBSET D |->
                      IF s = {} THEN Pointee(Root)
                      ELSE IF s = {1} THEN InRoot(store, k, asof)
                      ELSE IF s = {2} THEN InRoot(store, l, asof)
                      ELSE Traverse(store, InRoot(store, k, asof), l, asof)]
<1>1. Get(store, q, asof) = (CHOOSE g : g = Body(g))[D]
  BY DEF Get, FoldLeft, MapThenFoldSet
<1>2. D = {1, 2} /\ q[1] = k /\ q[2] = l
  BY TwoKeys
<1>3. /\ SUBSET D = {{}, {1}, {2}, {1, 2}}
      /\ {1} \ {1} = {} /\ {2} \ {2} = {} /\ {1, 2} \ {2} = {1}
      /\ {1} # {} /\ {2} # {} /\ {1, 2} # {} /\ {2} # {1} /\ {1, 2} # {1} /\ {1, 2} # {2}
  BY <1>2
<1>4. \A j : Traverse(store, Pointee(Root), j, asof) = InRoot(store, j, asof)
  BY OccupantFacts DEF Traverse, InRoot
<1> HIDE DEF q, D
<1>5. gets = Body(gets)
  <2>1. ASSUME NEW s \in SUBSET D
        PROVE  gets[s] = Body(gets)[s]
    <3>1. CASE s = {}
      BY <3>1
    <3>2. CASE s = {1}
      BY <1>2, <1>3, <1>4, <3>2, MaxFacts
    <3>3. CASE s = {2}
      BY <1>2, <1>3, <1>4, <3>3, MaxFacts
    <3>4. CASE s = {1, 2}
      BY <1>2, <1>3, <3>4, MaxFacts
    <3>5. QED
      BY <1>3, <3>1, <3>2, <3>3, <3>4
  <2>2. QED
    BY <2>1
<1> HIDE DEF Body
<1>6. PICK g : g = Body(g) /\ g = CHOOSE h : h = Body(h)
  BY <1>5
<1>7. g[{1, 2}] = Traverse(store, InRoot(store, k, asof), l, asof)
  <2>1. \A s \in SUBSET D :
            g[s] = IF s = {} THEN Pointee(Root)
                   ELSE Traverse(store, g[s \ {Max(s)}], q[Max(s)], asof)
    BY <1>6 DEF Body
  <2>2. g[{}] = Pointee(Root)
    BY <1>3, <2>1
  <2>3. g[{1}] = Traverse(store, g[{}], k, asof)
    <3>1. {1} \in SUBSET D
      BY <1>3
    <3>2. QED
      BY <1>2, <1>3, <2>1, <3>1, MaxFacts
  <2>4. g[{1, 2}] = Traverse(store, g[{1}], l, asof)
    <3>1. {1, 2} \in SUBSET D
      BY <1>3
    <3>2. QED
      BY <1>2, <1>3, <2>1, <3>1, MaxFacts
  <2>5. QED
    BY <1>4, <2>2, <2>3, <2>4
<1>8. QED
  BY <1>1, <1>2, <1>6, <1>7 DEF q

\* What a path leads to is something that can be under a key.
LEMMA GetType ==
    ASSUME NEW store, StoreOK(store), NEW asof, NEW p \in Path
    PROVE  /\ Get(store, p, asof) \in Readable
           /\ Get(store, Front(p), asof) \in Readable
           /\ Last(p) \in Key
<1>1. Pointee(Root) \in Readable
  BY OccupantFacts, MuidFacts DEF Readable
<1>2. ASSUME NEW k
      PROVE  InRoot(store, k, asof) \in Readable
  BY FindType DEF InRoot, GetContainer, Readable
<1>3. ASSUME NEW at \in Readable, NEW k
      PROVE  Traverse(store, at, k, asof) \in Readable
  BY FindType, OccupantFacts DEF Traverse, GetContainer, Readable
<1>4. CASE \E k \in Key : p = <<k>>
  <2>1. PICK k \in Key : p = <<k>>
    BY <1>4
  <2>2. QED
    BY <1>1, <1>2, <2>1, OneKey, GetNothing, GetOne
<1>5. CASE \E k, l \in Key : p = <<k, l>>
  <2>1. PICK k \in Key, l \in Key : p = <<k, l>>
    BY <1>5
  <2>2. QED
    BY <1>2, <1>3, <2>1, TwoKeys, GetOne, GetTwo
<1>6. QED
  BY <1>4, <1>5, PathCases

\* A directory that is read has a muid.
LEMMA ReadableFacts == \A o \in Readable : o.type = "pointee" => o.muid \in Muid
BY OccupantFacts DEF Readable, Lost

-----------------------------------------------------------------------------
(* What a bundle does to the store. *)

\* What is known stays so in a longer store.
LEMMA KnownStays ==
    ASSUME NEW store, NEW grown, Len(store) \in Nat, Len(grown) \in Nat,
           Len(store) <= Len(grown), NEW ch \in Change, Known(store, ch)
    PROVE  Known(grown, ch)
<1>1. ch.type = "entry" /\ ch.occupant.type = "pointee" => ch.occupant.muid.time \in Int
  BY ChangeFacts, OccupantFacts, MuidFacts, Bounds
<1>2. QED
  BY <1>1 DEF Known

\* What a change means stays the same when the list and the store grow.
LEMMA MeantStays ==
    ASSUME NEW store, NEW grown, NEW b, NEW list, NEW longer, NEW ch,
           DOMAIN list \subseteq DOMAIN longer,
           Muids(store) \subseteq Muids(grown),
           \A m \in Muids(store) : grown[m.time] = store[m.time],
           Len(store) \in Nat, Len(grown) \in Nat, Len(store) <= Len(grown),
           ch \in Change, Meant(store, b, list, ch)
    PROVE  Meant(grown, b, longer, ch)
<1>1. ASSUME NEW muid, NEW h, Means(store, b, list, muid, h)
      PROVE  Means(grown, b, longer, muid, h)
  BY <1>1 DEF Means
<1>2. Known(grown, ch)
  BY KnownStays DEF Meant
<1>3. QED
  BY <1>1, <1>2 DEF Meant

\* The directory that is meant in a bundle is the one it names in the store.
LEMMA MeantIsOwn ==
    ASSUME StoreOK(log), Len(log) < MaxBundles, NEW bundle \in Bundles,
           Len(bundle.changes) <= MaxChanges,
           NEW m \in Muid, m.time = Len(log) + 1,
           NEW muid \in Muid, NEW h, Means(log, bundle.by, bundle.changes, muid, h)
    PROVE  IsOwn(Append(log, bundle), muid, m, h)
<1> DEFINE grown == Append(log, bundle)
           n     == Len(log) + 1
<1>1. /\ Muids(log) \subseteq Muids(grown) /\ n \in 1 .. MaxBundles
      /\ grown[n] = bundle /\ \A t \in DOMAIN log : grown[t] = log[t]
      /\ \A i \in DOMAIN bundle.changes : [time |-> n, offset |-> i] \in Muids(grown)
  BY StoreGrows
<1>2. /\ muid.time # 0 => Absolute(muid, n) = muid
      /\ muid.time = 0 => Absolute(muid, n) = [time |-> n, offset |-> muid.offset]
  BY <1>1, AbsoluteFacts
<1> HIDE DEF grown
<1>3. CASE /\ muid.time = 0 /\ h.bundler = bundle.by
           /\ h.offset = muid.offset /\ h.offset \in DOMAIN bundle.changes
  BY <1>1, <1>2, <1>3 DEF IsOwn, grown
<1>4. CASE /\ muid.time # 0 /\ muid \in Muids(log)
           /\ log[muid.time].by = h.bundler /\ h.offset = muid.offset
  <2>1. muid.time \in DOMAIN log
    BY <1>4, MuidsFacts
  <2>2. QED
    BY <1>1, <1>2, <1>4, <2>1 DEF IsOwn, grown
<1>5. QED
  BY <1>3, <1>4 DEF Means

\* apply_bundle of a bundle with sound changes.
LEMMA StoredKeeps ==
    ASSUME IInv, NEW b \in Bundler \cup {None}, NEW made \in Seq(Change), NEW by \in Seq(Call),
           Len(made) <= MaxChanges, Stored(b, made, by), AllMeant(log, b, made)
    PROVE  /\ StoreOK(log') /\ LogKnown' /\ HandlesResolve'
           /\ Len(log) + 1 \in 1 .. MaxBundles
           /\ Len(log) + 1 \in DOMAIN log' /\ log'[Len(log) + 1].by = b
           /\ \A t \in DOMAIN log : t \in DOMAIN log' /\ log'[t] = log[t]
           /\ \A d \in Bundler, list \in Seq(Change) :
                  AllMeant(log, d, list) => AllMeant(log', d, list)
<1> DEFINE bundle == [by |-> b, changes |-> made, calls |-> by]
           n      == Len(log) + 1
<1>1. StoreOK(log) /\ HandlesResolve /\ Len(log) < MaxBundles /\ log' = Append(log, bundle)
  BY DEF IInv, Stored
<1>2. bundle \in Bundles /\ bundle.by = b /\ bundle.changes = made
  BY DEF Bundles
<1> HIDE DEF bundle
<1>3. /\ StoreOK(log') /\ Len(log') = n /\ n \in 1 .. MaxBundles /\ n \in DOMAIN log' /\ log'[n] = bundle
      /\ \A t \in DOMAIN log : t \in DOMAIN log' /\ log'[t] = log[t]
      /\ Muids(log) \subseteq Muids(log')
      /\ \A m \in Muids(log) : At(log', m) = At(log, m)
      /\ \A m \in Muids(log') :
             \/ m \in Muids(log)
             \/ m.time = n /\ m.offset \in DOMAIN made /\ At(log', m) = made[m.offset]
  BY <1>1, <1>2, StoreGrows
<1>4. /\ \A m \in Muids(log) : m.time \in DOMAIN log /\ At(log, m) \in Change
      /\ Len(log) \in Nat /\ Len(log') \in Nat /\ Len(log) <= Len(log')
  BY <1>1, <1>3, MuidsFacts
<1>5. ASSUME NEW d \in Bundler, NEW list \in Seq(Change), AllMeant(log, d, list)
      PROVE  AllMeant(log', d, list)
  <2>1. \A i \in DOMAIN list : list[i] \in Change
    BY ElementOfSeq, LenProperties
  <2>2. QED
    BY <1>3, <1>4, <1>5, <2>1, MeantStays DEF AllMeant
<1>6. HandlesResolve'
  <2>1. ASSUME NEW m \in Muids(log'), At(log', m).type = "entry", NEW muid, NEW h,
               \/ h = At(log', m).owner /\ h # NoHandle /\ muid = At(log', m).container
               \/ h = At(log', m).guest /\ h # NoHandle /\ muid = At(log', m).occupant.muid
        PROVE  IsOwn(log', muid, m, h)
    <3>1. CASE m \in Muids(log)
      <4>1. IsOwn(log, muid, m, h)
        BY <1>1, <1>3, <2>1, <3>1 DEF HandlesResolve
      <4>2. QED
        BY <1>3, <1>4, <4>1 DEF IsOwn
    <3>2. CASE m.time = n /\ m.offset \in DOMAIN made /\ At(log', m) = made[m.offset]
      <4>1. Meant(log, b, made, made[m.offset])
        BY <3>2 DEF AllMeant
      <4>2. Means(log, b, made, muid, h)
        BY <2>1, <3>2, <4>1 DEF Meant
      <4>3. m \in Muid /\ At(log', m) \in Change
        BY <1>3, <2>1, MuidsFacts
      <4>4. muid \in Muid
        BY <2>1, <3>2, <4>1, <4>3, ChangeFacts, OccupantFacts DEF Meant
      <4>5. QED
        BY <1>1, <1>2, <3>2, <4>2, <4>3, <4>4, MeantIsOwn
    <3>3. QED
      BY <1>3, <3>1, <3>2
  <2>2. QED
    BY <2>1 DEF HandlesResolve
<1>7. LogKnown'
  <2>1. \A m \in Muids(log) : Known(log, At(log, m))
    BY DEF IInv, LogKnown
  <2>2. \A i \in DOMAIN made : Known(log, made[i]) /\ made[i] \in Change
    BY ElementOfSeq, LenProperties DEF AllMeant, Meant
  <2>3. ASSUME NEW m \in Muids(log')
        PROVE  Known(log', At(log', m))
    BY <1>3, <1>4, <2>1, <2>2, KnownStays
  <2>4. QED
    BY <2>3 DEF LogKnown
<1>8. QED
  BY <1>2, <1>3, <1>5, <1>6, <1>7

\* Steps that change neither the store nor what is in the bundlers.
LEMMA FrameKeeps ==
    ASSUME IInv, UNCHANGED <<log, changes, stamp, calls>>,
           opened' \in [Bundler -> BOOLEAN], active' \in Bundler \cup {None}
    PROVE  IInv'
<1>1. TypeOK'
  BY DEF IInv, TypeOK
<1>2. StoreOK(log') /\ StampIsOwn' /\ PendingResolve'
  BY DEF IInv, StampIsOwn, PendingResolve
<1>3. HandlesResolve' /\ LogKnown'
  BY DEF IInv, HandlesResolve, LogKnown
<1>4. QED
  BY <1>1, <1>2, <1>3 DEF IInv

\* What the type invariant says of the bundlers.
LEMMA BundlerFacts ==
    ASSUME IInv
    PROVE  /\ StoreOK(log)
           /\ \A b \in Bundler : /\ changes[b] \in Seq(Change) /\ Len(changes[b]) <= MaxChanges
                                 /\ Len(changes[b]) \in 0 .. MaxChanges
                                 /\ calls[b] \in Seq(Call)
                                 /\ stamp[b] \in 0 .. MaxBundles
           /\ active \in Bundler \cup {None}
<1>1. ASSUME NEW b \in Bundler
      PROVE  /\ changes[b] \in Seq(Change) /\ Len(changes[b]) <= MaxChanges
             /\ calls[b] \in Seq(Call) /\ stamp[b] \in 0 .. MaxBundles
  BY DEF IInv, TypeOK
<1>2. ASSUME NEW b \in Bundler
      PROVE  Len(changes[b]) \in 0 .. MaxChanges
  BY <1>1, LenProperties, Bounds
<1>3. QED
  BY <1>1, <1>2 DEF IInv, TypeOK

\* BoundBundler.commit.
LEMMA CommitsKeeps ==
    ASSUME IInv, NEW b \in Bundler, Commits(b), UNCHANGED <<changes, calls>>,
           opened' \in [Bundler -> BOOLEAN], active' \in Bundler \cup {None}
    PROVE  IInv'
<1>1. CASE changes[b] = <<>>
  BY <1>1, FrameKeeps DEF Commits
<1>2. CASE changes[b] # <<>>
  <2> DEFINE n == Len(log) + 1
  <2>1. Stored(b, changes[b], calls[b]) /\ stamp' = [stamp EXCEPT ![b] = n]
    BY <1>2 DEF Commits
  <2>2. AllMeant(log, b, changes[b])
    BY DEF IInv, PendingResolve
  <2>3. /\ StoreOK(log') /\ LogKnown' /\ HandlesResolve' /\ n \in 1 .. MaxBundles
        /\ n \in DOMAIN log' /\ log'[n].by = b
        /\ \A t \in DOMAIN log : t \in DOMAIN log' /\ log'[t] = log[t]
        /\ \A d \in Bundler, list \in Seq(Change) :
                  AllMeant(log, d, list) => AllMeant(log', d, list)
    BY <2>1, <2>2, BundlerFacts, StoredKeeps
  <2> HIDE DEF n
  <2>4. stamp \in [Bundler -> 0 .. MaxBundles]
    BY DEF IInv, TypeOK
  <2>5. TypeOK'
    <3>1. stamp' \in [Bundler -> 0 .. MaxBundles]
      BY <2>1, <2>3, <2>4, Bounds
    <3>2. log' \in Seq(Bundles) /\ Len(log') <= MaxBundles
      BY <2>3 DEF StoreOK
    <3>3. QED
      BY <3>1, <3>2 DEF IInv, TypeOK, Bundles
  <2>6. StampIsOwn'
    BY <2>1, <2>3, <2>4 DEF IInv, StampIsOwn
  <2>7. PendingResolve'
    BY <2>3, BundlerFacts DEF IInv, PendingResolve
  <2>8. QED
    BY <2>3, <2>5, <2>6, <2>7 DEF IInv
<1>3. QED
  BY <1>1, <1>2

\* What add_change may be given: each handle means a change of the list it becomes
\* part of.
Fits(e, made) ==
    \A i \in DOMAIN made :
        Meant(log, e, IF e = None THEN made ELSE changes[e] \o made, made[i])

\* add_change for the changes of calls.
LEMMA PerformKeeps ==
    ASSUME IInv, NEW e \in Bundler \cup {None}, NEW made \in Seq(Change), NEW by \in Seq(Call),
           Perform(e, made, by), Fits(e, made)
    PROVE  IInv'
<1>1. UNCHANGED <<opened, stamp, active>> /\ Len(made) \in Nat
  BY LenProperties DEF Perform
<1>2. CASE e = None
  <2>1. Len(made) <= MaxChanges /\ Stored(None, made, by) /\ UNCHANGED <<changes, calls>>
    BY <1>1, <1>2 DEF Perform, Count
  <2>2. AllMeant(log, None, made)
    BY <1>2 DEF Fits, AllMeant
  <2>3. /\ StoreOK(log') /\ LogKnown' /\ HandlesResolve'
        /\ \A t \in DOMAIN log : t \in DOMAIN log' /\ log'[t] = log[t]
        /\ \A d \in Bundler, list \in Seq(Change) :
                  AllMeant(log, d, list) => AllMeant(log', d, list)
    BY <2>1, <2>2, <1>2, StoredKeeps
  <2>4. TypeOK'
    BY <1>1, <2>1, <2>3 DEF IInv, TypeOK, StoreOK, Bundles
  <2>5. StampIsOwn'
    BY <1>1, <2>3 DEF IInv, StampIsOwn
  <2>6. PendingResolve'
    BY <2>1, <2>3, BundlerFacts DEF IInv, PendingResolve
  <2>7. QED
    BY <2>3, <2>4, <2>5, <2>6 DEF IInv
<1>3. CASE e \in Bundler
  <2> DEFINE list == changes[e] \o made
  <2>1. e # None
    BY <1>3, Bounds
  <2>2. /\ UNCHANGED log
        /\ changes' = [changes EXCEPT ![e] = list]
        /\ calls' = [calls EXCEPT ![e] = calls[e] \o by]
        /\ Len(changes[e]) + Len(made) <= MaxChanges
    BY <2>1 DEF Perform, Count
  <2>3. /\ list \in Seq(Change) /\ Len(list) <= MaxChanges /\ Len(log) \in Nat
        /\ \A i \in DOMAIN changes[e] : changes[e][i] \in Change
        /\ DOMAIN changes[e] \subseteq DOMAIN list
        /\ \A i \in DOMAIN list : \/ i \in DOMAIN changes[e] /\ list[i] = changes[e][i]
                                  \/ i - Len(changes[e]) \in DOMAIN made
                                     /\ list[i] = made[i - Len(changes[e])]
    <3>1. /\ list \in Seq(Change) /\ Len(list) <= MaxChanges
          /\ DOMAIN changes[e] \subseteq DOMAIN list
          /\ \A i \in DOMAIN list : \/ i \in DOMAIN changes[e] /\ list[i] = changes[e][i]
                                    \/ i - Len(changes[e]) \in DOMAIN made
                                       /\ list[i] = made[i - Len(changes[e])]
      BY <1>1, <1>3, <2>2, BundlerFacts, ConcatProperties, LenProperties
    <3>2. /\ Len(log) \in Nat
          /\ \A i \in DOMAIN changes[e] : changes[e][i] \in Change
      BY <1>3, BundlerFacts, MuidsFacts, ElementOfSeq, LenProperties
    <3>3. QED
      BY <3>1, <3>2
  <2>4. calls[e] \o by \in Seq(Call)
    BY <1>3, BundlerFacts, ConcatProperties
  <2>5. Fits(e, made) => \A i \in DOMAIN made : Meant(log, e, list, made[i])
    BY <2>1 DEF Fits
  <2> HIDE DEF list
  <2>6. AllMeant(log, e, list)
    <3>1. ASSUME NEW i \in DOMAIN list
          PROVE  Meant(log, e, list, list[i])
      <4>1. CASE i \in DOMAIN changes[e] /\ list[i] = changes[e][i]
        <5>1. Meant(log, e, changes[e], changes[e][i])
          BY <1>3, <4>1 DEF IInv, PendingResolve, AllMeant
        <5>2. QED
          BY <2>3, <4>1, <5>1, MeantStays
      <4>2. CASE /\ i - Len(changes[e]) \in DOMAIN made
                 /\ list[i] = made[i - Len(changes[e])]
        BY <2>5, <4>2
      <4>3. QED
        BY <2>3, <3>1, <4>1, <4>2
    <3>2. QED
      BY <3>1 DEF AllMeant
  <2>7. TypeOK'
    BY <1>1, <1>3, <2>2, <2>3, <2>4 DEF IInv, TypeOK
  <2>8. PendingResolve'
    <3>1. changes \in [Bundler -> Seq(Change)]
      BY DEF IInv, TypeOK
    <3>2. ASSUME NEW d \in Bundler
          PROVE  AllMeant(log, d, changes'[d])
      BY <2>2, <2>6, <3>1 DEF IInv, PendingResolve
    <3>3. QED
      BY <2>2, <3>2 DEF PendingResolve
  <2>9. StoreOK(log') /\ StampIsOwn'
    BY <1>1, <2>2 DEF IInv, StampIsOwn
  <2>10. HandlesResolve' /\ LogKnown'
    BY <2>2 DEF IInv, HandlesResolve, LogKnown
  <2>11. QED
    BY <2>7, <2>8, <2>9, <2>10 DEF IInv
<1>4. QED
  BY <1>2, <1>3

-----------------------------------------------------------------------------
(* Changes and calls of operations. *)

\* Changes without handles, with which nothing has to be resolved.
QuietChange ==
    {ch \in Change : /\ ch.type = "entry" => ch.owner = NoHandle /\ ch.guest = NoHandle
                    /\ Known(log, ch)}

Reads == [container : Muid, key : Key, found : SUBSET Muid]

\* What the operations make are changes without handles.
LEMMA MadeFacts ==
    /\ \A kept \in BOOLEAN : Container(kept) \in QuietChange
    /\ Clearance(Root) \in QuietChange
    /\ \A c \in Muid, k \in Key, o \in Occupant :
           /\ Entry(c, k, o) \in Change
           /\ (o.type = "pointee" => o.muid.time <= Len(log)) => Entry(c, k, o) \in QuietChange
           /\ Entry(c, k, o).type = "entry"
           /\ Entry(c, k, o).container = c /\ Entry(c, k, o).key = k
           /\ Entry(c, k, o).occupant = o
           /\ Entry(c, k, o).owner = NoHandle /\ Entry(c, k, o).guest = NoHandle
<1>1. \A kept \in BOOLEAN : Container(kept) \in Change /\ Container(kept).type # "entry"
  BY DEF Container, Change
<1>2. Clearance(Root) \in Change /\ Clearance(Root).type # "entry"
  BY MuidFacts DEF Clearance, Change
<1>3. ASSUME NEW c \in Muid, NEW k \in Key, NEW o \in Occupant
      PROVE  /\ Entry(c, k, o) \in Change
             /\ Entry(c, k, o).type = "entry"
             /\ Entry(c, k, o).container = c /\ Entry(c, k, o).key = k
             /\ Entry(c, k, o).occupant = o
             /\ Entry(c, k, o).owner = NoHandle /\ Entry(c, k, o).guest = NoHandle
  BY DEF Entry, Change
<1>4. QED
  BY <1>1, <1>2, <1>3 DEF QuietChange, Known

\* add_change for changes without handles.
LEMMA QuietKeeps ==
    ASSUME IInv, NEW e \in Bundler \cup {None}, NEW made \in Seq(QuietChange),
           NEW by \in Seq(Call), Perform(e, made, by)
    PROVE  IInv'
<1>1. made \in Seq(Change)
  BY SeqMonotonic DEF QuietChange
<1>2. Fits(e, made)
  BY ElementOfSeq, LenProperties DEF Fits, Meant, QuietChange
<1>3. QED
  BY <1>1, <1>2, PerformKeeps

\* The number of changes in a bundler is within the bound.
LEMMA CountType ==
    ASSUME IInv, NEW e \in Bundler \cup {None}
    PROVE  Count(e) \in 0 .. MaxChanges
BY BundlerFacts, Bounds DEF Count

\* bundler or Bundler.get_active() is a bundler or none.
LEMMA EffectiveType ==
    ASSUME IInv, NEW b \in Bundler \cup {None}
    PROVE  Effective(b) \in Bundler \cup {None}
BY BundlerFacts DEF Effective

\* What a call has read is a set of reads.
LEMMA ReadType ==
    ASSUME IInv, NEW c \in Muid, NEW k \in Key
    PROVE  Read(c, k) \in Reads
BY BundlerFacts, FindType DEF Read, Reads

\* What is noted of a call is a call.
LEMMA CalledType ==
    ASSUME IInv, NEW e \in Bundler \cup {None},
           NEW op \in {"set", "delete", "clear", "reset", "other"},
           NEW path \in Path \cup {<<>>}, NEW v \in Value \cup {None}, NEW reads \in SUBSET Reads
    PROVE  Called(op, path, v, e, reads) \in Call
<1>1. Count(e) \in 0 .. MaxChanges /\ 0 \in 0 .. MaxBundles
  BY CountType, Bounds
<1>2. QED
  BY <1>1 DEF Called, Call, Reads

\* A sequence of one.
LEMMA OneOf ==
    ASSUME NEW S, NEW x \in S
    PROVE  <<x>> \in Seq(S)
OBVIOUS

\* The reads on a path, if what is on the way to its end are directories.
LEMMA WalkReadsType ==
    ASSUME IInv, NEW p \in Path
    PROVE  /\ WalkReads(Front(p)) \in SUBSET Reads
           /\ Walk(Front(p)).type = "pointee" => WalkReads(p) \in SUBSET Reads
<1>1. /\ \A k : Walk(SubSeq(<<k>>, 1, 0)) = Pointee(Root)
      /\ \A k, l : Walk(SubSeq(<<k, l>>, 1, 0)) = Pointee(Root)
      /\ \A k, l : Walk(SubSeq(<<k, l>>, 1, 1)) = Walk(<<k>>)
  BY OneKey, TwoKeys, GetNothing DEF Walk
<1>2. Pointee(Root).muid \in Muid
  BY OccupantFacts, MuidFacts
<1>3. WalkReads(<<>>) \in SUBSET Reads
  BY DEF WalkReads
<1>4. ASSUME NEW k \in Key
      PROVE  WalkReads(<<k>>) \in SUBSET Reads
  <2> DEFINE q == <<k>>
  <2>1. DOMAIN q = {1} /\ q[1] = k /\ Walk(SubSeq(q, 1, 0)) = Pointee(Root)
    BY <1>1, OneKey
  <2> HIDE DEF q
  <2>2. \A i \in DOMAIN q : Read(Walk(SubSeq(q, 1, i - 1)).muid, q[i]) \in Reads
    BY <1>2, <2>1, ReadType
  <2>3. WalkReads(q) \in SUBSET Reads
    BY <2>2 DEF WalkReads
  <2>4. QED
    BY <2>3 DEF q
<1>5. ASSUME NEW k \in Key, NEW l \in Key, Walk(<<k>>).type = "pointee"
      PROVE  WalkReads(<<k, l>>) \in SUBSET Reads
  <2> DEFINE q == <<k, l>>
  <2>1. /\ DOMAIN q = {1, 2} /\ q[1] = k /\ q[2] = l
        /\ Walk(SubSeq(q, 1, 0)) = Pointee(Root) /\ Walk(SubSeq(q, 1, 1)) = Walk(<<k>>)
    BY <1>1, TwoKeys
  <2>2. Walk(<<k>>).muid \in Muid
    <3>1. Walk(<<k>>) \in Readable
      BY BundlerFacts, OneKey, GetType DEF Walk
    <3>2. QED
      BY <1>5, <3>1, ReadableFacts
  <2> HIDE DEF q
  <2>3. \A i \in DOMAIN q : Read(Walk(SubSeq(q, 1, i - 1)).muid, q[i]) \in Reads
    BY <1>2, <2>1, <2>2, ReadType
  <2>4. WalkReads(q) \in SUBSET Reads
    BY <2>3 DEF WalkReads
  <2>5. QED
    BY <2>4 DEF q
<1>6. CASE \E k \in Key : p = <<k>>
  BY <1>3, <1>4, <1>6, OneKey
<1>7. CASE \E k, l \in Key : p = <<k, l>>
  BY <1>4, <1>5, <1>7, TwoKeys
<1>8. QED
  BY <1>6, <1>7, PathCases

-----------------------------------------------------------------------------
(* The operations on the root directory. *)

\* An operation that puts one entry into a directory on a path.
LEMMA EntryKeeps ==
    ASSUME IInv, NEW e \in Bundler \cup {None}, NEW c \in Muid, NEW k \in Key,
           NEW o \in Occupant, o.type # "pointee", NEW call \in Call, Perform(e, <<Entry(c, k, o)>>, <<call>>)
    PROVE  IInv'
<1>1. <<Entry(c, k, o)>> \in Seq(QuietChange) /\ <<call>> \in Seq(Call)
  BY MadeFacts, OneOf
<1>2. QED
  BY <1>1, QuietKeeps

\* The directory at the end of a path has an address.
LEMMA WalkType ==
    ASSUME IInv, NEW p \in Path, Walk(Front(p)).type = "pointee"
    PROVE  Walk(Front(p)).muid \in Muid /\ Last(p) \in Key
BY BundlerFacts, GetType, ReadableFacts DEF Walk

LEMMA DeleteKeeps ==
    ASSUME IInv, NEW b \in Bundler \cup {None}, NEW p \in Path, Delete(b, p)
    PROVE  IInv'
<1> DEFINE e    == Effective(b)
           call == Called("delete", p, None, e, WalkReads(Front(p)))
<1>1. /\ Walk(Front(p)).type = "pointee"
      /\ Perform(e, <<Entry(Walk(Front(p)).muid, Last(p), Deletion)>>, <<call>>)
  BY DEF Delete
<1>2. e \in Bundler \cup {None}
  BY EffectiveType
<1> HIDE DEF e
<1>3. call \in Call
  BY <1>2, WalkReadsType, CalledType
<1> HIDE DEF call
<1>4. QED
  BY <1>1, <1>2, <1>3, WalkType, OccupantFacts, EntryKeeps

LEMMA PopKeeps ==
    ASSUME IInv, NEW b \in Bundler \cup {None}, NEW p \in Path, Pop(b, p)
    PROVE  IInv'
<1> DEFINE e    == Effective(b)
           call == Called("delete", p, None, e, WalkReads(p))
<1>1. /\ Walk(Front(p)).type = "pointee"
      /\ Perform(e, <<Entry(Walk(Front(p)).muid, Last(p), Deletion)>>, <<call>>)
  BY DEF Pop
<1>2. e \in Bundler \cup {None}
  BY EffectiveType
<1> HIDE DEF e
<1>3. call \in Call
  BY <1>1, <1>2, WalkReadsType, CalledType
<1> HIDE DEF call
<1>4. QED
  BY <1>1, <1>2, <1>3, WalkType, OccupantFacts, EntryKeeps

LEMMA SetDefaultKeeps ==
    ASSUME IInv, NEW b \in Bundler \cup {None}, NEW p \in Path, NEW v \in Value,
           SetDefault(b, p, v)
    PROVE  IInv'
<1> DEFINE e    == Effective(b)
           call == Called("set", p, v, e, WalkReads(p))
<1>1. /\ Walk(Front(p)).type = "pointee"
      /\ Perform(e, <<Entry(Walk(Front(p)).muid, Last(p), Plain(v))>>, <<call>>)
  BY DEF SetDefault
<1>2. e \in Bundler \cup {None}
  BY EffectiveType
<1> HIDE DEF e
<1>3. call \in Call
  BY <1>1, <1>2, WalkReadsType, CalledType
<1> HIDE DEF call
<1>4. QED
  BY <1>1, <1>2, <1>3, WalkType, OccupantFacts, EntryKeeps

LEMMA PopItemKeeps ==
    ASSUME IInv, NEW b \in Bundler \cup {None}, PopItem(b)
    PROVE  IInv'
<1> DEFINE e       == Effective(b)
           call(k) == Called("delete", <<k>>, None, e, {Read(Root, l) : l \in Key})
<1>1. PICK k \in Key : Perform(e, <<Entry(Root, k, Deletion)>>, <<call(k)>>)
  BY DEF PopItem
<1>2. e \in Bundler \cup {None}
  BY EffectiveType
<1> HIDE DEF e
<1>3. call(k) \in Call
  <2>1. {Read(Root, l) : l \in Key} \in SUBSET Reads
    BY ReadType, MuidFacts
  <2>2. <<k>> \in Path \cup {<<>>}
    BY OneKey
  <2>3. QED
    BY <1>2, <2>1, <2>2, CalledType
<1> HIDE DEF call
<1>4. QED
  BY <1>1, <1>2, <1>3, MuidFacts, OccupantFacts, EntryKeeps

\* Contents are one or two keys with values.
LEMMA ContentsFacts ==
    ASSUME NEW contents \in Contents
    PROVE  /\ contents \in Seq(Key \X Value)
           /\ \A i \in DOMAIN contents : contents[i][1] \in Key /\ contents[i][2] \in Value
<1>1. contents \in Seq(Key \X Value)
  <2>1. CASE \E k \in Key, v \in Value : contents = <<<<k, v>>>>
    <3>1. PICK x \in Key \X Value : contents = <<x>>
      BY <2>1
    <3>2. QED
      BY <3>1, OneOf
  <2>2. CASE \E k \in Key, l \in Key, v \in Value : contents = <<<<k, v>>, <<l, v>>>>
    <3>1. PICK x \in Key \X Value, y \in Key \X Value : contents = <<x, y>>
      BY <2>2
    <3>2. QED
      BY <3>1
  <2>3. QED
    BY <2>1, <2>2 DEF Contents
<1>2. QED
  BY <1>1, ElementOfSeq, LenProperties

\* What Directory.update puts into a bundler.
LEMMA UpdateType ==
    ASSUME IInv, NEW contents \in Contents, NEW e \in Bundler \cup {None}
    PROVE  /\ UpdateChanges(contents) \in Seq(QuietChange)
           /\ UpdateCalls(contents, e) \in Seq(Call)
<1>1. /\ DOMAIN contents = 1 .. Len(contents) /\ Len(contents) \in Nat
      /\ \A i \in DOMAIN contents : contents[i][1] \in Key /\ contents[i][2] \in Value
  BY ContentsFacts, LenProperties
<1>2. \A i \in DOMAIN contents : Entry(Root, contents[i][1], Plain(contents[i][2])) \in QuietChange
  BY <1>1, MadeFacts, MuidFacts, OccupantFacts
<1>3. \A i \in DOMAIN contents :
          Called("set", <<contents[i][1]>>, contents[i][2], e, {}) \in Call
  BY <1>1, CalledType, OneKey
<1>4. QED
  BY <1>1, <1>2, <1>3 DEF UpdateChanges, UpdateCalls

LEMMA UpdateKeeps ==
    ASSUME IInv, NEW b \in Bundler \cup {None}, NEW contents \in Contents, Update(b, contents)
    PROVE  IInv'
BY EffectiveType, UpdateType, QuietKeeps DEF Update

\* The call of a clear, of a new directory or of an operation with another one.
LEMMA PlainCallType ==
    ASSUME IInv, NEW e \in Bundler \cup {None}, NEW op \in {"clear", "other", "reset"}
    PROVE  Called(op, <<>>, None, e, {}) \in Call
BY CalledType

LEMMA RefillKeeps ==
    ASSUME IInv, NEW b \in Bundler \cup {None}, NEW contents \in Contents, Refill(b, contents)
    PROVE  IInv'
<1> DEFINE e    == Effective(b)
           made == <<Clearance(Root)>> \o UpdateChanges(contents)
           by   == <<Called("clear", <<>>, None, e, {})>> \o UpdateCalls(contents, e)
<1>1. Perform(e, made, by) /\ e \in Bundler \cup {None}
  BY EffectiveType DEF Refill
<1> HIDE DEF e
<1>2. made \in Seq(QuietChange)
  BY <1>1, UpdateType, MadeFacts, OneOf, ConcatProperties
<1>3. by \in Seq(Call)
  <2>1. <<Called("clear", <<>>, None, e, {})>> \in Seq(Call)
    BY <1>1, PlainCallType, OneOf
  <2>2. QED
    BY <1>1, <2>1, UpdateType, ConcatProperties
<1> HIDE DEF made, by
<1>4. QED
  BY <1>1, <1>2, <1>3, QuietKeeps

LEMMA ClearKeeps ==
    ASSUME IInv, NEW b \in Bundler \cup {None}, Clear(b)
    PROVE  IInv'
<1>1. Effective(b) \in Bundler \cup {None} /\ <<Clearance(Root)>> \in Seq(QuietChange)
  BY EffectiveType, MadeFacts, OneOf
<1>2. <<Called("clear", <<>>, None, Effective(b), {})>> \in Seq(Call)
  BY <1>1, PlainCallType, OneOf
<1>3. QED
  BY <1>1, <1>2, QuietKeeps DEF Clear

-----------------------------------------------------------------------------
(* The operations with other directories. *)

LEMMA NewKeeps ==
    ASSUME IInv, NEW b \in Bundler \cup {None}, New(b)
    PROVE  IInv'
<1>1. /\ Effective(b) \in Bundler \cup {None}
      /\ <<Container(Effective(b) # None)>> \in Seq(QuietChange)
  BY EffectiveType, MadeFacts, OneOf
<1>2. <<Called("other", <<>>, None, Effective(b), {})>> \in Seq(Call)
  BY <1>1, PlainCallType, OneOf
<1>3. QED
  BY <1>1, <1>2, QuietKeeps DEF New

\* The handles that the program has are those of changes in its bundlers.
LEMMA HandlesFacts ==
    ASSUME IInv, NEW h \in Handles
    PROVE  /\ h \in Handle /\ h.bundler \in Bundler /\ h.offset \in 1 .. MaxChanges
           /\ h.offset \in DOMAIN changes[h.bundler]
           /\ PutInto(h) \in Muid
           /\ PutInto(h).time = stamp[h.bundler] /\ PutInto(h).offset = h.offset
           /\ PutInto(h).time <= Len(log)
<1>1. /\ h \in Handle /\ h.bundler \in Bundler /\ h.offset \in 1 .. MaxChanges
      /\ h.offset \in DOMAIN changes[h.bundler]
  BY DEF Handles, Handle
<1>2. stamp[h.bundler] \in -1 .. MaxBundles /\ h.offset \in 0 .. MaxChanges
  BY <1>1, BundlerFacts, Bounds
<1>3. stamp[h.bundler] <= Len(log)
  <2>1. DOMAIN log = 1 .. Len(log) /\ Len(log) \in Nat
    BY BundlerFacts, MuidsFacts
  <2>2. stamp[h.bundler] = 0 \/ stamp[h.bundler] \in DOMAIN log
    BY <1>1 DEF IInv, StampIsOwn
  <2>3. QED
    BY <2>1, <2>2
<1>4. QED
  BY <1>1, <1>2, <1>3, MuidFacts DEF PutInto

\* Where a bundler can be expected to resolve a handle, it does.
LEMMA ProperMeans ==
    ASSUME IInv, NEW h \in Handles, NEW e \in Bundler \cup {None}, NEW made,
           e # None => made \in Seq(Change), Proper(h, e) # NoHandle
    PROVE  /\ Proper(h, e) = h
           /\ Means(log, e, IF e = None THEN made ELSE changes[e] \o made, PutInto(h), h)
<1>1. Proper(h, e) = h
  BY DEF Proper
<1>2. CASE stamp[h.bundler] # 0 /\ h.offset \in DOMAIN log[stamp[h.bundler]].changes
  <2>1. stamp[h.bundler] \in DOMAIN log /\ log[stamp[h.bundler]].by = h.bundler
    BY <1>2, HandlesFacts DEF IInv, StampIsOwn
  <2>2. PutInto(h) \in Muids(log)
    BY <1>2, <2>1, BundlerFacts, MuidsFacts DEF PutInto
  <2>3. QED
    BY <1>1, <1>2, <2>1, <2>2, HandlesFacts DEF Means
<1>3. CASE stamp[h.bundler] = 0 /\ h.bundler = e
  <2>1. e \in Bundler /\ e # None
    BY <1>3, HandlesFacts, Bounds
  <2>2. h.offset \in DOMAIN (changes[e] \o made)
    BY <1>3, <2>1, HandlesFacts, BundlerFacts, ConcatProperties, LenProperties
  <2>3. QED
    BY <1>1, <1>3, <2>1, <2>2, HandlesFacts DEF Means
<1>4. QED
  BY <1>2, <1>3 DEF Proper

\* A handle or none.
LEMMA ProperType ==
    ASSUME IInv, NEW h \in Handles, NEW e
    PROVE  Proper(h, e) \in Handle \cup {NoHandle}
BY HandlesFacts DEF Proper

LEMMA SetInKeeps ==
    ASSUME IInv, NEW b \in Bundler \cup {None}, NEW h \in Handles, NEW k \in Key, NEW v \in Value,
           SetIn(b, h, k, v)
    PROVE  IInv'
<1> DEFINE e    == Effective(b)
           ch   == [Entry(PutInto(h), k, Plain(v)) EXCEPT !.owner = Proper(h, e)]
           made == <<ch>>
           by   == <<Called("other", <<>>, None, e, {})>>
<1>1. Perform(e, made, by) /\ e \in Bundler \cup {None}
  BY EffectiveType DEF SetIn
<1> HIDE DEF e
<1>2. PutInto(h) \in Muid /\ Plain(v) \in Occupant /\ Proper(h, e) \in Handle \cup {NoHandle}
  BY HandlesFacts, OccupantFacts, ProperType
<1>3. /\ ch \in Change
      /\ ch.container = PutInto(h) /\ ch.owner = Proper(h, e) /\ ch.guest = NoHandle
      /\ ch.occupant = Plain(v)
  BY <1>2 DEF Entry, Change
<1> HIDE DEF ch
<1>4. Known(log, ch)
  BY <1>3, OccupantFacts DEF Known
<1>5. made \in Seq(Change) /\ DOMAIN made = {1} /\ made[1] = ch
  BY <1>3, OneOf, OneKey
<1>6. by \in Seq(Call)
  BY <1>1, PlainCallType, OneOf
<1> HIDE DEF made, by
<1>7. Fits(e, made)
  BY <1>1, <1>3, <1>5, <1>4, ProperMeans DEF Fits, Meant
<1>8. QED
  BY <1>1, <1>5, <1>6, <1>7, PerformKeeps

LEMMA LinkKeeps ==
    ASSUME IInv, NEW b \in Bundler \cup {None}, NEW h \in Handles, NEW k \in Key, Link(b, k, h)
    PROVE  IInv'
<1> DEFINE e    == Effective(b)
           ch   == [Entry(Root, k, Pointee(PutInto(h))) EXCEPT !.guest = Proper(h, e)]
           made == <<ch>>
           by   == <<Called("other", <<>>, None, e, {})>>
<1>1. Perform(e, made, by) /\ e \in Bundler \cup {None}
  BY EffectiveType DEF Link
<1> HIDE DEF e
<1>2. /\ Pointee(PutInto(h)) \in Occupant /\ Root \in Muid
      /\ Proper(h, e) \in Handle \cup {NoHandle}
      /\ Pointee(PutInto(h)).type = "pointee" /\ Pointee(PutInto(h)).muid = PutInto(h)
  BY HandlesFacts, OccupantFacts, ProperType, MuidFacts
<1>3. /\ ch \in Change
      /\ ch.occupant = Pointee(PutInto(h)) /\ ch.guest = Proper(h, e) /\ ch.owner = NoHandle
  BY <1>2 DEF Entry, Change
<1> HIDE DEF ch
<1>4. made \in Seq(Change) /\ DOMAIN made = {1} /\ made[1] = ch
  BY <1>3, OneOf, OneKey
<1>5. by \in Seq(Call)
  BY <1>1, PlainCallType, OneOf
<1> HIDE DEF made, by
<1>6. Known(log, ch)
  BY <1>2, <1>3, HandlesFacts DEF Known
<1>7. Fits(e, made)
  BY <1>1, <1>2, <1>3, <1>4, <1>6, ProperMeans DEF Fits, Meant
<1>8. QED
  BY <1>1, <1>4, <1>5, <1>7, PerformKeeps

-----------------------------------------------------------------------------
(* Directory.set. *)

\* Before the first key of the way.
Start == [at |-> Root, fresh |-> FALSE, ok |-> TRUE, made |-> <<>>, reads |-> {}]

\* The way of Directory.set with n changes in the bundler.
Way(q, n) == FoldLeft(LAMBDA x, k : Step(x, k, n), Start, q)

\* The way to a key of the root directory.
LEMMA WayOfNone == \A n : Way(<<>>, n) = Start
<1> TAKE n
<1> DEFINE q == <<>>
           D == DOMAIN q
           Body(g) == [s \in SUBSET D |->
                         IF s = {} THEN Start ELSE Step(g[s \ {Max(s)}], q[Max(s)], n)]
           ways == [s \in SUBSET D |-> Start]
<1>1. Way(q, n) = (CHOOSE g : g = Body(g))[D]
  BY DEF Way, FoldLeft, MapThenFoldSet
<1>2. D = {}
  OBVIOUS
<1> HIDE DEF q, D
<1>3. ways = Body(ways)
  BY <1>2
<1> HIDE DEF Body
<1>4. PICK g : g = Body(g) /\ g = CHOOSE h : h = Body(h)
  BY <1>3
<1>5. g[D] = Start
  BY <1>2, <1>4 DEF Body
<1>6. QED
  BY <1>1, <1>4, <1>5 DEF q

\* The way to a key of a directory under a key.
LEMMA WayOfOne == \A n, k : Way(<<k>>, n) = Step(Start, k, n)
<1> TAKE n, k
<1> DEFINE q == <<k>>
           D == DOMAIN q
           Body(g) == [s \in SUBSET D |->
                         IF s = {} THEN Start ELSE Step(g[s \ {Max(s)}], q[Max(s)], n)]
           ways == [s \in SUBSET D |-> IF s = {} THEN Start ELSE Step(Start, k, n)]
<1>1. Way(q, n) = (CHOOSE g : g = Body(g))[D]
  BY DEF Way, FoldLeft, MapThenFoldSet
<1>2. D = {1} /\ q[1] = k
  BY OneKey
<1>3. SUBSET D = {{}, {1}} /\ {1} \ {1} = {} /\ {1} # {}
  BY <1>2
<1> HIDE DEF q, D
<1>4. ways = Body(ways)
  <2>1. ASSUME NEW s \in SUBSET D
        PROVE  ways[s] = Body(ways)[s]
    <3>1. CASE s = {}
      BY <3>1
    <3>2. CASE s = {1}
      BY <1>2, <1>3, <3>2, MaxFacts
    <3>3. QED
      BY <1>3, <3>1, <3>2
  <2>2. QED
    BY <2>1
<1> HIDE DEF Body
<1>5. PICK g : g = Body(g) /\ g = CHOOSE h : h = Body(h)
  BY <1>4
<1>6. g[{1}] = Step(Start, k, n)
  <2>1. \A s \in SUBSET D :
            g[s] = IF s = {} THEN Start ELSE Step(g[s \ {Max(s)}], q[Max(s)], n)
    BY <1>5 DEF Body
  <2>2. {} \in SUBSET D /\ {1} \in SUBSET D
    BY <1>3
  <2>3. g[{}] = Start
    BY <2>1, <2>2
  <2>4. g[{1}] = Step(g[{}], k, n)
    BY <1>2, <1>3, <2>1, <2>2, MaxFacts
  <2>5. QED
    BY <2>3, <2>4
<1>7. QED
  BY <1>1, <1>2, <1>5, <1>6 DEF q

\* Short sequences put together.
LEMMA PutTogether ==
    ASSUME NEW x, NEW y
    PROVE  /\ <<>> \o <<x, y>> = <<x, y>>
           /\ \A z : Append(<<x, y>>, z) = <<x, y, z>> /\ Len(<<x, y, z>>) = 3
<1> DEFINE q == <<x, y>>
<1>1. q \in Seq({x, y}) /\ <<>> \in Seq({x, y})
  OBVIOUS
<1>2. <<>> \o q = q
  BY <1>1, ConcatEmptySeq
<1>3. ASSUME NEW z
      PROVE  Append(<<x, y>>, z) = <<x, y, z>>
  <2> DEFINE S == {x, y, z}
             r == Append(q, z)
             t == <<x, y, z>>
  <2>1. q \in Seq(S) /\ z \in S
    OBVIOUS
  <2>2. Len(q) = 2 /\ q[1] = x /\ q[2] = y
    OBVIOUS
  <2>3. t \in Seq(S) /\ Len(t) = 3 /\ t[1] = x /\ t[2] = y /\ t[3] = z
    OBVIOUS
  <2> HIDE DEF q, t, S
  <2>4. /\ r \in Seq(S) /\ Len(r) = Len(q) + 1
        /\ \A i \in 1 .. Len(q) : r[i] = q[i]
        /\ r[Len(q) + 1] = z
    BY <2>1, AppendProperties
  <2> HIDE DEF r
  <2>5. Len(r) = 3 /\ \A i \in 1 .. 3 : r[i] = t[i]
    BY <2>2, <2>3, <2>4
  <2>6. r = t
    BY <2>3, <2>4, <2>5, SeqEqual
  <2>7. QED
    BY <2>6 DEF r, q, t
<1>4. \A z : Len(<<x, y, z>>) = 3
  OBVIOUS
<1>5. QED
  BY <1>2, <1>3, <1>4

\* Where a way of one key ends: in a directory with an address, or in a new one
\* with the offset that its change will have.
LEMMA StepType ==
    ASSUME IInv, NEW k \in Key, NEW n \in Nat
    PROVE  LET s   == Step(Start, k, n)
               new == [time |-> 0, offset |-> n + 1]
           IN  /\ s.reads \in SUBSET Reads
               /\ \/ s.made = <<>> /\ s.at \in Muid
                  \/ /\ s.made = <<Container(FALSE), Entry(Root, k, Pointee(new))>>
                     /\ s.at = new
<1> DEFINE there == GetContainer(log, OccupantOf(log, GetEntryByKey(log, Root, k, Now)))
           new   == [time |-> 0, offset |-> n + 1]
           reads == {Read(Root, k)}
<1>1. there \in Readable
  BY BundlerFacts, FindType DEF Find, GetContainer, Readable
<1>2. reads \in SUBSET Reads
  BY ReadType, MuidFacts
<1>3. there.type = "pointee" => there.muid \in Muid
  BY <1>1, ReadableFacts
<1>4. Start.made = <<>> /\ Len(Start.made) = 0 /\ Start.at = Root /\ ~Start.fresh
      /\ Start.reads = {} /\ n + 0 + 1 = n + 1
  BY DEF Start
<1>5. Step(Start, k, n) =
          IF there.type = "deletion"
          THEN [at |-> new, fresh |-> TRUE, ok |-> Start.ok,
                made |-> Start.made \o <<Container(FALSE), Entry(Root, k, Pointee(new))>>,
                reads |-> Start.reads \cup reads]
          ELSE [Start EXCEPT !.at = IF there.type = "pointee" THEN there.muid ELSE @,
                             !.fresh = FALSE,
                             !.ok = @ /\ there.type = "pointee", !.reads = @ \cup reads]
  BY <1>4 DEF Step
<1> HIDE DEF there, reads, new
<1>6. CASE there.type = "deletion"
  <2> DEFINE s == [at |-> new, fresh |-> TRUE, ok |-> Start.ok,
                   made |-> Start.made \o <<Container(FALSE), Entry(Root, k, Pointee(new))>>,
                   reads |-> Start.reads \cup reads]
  <2>1. /\ s.reads = reads /\ s.at = new
        /\ s.made = <<>> \o <<Container(FALSE), Entry(Root, k, Pointee(new))>>
    BY <1>4
  <2>2. s.made = <<Container(FALSE), Entry(Root, k, Pointee(new))>>
    BY <2>1, PutTogether
  <2>3. QED
    BY <1>2, <1>5, <1>6, <2>1, <2>2 DEF new
<1>7. CASE there.type # "deletion"
  <2> DEFINE s == [Start EXCEPT !.at = IF there.type = "pointee" THEN there.muid ELSE @,
                                !.fresh = FALSE,
                                !.ok = @ /\ there.type = "pointee", !.reads = @ \cup reads]
  <2>1. s.reads = reads /\ s.made = <<>>
        /\ s.at = IF there.type = "pointee" THEN there.muid ELSE Root
    BY DEF Start
  <2>2. s.at \in Muid
    BY <1>3, <2>1, MuidFacts
  <2>3. QED
    BY <1>2, <1>5, <1>7, <2>1, <2>2
<1>8. QED
  BY <1>6, <1>7

LEMMA SetKeeps ==
    ASSUME IInv, NEW b \in Bundler \cup {None}, NEW p \in Path, NEW v \in Value, Set(b, p, v)
    PROVE  IInv'
<1> DEFINE e    == Effective(b)
           n    == Count(e)
           s    == Way(Front(p), n)
           last == Entry(s.at, Last(p), Plain(v))
           made == Append(s.made, last)
           call == Called("set", p, v, e, s.reads)
<1>1. Perform(e, made, <<call>>) /\ e \in Bundler \cup {None}
  BY EffectiveType DEF Set, Way, Start
<1>2. n \in 0 .. MaxChanges /\ n \in Nat /\ n + Len(made) <= MaxChanges
  BY <1>1, CountType, Bounds DEF Perform
<1>3. Last(p) \in Key /\ Plain(v) \in Occupant
  BY BundlerFacts, GetType, OccupantFacts
<1> DEFINE new == [time |-> 0, offset |-> n + 1]
<1>4. /\ s.reads \in SUBSET Reads
      /\ \/ s.made = <<>> /\ s.at \in Muid
         \/ \E k \in Key : /\ s.made = <<Container(FALSE), Entry(Root, k, Pointee(new))>>
                           /\ s.at = new
  <2>1. CASE \E k \in Key : p = <<k>>
    <3>1. s = Start
      BY <2>1, OneKey, WayOfNone
    <3>2. s.reads = {} /\ s.made = <<>> /\ s.at = Root
      BY <3>1 DEF Start
    <3> HIDE DEF s
    <3>3. QED
      BY <3>2, MuidFacts
  <2>2. CASE \E k, l \in Key : p = <<k, l>>
    <3>1. PICK k \in Key, l \in Key : p = <<k, l>>
      BY <2>2
    <3>2. s = Step(Start, k, n)
      BY <3>1, TwoKeys, WayOfOne
    <3> HIDE DEF s, n
    <3>3. QED
      BY <1>2, <3>2, StepType
  <2>3. QED
    BY <2>1, <2>2, PathCases
<1> HIDE DEF s, n, e
<1>5. call \in Call
  BY <1>1, <1>4, CalledType
<1>6. made \in Seq(QuietChange)
  <2>1. CASE s.made = <<>> /\ s.at \in Muid
    <3>1. last \in QuietChange
      BY <1>3, <2>1, MadeFacts, OccupantFacts
    <3> HIDE DEF last
    <3>2. QED
      BY <2>1, <3>1
  <2>2. ASSUME NEW k \in Key, s.at = new,
               s.made = <<Container(FALSE), Entry(Root, k, Pointee(new))>>
        PROVE  made \in Seq(QuietChange)
    <3> DEFINE first  == Container(FALSE)
               second == Entry(Root, k, Pointee(new))
    <3> HIDE DEF first, second, last
    <3>1. s.made = <<first, second>>
      BY <2>2 DEF first, second
    <3>2. made = <<first, second, last>> /\ Len(made) = 3
      BY <3>1, PutTogether
    <3>3. new \in Muid
      <4>1. n + 1 \in 0 .. MaxChanges /\ 0 \in -1 .. MaxBundles
        BY <1>2, <3>2, Bounds
      <4>2. QED
        BY <4>1, MuidFacts
    <3> HIDE DEF new
    <3>4. /\ first \in QuietChange /\ second \in QuietChange /\ last \in QuietChange
      <4>1. new.time <= Len(log)
        BY BundlerFacts, MuidsFacts DEF new
      <4>2. Pointee(new) \in Occupant /\ Pointee(new).muid = new /\ Root \in Muid
        BY <3>3, OccupantFacts, MuidFacts
      <4>3. second \in QuietChange
        BY <2>2, <4>1, <4>2, MadeFacts DEF second
      <4>4. last \in QuietChange
        BY <1>3, <2>2, <3>3, MadeFacts, OccupantFacts DEF last
      <4>5. QED
        BY <4>3, <4>4, MadeFacts DEF first
    <3>5. QED
      BY <3>2, <3>4
  <2>3. QED
    BY <1>4, <2>1, <2>2
<1> HIDE DEF made, call
<1>7. QED
  BY <1>1, <1>5, <1>6, OneOf, QuietKeeps

-----------------------------------------------------------------------------
(* Reset. *)

\* A list of a finite set has every element once.
LEMMA ListOfSet ==
    ASSUME NEW S, IsFiniteSet(S)
    PROVE  LET s == SetToSeq(S)
           IN  /\ s \in Seq(S) /\ DOMAIN s = 1 .. Len(s)
               /\ \A i \in DOMAIN s : s[i] \in S
               /\ \A x \in S : \E i \in DOMAIN s : s[i] = x
<1> DEFINE s == SetToSeq(S)
           n == Cardinality(S)
<1>1. n \in Nat /\ IsFiniteSet(1 .. n) /\ Cardinality(1 .. n) = n
  BY FS_CardinalityType, FS_Interval
<1>2. \E f \in [1 .. n -> S] : IsInjective(f)
  BY FS_CardinalityType DEF ExistsBijection, Bijection, Injection
<1>3. s \in [1 .. n -> S] /\ IsInjective(s)
  BY <1>2 DEF SetToSeq
<1> HIDE DEF s
<1>4. s \in Injection(1 .. n, S)
  BY <1>3 DEF Injection
<1>5. s \in Surjection(1 .. n, S)
  BY <1>1, <1>4, FS_Injection
<1>6. \A x \in S : \E i \in 1 .. n : s[i] = x
  BY <1>5 DEF Surjection
<1>7. s \in Seq(S) /\ DOMAIN s = 1 .. n /\ Len(s) = n
  BY <1>1, <1>3
<1>8. QED
  BY <1>3, <1>6, <1>7 DEF s

\* There are finitely many muids.
LEMMA MuidIsFinite == IsFiniteSet(Muid)
<1> DEFINE P == (-1 .. MaxBundles) \X (0 .. MaxChanges)
           f == [p \in P |-> [time |-> p[1], offset |-> p[2]]]
<1>1. IsFiniteSet(P)
  <2>1. -1 \in Int /\ 0 \in Int /\ MaxBundles \in Int /\ MaxChanges \in Int
    BY Bounds
  <2>2. IsFiniteSet(-1 .. MaxBundles) /\ IsFiniteSet(0 .. MaxChanges)
    BY <2>1, FS_Interval
  <2>3. QED
    BY <2>2, FS_Product
<1>2. f \in Surjection(P, Muid)
  <2>1. f \in [P -> Muid]
    BY MuidFacts
  <2>2. ASSUME NEW m \in Muid
        PROVE  \E p \in P : f[p] = m
    <3>1. <<m.time, m.offset>> \in P /\ f[<<m.time, m.offset>>] = m
      BY MuidFacts
    <3>2. QED
      BY <3>1
  <2> HIDE DEF f, P
  <2>3. QED
    BY <2>1, <2>2 DEF Surjection
<1> HIDE DEF f, P
<1>3. QED
  BY <1>1, <1>2, FS_Surjection

\* The keys that a reset looks at.
Pairs(containers, to) ==
    UNION {{c} \X {k \in KeysOf(c) : Resettable(c, k, to)} : c \in containers}

\* There are finitely many keys with entries.
LEMMA PairsIsFinite ==
    ASSUME StoreOK(log), NEW containers, NEW to
    PROVE  IsFiniteSet(Pairs(containers, to))
<1> DEFINE P == Pairs(containers, to)
           M == Muids(log)
           f == [m \in M |-> <<Absolute(At(log, m).container, m.time), At(log, m).key>>]
           T == {f[m] : m \in M}
<1>1. IsFiniteSet(M)
  <2>1. M \subseteq Muid
    BY MuidsFacts
  <2>2. QED
    BY <2>1, MuidIsFinite, FS_Subset
<1>2. IsFiniteSet(T)
  <2>1. f \in [M -> T] /\ \A x \in T : \E m \in M : f[m] = x
    OBVIOUS
  <2> HIDE DEF f, M, T
  <2>2. f \in Surjection(M, T)
    BY <2>1 DEF Surjection
  <2>3. QED
    BY <1>1, <2>2, FS_Surjection
<1>3. P \subseteq T
  <2>1. ASSUME NEW p \in P
        PROVE  p \in T
    <3>1. p[2] \in KeysOf(p[1]) /\ p = <<p[1], p[2]>>
      BY DEF Pairs
    <3>2. PICK m \in LastEntry(log, p[1], p[2], Now) : TRUE
      BY <3>1 DEF KeysOf
    <3>3. /\ m \in Muids(log) /\ Absolute(At(log, m).container, m.time) = p[1]
          /\ At(log, m).key = p[2]
      BY <3>2, EntriesFacts
    <3>4. QED
      BY <3>1, <3>3
  <2>2. QED
    BY <2>1
<1> HIDE DEF P, T
<1>4. QED
  BY <1>2, <1>3, FS_Subset DEF P

\* The entry that resets a key has no handles, for it is not the program that
\* puts it there: it deletes the key, or has what an earlier entry has.
LEMMA KeyResetFacts ==
    ASSUME StoreOK(log), LogKnown, NEW c \in Muid, NEW k \in Key, NEW to
    PROVE  LET then == ContainedThen(c, k, to)
               ch   == KeyReset(c, k, to)
           IN  /\ ch \in QuietChange /\ ch.type = "entry"
               /\ then = Deletion => /\ ch.container = c /\ ch.key = k
                                     /\ ch.occupant = Deletion
               /\ then # Deletion =>
                      \E m \in LastEntry(log, c, k, to) :
                          /\ m = CHOOSE n \in LastEntry(log, c, k, to) : TRUE
                          /\ At(log, m) \in Change /\ At(log, m).type = "entry"
                          /\ ch.container = At(log, m).container /\ ch.key = At(log, m).key
                          /\ ch.occupant = At(log, m).occupant
<1> DEFINE then == ContainedThen(c, k, to)
           ch   == KeyReset(c, k, to)
<1>1. CASE then = Deletion
  <2>1. ch = Entry(c, k, Deletion)
    BY <1>1 DEF KeyReset
  <2>2. QED
    BY <1>1, <2>1, MadeFacts, OccupantFacts
<1>2. CASE then # Deletion
  <2> DEFINE m   == CHOOSE n \in LastEntry(log, c, k, to) : TRUE
             old == At(log, m)
  <2>1. LastEntry(log, c, k, to) # {}
    BY <1>2 DEF ContainedThen, OccupantOf
  <2>2. m \in LastEntry(log, c, k, to)
    BY <2>1
  <2> HIDE DEF m
  <2>3. old \in Change /\ old.type = "entry" /\ Known(log, old)
    BY <2>2, EntriesFacts, MuidsFacts DEF LogKnown
  <2>4. ch = [old EXCEPT !.owner = NoHandle, !.guest = NoHandle]
    BY <1>2 DEF KeyReset, m
  <2> HIDE DEF old
  <2>5. /\ ch \in Change /\ ch.type = "entry" /\ ch.owner = NoHandle /\ ch.guest = NoHandle
        /\ ch.container = old.container /\ ch.key = old.key /\ ch.occupant = old.occupant
    BY <2>3, <2>4 DEF Change
  <2> HIDE DEF ch, then
  <2>6. ch \in QuietChange
    BY <2>3, <2>5 DEF QuietChange, Known
  <2>7. QED
    BY <1>2, <2>2, <2>3, <2>5, <2>6 DEF m, old, ch, then
<1>3. QED
  BY <1>1, <1>2

\* A reset has the entries that reset its keys.
LEMMA ResetChangesFacts ==
    ASSUME StoreOK(log), LogKnown, NEW containers \in SUBSET Muid, NEW to
    PROVE  LET made  == ResetChanges(containers, to)
               pairs == Pairs(containers, to)
           IN  /\ made \in Seq(QuietChange)
               /\ \A i \in DOMAIN made :
                      \E p \in pairs : made[i] = KeyReset(p[1], p[2], to)
               /\ \A p \in pairs :
                      \E i \in DOMAIN made : made[i] = KeyReset(p[1], p[2], to)
<1> DEFINE made  == ResetChanges(containers, to)
           pairs == Pairs(containers, to)
           each  == SetToSeq(pairs)
<1>1. made = [i \in DOMAIN each |-> KeyReset(each[i][1], each[i][2], to)]
  BY DEF ResetChanges, Pairs
<1>2. /\ each \in Seq(pairs) /\ DOMAIN each = 1 .. Len(each)
      /\ \A i \in DOMAIN each : each[i] \in pairs
      /\ \A x \in pairs : \E i \in DOMAIN each : each[i] = x
  BY PairsIsFinite, ListOfSet
<1>3. Len(each) \in Nat
  BY <1>2, LenProperties
<1>4. \A p \in pairs : p[1] \in Muid /\ p[2] \in Key
  BY DEF Pairs, KeysOf
<1> HIDE DEF each, pairs, made
<1>5. \A i \in DOMAIN each : KeyReset(each[i][1], each[i][2], to) \in QuietChange
  BY <1>2, <1>4, KeyResetFacts
<1>6. made \in Seq(QuietChange) /\ DOMAIN made = DOMAIN each
  BY <1>1, <1>2, <1>3, <1>5
<1>7. /\ \A i \in DOMAIN made : \E p \in pairs : made[i] = KeyReset(p[1], p[2], to)
      /\ \A p \in pairs : \E i \in DOMAIN made : made[i] = KeyReset(p[1], p[2], to)
  BY <1>1, <1>2, <1>6
<1>8. QED
  BY <1>6, <1>7 DEF made, pairs

\* What is under a key points to a muid.
LEMMA PointeesType == StoreOK(log) => Pointees \in SUBSET Muid
<1> SUFFICES ASSUME StoreOK(log), NEW m \in Muids(log), At(log, m).type = "entry",
                    At(log, m).occupant.type = "pointee"
             PROVE  OccupantOf(log, {m}).muid \in Muid
  BY DEF Pointees
<1> DEFINE there == At(log, m).occupant
<1>1. there \in Occupant /\ m.time \in 1 .. MaxBundles
  BY MuidsFacts, ChangeFacts
<1>2. OccupantOf(log, {m}) = Pointee(Absolute(there.muid, m.time))
  <2>1. (CHOOSE x \in {m} : TRUE) = m /\ {m} # {}
    OBVIOUS
  <2>2. QED
    BY <2>1 DEF OccupantOf
<1>3. Absolute(there.muid, m.time) \in Muid
  BY <1>1, OccupantFacts, AbsoluteFacts
<1>4. QED
  BY <1>2, <1>3, OccupantFacts

\* The containers of a reset have muids.
LEMMA ReachedType ==
    ASSUME StoreOK(log), NEW to
    PROVE  Reached(to) \in SUBSET Muid
BY PointeesType, MuidFacts DEF Reached

\* The call of a reset.
LEMMA ResetCallType ==
    ASSUME IInv, NEW e \in Bundler \cup {None}, NEW to \in DOMAIN log
    PROVE  /\ ResetCall(to, e) \in Call
           /\ ResetCall(to, e).to = to /\ ResetCall(to, e).op = "reset"
<1> DEFINE call == Called("reset", <<>>, None, e, {})
<1>1. call \in Call /\ call.op = "reset"
  <2>1. call \in Call
    BY PlainCallType
  <2>2. call.op = "reset"
    BY DEF Called
  <2>3. QED
    BY <2>1, <2>2
<1>2. to \in 0 .. MaxBundles
  <2>1. DOMAIN log = 1 .. Len(log) /\ Len(log) \in 0 .. MaxBundles
    BY BundlerFacts, MuidsFacts
  <2>2. QED
    BY <2>1, Bounds
<1>3. ResetCall(to, e) = [call EXCEPT !.to = to]
  BY DEF ResetCall
<1> HIDE DEF call
<1>4. QED
  BY <1>1, <1>2, <1>3 DEF Call

LEMMA ResetKeeps ==
    ASSUME IInv, NEW b \in Bundler \cup {None}, NEW to \in DOMAIN log, NEW recursive \in BOOLEAN,
           Reset(b, to, recursive)
    PROVE  IInv'
<1> DEFINE containers == IF recursive THEN Reached(to) ELSE {Root}
           made == ResetChanges(containers, to)
           by   == IF recursive THEN <<ResetCall(to, b), ResetCall(to, b)>>
                   ELSE <<ResetCall(to, b)>>
<1>1. Perform(b, made, by)
  BY DEF Reset
<1>2. containers \in SUBSET Muid
  BY BundlerFacts, ReachedType, MuidFacts
<1> HIDE DEF containers
<1>3. made \in Seq(QuietChange)
  BY <1>2, BundlerFacts, ResetChangesFacts DEF IInv
<1>4. by \in Seq(Call)
  BY ResetCallType, OneOf
<1> HIDE DEF made, by
<1>5. QED
  BY <1>1, <1>3, <1>4, QuietKeeps

LEMMA ResetAllKeeps ==
    ASSUME IInv, NEW b \in Bundler \cup {None}, NEW to \in DOMAIN log, ResetAll(b, to)
    PROVE  IInv'
<1> DEFINE containers == {m \in Muids(log) \cup {Root} : IsContainer(log, m)}
           made == ResetChanges(containers, to)
           by   == <<ResetCall(to, b), ResetCall(to, b)>>
<1>1. Perform(b, made, by)
  BY DEF ResetAll
<1>2. containers \in SUBSET Muid
  BY BundlerFacts, MuidsFacts, MuidFacts
<1> HIDE DEF containers
<1>3. made \in Seq(QuietChange)
  BY <1>2, BundlerFacts, ResetChangesFacts DEF IInv
<1>4. by \in Seq(Call)
  BY ResetCallType
<1> HIDE DEF made, by
<1>5. QED
  BY <1>1, <1>3, <1>4, QuietKeeps

-----------------------------------------------------------------------------
(* The invariant. *)

LEMMA InitInvariant == Init => IInv
<1> SUFFICES ASSUME Init
             PROVE  IInv
  OBVIOUS
<1>1. log = <<>> /\ \A b \in Bundler : changes[b] = <<>> /\ stamp[b] = 0
  BY DEF Init
<1>2. StoreOK(log)
  BY <1>1, Bounds DEF StoreOK
<1>3. TypeOK
  BY <1>1, Bounds DEF Init, TypeOK
<1>4. StampIsOwn /\ PendingResolve
  BY <1>1 DEF StampIsOwn, PendingResolve, AllMeant
<1>5. HandlesResolve /\ LogKnown
  BY <1>1 DEF HandlesResolve, LogKnown, Muids
<1>6. QED
  BY <1>2, <1>3, <1>4, <1>5 DEF IInv

\* What ends a "with" block.
LEMMA ExitKeeps ==
    ASSUME IInv, Exit
    PROVE  IInv'
<1>1. active \in Bundler /\ active' = None /\ UNCHANGED <<changes, calls>>
  BY BundlerFacts DEF Exit
<1>2. opened \in [Bundler -> BOOLEAN]
  BY DEF IInv, TypeOK
<1>3. CASE Commits(active) /\ UNCHANGED opened
  BY <1>1, <1>2, <1>3, CommitsKeeps
<1>4. CASE opened' = [opened EXCEPT ![active] = FALSE] /\ UNCHANGED <<log, stamp>>
  BY <1>1, <1>2, <1>4, FrameKeeps
<1>5. QED
  BY <1>3, <1>4 DEF Exit

LEMMA NextInvariant == IInv /\ [Next]_vars => IInv'
<1> SUFFICES ASSUME IInv, [Next]_vars
             PROVE  IInv'
  OBVIOUS
<1>1. opened \in [Bundler -> BOOLEAN] /\ active \in Bundler \cup {None}
  BY DEF IInv, TypeOK
<1>2. ASSUME NEW b \in Bundler, Commit(b)
      PROVE  IInv'
  BY <1>1, <1>2, CommitsKeeps DEF Commit
<1>3. ASSUME NEW b \in Bundler, Rollback(b)
      PROVE  IInv'
  BY <1>1, <1>3, FrameKeeps DEF Rollback
<1>4. ASSUME NEW b \in Bundler, Enter(b)
      PROVE  IInv'
  BY <1>1, <1>4, FrameKeeps DEF Enter
<1>5. ASSUME NEW b \in Bundler \cup {None},
             \/ \E path \in Path, v \in Value : Set(b, path, v) \/ SetDefault(b, path, v)
             \/ \E path \in Path : Delete(b, path) \/ Pop(b, path)
             \/ PopItem(b)
             \/ \E contents \in Contents : Update(b, contents) \/ Refill(b, contents)
             \/ Clear(b)
             \/ New(b)
             \/ \E h \in Handles, k \in Key : Link(b, k, h) \/ \E v \in Value : SetIn(b, h, k, v)
             \/ \E to \in DOMAIN log :
                 \/ \E recursive \in BOOLEAN : Reset(b, to, recursive)
                 \/ ResetAll(b, to)
      PROVE  IInv'
  BY <1>5, SetKeeps, SetDefaultKeeps, DeleteKeeps, PopKeeps, PopItemKeeps, UpdateKeeps,
     RefillKeeps, ClearKeeps, NewKeeps, LinkKeeps, SetInKeeps, ResetKeeps, ResetAllKeeps
<1>6. CASE UNCHANGED vars
  BY <1>1, <1>6, FrameKeeps DEF vars
<1>7. CASE Next
  BY <1>2, <1>3, <1>4, <1>5, <1>7, ExitKeeps DEF Next
<1>8. QED
  BY <1>6, <1>7

\* The inductive invariant holds in every reachable state.
LEMMA AlwaysSound == Spec => []IInv
BY InitInvariant, NextInvariant, PTL DEF Spec

\* Types: what operations put into bundlers are changes within the bounds, also
\* where a muid is computed (Muid.put_into, Muid.create) or copied by a reset.
THEOREM TypesAreRight == Spec => []TypeOK
<1>1. IInv => TypeOK
  BY DEF IInv
<1>2. QED
  BY <1>1, AlwaysSound, PTL

\* Handles resolve: what a program says with the handle of a directory that it made
\* within a bundler (Container._add_entry, Muid.put_into) is about that directory
\* after the commit, for any number of bundlers, nested in any order, that may be
\* committed more than once.
THEOREM HandlesAlwaysResolve == Spec => []HandlesResolve
<1>1. IInv => HandlesResolve
  BY DEF IInv
<1>2. QED
  BY <1>1, AlwaysSound, PTL

-----------------------------------------------------------------------------
(* What a reset restores. *)

\* A set of numbers up to a bound has a greatest one.
LEMMA Greatest ==
    ASSUME NEW bound \in Nat, NEW S, S \subseteq 0 .. bound, S # {}
    PROVE  \E t \in S : \A u \in S : u <= t
<1> DEFINE T == {bound - t : t \in S}
<1>1. T \subseteq Nat /\ T # {}
  <2>1. ASSUME NEW t \in S
        PROVE  bound - t \in Nat
    OBVIOUS
  <2>2. QED
    BY <2>1
<1> DEFINE R == OpToRel(<, Nat)
<1>2. IsWellFoundedOn(R, Nat)
  BY NatLessThanWellFounded, Zenon
<1>3. PICK x \in T : \A y \in T : ~(y < x)
  <2>1. \A y, x \in Nat : y < x => <<y, x>> \in R
    BY DEF OpToRel
  <2> HIDE DEF T, R
  <2>2. \E x \in T : \A y \in T : ~(<<y, x>> \in R)
    BY <1>1, <1>2, WFMin
  <2>3. QED
    BY <1>1, <2>1, <2>2
<1>4. PICK t \in S : x = bound - t
  OBVIOUS
<1>5. ASSUME NEW u \in S
      PROVE  u <= t
  <2>1. bound - u \in T
    OBVIOUS
  <2>2. ~(bound - u < bound - t)
    BY <1>3, <1>4, <2>1
  <2>3. QED
    BY <2>2
<1>6. QED
  BY <1>5

\* Some muids have a last one.
LEMMA LastMuid ==
    ASSUME NEW S \in SUBSET Muid, S # {}, \A m \in S : m.time >= 0
    PROVE  \E m \in S : \A n \in S : ~Before(m, n)
<1> DEFINE times == {m.time : m \in S}
<1>1. times \subseteq 0 .. MaxBundles /\ times # {} /\ MaxBundles \in Nat
  BY MuidFacts, Bounds
<1>2. PICK t \in times : \A u \in times : u <= t
  <2> HIDE DEF times
  <2>1. QED
    BY <1>1, Greatest
<1> DEFINE offsets == {m.offset : m \in {n \in S : n.time = t}}
<1>3. offsets \subseteq 0 .. MaxChanges /\ offsets # {} /\ MaxChanges \in Nat
  BY MuidFacts, Bounds
<1>4. PICK o \in offsets : \A u \in offsets : u <= o
  <2> HIDE DEF offsets
  <2>1. QED
    BY <1>3, Greatest
<1>5. PICK m \in S : m.time = t /\ m.offset = o
  OBVIOUS
<1>6. ASSUME NEW n \in S
      PROVE  ~Before(m, n)
  <2>1. n.time <= t /\ (n.time = t => n.offset <= o)
    BY <1>2, <1>4
  <2>2. n.time \in Int /\ n.offset \in Int /\ t \in Int /\ o \in Int
    BY <1>5, MuidFacts, Bounds
  <2>3. QED
    BY <1>5, <2>1, <2>2 DEF Before
<1>7. QED
  BY <1>6

\* The entries among which LastEntry finds the last.
Entries(store, c, k, asof) == {m \in About(store, "entry", c, asof) : At(store, m).key = k}

\* There is one last entry if there is any, and no entry is later.
LEMMA LastFacts ==
    ASSUME NEW store, StoreOK(store), NEW c, NEW k, NEW asof
    PROVE  /\ LastEntry(store, c, k, asof) = {} <=> Entries(store, c, k, asof) = {}
           /\ \A m, n \in LastEntry(store, c, k, asof) : m = n
           /\ LastEntry(store, c, k, asof) \subseteq Entries(store, c, k, asof)
           /\ Entries(store, c, k, asof) \subseteq Muids(store)
           /\ \A m \in LastEntry(store, c, k, asof), n \in Entries(store, c, k, asof) :
                  n.time <= m.time
<1> DEFINE E    == Entries(store, c, k, asof)
           last == LastEntry(store, c, k, asof)
<1>1. last = {m \in E : \A n \in E : ~Before(m, n)}
  BY DEF LastEntry, Entries
<1>2. E \subseteq Muids(store)
  BY DEF Entries, About
<1>3. \A m \in E : /\ m \in Muid /\ m.time \in 1 .. MaxBundles
                   /\ m.time \in Int /\ m.offset \in Int /\ m.time >= 0
  BY <1>2, MuidsFacts, MuidFacts, Bounds
<1> HIDE DEF E, last
<1>4. E # {} => \E m \in E : \A n \in E : ~Before(m, n)
  BY <1>3, LastMuid
<1>5. ASSUME NEW m \in last, NEW n \in last
      PROVE  m = n
  <2>1. m \in E /\ n \in E /\ ~Before(m, n) /\ ~Before(n, m)
    BY <1>1
  <2>2. m.time = n.time /\ m.offset = n.offset
    BY <1>3, <2>1 DEF Before
  <2>3. QED
    BY <1>3, <2>1, <2>2, MuidFacts
<1>6. ASSUME NEW m \in last, NEW n \in E
      PROVE  n.time <= m.time
  BY <1>1, <1>3 DEF Before
<1>7. QED
  BY <1>1, <1>2, <1>4, <1>5, <1>6 DEF E, last

\* The time of the prior clear is that of a clearance, or 0, and no clearance is
\* later.
LEMMA PriorClearFacts ==
    ASSUME NEW store, StoreOK(store), NEW c, NEW asof
    PROVE  /\ PriorClear(store, c, asof) \in 0 .. Len(store)
           /\ \A m \in About(store, "clearance", c, asof) : m.time <= PriorClear(store, c, asof)
<1> DEFINE clears == {m.time : m \in About(store, "clearance", c, asof)}
           times  == clears \cup {0}
<1>1. Len(store) \in Nat /\ DOMAIN store = 1 .. Len(store)
  BY MuidsFacts, Bounds
<1>2. times \subseteq 0 .. Len(store) /\ times # {}
  BY <1>1, MuidsFacts DEF About
<1>3. PriorClear(store, c, asof) = CHOOSE t \in times : \A u \in clears : u <= t
  BY DEF PriorClear
<1>4. \E t \in times : \A u \in times : u <= t
  <2> HIDE DEF times
  <2>1. QED
    BY <1>1, <1>2, Greatest
<1>5. \E t \in times : \A u \in clears : u <= t
  BY <1>4
<1> HIDE DEF times, clears
<1>6. PriorClear(store, c, asof) \in times
      /\ \A u \in clears : u <= PriorClear(store, c, asof)
  BY <1>3, <1>5
<1>7. PriorClear(store, c, asof) \in 0 .. Len(store)
  BY <1>2, <1>6
<1>8. QED
  BY <1>6, <1>7 DEF clears

\* What has not been touched since a time is as it was then.
LEMMA Untouched ==
    ASSUME StoreOK(log), NEW to \in DOMAIN log, NEW c, NEW k, ~Touched(c, k, to)
    PROVE  /\ PriorClear(log, c, to) = PriorClear(log, c, Now)
           /\ LastEntry(log, c, k, to) = LastEntry(log, c, k, Now)
<1>1. to \in Nat /\ Now \in Nat /\ to < Now
  <2>1. to \in 1 .. Len(log) /\ Len(log) \in 0 .. MaxBundles
    BY MuidsFacts
  <2>2. QED
    BY <2>1, Bounds DEF Now
<1>2. \A m \in Muids(log) : m.time \in Nat
  BY MuidsFacts, Bounds
<1>3. About(log, "clearance", c, to) = About(log, "clearance", c, Now)
  <2>1. PriorClear(log, c, Now) \in Nat /\ PriorClear(log, c, Now) < to
    <3>1. PriorClear(log, c, Now) \in 0 .. Len(log) /\ Len(log) \in 0 .. MaxBundles
      BY PriorClearFacts, MuidsFacts
    <3>2. PriorClear(log, c, Now) \in Nat
      BY <3>1, Bounds
    <3>3. QED
      BY <1>1, <3>2 DEF Touched
  <2>2. \A m \in About(log, "clearance", c, Now) : m.time < to
    BY <1>1, <1>2, <2>1, PriorClearFacts DEF About
  <2>3. QED
    BY <1>1, <1>2, <2>2 DEF About
<1>4. About(log, "entry", c, to) \cap {m \in Muids(log) : At(log, m).key = k}
      = About(log, "entry", c, Now) \cap {m \in Muids(log) : At(log, m).key = k}
  <2>1. \A m \in Entries(log, c, k, Now) : m.time < to
    <3>1. CASE Entries(log, c, k, Now) = {}
      BY <3>1
    <3>2. CASE Entries(log, c, k, Now) # {}
      <4>1. PICK m \in LastEntry(log, c, k, Now) : TRUE
        BY <3>2, LastFacts
      <4>2. ~(m.time >= to) /\ m \in Muids(log)
        BY <4>1, LastFacts DEF Touched
      <4>3. \A n \in Entries(log, c, k, Now) : n.time <= m.time /\ n \in Muids(log)
        BY <4>1, LastFacts
      <4>4. QED
        BY <1>1, <1>2, <4>2, <4>3
    <3>3. QED
      BY <3>1, <3>2
  <2>2. QED
    BY <1>1, <1>2, <2>1 DEF About, Entries
<1>5. Entries(log, c, k, to) = Entries(log, c, k, Now)
  BY <1>4 DEF Entries, About
<1>6. QED
  BY <1>3, <1>5 DEF PriorClear, LastEntry, Entries

\* A reset of some containers puts its changes into a bundle of its own.
Resets(containers, to) ==
    /\ StoreOK(log) /\ LogKnown
    /\ to \in DOMAIN log
    /\ containers \in SUBSET Muid
    /\ \A c \in containers : IsContainer(log, c)
    /\ \E by \in Seq(Call) : Stored(None, ResetChanges(containers, to), by)
    /\ Len(ResetChanges(containers, to)) <= MaxChanges

\* What is new in the store then are the entries that reset its keys.
LEMMA ResetsFacts ==
    ASSUME NEW containers, NEW to, Resets(containers, to)
    PROVE  /\ StoreOK(log) /\ StoreOK(log')
           /\ Len(log) \in Nat /\ Len(log) + 1 \in 1 .. MaxBundles
           /\ DOMAIN log = 1 .. Len(log) /\ DOMAIN log' = 1 .. Len(log) + 1
           /\ \A t \in DOMAIN log : log'[t] = log[t]
           /\ Muids(log) \subseteq Muids(log')
           /\ \A m \in Muids(log) : At(log', m) = At(log, m) /\ m.time \in 1 .. Len(log)
           /\ \A m \in Muids(log') :
                  \/ m \in Muids(log)
                  \/ /\ m.time = Len(log) + 1
                     /\ At(log', m).type = "entry"
                     /\ \E p \in Pairs(containers, to) : At(log', m) = KeyReset(p[1], p[2], to)
           /\ \A p \in Pairs(containers, to) :
                  \E m \in Muids(log') :
                      m.time = Len(log) + 1 /\ At(log', m) = KeyReset(p[1], p[2], to)
           /\ \A i \in DOMAIN log'[Len(log) + 1].changes :
                  log'[Len(log) + 1].changes[i].type = "entry"
<1> DEFINE made == ResetChanges(containers, to)
           n    == Len(log) + 1
           pairs == Pairs(containers, to)
<1>1. PICK by \in Seq(Call) : Stored(None, made, by)
  BY DEF Resets
<1> DEFINE bundle == [by |-> None, changes |-> made, calls |-> by]
<1>2. StoreOK(log) /\ LogKnown /\ containers \in SUBSET Muid /\ Len(made) <= MaxChanges
  BY DEF Resets
<1>3. /\ made \in Seq(QuietChange)
      /\ \A i \in DOMAIN made : \E p \in pairs : made[i] = KeyReset(p[1], p[2], to)
      /\ \A p \in pairs : \E i \in DOMAIN made : made[i] = KeyReset(p[1], p[2], to)
  BY <1>2, ResetChangesFacts
<1>4. \A p \in pairs : p[1] \in Muid /\ p[2] \in Key
  BY <1>2 DEF Pairs, KeysOf
<1>5. \A i \in DOMAIN made : made[i].type = "entry"
  BY <1>2, <1>3, <1>4, KeyResetFacts
<1> HIDE DEF made, pairs
<1>6. made \in Seq(Change)
  <2>1. QuietChange \subseteq Change
    BY DEF QuietChange
  <2>2. QED
    BY <1>3, <2>1
<1>7. bundle \in Bundles /\ bundle.changes = made
  BY <1>6 DEF Bundles
<1>8. Len(log) < MaxBundles /\ log' = Append(log, bundle)
  BY <1>1 DEF Stored
<1> HIDE DEF bundle
<1>9. /\ StoreOK(log') /\ Len(log') = n /\ DOMAIN log' = DOMAIN log \cup {n} /\ n \in 1 .. MaxBundles
      /\ log'[n] = bundle
      /\ \A t \in DOMAIN log : log'[t] = log[t]
      /\ Muids(log) \subseteq Muids(log')
      /\ \A m \in Muids(log) : At(log', m) = At(log, m)
      /\ \A m \in Muids(log') :
             \/ m \in Muids(log)
             \/ m.time = n /\ m.offset \in DOMAIN made /\ At(log', m) = made[m.offset]
      /\ \A i \in DOMAIN made : /\ [time |-> n, offset |-> i] \in Muids(log')
                                /\ At(log', [time |-> n, offset |-> i]) = made[i]
  BY <1>2, <1>7, <1>8, StoreGrows
<1>10. /\ DOMAIN log = 1 .. Len(log) /\ Len(log) \in Nat
       /\ \A m \in Muids(log) : m.time \in 1 .. Len(log)
  BY <1>2, MuidsFacts, Bounds
<1>11. DOMAIN log' = 1 .. n
  BY <1>9, MuidsFacts
<1>12. ASSUME NEW p \in pairs
       PROVE  \E m \in Muids(log') : m.time = n /\ At(log', m) = KeyReset(p[1], p[2], to)
  <2>1. PICK i \in DOMAIN made : made[i] = KeyReset(p[1], p[2], to)
    BY <1>3
  <2>2. [time |-> n, offset |-> i].time = n
    OBVIOUS
  <2>3. QED
    BY <1>9, <2>1, <2>2
<1>13. ASSUME NEW m \in Muids(log'), m \notin Muids(log)
       PROVE  /\ m.time = n /\ At(log', m).type = "entry"
              /\ \E p \in pairs : At(log', m) = KeyReset(p[1], p[2], to)
  <2>1. m.time = n /\ m.offset \in DOMAIN made /\ At(log', m) = made[m.offset]
    BY <1>9, <1>13
  <2>2. PICK p \in pairs : made[m.offset] = KeyReset(p[1], p[2], to)
    BY <1>3, <2>1
  <2>3. QED
    BY <1>5, <2>1, <2>2
<1>14. \A i \in DOMAIN log'[n].changes : log'[n].changes[i].type = "entry"
  BY <1>5, <1>7, <1>9
<1>15. /\ StoreOK(log) /\ StoreOK(log') /\ Len(log) \in Nat /\ n \in 1 .. MaxBundles
       /\ DOMAIN log = 1 .. Len(log) /\ DOMAIN log' = 1 .. n
       /\ \A t \in DOMAIN log : log'[t] = log[t]
       /\ Muids(log) \subseteq Muids(log')
       /\ \A m \in Muids(log) : At(log', m) = At(log, m) /\ m.time \in 1 .. Len(log)
  BY <1>2, <1>9, <1>10, <1>11
<1> HIDE DEF n
<1>16. /\ \A m \in Muids(log') :
              \/ m \in Muids(log)
              \/ /\ m.time = n /\ At(log', m).type = "entry"
                 /\ \E p \in pairs : At(log', m) = KeyReset(p[1], p[2], to)
       /\ \A p \in pairs :
              \E m \in Muids(log') : m.time = n /\ At(log', m) = KeyReset(p[1], p[2], to)
  BY <1>12, <1>13
<1>17. QED
  BY <1>14, <1>15, <1>16 DEF pairs, n

\* What one entry contains.
LEMMA OccupantOfOne ==
    ASSUME NEW store, NEW m
    PROVE  LET there == At(store, m).occupant
           IN  OccupantOf(store, {m}) =
                   IF there.type = "pointee" THEN Pointee(Absolute(there.muid, m.time)) ELSE there
<1>1. (CHOOSE x \in {m} : TRUE) = m /\ {m} # {}
  OBVIOUS
<1>2. QED
  BY <1>1 DEF OccupantOf

\* The entry that is found is the last one, if no clear is later.
LEMMA FoundFacts ==
    ASSUME NEW store, StoreOK(store), NEW c, NEW k, NEW asof,
           NEW m \in GetEntryByKey(store, c, k, asof)
    PROVE  /\ m \in LastEntry(store, c, k, asof)
           /\ \A o \in LastEntry(store, c, k, asof) : o = m
           /\ m \in Muids(store) /\ At(store, m).type = "entry" /\ m.time < asof
           /\ Absolute(At(store, m).container, m.time) = c /\ At(store, m).key = k
           /\ Find(store, c, k, asof) = OccupantOf(store, {m})
<1>1. GetEntryByKey(store, c, k, asof) \subseteq LastEntry(store, c, k, asof)
  BY EntriesFacts
<1>2. \A x, y \in LastEntry(store, c, k, asof) : x = y
  BY LastFacts
<1>3. /\ m \in LastEntry(store, c, k, asof) /\ \A o \in LastEntry(store, c, k, asof) : o = m
      /\ GetEntryByKey(store, c, k, asof) = {m}
  BY <1>1, <1>2
<1>4. QED
  BY <1>1, <1>3, EntriesFacts DEF Find

\* The containers of a reset are in the store.
LEMMA ContainersFacts ==
    ASSUME NEW containers, NEW to, Resets(containers, to), NEW c \in containers
    PROVE  /\ c \in Muid /\ c.time \in Int /\ c.time # 0 /\ c.time < Len(log) + 1
           /\ to \in Nat /\ to < Now /\ Len(log) + 1 < Now
<1>1. /\ c \in Muid /\ IsContainer(log, c) /\ to \in DOMAIN log
  BY DEF Resets
<1>2. DOMAIN log = 1 .. Len(log) /\ Len(log) \in Nat /\ Len(log) + 1 \in 1 .. MaxBundles
  BY ResetsFacts
<1>3. to \in Nat /\ to < Now /\ Len(log) + 1 < Now
  BY <1>1, <1>2, Bounds DEF Now
<1>4. CASE c = Root
  BY <1>1, <1>2, <1>3, <1>4 DEF Root
<1>5. CASE c.time \in DOMAIN log
  BY <1>1, <1>2, <1>3, <1>5
<1>6. QED
  BY <1>1, <1>4, <1>5 DEF IsContainer

\* A new entry under a key of a container is the one that resets this key: the copy
\* of an entry that names a container of its own bundle is about the new bundle.
LEMMA NewEntries ==
    ASSUME NEW containers, NEW to, Resets(containers, to), NEW c \in containers, NEW k \in Key,
           NEW m \in Muids(log'), m \notin Muids(log),
           Absolute(At(log', m).container, m.time) = c, At(log', m).key = k
    PROVE  <<c, k>> \in Pairs(containers, to) /\ At(log', m) = KeyReset(c, k, to)
<1> DEFINE n  == Len(log) + 1
           ch == At(log', m)
<1>1. m.time = n /\ \E p \in Pairs(containers, to) : ch = KeyReset(p[1], p[2], to)
  BY ResetsFacts
<1>2. PICK d \in containers, l \in Key : <<d, l>> \in Pairs(containers, to) /\ ch = KeyReset(d, l, to)
  <2>1. PICK p \in Pairs(containers, to) : ch = KeyReset(p[1], p[2], to)
    BY <1>1
  <2>2. p[1] \in containers /\ p[2] \in Key /\ p = <<p[1], p[2]>>
    BY DEF Pairs, KeysOf
  <2>3. QED
    BY <2>1, <2>2
<1>3. StoreOK(log) /\ LogKnown /\ n \in 1 .. MaxBundles
  BY ResetsFacts DEF Resets
<1>4. /\ d \in Muid /\ d.time # 0 /\ c \in Muid /\ c.time # n
  BY ContainersFacts
<1> HIDE DEF n, ch
<1>5. CASE ContainedThen(d, l, to) = Deletion
  <2>1. ch.container = d /\ ch.key = l
    BY <1>2, <1>3, <1>4, <1>5, KeyResetFacts
  <2>2. Absolute(d, n) = d
    BY <1>3, <1>4, AbsoluteFacts
  <2>3. c = d /\ k = l
    BY <1>1, <2>1, <2>2 DEF ch
  <2>4. QED
    BY <1>2, <2>3 DEF ch
<1>6. CASE ContainedThen(d, l, to) # Deletion
  <2>1. PICK o \in LastEntry(log, d, l, to) :
            /\ At(log, o) \in Change /\ At(log, o).type = "entry"
            /\ ch.container = At(log, o).container /\ ch.key = At(log, o).key
    BY <1>2, <1>3, <1>4, <1>6, KeyResetFacts
  <2>2. Absolute(ch.container, o.time) = d /\ ch.key = l /\ o \in Muids(log)
    BY <2>1, EntriesFacts
  <2>3. ch.container \in Muid /\ o.time \in 1 .. MaxBundles
    BY <1>3, <2>1, <2>2, ChangeFacts, MuidsFacts
  <2>4. ch.container.time # 0
    BY <1>1, <1>3, <1>4, <2>3, AbsoluteFacts DEF ch
  <2>5. Absolute(ch.container, o.time) = ch.container /\ Absolute(ch.container, n) = ch.container
    BY <1>3, <2>3, <2>4, AbsoluteFacts
  <2>6. c = d /\ k = l
    BY <1>1, <2>2, <2>5 DEF ch
  <2>7. QED
    BY <1>2, <2>6 DEF ch
<1>7. QED
  BY <1>5, <1>6

\* What was under a key can be copied.
CanCopy(c, k, to) == \A m \in GetEntryByKey(log, c, k, to) : Copyable(log, m, to)

\* What _get_keyed_reset_changes takes for the occupant of that time is what was
\* there, if it was not written in a bundle that cleared the directory.
LEMMA ThenFacts ==
    ASSUME NEW containers, NEW to, Resets(containers, to), NEW c \in containers, NEW k \in Key,
           CanCopy(c, k, to)
    PROVE  ContainedThen(c, k, to) = Find(log, c, k, to)
<1>1. /\ StoreOK(log) /\ PriorClear(log, c, to) \in 0 .. Len(log) /\ Len(log) \in Nat
      /\ \A m \in Muids(log) : m.time \in 1 .. Len(log)
  BY ResetsFacts, PriorClearFacts
<1>2. ASSUME NEW m \in GetEntryByKey(log, c, k, to)
      PROVE  m.time > PriorClear(log, c, to)
  <2>1. /\ Absolute(At(log, m).container, m.time) = c /\ m \in Muids(log)
        /\ At(log, m).type = "entry"
    BY DEF GetEntryByKey, LastEntry, About
  <2>2. At(log, m).container.time # 0 /\ m.time > PriorClear(log, At(log, m).container, to)
    BY DEF CanCopy, Copyable
  <2>3. At(log, m).container \in Muid /\ m.time \in 1 .. MaxBundles
    BY <1>1, <2>1, ChangeFacts, MuidsFacts
  <2>4. At(log, m).container = c
    BY <2>1, <2>2, <2>3, AbsoluteFacts
  <2>5. QED
    BY <2>2, <2>4
<1>3. {m \in LastEntry(log, c, k, to) : m.time > PriorClear(log, c, to)}
      = GetEntryByKey(log, c, k, to)
  <2>1. \A m \in LastEntry(log, c, k, to) : m.time \in Nat
    BY <1>1, EntriesFacts
  <2>2. QED
    BY <1>1, <1>2, <2>1 DEF GetEntryByKey
<1>4. QED
  BY <1>3 DEF ContainedThen, Find

\* A key that the reset leaves alone is as it was then.
LEMMA LeftAlone ==
    ASSUME NEW containers, NEW to, Resets(containers, to), NEW c \in containers, NEW k \in Key,
           CanCopy(c, k, to),
           <<c, k>> \notin Pairs(containers, to)
    PROVE  Find(log, c, k, Now) = Find(log, c, k, to)
<1>1. StoreOK(log) /\ to \in DOMAIN log /\ to \in Nat /\ to < Now
  BY ContainersFacts DEF Resets
<1>2. CASE k \notin KeysOf(c)
  <2>1. LastEntry(log, c, k, Now) = {}
    BY <1>2 DEF KeysOf
  <2>2. Entries(log, c, k, to) \subseteq Entries(log, c, k, Now)
    <3>1. Now \in Nat /\ \A m \in Muids(log) : m.time \in Nat
      BY <1>1, MuidsFacts, Bounds DEF Now
    <3>2. QED
      BY <1>1, <3>1 DEF Entries, About
  <2>3. LastEntry(log, c, k, to) = {}
    BY <1>1, <2>1, <2>2, LastFacts
  <2>4. QED
    BY <2>1, <2>3 DEF Find, GetEntryByKey
<1>3. CASE ~Touched(c, k, to)
  BY <1>1, <1>3, Untouched DEF Find, GetEntryByKey
<1>4. CASE ContainedThen(c, k, to) = ContainedNow(c, k)
  BY <1>4, ThenFacts DEF ContainedNow
<1>5. QED
  BY <1>2, <1>3, <1>4 DEF Pairs, Resettable

\* A key of a container that is reset is as it was then, if what was there can be
\* copied.
LEMMA KeyRestored ==
    ASSUME NEW containers, NEW to, Resets(containers, to), NEW c \in containers, NEW k \in Key,
           CanCopy(c, k, to)
    PROVE  Find(log', c, k, Now) = Find(log, c, k, to)
<1> DEFINE n == Len(log) + 1
           pair == <<c, k>>
           last == LastEntry(log', c, k, Now)
           then == ContainedThen(c, k, to)
<1>1. /\ StoreOK(log) /\ StoreOK(log') /\ n \in Nat /\ n < Now /\ Now \in Nat
      /\ c \in Muid /\ c.time # 0 /\ c.time # n /\ n \in 1 .. MaxBundles
  BY ResetsFacts, ContainersFacts, Bounds DEF Now
<1>2. /\ Muids(log) \subseteq Muids(log')
      /\ \A m \in Muids(log) : At(log', m) = At(log, m) /\ m.time \in Nat /\ m.time < n
      /\ \A m \in Muids(log') : m \notin Muids(log) => m.time = n /\ At(log', m).type = "entry"
  BY ResetsFacts
<1>3. PriorClear(log', c, Now) = PriorClear(log, c, Now) /\ PriorClear(log, c, Now) \in Nat
      /\ PriorClear(log, c, Now) < n
  <2>1. About(log', "clearance", c, Now) = About(log, "clearance", c, Now)
    BY <1>2 DEF About
  <2>2. PriorClear(log, c, Now) \in 0 .. Len(log) /\ Len(log) \in Nat
    BY PriorClearFacts, ResetsFacts
  <2>3. PriorClear(log', c, Now) = PriorClear(log, c, Now)
    BY <2>1 DEF PriorClear
  <2>4. QED
    BY <2>2, <2>3
<1>4. ContainedThen(c, k, to) = Find(log, c, k, to)
  BY ThenFacts
<1>5. CASE pair \notin Pairs(containers, to)
  <2>1. Entries(log', c, k, Now) = Entries(log, c, k, Now)
    <3>1. ASSUME NEW m \in Entries(log', c, k, Now)
          PROVE  m \in Muids(log)
      <4>1. /\ m \in Muids(log') /\ At(log', m).key = k
            /\ Absolute(At(log', m).container, m.time) = c
        BY DEF Entries, About
      <4>2. QED
        BY <1>5, <4>1, NewEntries
    <3>2. QED
      BY <1>2, <3>1 DEF Entries, About
  <2>2. last = LastEntry(log, c, k, Now)
    BY <2>1 DEF LastEntry, Entries
  <2>3. GetEntryByKey(log', c, k, Now) = GetEntryByKey(log, c, k, Now)
    BY <1>3, <2>2 DEF GetEntryByKey
  <2>4. Find(log', c, k, Now) = Find(log, c, k, Now)
    <3>1. CASE GetEntryByKey(log, c, k, Now) = {}
      BY <2>3, <3>1 DEF Find, OccupantOf
    <3>2. ASSUME NEW m \in GetEntryByKey(log, c, k, Now)
          PROVE  Find(log', c, k, Now) = Find(log, c, k, Now)
      <4>1. Find(log, c, k, Now) = OccupantOf(log, {m}) /\ m \in Muids(log)
        BY <1>1, FoundFacts
      <4>2. Find(log', c, k, Now) = OccupantOf(log', {m})
        BY <1>1, <2>3, FoundFacts
      <4>3. At(log', m) = At(log, m)
        BY <1>2, <4>1
      <4>4. QED
        BY <4>1, <4>2, <4>3, OccupantOfOne
    <3>3. QED
      BY <3>1, <3>2
  <2>5. QED
    BY <1>5, <2>4, LeftAlone
<1>6. CASE pair \in Pairs(containers, to)
  <2>1. PICK x \in Muids(log') : x.time = n /\ At(log', x) = KeyReset(c, k, to)
    <3>1. pair[1] = c /\ pair[2] = k
      OBVIOUS
    <3> HIDE DEF pair
    <3>2. QED
      BY <1>6, <3>1, ResetsFacts
  <2> HIDE DEF n, pair, last
  <2>2. then # Deletion => \E m \in GetEntryByKey(log, c, k, to) :
            /\ \A o \in LastEntry(log, c, k, to) : o = m
            /\ At(log, m).container = c /\ At(log, m).key = k
    <3>1. CASE GetEntryByKey(log, c, k, to) = {}
      BY <1>4, <3>1 DEF Find, OccupantOf
    <3>2. ASSUME NEW m \in GetEntryByKey(log, c, k, to)
          PROVE  /\ \A o \in LastEntry(log, c, k, to) : o = m
                 /\ At(log, m).container = c /\ At(log, m).key = k
      <4>1. /\ m \in Muids(log) /\ At(log, m).type = "entry"
            /\ Absolute(At(log, m).container, m.time) = c /\ At(log, m).key = k
        BY DEF GetEntryByKey, LastEntry, About
      <4>2. At(log, m).container.time # 0
        BY DEF CanCopy, Copyable
      <4>3. At(log, m).container \in Muid /\ m.time \in 1 .. MaxBundles
        BY <1>1, <4>1, ChangeFacts, MuidsFacts
      <4>4. At(log, m).container = c
        BY <4>1, <4>2, <4>3, AbsoluteFacts
      <4>5. \A o \in LastEntry(log, c, k, to) : o = m
        BY <1>1, FoundFacts
      <4>6. QED
        BY <4>1, <4>4, <4>5
    <3>3. QED
      BY <3>1, <3>2
  <2>3. /\ KeyReset(c, k, to).type = "entry" /\ KeyReset(c, k, to).container = c
        /\ KeyReset(c, k, to).key = k
        /\ then = Deletion => KeyReset(c, k, to).occupant = Deletion
        /\ then # Deletion =>
               \E m \in GetEntryByKey(log, c, k, to) :
                   KeyReset(c, k, to).occupant = At(log, m).occupant
    <3>1. LogKnown
      BY DEF Resets
    <3>2. CASE then = Deletion
      BY <1>1, <3>1, <3>2, KeyResetFacts
    <3>3. CASE then # Deletion
      <4>1. PICK m \in GetEntryByKey(log, c, k, to) :
                /\ \A o \in LastEntry(log, c, k, to) : o = m
                /\ At(log, m).container = c /\ At(log, m).key = k
        BY <2>2, <3>3
      <4>2. PICK o \in LastEntry(log, c, k, to) :
                /\ KeyReset(c, k, to).type = "entry"
                /\ KeyReset(c, k, to).container = At(log, o).container
                /\ KeyReset(c, k, to).key = At(log, o).key
                /\ KeyReset(c, k, to).occupant = At(log, o).occupant
        BY <1>1, <3>1, <3>3, KeyResetFacts
      <4>3. o = m
        BY <4>1
      <4>4. QED
        BY <3>3, <4>1, <4>2, <4>3
    <3>4. QED
      BY <3>2, <3>3
  <2>4. PICK m \in last : m.time = n /\ m \notin Muids(log) /\ m \in Muids(log')
    <3>1. Absolute(c, n) = c
      BY <1>1, AbsoluteFacts
    <3>2. x \in Entries(log', c, k, Now)
      <4>1. /\ At(log', x).type = "entry" /\ At(log', x).key = k
            /\ At(log', x).container = c /\ x.time = n
        BY <2>1, <2>3
      <4>2. Absolute(At(log', x).container, x.time) = c /\ x.time < Now
        BY <1>1, <3>1, <4>1
      <4>3. QED
        BY <4>1, <4>2 DEF Entries, About
    <3>3. PICK m \in last : x.time <= m.time /\ m \in Muids(log')
      BY <1>1, <3>2, LastFacts DEF last
    <3>4. m \notin Muids(log)
      BY <1>1, <1>2, <2>1, <3>3
    <3>5. QED
      BY <1>2, <3>3, <3>4
  <2>5. <<c, k>> \in Pairs(containers, to) /\ At(log', m) = KeyReset(c, k, to)
    <3>1. Absolute(At(log', m).container, m.time) = c /\ At(log', m).key = k
      <4>1. m \in LastEntry(log', c, k, Now)
        BY <2>4 DEF last
      <4>2. QED
        BY <4>1 DEF LastEntry, About
    <3>2. m \in Muids(log') /\ m \notin Muids(log)
      BY <2>4
    <3>3. QED
      BY <3>1, <3>2, NewEntries
  <2>6. Find(log', c, k, Now) = OccupantOf(log', {m})
    <3>1. m \in GetEntryByKey(log', c, k, Now)
      BY <1>1, <1>3, <2>4 DEF GetEntryByKey, last
    <3>2. QED
      BY <1>1, <3>1, FoundFacts
  <2>7. CASE then = Deletion
    <3>1. OccupantOf(log', {m}) = Deletion
      BY <2>3, <2>5, <2>7, OccupantOfOne, OccupantFacts
    <3>2. QED
      BY <1>4, <2>6, <2>7, <3>1
  <2>8. CASE then # Deletion
    <3>1. PICK o \in GetEntryByKey(log, c, k, to) :
              KeyReset(c, k, to).occupant = At(log, o).occupant
      BY <2>3, <2>8
    <3>2. At(log, o).occupant.type = "pointee" => At(log, o).occupant.muid.time # 0
      BY DEF CanCopy, Copyable
    <3>3. o \in Muids(log) /\ At(log, o).type = "entry" /\ Find(log, c, k, to) = OccupantOf(log, {o})
      BY <1>1, FoundFacts
    <3>4. At(log, o).occupant \in Occupant /\ o.time \in 1 .. MaxBundles
      BY <1>1, <3>3, MuidsFacts, ChangeFacts
    <3>5. At(log, o).occupant.type = "pointee" =>
              /\ Absolute(At(log, o).occupant.muid, o.time) = At(log, o).occupant.muid
              /\ Absolute(At(log, o).occupant.muid, n) = At(log, o).occupant.muid
      BY <1>1, <3>2, <3>4, OccupantFacts, AbsoluteFacts
    <3>6. OccupantOf(log', {m}) = OccupantOf(log, {o})
      BY <2>4, <2>5, <3>1, <3>5, OccupantOfOne
    <3>7. QED
      BY <2>6, <3>3, <3>6
  <2>9. QED
    BY <2>7, <2>8 DEF then
<1>7. QED
  BY <1>5, <1>6

\* A reset makes no containers, and removes none.
LEMMA SameContainers ==
    ASSUME NEW containers, NEW to, Resets(containers, to)
    PROVE  /\ \A m : IsContainer(log', m) <=> IsContainer(log, m)
           /\ \A o : GetContainer(log', o) = GetContainer(log, o)
<1>1. /\ DOMAIN log = 1 .. Len(log) /\ DOMAIN log' = 1 .. Len(log) + 1 /\ Len(log) \in Nat
      /\ \A t \in DOMAIN log : log'[t] = log[t]
      /\ \A i \in DOMAIN log'[Len(log) + 1].changes :
             log'[Len(log) + 1].changes[i].type = "entry"
  BY ResetsFacts
<1>2. ASSUME NEW m
      PROVE  IsContainer(log', m) <=> IsContainer(log, m)
  <2>1. CASE m.time \in DOMAIN log
    BY <1>1, <2>1 DEF IsContainer, At
  <2>2. CASE m.time \notin DOMAIN log
    <3>1. ~(/\ m.time \in DOMAIN log' /\ m.offset \in DOMAIN log'[m.time].changes
            /\ At(log', m).type = "container")
      <4>1. m.time \in DOMAIN log' => m.time = Len(log) + 1
        BY <1>1, <2>2
      <4>2. QED
        BY <1>1, <4>1 DEF At
    <3>2. QED
      BY <2>2, <3>1 DEF IsContainer
  <2>3. QED
    BY <2>1, <2>2
<1>3. QED
  BY <1>2 DEF GetContainer

\* The entries on a path are those under its keys.
LEMMA EntriesOnOne ==
    ASSUME NEW store, NEW asof, NEW k
    PROVE  GetEntryByKey(store, Root, k, asof) \subseteq EntriesOn(store, <<k>>, asof)
<1> DEFINE p == <<k>>
<1>1. DOMAIN p = {1} /\ p[1] = k /\ SubSeq(p, 1, 1 - 1) = <<>>
  BY OneKey
<1>2. Get(store, SubSeq(p, 1, 1 - 1), asof) = Pointee(Root)
  BY <1>1, GetNothing
<1> HIDE DEF p
<1>3. GetEntryByKey(store, Root, k, asof) \subseteq EntriesOn(store, p, asof)
  BY <1>1, <1>2, OccupantFacts DEF EntriesOn
<1>4. QED
  BY <1>3 DEF p

LEMMA EntriesOnTwo ==
    ASSUME NEW store, NEW asof, NEW k, NEW l
    PROVE  /\ GetEntryByKey(store, Root, k, asof) \subseteq EntriesOn(store, <<k, l>>, asof)
           /\ InRoot(store, k, asof).type = "pointee" =>
                  GetEntryByKey(store, InRoot(store, k, asof).muid, l, asof)
                  \subseteq EntriesOn(store, <<k, l>>, asof)
<1> DEFINE p == <<k, l>>
<1>1. /\ DOMAIN p = {1, 2} /\ p[1] = k /\ p[2] = l
      /\ SubSeq(p, 1, 1 - 1) = <<>> /\ SubSeq(p, 1, 2 - 1) = <<k>>
  BY TwoKeys
<1>2. /\ Get(store, SubSeq(p, 1, 1 - 1), asof) = Pointee(Root)
      /\ Get(store, SubSeq(p, 1, 2 - 1), asof) = InRoot(store, k, asof)
  BY <1>1, GetNothing, GetOne
<1> HIDE DEF p
<1> DEFINE E(i) == IF Get(store, SubSeq(p, 1, i - 1), asof).type = "pointee"
                   THEN GetEntryByKey(store, Get(store, SubSeq(p, 1, i - 1), asof).muid, p[i], asof)
                   ELSE {}
<1>3. EntriesOn(store, p, asof) = UNION {E(i) : i \in DOMAIN p}
  BY DEF EntriesOn
<1>4. E(1) = GetEntryByKey(store, Root, k, asof)
  BY <1>1, <1>2, OccupantFacts
<1>5. InRoot(store, k, asof).type = "pointee" =>
          E(2) = GetEntryByKey(store, InRoot(store, k, asof).muid, l, asof)
  BY <1>1, <1>2
<1> HIDE DEF E
<1>6. E(1) \subseteq EntriesOn(store, p, asof) /\ E(2) \subseteq EntriesOn(store, p, asof)
  BY <1>1, <1>3
<1>7. QED
  BY <1>4, <1>5, <1>6 DEF p

\* A path of one key is restored.
LEMMA OneRestored ==
    ASSUME NEW containers, NEW to, Resets(containers, to), Root \in containers, NEW k \in Key
    PROVE  /\ CanCopy(Root, k, to) => InRoot(log', k, Now) = InRoot(log, k, to)
           /\ \/ Get(log', <<k>>, Now) = Get(log, <<k>>, to)
              \/ \E m \in EntriesOn(log, <<k>>, to) : ~Copyable(log, m, to)
<1>1. ASSUME CanCopy(Root, k, to)
      PROVE  InRoot(log', k, Now) = InRoot(log, k, to)
  <2>1. Find(log', Root, k, Now) = Find(log, Root, k, to)
    BY <1>1, KeyRestored
  <2>2. QED
    BY <2>1, SameContainers DEF InRoot
<1>2. ASSUME ~CanCopy(Root, k, to)
      PROVE  \E m \in EntriesOn(log, <<k>>, to) : ~Copyable(log, m, to)
  BY <1>2, EntriesOnOne DEF CanCopy
<1>3. QED
  BY <1>1, <1>2, GetOne

\* A path of two keys is restored if the container that the first leads to is reset.
LEMMA TwoRestored ==
    ASSUME NEW containers, NEW to, Resets(containers, to), Root \in containers,
           NEW k \in Key, NEW l \in Key,
           CanCopy(Root, k, to) /\ InRoot(log, k, to).type = "pointee" =>
               InRoot(log, k, to).muid \in containers
    PROVE  \/ Get(log', <<k, l>>, Now) = Get(log, <<k, l>>, to)
           \/ \E m \in EntriesOn(log, <<k, l>>, to) : ~Copyable(log, m, to)
<1> DEFINE at == InRoot(log, k, to)
<1>1. CASE ~CanCopy(Root, k, to)
  BY <1>1, EntriesOnTwo DEF CanCopy
<1>2. CASE CanCopy(Root, k, to)
  <2>1. /\ Get(log', <<k, l>>, Now) = Traverse(log', at, l, Now)
        /\ Get(log, <<k, l>>, to) = Traverse(log, at, l, to)
    BY <1>2, OneRestored, GetTwo
  <2>2. CASE at.type # "pointee"
    BY <2>1, <2>2 DEF Traverse
  <2>3. CASE at.type = "pointee"
    <3>1. at.muid \in containers
      BY <1>2, <2>3
    <3>2. CASE ~CanCopy(at.muid, l, to)
      BY <2>3, <3>2, EntriesOnTwo DEF CanCopy
    <3>3. CASE CanCopy(at.muid, l, to)
      <4>1. Find(log', at.muid, l, Now) = Find(log, at.muid, l, to)
        BY <3>1, <3>3, KeyRestored
      <4>2. GetContainer(log', Find(log', at.muid, l, Now))
            = GetContainer(log, Find(log, at.muid, l, to))
        BY <4>1, SameContainers
      <4>3. QED
        BY <2>1, <2>3, <4>2 DEF Traverse
    <3>4. QED
      BY <3>2, <3>3
  <2>4. QED
    BY <2>2, <2>3
<1>3. QED
  BY <1>1, <1>2

\* What a reset has to reset: the root directory, and if it is not only that one,
\* what was in it and can be brought back.
Deep(containers, to) ==
    \A k \in Key : CanCopy(Root, k, to) /\ InRoot(log, k, to).type = "pointee" =>
                       InRoot(log, k, to).muid \in containers

\* A directory that was in the root directory is the occupant of an entry there.
LEMMA InRootFacts ==
    ASSUME StoreOK(log), NEW to, NEW k, InRoot(log, k, to).type = "pointee"
    PROVE  /\ InRoot(log, k, to) = Find(log, Root, k, to)
           /\ IsContainer(log, InRoot(log, k, to).muid)
           /\ InRoot(log, k, to).muid \in Muid
           /\ \E m \in GetEntryByKey(log, Root, k, to) :
                  /\ InRoot(log, k, to) = OccupantOf(log, {m})
                  /\ m \in Muids(log) /\ At(log, m).type = "entry"
                  /\ At(log, m).occupant.type = "pointee"
                  /\ \A o \in LastEntry(log, Root, k, to) : o = m
<1> DEFINE there == Find(log, Root, k, to)
<1>1. there \in Occupant
  BY FindType
<1>2. InRoot(log, k, to) = there /\ there.type = "pointee" /\ IsContainer(log, there.muid)
  BY DEF InRoot, GetContainer, Lost
<1>3. there.muid \in Muid
  BY <1>1, <1>2, OccupantFacts
<1>4. GetEntryByKey(log, Root, k, to) # {}
  BY <1>2, OccupantFacts DEF Find, OccupantOf
<1>5. PICK m \in GetEntryByKey(log, Root, k, to) : TRUE
  BY <1>4
<1>6. /\ there = OccupantOf(log, {m}) /\ m \in Muids(log) /\ At(log, m).type = "entry"
      /\ \A o \in LastEntry(log, Root, k, to) : o = m
  BY FoundFacts
<1> HIDE DEF there
<1>7. At(log, m).occupant.type = "pointee"
  BY <1>2, <1>6, OccupantOfOne
<1>8. QED
  BY <1>2, <1>3, <1>6, <1>7 DEF there

\* A recursive reset gets to the directories that were in the root directory.
LEMMA ReachedFacts ==
    ASSUME NEW to, Resets(Reached(to), to)
    PROVE  Root \in Reached(to) /\ Deep(Reached(to), to)
<1> DEFINE places == {Root} \cup Pointees
           steps  == UNION {{c} \X Inner(c, to) : c \in places}
           closed == {S \in SUBSET places : Root \in S /\ \A x \in steps : x[1] \in S => x[2] \in S}
<1>1. Reached(to) = {c \in places : \A S \in closed : c \in S}
  BY DEF Reached
<1>2. Root \in Reached(to)
  BY <1>1
<1>3. ASSUME NEW k \in Key, CanCopy(Root, k, to), InRoot(log, k, to).type = "pointee"
      PROVE  InRoot(log, k, to).muid \in Reached(to)
  <2> DEFINE there == InRoot(log, k, to)
  <2>1. StoreOK(log) /\ to \in DOMAIN log /\ to \in Nat /\ to < Now
    BY <1>2, ContainersFacts DEF Resets
  <2>2. PICK m \in GetEntryByKey(log, Root, k, to) :
            /\ there = OccupantOf(log, {m})
            /\ m \in Muids(log) /\ At(log, m).type = "entry"
            /\ At(log, m).occupant.type = "pointee"
            /\ \A o \in LastEntry(log, Root, k, to) : o = m
    BY <1>3, <2>1, InRootFacts
  <2>3. m \in LastEntry(log, Root, k, to)
    BY DEF GetEntryByKey
  <2>4. k \in KeysOf(Root)
    <3>1. m \in Entries(log, Root, k, Now)
      <4>1. m \in Entries(log, Root, k, to)
        BY <2>1, <2>3, LastFacts
      <4>2. m.time \in Nat /\ Now \in Nat
        BY <2>1, <2>2, MuidsFacts, Bounds DEF Now
      <4>3. QED
        BY <2>1, <4>1, <4>2 DEF Entries, About
    <3>2. LastEntry(log, Root, k, Now) # {}
      BY <2>1, <3>1, LastFacts
    <3>3. QED
      BY <3>2 DEF KeysOf
  <2>5. RecurseOn(Root, k, to) = there
    <3>1. CASE Touched(Root, k, to)
      <4>1. ContainedThen(Root, k, to) = Find(log, Root, k, to)
        BY <1>2, <1>3, ThenFacts
      <4>2. there = Find(log, Root, k, to)
        BY <1>3, <2>1, InRootFacts
      <4>3. QED
        BY <3>1, <4>1, <4>2 DEF RecurseOn
    <3>2. CASE ~Touched(Root, k, to)
      <4>1. LastEntry(log, Root, k, Now) = LastEntry(log, Root, k, to)
        BY <2>1, <3>2, Untouched
      <4>2. LastEntry(log, Root, k, to) = {m}
        BY <2>2, <2>3
      <4>3. QED
        BY <2>2, <3>2, <4>1, <4>2 DEF RecurseOn
    <3>3. QED
      BY <3>1, <3>2
  <2>6. there.type = "pointee"
    BY <1>3
  <2> HIDE DEF there
  <2>7. there.muid \in Inner(Root, to)
    BY <2>4, <2>5, <2>6 DEF Inner
  <2>8. there.muid \in Pointees
    BY <2>2 DEF Pointees
  <2>9. <<Root, there.muid>> \in steps
    BY <2>7
  <2>10. ASSUME NEW S \in closed
         PROVE  there.muid \in S
    <3> DEFINE x == <<Root, there.muid>>
    <3>1. x[1] = Root /\ x[2] = there.muid /\ x \in steps
      BY <2>9
    <3>2. Root \in S /\ \A y \in steps : y[1] \in S => y[2] \in S
      OBVIOUS
    <3> HIDE DEF x, steps
    <3>3. QED
      BY <3>1, <3>2
  <2>11. QED
    BY <1>1, <2>8, <2>10 DEF there
<1>4. QED
  BY <1>2, <1>3 DEF Deep

\* Database.reset resets every container.
LEMMA AllFacts ==
    ASSUME StoreOK(log), NEW to
    PROVE  LET containers == {m \in Muids(log) \cup {Root} : IsContainer(log, m)}
           IN  Root \in containers /\ Deep(containers, to)
<1> DEFINE containers == {m \in Muids(log) \cup {Root} : IsContainer(log, m)}
<1>1. Root \in containers
  BY DEF IsContainer
<1>2. ASSUME NEW m \in Muid, IsContainer(log, m)
      PROVE  m \in containers
  <2>1. CASE m = Root
    BY <1>1, <2>1
  <2>2. CASE m.time \in DOMAIN log /\ m.offset \in DOMAIN log[m.time].changes
    <3>1. m = [time |-> m.time, offset |-> m.offset]
      BY MuidFacts
    <3>2. m \in Muids(log)
      BY <2>2, <3>1, MuidsFacts
    <3>3. QED
      BY <1>2, <3>2
  <2>3. QED
    BY <1>2, <2>1, <2>2 DEF IsContainer
<1> HIDE DEF containers
<1>3. Deep(containers, to)
  BY <1>2, InRootFacts DEF Deep
<1>4. QED
  BY <1>1, <1>3 DEF containers

\* What add_change stores at once is the bundle of the operation alone.
LEMMA StoredAtOnce ==
    ASSUME IInv, NEW e \in Bundler \cup {None}, NEW made, NEW by, Perform(e, made, by),
           NEW n \in DOMAIN log', n \notin DOMAIN log
    PROVE  e = None /\ Stored(None, made, by) /\ log'[n].calls = by
<1>1. e = None /\ Stored(None, made, by)
  BY DEF Perform
<1> DEFINE bundle == [by |-> None, changes |-> made, calls |-> by]
<1>2. log \in Seq(Bundles \cup {bundle}) /\ log' = Append(log, bundle)
  BY <1>1 DEF IInv, StoreOK, Stored
<1>3. bundle.calls = by
  OBVIOUS
<1> HIDE DEF bundle
<1>4. log'[n] = bundle
  <2>1. /\ Len(log') = Len(log) + 1 /\ log'[Len(log) + 1] = bundle
        /\ log' \in Seq(Bundles \cup {bundle})
    BY <1>2, AppendProperties
  <2>2. DOMAIN log = 1 .. Len(log) /\ DOMAIN log' = 1 .. Len(log') /\ Len(log) \in Nat
    BY <1>2, <2>1, LenProperties
  <2>3. n = Len(log) + 1
    BY <2>1, <2>2
  <2>4. QED
    BY <2>1, <2>3
<1>5. QED
  BY <1>1, <1>3, <1>4

\* A call that is not a reset is not taken for one.
LEMMA OneCall ==
    ASSUME IInv, NEW e \in Bundler \cup {None}, NEW made, NEW op, NEW path, NEW v, NEW reads,
           Perform(e, made, <<Called(op, path, v, e, reads)>>),
           NEW n \in DOMAIN log', n \notin DOMAIN log, log'[n].calls[1].op = "reset"
    PROVE  op = "reset"
<1> DEFINE call == Called(op, path, v, e, reads)
<1>1. call.op = op
  BY DEF Called
<1> HIDE DEF call
<1>2. log'[n].calls = <<call>>
  BY StoredAtOnce DEF call
<1>3. <<call>>[1] = call
  OBVIOUS
<1>4. QED
  BY <1>1, <1>2, <1>3

LEMMA SetPerforms ==
    ASSUME NEW b, NEW p, NEW v, Set(b, p, v)
    PROVE  \E made, reads : Perform(Effective(b), made,
                                    <<Called("set", p, v, Effective(b), reads)>>)
<1> DEFINE e    == Effective(b)
           n    == Count(e)
           s    == Way(Front(p), n)
           made == Append(s.made, Entry(s.at, Last(p), Plain(v)))
<1>1. Perform(e, made, <<Called("set", p, v, e, s.reads)>>)
  BY DEF Set, Way, Start
<1> HIDE DEF e, s, made
<1>2. QED
  BY <1>1 DEF e

\* Only a reset is taken for a reset.
LEMMA OnlyResets ==
    ASSUME IInv, NEW b \in Bundler \cup {None},
           \/ \E path \in Path, v \in Value : Set(b, path, v) \/ SetDefault(b, path, v)
           \/ \E path \in Path : Delete(b, path) \/ Pop(b, path)
           \/ PopItem(b)
           \/ \E contents \in Contents : Update(b, contents) \/ Refill(b, contents)
           \/ Clear(b)
           \/ New(b)
           \/ \E h \in Handles, k \in Key : Link(b, k, h) \/ \E v \in Value : SetIn(b, h, k, v),
           NEW n \in DOMAIN log', n \notin DOMAIN log
    PROVE  log'[n].calls[1].op # "reset"
<1> DEFINE e == Effective(b)
<1>1. e \in Bundler \cup {None}
  BY EffectiveType
<1> HIDE DEF e
<1>2. ASSUME NEW made, NEW op \in {"set", "delete", "clear", "other"}, NEW path, NEW v, NEW reads,
             Perform(e, made, <<Called(op, path, v, e, reads)>>)
      PROVE  log'[n].calls[1].op # "reset"
  BY <1>1, <1>2, OneCall
<1>3. ASSUME NEW path \in Path, NEW v \in Value, Set(b, path, v) \/ SetDefault(b, path, v)
      PROVE  log'[n].calls[1].op # "reset"
  <2>1. CASE Set(b, path, v)
    <3>1. \E made, reads : Perform(e, made, <<Called("set", path, v, e, reads)>>)
      BY <2>1, SetPerforms DEF e
    <3>2. QED
      BY <1>2, <3>1
  <2>2. CASE SetDefault(b, path, v)
    BY <1>2, <2>2 DEF SetDefault, e
  <2>3. QED
    BY <1>3, <2>1, <2>2
<1>4. ASSUME NEW path \in Path, Delete(b, path) \/ Pop(b, path)
      PROVE  log'[n].calls[1].op # "reset"
  <2>1. \E made, reads : Perform(e, made, <<Called("delete", path, None, e, reads)>>)
    BY <1>4 DEF Delete, Pop, e
  <2>2. QED
    BY <1>2, <2>1
<1>5. ASSUME PopItem(b)
      PROVE  log'[n].calls[1].op # "reset"
  <2>1. \E made, path, reads : Perform(e, made, <<Called("delete", path, None, e, reads)>>)
    BY <1>5 DEF PopItem, e
  <2>2. QED
    BY <1>2, <2>1
<1>6. ASSUME Clear(b) \/ New(b)
      PROVE  log'[n].calls[1].op # "reset"
  <2>1. CASE Clear(b)
    BY <1>2, <2>1 DEF Clear, e
  <2>2. CASE New(b)
    BY <1>2, <2>2 DEF New, e
  <2>3. QED
    BY <1>6, <2>1, <2>2
<1>7. ASSUME NEW h \in Handles, NEW k \in Key,
             Link(b, k, h) \/ \E v \in Value : SetIn(b, h, k, v)
      PROVE  log'[n].calls[1].op # "reset"
  <2>1. \E made : Perform(e, made, <<Called("other", <<>>, None, e, {})>>)
    BY <1>7 DEF Link, SetIn, e
  <2>2. QED
    BY <1>2, <2>1
<1>8. ASSUME NEW contents \in Contents, Update(b, contents)
      PROVE  log'[n].calls[1].op # "reset"
  <2>1. log'[n].calls = UpdateCalls(contents, e)
    BY <1>1, <1>8, StoredAtOnce DEF Update, e
  <2>2. 1 \in DOMAIN contents
    BY DEF Contents
  <2>3. UpdateCalls(contents, e)[1].op = "set"
    BY <2>2 DEF UpdateCalls, Called
  <2>4. QED
    BY <2>1, <2>3
<1>9. ASSUME NEW contents \in Contents, Refill(b, contents)
      PROVE  log'[n].calls[1].op # "reset"
  <2> DEFINE first == Called("clear", <<>>, None, e, {})
             rest  == UpdateCalls(contents, e)
  <2>1. log'[n].calls = <<first>> \o rest
    BY <1>1, <1>9, StoredAtOnce DEF Refill, e
  <2>2. first \in Call /\ rest \in Seq(Call)
    BY <1>1, PlainCallType, UpdateType
  <2>3. first.op = "clear"
    BY DEF Called
  <2> HIDE DEF first, rest
  <2>4. (<<first>> \o rest)[1] = first
    BY <2>2
  <2>5. QED
    BY <2>1, <2>3, <2>4
<1>10. QED
  BY <1>3, <1>4, <1>5, <1>6, <1>7, <1>8, <1>9

\* A bundle that is taken for a reset is one, of the root directory alone or of what
\* was in it as well.
LEMMA ResetSteps ==
    ASSUME IInv, [Next]_vars, NEW n \in DOMAIN log', n \notin DOMAIN log,
           log'[n].by = None, log'[n].calls[1].op = "reset"
    PROVE  \E containers :
               /\ Resets(containers, log'[n].calls[1].to)
               /\ Root \in containers
               /\ \/ Len(log'[n].calls) = 1
                  \/ Len(log'[n].calls) = 2 /\ Deep(containers, log'[n].calls[1].to)
<1>1. None \notin Bundler
  BY Bounds
<1>2. ASSUME NEW b \in Bundler, Commits(b)
      PROVE  FALSE
  <2>1. Stored(b, changes[b], calls[b])
    BY <1>2 DEF Commits
  <2>2. AllMeant(log, b, changes[b])
    BY DEF IInv, PendingResolve
  <2>3. log'[Len(log) + 1].by = b
    BY <2>1, <2>2, BundlerFacts, StoredKeeps
  <2>4. n = Len(log) + 1
    <3>1. /\ changes[b] \in Seq(Change) /\ Len(changes[b]) <= MaxChanges /\ calls[b] \in Seq(Call)
          /\ StoreOK(log)
      BY BundlerFacts
    <3> DEFINE bundle == [by |-> b, changes |-> changes[b], calls |-> calls[b]]
    <3>2. bundle \in Bundles /\ Len(bundle.changes) <= MaxChanges
      BY <3>1 DEF Bundles
    <3>3. Len(log) < MaxBundles /\ log' = Append(log, bundle)
      BY <2>1 DEF Stored
    <3> HIDE DEF bundle
    <3>4. DOMAIN log' = DOMAIN log \cup {Len(log) + 1}
      BY <3>1, <3>2, <3>3, StoreGrows
    <3>5. QED
      BY <3>4
  <2>5. QED
    BY <1>1, <2>3, <2>4
<1>3. ASSUME NEW b \in Bundler \cup {None}, NEW to \in DOMAIN log, NEW containers \in SUBSET Muid,
             \A c \in containers : IsContainer(log, c),
             NEW by \in Seq(Call), Perform(b, ResetChanges(containers, to), by)
      PROVE  Resets(containers, to) /\ log'[n].calls = by
  <2> DEFINE made == ResetChanges(containers, to)
  <2>1. StoreOK(log) /\ LogKnown
    BY DEF IInv
  <2>2. b = None /\ Stored(None, made, by) /\ log'[n].calls = by
    BY <1>3, StoredAtOnce
  <2>3. Len(made) <= MaxChanges
    <3>1. made \in Seq(QuietChange)
      BY <2>1, ResetChangesFacts
    <3>2. Len(made) \in Nat /\ 0 + Len(made) <= MaxChanges
      BY <1>3, <2>2, <3>1, LenProperties DEF Perform, Count
    <3>3. QED
      BY <3>2
  <2>4. QED
    BY <1>3, <2>1, <2>2, <2>3 DEF Resets
<1>4. ASSUME NEW b \in Bundler \cup {None}, NEW to \in DOMAIN log, NEW recursive \in BOOLEAN,
             Reset(b, to, recursive)
      PROVE  \E containers :
                 /\ Resets(containers, log'[n].calls[1].to)
                 /\ Root \in containers
                 /\ \/ Len(log'[n].calls) = 1
                    \/ Len(log'[n].calls) = 2 /\ Deep(containers, log'[n].calls[1].to)
  <2> DEFINE call == ResetCall(to, b)
  <2>1. call \in Call /\ call.to = to
    BY ResetCallType
  <2> HIDE DEF call
  <2>2. CASE recursive
    <3>1. /\ \A c \in Reached(to) : IsContainer(log, c)
          /\ Perform(b, ResetChanges(Reached(to), to), <<call, call>>)
      BY <1>4, <2>2 DEF Reset, call
    <3>2. Reached(to) \in SUBSET Muid /\ <<call, call>> \in Seq(Call)
      BY <2>1, BundlerFacts, ReachedType
    <3>3. Resets(Reached(to), to) /\ log'[n].calls = <<call, call>>
      BY <1>3, <3>1, <3>2
    <3>4. Root \in Reached(to) /\ Deep(Reached(to), to)
      BY <3>3, ReachedFacts
    <3>5. Len(log'[n].calls) = 2 /\ log'[n].calls[1].to = to
      BY <2>1, <3>3
    <3>6. QED
      BY <3>3, <3>4, <3>5
  <2>3. CASE ~recursive
    <3>1. /\ \A c \in {Root} : IsContainer(log, c)
          /\ Perform(b, ResetChanges({Root}, to), <<call>>)
      BY <1>4, <2>3 DEF Reset, call
    <3>2. {Root} \in SUBSET Muid /\ <<call>> \in Seq(Call)
      BY <2>1, MuidFacts
    <3>3. Resets({Root}, to) /\ log'[n].calls = <<call>>
      BY <1>3, <3>1, <3>2
    <3>4. Len(log'[n].calls) = 1 /\ log'[n].calls[1].to = to
      BY <2>1, <3>3
    <3>5. QED
      BY <3>3, <3>4
  <2>4. QED
    BY <2>2, <2>3
<1>5. ASSUME NEW b \in Bundler \cup {None}, NEW to \in DOMAIN log, ResetAll(b, to)
      PROVE  \E containers :
                 /\ Resets(containers, log'[n].calls[1].to)
                 /\ Root \in containers
                 /\ Len(log'[n].calls) = 2 /\ Deep(containers, log'[n].calls[1].to)
  <2> DEFINE call == ResetCall(to, b)
             all  == {m \in Muids(log) \cup {Root} : IsContainer(log, m)}
  <2>1. call \in Call /\ call.to = to
    BY ResetCallType
  <2>2. Perform(b, ResetChanges(all, to), <<call, call>>)
    BY <1>5 DEF ResetAll
  <2>3. /\ all \in SUBSET Muid /\ \A c \in all : IsContainer(log, c)
        /\ Root \in all /\ Deep(all, to)
    BY BundlerFacts, MuidsFacts, MuidFacts, AllFacts
  <2> HIDE DEF call, all
  <2>4. <<call, call>> \in Seq(Call)
    BY <2>1
  <2>5. Resets(all, to) /\ log'[n].calls = <<call, call>>
    BY <1>3, <2>2, <2>3, <2>4
  <2>6. Len(log'[n].calls) = 2 /\ log'[n].calls[1].to = to
    BY <2>1, <2>5
  <2>7. QED
    BY <2>3, <2>5, <2>6
<1>6. log' # log
  OBVIOUS
<1>7. CASE Exit
  <2>1. active \in Bundler /\ Commits(active)
    BY <1>6, <1>7, BundlerFacts DEF Exit
  <2>2. QED
    BY <1>2, <2>1
<1>8. ASSUME NEW b \in Bundler, Commit(b) \/ Rollback(b) \/ Enter(b)
      PROVE  FALSE
  BY <1>2, <1>6, <1>8 DEF Commit, Rollback, Enter
<1>9. CASE Next
  BY <1>4, <1>5, <1>7, <1>8, <1>9, OnlyResets DEF Next
<1>10. QED
  BY <1>6, <1>9 DEF vars

\* After a reset the directory is what it was at that time: what was set since is
\* deleted, what was overwritten, deleted or cleared since is back
\* (directory_reset_changes, _get_keyed_reset_changes); after a recursive reset and
\* Database.reset, in the directories within it as well.
THEOREM ResetsRestore == Spec => ResetRestores
<1>1. IInv /\ [Next]_vars =>
          [ \A n \in DOMAIN log' \ DOMAIN log :
                LET calls_ == log'[n].calls
                    to     == calls_[1].to
                IN  log'[n].by = None /\ calls_[1].op = "reset" =>
                        \A p \in {q \in Path : Len(q) <= Len(calls_)} :
                            \/ Get(log', p, Now) = Get(log, p, to)
                            \/ \E m \in EntriesOn(log, p, to) : ~Copyable(log, m, to) ]_vars
  <2> SUFFICES ASSUME IInv, [Next]_vars, NEW n \in DOMAIN log', n \notin DOMAIN log,
                      log'[n].by = None, log'[n].calls[1].op = "reset",
                      NEW p \in Path, Len(p) <= Len(log'[n].calls)
               PROVE  \/ Get(log', p, Now) = Get(log, p, log'[n].calls[1].to)
                      \/ \E m \in EntriesOn(log, p, log'[n].calls[1].to) :
                             ~Copyable(log, m, log'[n].calls[1].to)
    OBVIOUS
  <2> DEFINE to == log'[n].calls[1].to
  <2>1. PICK containers :
            /\ Resets(containers, to) /\ Root \in containers
            /\ \/ Len(log'[n].calls) = 1
               \/ Len(log'[n].calls) = 2 /\ Deep(containers, to)
    BY ResetSteps
  <2> HIDE DEF to
  <2>2. CASE \E k \in Key : p = <<k>>
    <3>1. PICK k \in Key : p = <<k>>
      BY <2>2
    <3>2. QED
      BY <2>1, <3>1, OneRestored DEF to
  <2>3. CASE \E k, l \in Key : p = <<k, l>>
    <3>1. PICK k \in Key, l \in Key : p = <<k, l>>
      BY <2>3
    <3>2. Deep(containers, to)
      BY <2>1, <3>1, TwoKeys
    <3>3. CanCopy(Root, k, to) /\ InRoot(log, k, to).type = "pointee" =>
              InRoot(log, k, to).muid \in containers
      BY <3>2 DEF Deep
    <3>4. \/ Get(log', <<k, l>>, Now) = Get(log, <<k, l>>, to)
          \/ \E m \in EntriesOn(log, <<k, l>>, to) : ~Copyable(log, m, to)
      BY <2>1, <3>3, TwoRestored
    <3>5. QED
      BY <3>1, <3>4 DEF to
  <2>4. QED
    BY <2>2, <2>3, PathCases
<1>2. QED
  BY <1>1, AlwaysSound, PTL DEF Spec, ResetRestores

-----------------------------------------------------------------------------
(***************************************************************************)
(* Bundles are serializable.                                               *)
(*                                                                         *)
(* The changes of an open bundler are committed later, to a store that has *)
(* grown meanwhile.  So what is invariant is said of any such store:       *)
(* Replays, that the pending changes, put after it as one bundle, do to    *)
(* the tree what the calls of the bundler do, one after the other.  Each   *)
(* operation adds changes that do what its call does (Does); that is shown *)
(* change by change, in a bundle that is not yet complete (Clean), whose   *)
(* changes may only name offsets that are already there.                   *)
(***************************************************************************)

(* Folds over calls. *)

\* The function behind the fold of the first n calls.
Folds(tree, by, n, g) ==
    g = [s \in SUBSET (1 .. n) |->
            IF s = {} THEN tree ELSE Applied(g[s \ {Max(s)}], by[Max(s)])]

\* The greatest of the first numbers, and of a set that goes no further.
LEMMA MaxOfFirst ==
    ASSUME NEW n \in Nat, NEW s \in SUBSET (1 .. n + 1), n + 1 \in s
    PROVE  Max(s) = n + 1 /\ s \ {Max(s)} \in SUBSET (1 .. n)
<1> DEFINE greatest == n + 1
<1>1. /\ greatest \in s /\ \A y \in s : greatest >= y
      /\ \A x \in s : (\A y \in s : x >= y) => x = greatest
  BY DEF greatest
<1> HIDE DEF greatest
<1>2. Max(s) = greatest
  BY <1>1 DEF Max
<1>3. QED
  BY <1>2 DEF greatest

\* The function exists.
LEMMA FoldExists ==
    ASSUME NEW tree, NEW by
    PROVE  \A n \in Nat : \E g : Folds(tree, by, n, g)
<1> DEFINE Less  == OpToRel(<, Nat)
           Wrong == {n \in Nat : ~ \E g : Folds(tree, by, n, g)}
<1>1. IsWellFoundedOn(Less, Nat)
  BY NatLessThanWellFounded, Zenon
<1>2. \A x, y \in Nat : y < x => <<y, x>> \in Less
  BY DEF OpToRel
<1> HIDE DEF Less
<1>3. ASSUME Wrong # {}
      PROVE  FALSE
  <2>1. PICK n \in Wrong : \A y \in Wrong : <<y, n>> \notin Less
    <3>1. Wrong \subseteq Nat
      OBVIOUS
    <3> HIDE DEF Wrong
    <3>2. QED
      BY <1>1, <1>3, <3>1, WFMin
  <2>2. n # 0
    <3>1. Folds(tree, by, 0, [s \in SUBSET (1 .. 0) |-> tree])
      BY DEF Folds
    <3>2. QED
      BY <2>1, <3>1
  <2>3. PICK m \in Nat : n = m + 1
    <3>1. n - 1 \in Nat /\ n = (n - 1) + 1
      BY <2>2
    <3>2. QED
      BY <3>1
  <2>4. PICK g : Folds(tree, by, m, g)
    <3>1. <<m, n>> \in Less
      <4>1. n \in Nat /\ m < n
        BY <2>1, <2>3
      <4>2. QED
        BY <1>2, <4>1
    <3>2. m \notin Wrong
      BY <2>1, <3>1
    <3>3. QED
      BY <3>2
  <2> DEFINE h == [s \in SUBSET (1 .. m + 1) |->
                      IF m + 1 \in s THEN Applied(g[s \ {m + 1}], by[m + 1]) ELSE g[s]]
             next == [s \in SUBSET (1 .. m + 1) |->
                      IF s = {} THEN tree ELSE Applied(h[s \ {Max(s)}], by[Max(s)])]
  <2>5. ASSUME NEW s \in SUBSET (1 .. m + 1)
        PROVE  h[s] = next[s]
    <3>1. CASE m + 1 \in s
      <4>1. /\ Max(s) = m + 1 /\ s \ {m + 1} \in SUBSET (1 .. m)
            /\ s \ {m + 1} \in SUBSET (1 .. m + 1)
            /\ m + 1 \notin s \ {m + 1} /\ s # {}
        BY <2>5, <3>1, MaxOfFirst
      <4>2. h[s] = Applied(g[s \ {m + 1}], by[m + 1])
        BY <2>5, <3>1
      <4>3. h[s \ {m + 1}] = g[s \ {m + 1}]
        BY <4>1
      <4> HIDE DEF h
      <4>4. QED
        BY <2>5, <4>1, <4>2, <4>3
    <3>2. CASE m + 1 \notin s
      <4>1. s \in SUBSET (1 .. m) /\ s \ {Max(s)} \in SUBSET (1 .. m + 1)
            /\ m + 1 \notin s \ {Max(s)}
        <5>1. ASSUME NEW x \in s
              PROVE  x \in 1 .. m
          <6>1. x \in 1 .. m + 1 /\ x # m + 1
            BY <2>5, <3>2
          <6>2. QED
            BY <6>1
        <5>2. s \in SUBSET (1 .. m)
          BY <5>1
        <5>3. 1 .. m \subseteq 1 .. m + 1 /\ m + 1 \notin 1 .. m
          OBVIOUS
        <5>4. QED
          BY <5>2, <5>3
      <4>2. h[s] = g[s] /\ h[s \ {Max(s)}] = g[s \ {Max(s)}]
        BY <3>2, <4>1
      <4>3. g[s] = IF s = {} THEN tree ELSE Applied(g[s \ {Max(s)}], by[Max(s)])
        BY <2>4, <4>1 DEF Folds
      <4> HIDE DEF h
      <4>4. QED
        BY <2>5, <4>2, <4>3
    <3>3. QED
      BY <3>1, <3>2
  <2>6. h = next
    BY <2>5
  <2>7. Folds(tree, by, m + 1, h)
    BY <2>6 DEF Folds
  <2> HIDE DEF h
  <2>8. QED
    BY <2>1, <2>3, <2>7
<1>4. QED
  BY <1>3

\* Two such functions agree as far as the calls agree.
LEMMA FoldsAgree ==
    ASSUME NEW tree, NEW by, NEW other, NEW n \in Nat, NEW m \in Nat, NEW g, NEW h,
           Folds(tree, by, n, g), Folds(tree, other, m, h), n <= m,
           \A j \in 1 .. n : by[j] = other[j]
    PROVE  g[1 .. n] = h[1 .. n]
<1> DEFINE Less  == OpToRel(<, Nat)
           Wrong == {i \in 0 .. n : g[1 .. i] # h[1 .. i]}
<1>1. IsWellFoundedOn(Less, Nat)
  BY NatLessThanWellFounded, Zenon
<1>2. \A x, y \in Nat : y < x => <<y, x>> \in Less
  BY DEF OpToRel
<1> HIDE DEF Less
<1>3. ASSUME Wrong # {}
      PROVE  FALSE
  <2>1. PICK i \in Wrong : \A y \in Wrong : <<y, i>> \notin Less
    <3>1. Wrong \subseteq Nat
      OBVIOUS
    <3> HIDE DEF Wrong
    <3>2. QED
      BY <1>1, <1>3, <3>1, WFMin
  <2>2. CASE i = 0
    <3>1. 1 .. i = {} /\ {} \in SUBSET (1 .. n) /\ {} \in SUBSET (1 .. m)
      BY <2>2
    <3>2. g[{}] = tree /\ h[{}] = tree
      BY <3>1 DEF Folds
    <3>3. QED
      BY <2>1, <3>1, <3>2
  <2>3. CASE i # 0
    <3>1. /\ i - 1 \in Nat /\ i - 1 \in 0 .. n /\ i - 1 < i /\ i \in 1 .. n
          /\ 1 .. i \in SUBSET (1 .. n) /\ 1 .. i \in SUBSET (1 .. m) /\ 1 .. i # {}
      <4>1. i \in 1 .. n /\ i - 1 \in Nat /\ i - 1 \in 0 .. n /\ i - 1 < i
        BY <2>1, <2>3
      <4>2. 1 .. i \in SUBSET (1 .. n) /\ 1 .. i \in SUBSET (1 .. m)
        BY <4>1
      <4>3. i \in 1 .. i
        BY <4>1
      <4>4. 1 .. i # {}
        BY <4>3
      <4>5. QED
        BY <4>1, <4>2, <4>4
    <3>2. g[1 .. i - 1] = h[1 .. i - 1]
      <4>1. <<i - 1, i>> \in Less
        BY <1>2, <2>1, <3>1
      <4>2. i - 1 \notin Wrong
        BY <2>1, <4>1
      <4>3. QED
        BY <3>1, <4>2
    <3>3. Max(1 .. i) = i /\ (1 .. i) \ {Max(1 .. i)} = 1 .. i - 1
      <4>1. (i - 1) + 1 = i /\ i \in 1 .. i /\ (1 .. i) \ {i} = 1 .. i - 1
        BY <3>1
      <4>2. Max(1 .. i) = i
        <5>1. \A s \in SUBSET (1 .. (i - 1) + 1) : (i - 1) + 1 \in s => Max(s) = (i - 1) + 1
          BY <3>1, MaxOfFirst
        <5>2. QED
          BY <4>1, <5>1
      <4>3. QED
        BY <4>1, <4>2
    <3>4. g[1 .. i] = Applied(g[1 .. i - 1], by[i])
      BY <3>1, <3>3 DEF Folds
    <3>5. h[1 .. i] = Applied(h[1 .. i - 1], other[i])
      BY <3>1, <3>3 DEF Folds
    <3>6. QED
      BY <2>1, <3>1, <3>2, <3>4, <3>5
  <2>4. QED
    BY <2>2, <2>3
<1>4. QED
  BY <1>3

\* A fold over calls is the value of such a function.
LEMMA FoldIs ==
    ASSUME NEW tree, NEW by \in Seq(Call)
    PROVE  \E g : Folds(tree, by, Len(by), g) /\ FoldLeft(Applied, tree, by) = g[1 .. Len(by)]
<1> DEFINE D == DOMAIN by
           Body(g) == [s \in SUBSET D |->
                         IF s = {} THEN tree ELSE Applied(g[s \ {Max(s)}], by[Max(s)])]
<1>1. FoldLeft(Applied, tree, by) = (CHOOSE g : g = Body(g))[D]
  BY DEF FoldLeft, MapThenFoldSet
<1>2. D = 1 .. Len(by) /\ Len(by) \in Nat
  BY LenProperties
<1>3. \A g : Folds(tree, by, Len(by), g) <=> g = Body(g)
  BY <1>2 DEF Folds
<1> HIDE DEF Body, D
<1>4. \E g : g = Body(g)
  BY <1>2, <1>3, FoldExists
<1>5. PICK g : g = Body(g) /\ g = CHOOSE h : h = Body(h)
  BY <1>4
<1>6. QED
  BY <1>1, <1>2, <1>3, <1>5

\* The last call is performed last.
LEMMA FoldAppend ==
    ASSUME NEW tree, NEW by \in Seq(Call), NEW call \in Call
    PROVE  FoldLeft(Applied, tree, Append(by, call)) = Applied(FoldLeft(Applied, tree, by), call)
<1> DEFINE more == Append(by, call)
           n    == Len(by)
<1>1. /\ more \in Seq(Call) /\ Len(more) = n + 1 /\ n \in Nat
      /\ \A j \in 1 .. n : by[j] = more[j]
      /\ more[n + 1] = call
  BY AppendProperties, LenProperties
<1>2. PICK g : Folds(tree, by, n, g) /\ FoldLeft(Applied, tree, by) = g[1 .. n]
  BY FoldIs
<1> HIDE DEF more, n
<1>3. PICK h : Folds(tree, more, n + 1, h) /\ FoldLeft(Applied, tree, more) = h[1 .. n + 1]
  BY <1>1, FoldIs
<1>4. g[1 .. n] = h[1 .. n]
  BY <1>1, <1>2, <1>3, FoldsAgree
<1>5. h[1 .. n + 1] = Applied(h[1 .. n], call)
  <2>1. /\ 1 .. n + 1 \in SUBSET (1 .. n + 1) /\ n + 1 \in 1 .. n + 1
        /\ (1 .. n + 1) \ {n + 1} = 1 .. n /\ 1 .. n + 1 # {}
    <3>1. n + 1 \in 1 .. n + 1
      BY <1>1
    <3>2. (1 .. n + 1) \ {n + 1} = 1 .. n
      BY <1>1
    <3>3. QED
      BY <3>1, <3>2
  <2>2. Max(1 .. n + 1) = n + 1
    BY <1>1, <2>1, MaxOfFirst
  <2>3. \A s \in SUBSET (1 .. n + 1) :
            h[s] = IF s = {} THEN tree ELSE Applied(h[s \ {Max(s)}], more[Max(s)])
    BY <1>3 DEF Folds
  <2>4. h[1 .. n + 1] = Applied(h[(1 .. n + 1) \ {n + 1}], more[n + 1])
    <3> DEFINE all == 1 .. n + 1
    <3> HIDE DEF all
    <3>1. all \in SUBSET (1 .. n + 1) /\ all # {} /\ Max(all) = n + 1
      BY <2>1, <2>2 DEF all
    <3>2. h[all] = Applied(h[all \ {n + 1}], more[n + 1])
      BY <2>3, <3>1
    <3>3. QED
      BY <3>2 DEF all
  <2>5. QED
    BY <1>1, <2>1, <2>4
<1>6. QED
  BY <1>2, <1>3, <1>4, <1>5 DEF more, n

\* No calls leave the tree as it is.
LEMMA FoldNothing ==
    ASSUME NEW tree
    PROVE  FoldLeft(Applied, tree, <<>>) = tree
<1>1. <<>> \in Seq(Call) /\ Len(<<>>) = 0 /\ 1 .. 0 = {}
  OBVIOUS
<1>2. PICK g : Folds(tree, <<>>, 0, g) /\ FoldLeft(Applied, tree, <<>>) = g[1 .. 0]
  BY <1>1, FoldIs
<1>3. {} \in SUBSET (1 .. 0)
  OBVIOUS
<1>4. g[{}] = tree
  BY <1>2, <1>3 DEF Folds
<1>5. QED
  BY <1>1, <1>2, <1>4

-----------------------------------------------------------------------------
(* One change more in the last bundle. *)

\* What an entry of bundle t puts under its key.
Resolved(o, t) == IF o.type = "pointee" THEN Pointee(Absolute(o.muid, t)) ELSE o

\* Two stores with the same changes, but for one at the end of the second.
OneMore(store, longer, ch) ==
    LET n == Len(store)
    IN  /\ StoreOK(store) /\ StoreOK(longer)
        /\ n # 0 /\ Len(longer) = n
        /\ \A t \in DOMAIN store : t # n => longer[t].changes = store[t].changes
        /\ ch \in Change /\ longer[n].changes = Append(store[n].changes, ch)

\* The muid of that change.
Newest(store) == [time |-> Len(store), offset |-> Len(store[Len(store)].changes) + 1]

LEMMA MoreFacts ==
    ASSUME NEW store, NEW longer, NEW ch, OneMore(store, longer, ch)
    PROVE  LET n   == Len(store)
               new == Newest(store)
           IN  /\ StoreOK(store) /\ StoreOK(longer) /\ ch \in Change
               /\ n \in 1 .. MaxBundles /\ n < Now /\ Len(longer) = n
               /\ new \in Muid /\ new.time = n /\ new \notin Muids(store)
               /\ Muids(longer) = Muids(store) \cup {new}
               /\ At(longer, new) = ch
               /\ \A m \in Muids(store) : At(longer, m) = At(store, m) /\ ~Before(new, m)
<1> DEFINE n    == Len(store)
           list == store[n].changes
           i    == Len(list) + 1
           new  == Newest(store)
<1>1. /\ StoreOK(store) /\ StoreOK(longer) /\ ch \in Change /\ Len(longer) = n
      /\ DOMAIN store = 1 .. n /\ DOMAIN longer = 1 .. n
      /\ n \in 1 .. MaxBundles /\ n < Now
  <2>1. StoreOK(store) /\ StoreOK(longer) /\ ch \in Change /\ Len(longer) = n /\ n # 0
    BY DEF OneMore
  <2>2. DOMAIN store = 1 .. n /\ DOMAIN longer = 1 .. n /\ n \in 0 .. MaxBundles
    BY <2>1, MuidsFacts
  <2>3. QED
    BY <2>1, <2>2, Bounds DEF Now
<1>2. /\ list \in Seq(Change) /\ longer[n].changes = Append(list, ch)
      /\ i \in 1 .. MaxChanges
      /\ DOMAIN list = 1 .. Len(list) /\ DOMAIN longer[n].changes = 1 .. i
      /\ \A j \in 1 .. Len(list) : longer[n].changes[j] = list[j]
      /\ longer[n].changes[i] = ch
  <2>1. store[n] \in Bundles /\ n \in DOMAIN store /\ n \in DOMAIN longer
    BY <1>1, ElementOfSeq DEF StoreOK
  <2>2. list \in Seq(Change) /\ longer[n].changes = Append(list, ch)
    BY <2>1 DEF Bundles, OneMore
  <2>3. /\ Len(longer[n].changes) = i /\ Len(list) \in Nat
        /\ Append(list, ch) \in Seq(Change)
        /\ \A j \in 1 .. Len(list) : longer[n].changes[j] = list[j]
        /\ longer[n].changes[i] = ch
    BY <1>1, <2>2, AppendProperties, LenProperties
  <2>4. Len(longer[n].changes) <= MaxChanges
    BY <1>1, <2>1 DEF StoreOK
  <2>5. QED
    BY <2>2, <2>3, <2>4, LenProperties, Bounds
<1>3. new = [time |-> n, offset |-> i] /\ new.time = n /\ new.offset = i /\ new \in Muid
  <2>1. n \in -1 .. MaxBundles /\ i \in 0 .. MaxChanges
    BY <1>1, <1>2, Bounds
  <2>2. QED
    BY <2>1, MuidFacts DEF Newest
<1>4. \A t \in DOMAIN store : t # n => longer[t].changes = store[t].changes
  BY DEF OneMore
<1>5. ASSUME NEW m \in Muids(store)
      PROVE  m \in Muids(longer) /\ At(longer, m) = At(store, m) /\ ~Before(new, m) /\ m # new
  <2>1. /\ m.time \in 1 .. n /\ m.offset \in DOMAIN store[m.time].changes
        /\ m = [time |-> m.time, offset |-> m.offset]
    BY <1>1, MuidsFacts, MuidFacts
  <2>2. CASE m.time # n
    <3>1. longer[m.time].changes = store[m.time].changes
      BY <1>1, <1>4, <2>1, <2>2
    <3>2. [time |-> m.time, offset |-> m.offset] \in Muids(longer)
      BY <1>1, <2>1, <3>1, MuidsFacts
    <3>3. QED
      BY <1>1, <1>3, <2>1, <2>2, <3>1, <3>2 DEF At, Before
  <2>3. CASE m.time = n
    <3>1. m.offset \in 1 .. Len(list) /\ m.offset \in 1 .. i /\ m.offset < i
      BY <1>2, <2>1, <2>3
    <3>2. [time |-> n, offset |-> m.offset] \in Muids(longer)
      <4>1. n \in DOMAIN longer /\ m.offset \in DOMAIN longer[n].changes
        BY <1>1, <1>2, <3>1
      <4> HIDE DEF n
      <4>2. QED
        BY <1>1, <4>1, MuidsFacts
    <3>3. QED
      BY <1>1, <1>2, <1>3, <2>1, <2>3, <3>1, <3>2 DEF At, Before
  <2>4. QED
    BY <2>2, <2>3
<1>6. new \in Muids(longer) /\ At(longer, new) = ch
  <2>1. [time |-> n, offset |-> i] \in Muids(longer)
    BY <1>1, <1>2, MuidsFacts
  <2>2. QED
    BY <1>2, <1>3, <2>1 DEF At
<1>7. ASSUME NEW m \in Muids(longer), m # new
      PROVE  m \in Muids(store)
  <2>1. /\ m.time \in 1 .. n /\ m.offset \in DOMAIN longer[m.time].changes
        /\ m = [time |-> m.time, offset |-> m.offset]
    BY <1>1, MuidsFacts, MuidFacts
  <2>2. m.offset \in DOMAIN store[m.time].changes
    <3>1. CASE m.time # n
      BY <1>1, <1>4, <2>1, <3>1
    <3>2. CASE m.time = n
      <4>1. m.offset \in 1 .. i /\ m.offset # i
        BY <1>2, <1>3, <1>7, <2>1, <3>2
      <4>2. QED
        BY <1>2, <3>2, <4>1
    <3>3. QED
      BY <3>1, <3>2
  <2>3. QED
    BY <1>1, <2>1, <2>2, MuidsFacts
<1>8. QED
  <2> HIDE DEF new
  <2>1. Muids(longer) = Muids(store) \cup {new}
    BY <1>5, <1>6, <1>7
  <2>2. QED
    BY <1>1, <1>3, <1>5, <1>6, <2>1 DEF new

\* What the same entries contain.
LEMMA SameOccupant ==
    ASSUME NEW store, NEW longer, NEW found \in SUBSET Muids(store),
           \A m \in Muids(store) : At(longer, m) = At(store, m)
    PROVE  OccupantOf(longer, found) = OccupantOf(store, found)
<1>1. CASE found = {}
  BY <1>1 DEF OccupantOf
<1>2. CASE found # {}
  <2> DEFINE m == CHOOSE m \in found : TRUE
  <2>1. m \in found
    BY <1>2
  <2> HIDE DEF m
  <2>2. At(longer, m) = At(store, m)
    BY <2>1
  <2>3. QED
    BY <1>2, <2>2 DEF OccupantOf, m
<1>3. QED
  BY <1>1, <1>2

\* Another change that is not about a key of a container leaves what is found there.
LEMMA MoreElsewhere ==
    ASSUME NEW store, NEW longer, NEW ch, OneMore(store, longer, ch), NEW c, NEW k,
           ch.type = "entry" => Absolute(ch.container, Len(store)) # c \/ ch.key # k,
           ch.type = "clearance" => Absolute(ch.container, Len(store)) # c
    PROVE  /\ Find(longer, c, k, Now) = Find(store, c, k, Now)
           /\ GetEntryByKey(longer, c, k, Now) = GetEntryByKey(store, c, k, Now)
<1> DEFINE n   == Len(store)
           new == Newest(store)
<1>1. /\ StoreOK(store) /\ new.time = n /\ new \notin Muids(store)
      /\ Muids(longer) = Muids(store) \cup {new}
      /\ At(longer, new) = ch
      /\ \A m \in Muids(store) : At(longer, m) = At(store, m)
  BY MoreFacts
<1> HIDE DEF new
<1>2. About(longer, "clearance", c, Now) = About(store, "clearance", c, Now)
  BY <1>1 DEF About
<1>3. Entries(longer, c, k, Now) = Entries(store, c, k, Now)
  BY <1>1 DEF Entries, About
<1>4. LastEntry(longer, c, k, Now) = LastEntry(store, c, k, Now)
  BY <1>3 DEF LastEntry, Entries
<1>5. GetEntryByKey(longer, c, k, Now) = GetEntryByKey(store, c, k, Now)
  BY <1>2, <1>4 DEF GetEntryByKey, PriorClear
<1>6. GetEntryByKey(store, c, k, Now) \in SUBSET Muids(store)
  BY EntriesFacts
<1>7. QED
  BY <1>1, <1>5, <1>6, SameOccupant DEF Find

\* Another entry is what is found under its key.
LEMMA MoreThere ==
    ASSUME NEW store, NEW longer, NEW ch, OneMore(store, longer, ch), ch.type = "entry"
    PROVE  Find(longer, Absolute(ch.container, Len(store)), ch.key, Now)
               = Resolved(ch.occupant, Len(store))
<1> DEFINE n   == Len(store)
           new == Newest(store)
           c   == Absolute(ch.container, n)
           k   == ch.key
<1>1. /\ StoreOK(longer) /\ new.time = n /\ n < Now /\ Len(longer) = n /\ n \in 1 .. MaxBundles
      /\ Muids(longer) = Muids(store) \cup {new}
      /\ At(longer, new) = ch
      /\ \A m \in Muids(store) : At(longer, m) = At(store, m) /\ ~Before(new, m)
  BY MoreFacts
<1>2. ~Before(new, new)
  BY <1>1, MoreFacts, MuidFacts DEF Before
<1> HIDE DEF new, c, k
<1>3. new \in Entries(longer, c, k, Now) /\ \A m \in Entries(longer, c, k, Now) : ~Before(new, m)
  BY <1>1, <1>2 DEF Entries, About, c, k
<1>4. new \in LastEntry(longer, c, k, Now)
  BY <1>3 DEF Entries, LastEntry
<1>5. PriorClear(longer, c, Now) \in 0 .. n
  BY <1>1, PriorClearFacts
<1>6. new \in GetEntryByKey(longer, c, k, Now)
  BY <1>1, <1>4, <1>5 DEF GetEntryByKey
<1>7. Find(longer, c, k, Now) = OccupantOf(longer, {new})
  BY <1>1, <1>6, FoundFacts
<1>8. QED
  BY <1>1, <1>7, OccupantOfOne DEF Resolved, c, k

\* The containers of a store.
LEMMA IsContainerFacts ==
    ASSUME NEW store, StoreOK(store), NEW m \in Muid
    PROVE  IsContainer(store, m) <=>
               m = Root \/ (m \in Muids(store) /\ At(store, m).type = "container")
<1>1. m = [time |-> m.time, offset |-> m.offset]
  BY MuidFacts
<1>2. m.time \in DOMAIN store /\ m.offset \in DOMAIN store[m.time].changes <=> m \in Muids(store)
  BY <1>1, MuidsFacts
<1>3. QED
  BY <1>2 DEF IsContainer

\* Only another container is one more.
LEMMA MoreContainers ==
    ASSUME NEW store, NEW longer, NEW ch, OneMore(store, longer, ch), NEW m \in Muid
    PROVE  /\ m # Newest(store) \/ ch.type # "container" =>
                  (IsContainer(longer, m) <=> IsContainer(store, m))
           /\ ch.type = "container" => IsContainer(longer, Newest(store))
<1> DEFINE new == Newest(store)
<1>1. /\ StoreOK(store) /\ StoreOK(longer) /\ new \in Muid
      /\ Muids(longer) = Muids(store) \cup {new} /\ new \notin Muids(store)
      /\ At(longer, new) = ch
      /\ \A x \in Muids(store) : At(longer, x) = At(store, x)
  BY MoreFacts
<1> HIDE DEF new
<1>2. QED
  BY <1>1, IsContainerFacts DEF new

\* What is found after another entry, and after another container.
LEMMA FindMore ==
    ASSUME NEW store, NEW longer, NEW ch, OneMore(store, longer, ch)
    PROVE  /\ ch.type = "entry" =>
                  \A c, k : Find(longer, c, k, Now) =
                                IF Absolute(ch.container, Len(store)) = c /\ ch.key = k
                                THEN Resolved(ch.occupant, Len(store))
                                ELSE Find(store, c, k, Now)
           /\ ch.type = "container" => \A c, k : Find(longer, c, k, Now) = Find(store, c, k, Now)
<1>1. ASSUME NEW c, NEW k, ch.type = "entry",
             ~(Absolute(ch.container, Len(store)) = c /\ ch.key = k)
      PROVE  Find(longer, c, k, Now) = Find(store, c, k, Now)
  BY <1>1, MoreElsewhere
<1>2. ASSUME NEW c, NEW k, ch.type = "container"
      PROVE  Find(longer, c, k, Now) = Find(store, c, k, Now)
  BY <1>2, MoreElsewhere
<1>3. ch.type = "entry" =>
          Find(longer, Absolute(ch.container, Len(store)), ch.key, Now)
              = Resolved(ch.occupant, Len(store))
  BY MoreThere
<1>4. QED
  BY <1>1, <1>2, <1>3

\* A clearance that no entry precedes in its bundle leaves nothing in the root
\* directory, and other directories as they are.
LEMMA FindCleared ==
    ASSUME NEW store, NEW longer, OneMore(store, longer, Clearance(Root)),
           \A i \in DOMAIN store[Len(store)].changes :
               store[Len(store)].changes[i].type = "container"
    PROVE  /\ \A k : Find(longer, Root, k, Now) = Deletion
           /\ \A c, k : c # Root => Find(longer, c, k, Now) = Find(store, c, k, Now)
<1> DEFINE n   == Len(store)
           new == Newest(store)
           ch  == Clearance(Root)
<1>1. /\ StoreOK(store) /\ StoreOK(longer) /\ new.time = n /\ n < Now /\ Len(longer) = n
      /\ n \in 1 .. MaxBundles
      /\ Muids(longer) = Muids(store) \cup {new}
      /\ At(longer, new) = ch
  BY MoreFacts
<1>2. ch.type = "clearance" /\ ch.container = Root /\ Absolute(Root, n) = Root
  <2>1. Absolute(Root, n) = Root
    <3>1. Root.time # 0
      BY DEF Root
    <3>2. QED
      BY <1>1, <3>1, AbsoluteFacts, MuidFacts
  <2>2. QED
    BY <2>1 DEF Clearance
<1> HIDE DEF new, ch
<1>3. ASSUME NEW c, NEW k, c # Root
      PROVE  Find(longer, c, k, Now) = Find(store, c, k, Now)
  BY <1>2, <1>3, MoreElsewhere DEF ch
<1>4. ASSUME NEW k
      PROVE  Find(longer, Root, k, Now) = Deletion
  <2>1. PriorClear(longer, Root, Now) \in 0 .. n /\ n <= PriorClear(longer, Root, Now)
    <3>1. new \in About(longer, "clearance", Root, Now)
      BY <1>1, <1>2 DEF About
    <3>2. QED
      BY <1>1, <3>1, PriorClearFacts
  <2>2. ASSUME NEW m \in GetEntryByKey(longer, Root, k, Now)
        PROVE  FALSE
    <3>1. m \in Muids(longer) /\ At(longer, m).type = "entry"
      BY EntriesFacts
    <3>2. m \in Muids(store)
      BY <1>1, <1>2, <3>1
    <3>3. m.time \in 1 .. n /\ m.time # n
      <4>1. m.time \in DOMAIN store /\ m.offset \in DOMAIN store[m.time].changes
            /\ DOMAIN store = 1 .. n
        BY <1>1, <3>2, MuidsFacts
      <4>2. At(store, m).type = "entry"
        BY <1>1, <3>1, <3>2, MoreFacts
      <4>3. QED
        BY <4>1, <4>2 DEF At
    <3>4. m.time >= PriorClear(longer, Root, Now)
      BY DEF GetEntryByKey
    <3>5. QED
      BY <1>1, <2>1, <3>3, <3>4
  <2>3. GetEntryByKey(longer, Root, k, Now) = {}
    BY <2>2
  <2>4. QED
    BY <2>3 DEF Find, OccupantOf
<1>5. QED
  BY <1>3, <1>4

-----------------------------------------------------------------------------
(* What calls do to the tree. *)

\* Which paths begin with which.
LEMMA PrefixFacts ==
    /\ \A k, i : IsPrefix(<<k>>, <<i>>) <=> k = i
    /\ \A k, i, j : IsPrefix(<<k>>, <<i, j>>) <=> k = i
    /\ \A k, l, i : ~IsPrefix(<<k, l>>, <<i>>)
    /\ \A k, l, i, j : IsPrefix(<<k, l>>, <<i, j>>) <=> k = i /\ l = j
<1>1. \A x : Len(<<x>>) = 1 /\ SubSeq(<<x>>, 1, 1) = <<x>>
  <2>1. ASSUME NEW x
        PROVE  SubSeq(<<x>>, 1, 1) = <<x>>
    <3> DEFINE q == <<x>>
    <3>1. q \in Seq({x}) /\ Len(q) = 1 /\ q[1] = x
      OBVIOUS
    <3> HIDE DEF q
    <3>2. SubSeq(q, 1, 1) = [y \in 1 .. 1 |-> q[y]] /\ q = [y \in 1 .. 1 |-> q[y]]
      BY <3>1
    <3>3. QED
      BY <3>2 DEF q
  <2>2. QED
    BY <2>1
<1>2. \A x, y : Len(<<x, y>>) = 2 /\ SubSeq(<<x, y>>, 1, 1) = <<x>> /\ SubSeq(<<x, y>>, 1, 2) = <<x, y>>
  <2>1. ASSUME NEW x, NEW y
        PROVE  SubSeq(<<x, y>>, 1, 2) = <<x, y>>
    <3> DEFINE q == <<x, y>>
    <3>1. q \in Seq({x, y}) /\ Len(q) = 2
      OBVIOUS
    <3> HIDE DEF q
    <3>2. SubSeq(q, 1, 2) = [z \in 1 .. 2 |-> q[z]] /\ q = [z \in 1 .. 2 |-> q[z]]
      BY <3>1
    <3>3. QED
      BY <3>2 DEF q
  <2>2. QED
    BY <2>1, TwoKeys
<1>3. \A k, i : IsPrefix(<<k>>, <<i>>) <=> <<k>> = <<i>>
  BY <1>1 DEF IsPrefix
<1>4. \A k, i, j : IsPrefix(<<k>>, <<i, j>>) <=> <<k>> = <<i>>
  BY <1>1, <1>2 DEF IsPrefix
<1>5. \A k, l, i : ~IsPrefix(<<k, l>>, <<i>>)
  BY <1>1, <1>2 DEF IsPrefix
<1>6. \A k, l, i, j : IsPrefix(<<k, l>>, <<i, j>>) <=> <<k, l>> = <<i, j>>
  BY <1>2 DEF IsPrefix
<1>7. QED
  BY <1>3, <1>4, <1>5, <1>6

\* What is in a tree.
LEMMA TreeFacts ==
    ASSUME NEW store, NEW x
    PROVE  x \in Tree(store, Now) <=>
               \E p \in Path : Get(store, p, Now).type = "value" /\ x = <<p, Get(store, p, Now).value>>
BY DEF Tree

\* A tree in which a path has a new value, and which is otherwise the same.
LEMMA TreeOfSet ==
    ASSUME NEW store, NEW longer, NEW call, call.op = "set", call.path \in Path,
           Get(longer, call.path, Now) = Plain(call.value),
           \A p \in Path : \/ p = call.path
                           \/ IF IsPrefix(call.path, p) \/ IsPrefix(p, call.path)
                              THEN Get(longer, p, Now).type # "value"
                              ELSE Get(longer, p, Now) = Get(store, p, Now)
    PROVE  Tree(longer, Now) = Applied(Tree(store, Now), call)
<1> DEFINE q     == call.path
           there == Tree(store, Now)
           kept  == {x \in there : ~IsPrefix(q, x[1]) /\ ~IsPrefix(x[1], q)}
<1>1. Applied(there, call) = kept \cup {<<q, call.value>>}
  BY DEF Applied
<1>2. IsPrefix(q, q)
  <2>1. CASE \E k \in Key : q = <<k>>
    <3>1. PICK k \in Key : q = <<k>>
      BY <2>1
    <3>2. IsPrefix(<<k>>, <<k>>)
      BY PrefixFacts
    <3>3. QED
      BY <3>1, <3>2
  <2>2. CASE \E k, l \in Key : q = <<k, l>>
    <3>1. PICK k \in Key, l \in Key : q = <<k, l>>
      BY <2>2
    <3>2. IsPrefix(<<k, l>>, <<k, l>>)
      BY PrefixFacts
    <3>3. QED
      BY <3>1, <3>2
  <2>3. QED
    BY <2>1, <2>2, PathCases
<1>3. <<q, call.value>> \in Tree(longer, Now)
  BY TreeFacts, OccupantFacts
<1> HIDE DEF there
<1>4. ASSUME NEW x \in kept
      PROVE  x \in Tree(longer, Now)
  <2>1. PICK p \in Path : Get(store, p, Now).type = "value" /\ x = <<p, Get(store, p, Now).value>>
    BY TreeFacts DEF there
  <2>2. ~IsPrefix(q, p) /\ ~IsPrefix(p, q)
    BY <2>1
  <2>3. Get(longer, p, Now) = Get(store, p, Now)
    BY <1>2, <2>2
  <2>4. QED
    BY <2>1, <2>3, TreeFacts
<1>5. ASSUME NEW x \in Tree(longer, Now)
      PROVE  x \in kept \cup {<<q, call.value>>}
  <2>1. PICK p \in Path : Get(longer, p, Now).type = "value" /\ x = <<p, Get(longer, p, Now).value>>
    BY TreeFacts
  <2>2. CASE p = q
    BY <2>1, <2>2, OccupantFacts
  <2>3. CASE p # q
    <3>1. ~IsPrefix(q, p) /\ ~IsPrefix(p, q) /\ Get(longer, p, Now) = Get(store, p, Now)
      BY <2>1, <2>3
    <3>2. x \in there /\ x[1] = p
      BY <2>1, <3>1, TreeFacts DEF there
    <3>3. QED
      BY <3>1, <3>2
  <2>4. QED
    BY <2>2, <2>3
<1>6. QED
  BY <1>1, <1>3, <1>4, <1>5 DEF there

\* A tree from which a path is gone, and which is otherwise the same.
LEMMA TreeOfDelete ==
    ASSUME NEW store, NEW longer, NEW call, call.op = "delete", call.path \in Path,
           \A p \in Path : IF IsPrefix(call.path, p)
                           THEN Get(longer, p, Now).type # "value"
                           ELSE Get(longer, p, Now) = Get(store, p, Now)
    PROVE  Tree(longer, Now) = Applied(Tree(store, Now), call)
<1> DEFINE q     == call.path
           there == Tree(store, Now)
           kept  == {x \in there : ~IsPrefix(q, x[1])}
<1>1. Applied(there, call) = kept
  BY DEF Applied
<1> HIDE DEF there
<1>2. ASSUME NEW x \in kept
      PROVE  x \in Tree(longer, Now)
  <2>1. PICK p \in Path : Get(store, p, Now).type = "value" /\ x = <<p, Get(store, p, Now).value>>
    BY TreeFacts DEF there
  <2>2. ~IsPrefix(q, p)
    BY <2>1
  <2>3. Get(longer, p, Now) = Get(store, p, Now)
    BY <2>2
  <2>4. QED
    BY <2>1, <2>3, TreeFacts
<1>3. ASSUME NEW x \in Tree(longer, Now)
      PROVE  x \in kept
  <2>1. PICK p \in Path : Get(longer, p, Now).type = "value" /\ x = <<p, Get(longer, p, Now).value>>
    BY TreeFacts
  <2>2. ~IsPrefix(q, p) /\ Get(longer, p, Now) = Get(store, p, Now)
    BY <2>1
  <2>3. x \in there /\ x[1] = p
    BY <2>1, <2>2, TreeFacts DEF there
  <2>4. QED
    BY <2>2, <2>3
<1>4. QED
  BY <1>1, <1>2, <1>3 DEF there

\* A tree without values.
LEMMA TreeOfClear ==
    ASSUME NEW store, NEW longer, NEW call, call.op = "clear",
           \A p \in Path : Get(longer, p, Now).type # "value"
    PROVE  Tree(longer, Now) = Applied(Tree(store, Now), call)
<1>1. Applied(Tree(store, Now), call) = {}
  BY DEF Applied
<1>2. ASSUME NEW x \in Tree(longer, Now)
      PROVE  FALSE
  BY TreeFacts
<1>3. QED
  BY <1>1, <1>2

\* The muids that the last bundle has yet to reach.
Ahead(store, m) == m.time = Len(store) /\ m.offset > Len(store[Len(store)].changes)

\* A store in which the tree is one: no directory is under two keys, none has the root
\* directory in it, and nothing is known of what is ahead.
Clean(store) ==
    /\ StoreOK(store) /\ Len(store) # 0
    /\ ~Aliased(store)
    /\ \A k \in Key : Find(store, Root, k, Now) # Pointee(Root)
    /\ \A m \in Muid : Ahead(store, m) =>
           \A k \in Key : /\ Find(store, m, k, Now) = Deletion
                          /\ \A c \in Muid : Find(store, c, k, Now) # Pointee(m)

\* What is ahead after one change more.
LEMMA AheadMore ==
    ASSUME NEW store, NEW longer, NEW ch, OneMore(store, longer, ch)
    PROVE  /\ \A m \in Muid : Ahead(longer, m) => Ahead(store, m) /\ m # Newest(store)
           /\ Ahead(store, Newest(store)) /\ ~Ahead(longer, Newest(store))
<1> DEFINE n    == Len(store)
           list == store[n].changes
<1>1. /\ StoreOK(store) /\ StoreOK(longer) /\ ch \in Change /\ Len(longer) = n
      /\ n \in 1 .. MaxBundles
  BY MoreFacts
<1>2. list \in Seq(Change) /\ longer[n].changes = Append(list, ch)
  <2>1. n \in DOMAIN store
    BY <1>1, MuidsFacts
  <2>2. store[n] \in Bundles
    BY <1>1, <2>1, ElementOfSeq DEF StoreOK
  <2>3. QED
    BY <2>2 DEF Bundles, OneMore
<1>3. Len(longer[n].changes) = Len(list) + 1 /\ Len(list) \in Nat
  BY <1>1, <1>2, AppendProperties, LenProperties
<1>4. QED
  BY <1>1, <1>3, MuidFacts DEF Ahead, Newest

\* A store in which the tree is one stays so if one more entry points to nothing.
LEMMA CleanMore ==
    ASSUME NEW store, NEW longer, NEW ch, OneMore(store, longer, ch), Clean(store),
           \/ /\ ch.type = "entry" /\ ch.occupant.type # "pointee"
              /\ Absolute(ch.container, Len(store)) \in Muid
              /\ ~Ahead(longer, Absolute(ch.container, Len(store)))
           \/ ch.type = "container"
    PROVE  Clean(longer)
<1>1. StoreOK(longer) /\ Len(longer) # 0
  BY DEF OneMore
<1>2. \A c, k : \/ Find(longer, c, k, Now) = Find(store, c, k, Now)
                \/ /\ Find(longer, c, k, Now).type # "pointee"
                   /\ ~Ahead(longer, c)
  BY FindMore DEF Resolved
<1>3. \A m : Pointee(m).type = "pointee"
  BY OccupantFacts
<1>4. ~Aliased(longer)
  BY <1>2 DEF Clean, Aliased
<1>5. \A k \in Key : Find(longer, Root, k, Now) # Pointee(Root)
  BY <1>2, <1>3 DEF Clean
<1>6. ASSUME NEW m \in Muid, Ahead(longer, m), NEW k \in Key
      PROVE  /\ Find(longer, m, k, Now) = Deletion
             /\ \A c \in Muid : Find(longer, c, k, Now) # Pointee(m)
  <2>1. /\ Find(store, m, k, Now) = Deletion
        /\ \A c \in Muid : Find(store, c, k, Now) # Pointee(m)
    BY <1>6, AheadMore DEF Clean
  <2>2. QED
    BY <1>2, <1>3, <1>6, <2>1
<1>7. QED
  BY <1>1, <1>4, <1>5, <1>6 DEF Clean

\* What is read in the root directory.
LEMMA InRootType ==
    ASSUME NEW store, StoreOK(store), NEW k
    PROVE  /\ InRoot(store, k, Now) \in Readable
           /\ InRoot(store, k, Now).type = "pointee" =>
                  InRoot(store, k, Now) = Find(store, Root, k, Now)
                  /\ InRoot(store, k, Now).muid \in Muid
                  /\ InRoot(store, k, Now) = Pointee(InRoot(store, k, Now).muid)
<1>1. Find(store, Root, k, Now) \in Occupant
  BY FindType
<1>2. \A o \in Occupant : o.type = "pointee" => o = Pointee(o.muid)
  BY DEF Occupant, Pointee
<1>3. Lost.type # "pointee"
  BY DEF Lost
<1>4. QED
  BY <1>1, <1>2, <1>3, OccupantFacts DEF InRoot, GetContainer, Readable

\* The same is read in a directory in which the same is found.
LEMMA SameTraverse ==
    ASSUME NEW store, NEW longer, StoreOK(store), NEW at, NEW l,
           at.type = "pointee" =>
               /\ Find(longer, at.muid, l, Now) = Find(store, at.muid, l, Now)
               /\ GetContainer(longer, Find(store, at.muid, l, Now))
                      = GetContainer(store, Find(store, at.muid, l, Now))
    PROVE  Traverse(longer, at, l, Now) = Traverse(store, at, l, Now)
BY DEF Traverse

\* Nothing but a directory has anything in it.
LEMMA NothingWithin ==
    ASSUME NEW store, NEW at \in Occupant, at.type # "pointee", NEW l
    PROVE  Traverse(store, at, l, Now) = Deletion /\ GetContainer(store, at) = at
<1>1. at.type # "lost" /\ at.type # "pointee"
  BY OccupantFacts
<1>2. QED
  BY <1>1 DEF Traverse, GetContainer

\* An entry in the root directory does what the call does to the tree.
LEMMA EntryInRoot ==
    ASSUME NEW store, NEW longer, NEW ch, OneMore(store, longer, ch), Clean(store),
           ch.type = "entry", ch.container = Root, ch.key \in Key,
           NEW call, call.path = <<ch.key>>,
           \/ call.op = "set" /\ ch.occupant = Plain(call.value)
           \/ call.op = "delete" /\ ch.occupant = Deletion
    PROVE  Clean(longer) /\ Tree(longer, Now) = Applied(Tree(store, Now), call)
<1> DEFINE n == Len(store)
           k == ch.key
<1>1. StoreOK(store) /\ StoreOK(longer) /\ n \in 1 .. MaxBundles /\ ch \in Change /\ Len(longer) = n
  BY MoreFacts
<1>2. Absolute(ch.container, n) = Root /\ ~Ahead(longer, Root)
  BY <1>1, AbsoluteFacts, MuidFacts DEF Root, Ahead
<1>3. ch.occupant \in Occupant /\ ch.occupant.type # "pointee"
  BY <1>1, ChangeFacts, OccupantFacts
<1>4. Resolved(ch.occupant, n) = ch.occupant
  BY <1>3 DEF Resolved
<1>5. \A c, l : Find(longer, c, l, Now) = IF c = Root /\ l = k THEN ch.occupant
                                          ELSE Find(store, c, l, Now)
  BY <1>2, <1>4, FindMore
<1>6. Clean(longer)
  BY <1>2, <1>3, MuidFacts, CleanMore
<1>7. \A o \in Occupant : GetContainer(longer, o) = GetContainer(store, o)
  BY MoreContainers, OccupantFacts DEF GetContainer
<1>8. Get(longer, <<k>>, Now) = ch.occupant /\ InRoot(longer, k, Now) = ch.occupant
  <2>1. Find(longer, Root, k, Now) = ch.occupant
    BY <1>5
  <2>2. GetContainer(longer, ch.occupant) = ch.occupant
    BY <1>3, NothingWithin
  <2>3. QED
    BY <2>1, <2>2, GetOne DEF InRoot
<1>9. ASSUME NEW l \in Key
      PROVE  Get(longer, <<k, l>>, Now) = Deletion
  BY <1>3, <1>8, GetTwo, NothingWithin
<1>10. ASSUME NEW i \in Key, i # k
       PROVE  InRoot(longer, i, Now) = InRoot(store, i, Now)
  BY <1>1, <1>5, <1>7, <1>10, FindType DEF InRoot
<1>11. ASSUME NEW i \in Key, i # k, NEW j \in Key
       PROVE  /\ Get(longer, <<i>>, Now) = Get(store, <<i>>, Now)
              /\ Get(longer, <<i, j>>, Now) = Get(store, <<i, j>>, Now)
  <2>1. InRoot(longer, i, Now) = InRoot(store, i, Now)
    BY <1>10, <1>11
  <2>2. InRoot(store, i, Now).type = "pointee" => InRoot(store, i, Now).muid # Root
    BY <1>1, InRootType DEF Clean
  <2>3. Traverse(longer, InRoot(store, i, Now), j, Now) = Traverse(store, InRoot(store, i, Now), j, Now)
    BY <1>1, <1>5, <1>7, <2>2, FindType, SameTraverse
  <2>4. QED
    BY <2>1, <2>3, GetOne, GetTwo
<1>12. ASSUME NEW p \in Path
       PROVE  /\ IsPrefix(<<k>>, p) /\ p # <<k>> => Get(longer, p, Now) = Deletion
              /\ IsPrefix(p, <<k>>) => p = <<k>>
              /\ ~IsPrefix(<<k>>, p) => Get(longer, p, Now) = Get(store, p, Now)
  <2>1. CASE \E i \in Key : p = <<i>>
    <3>1. PICK i \in Key : p = <<i>>
      BY <2>1
    <3>2. (IsPrefix(<<k>>, <<i>>) <=> k = i) /\ (IsPrefix(<<i>>, <<k>>) <=> k = i)
      BY PrefixFacts
    <3>3. QED
      BY <1>11, <3>1, <3>2
  <2>2. CASE \E i, j \in Key : p = <<i, j>>
    <3>1. PICK i \in Key, j \in Key : p = <<i, j>>
      BY <2>2
    <3>2. (IsPrefix(<<k>>, <<i, j>>) <=> k = i) /\ ~IsPrefix(<<i, j>>, <<k>>)
      BY PrefixFacts
    <3>3. QED
      BY <1>9, <1>11, <3>1, <3>2
  <2>3. QED
    BY <2>1, <2>2, PathCases
<1>13. <<k>> \in Path /\ Deletion.type # "value"
  BY OneKey, OccupantFacts
<1>14. CASE call.op = "set" /\ ch.occupant = Plain(call.value)
  <2>1. Tree(longer, Now) = Applied(Tree(store, Now), call)
    BY <1>8, <1>12, <1>13, <1>14, TreeOfSet
  <2>2. QED
    BY <1>6, <2>1
<1>15. CASE call.op = "delete" /\ ch.occupant = Deletion
  <2>1. Tree(longer, Now) = Applied(Tree(store, Now), call)
    BY <1>8, <1>12, <1>13, <1>15, TreeOfDelete
  <2>2. QED
    BY <1>6, <2>1
<1>16. QED
  BY <1>14, <1>15

\* An entry in a directory within the root directory does what the call does to the
\* tree.
LEMMA EntryWithin ==
    ASSUME NEW store, NEW longer, NEW ch, OneMore(store, longer, ch), Clean(store),
           NEW k \in Key, InRoot(store, k, Now) = Pointee(ch.container),
           ch.type = "entry", ch.key \in Key, ch.container.time # 0,
           NEW call, call.path = <<k, ch.key>>,
           \/ call.op = "set" /\ ch.occupant = Plain(call.value)
           \/ call.op = "delete" /\ ch.occupant = Deletion
    PROVE  Clean(longer) /\ Tree(longer, Now) = Applied(Tree(store, Now), call)
<1> DEFINE n == Len(store)
           c == ch.container
           l == ch.key
<1>1. StoreOK(store) /\ StoreOK(longer) /\ n \in 1 .. MaxBundles /\ ch \in Change /\ Len(longer) = n
  BY MoreFacts
<1>2. /\ c \in Muid /\ ch.occupant \in Occupant /\ ch.occupant.type # "pointee"
      /\ Absolute(c, n) = c
  <2>1. c \in Muid /\ ch.occupant \in Occupant /\ ch.occupant.type # "pointee"
    BY <1>1, ChangeFacts, OccupantFacts
  <2>2. QED
    BY <1>1, <2>1, AbsoluteFacts
<1>3. /\ InRoot(store, k, Now).type = "pointee" /\ InRoot(store, k, Now).muid = c
      /\ Find(store, Root, k, Now) = Pointee(c) /\ c # Root
  <2>1. InRoot(store, k, Now).type = "pointee" /\ InRoot(store, k, Now).muid = c
    BY OccupantFacts
  <2>2. Find(store, Root, k, Now) = Pointee(c)
    BY <1>1, <2>1, InRootType
  <2>3. QED
    BY <2>1, <2>2 DEF Clean
<1>4. ~Ahead(longer, c)
  <2>1. Ahead(longer, c) => Find(store, Root, k, Now) # Pointee(c)
    BY <1>2, AheadMore, MuidFacts DEF Clean
  <2>2. QED
    BY <1>3, <2>1
<1>5. Resolved(ch.occupant, n) = ch.occupant
  BY <1>2 DEF Resolved
<1>6. \A d, i : Find(longer, d, i, Now) = IF d = c /\ i = l THEN ch.occupant
                                          ELSE Find(store, d, i, Now)
  BY <1>2, <1>5, FindMore
<1>7. Clean(longer)
  BY <1>2, <1>4, CleanMore
<1>8. \A o \in Occupant : GetContainer(longer, o) = GetContainer(store, o)
  BY MoreContainers, OccupantFacts DEF GetContainer
<1>9. ASSUME NEW i \in Key
      PROVE  /\ InRoot(longer, i, Now) = InRoot(store, i, Now)
             /\ Get(longer, <<i>>, Now) = Get(store, <<i>>, Now)
  <2>1. Find(longer, Root, i, Now) = Find(store, Root, i, Now)
    BY <1>3, <1>6
  <2>2. InRoot(longer, i, Now) = InRoot(store, i, Now)
    BY <1>1, <1>8, <2>1, FindType DEF InRoot
  <2>3. QED
    BY <2>2, GetOne
<1>10. Get(longer, <<k, l>>, Now) = ch.occupant
  <2>1. InRoot(longer, k, Now) = Pointee(c)
    BY <1>9
  <2>2. Find(longer, c, l, Now) = ch.occupant
    BY <1>6
  <2>3. GetContainer(longer, ch.occupant) = ch.occupant
    BY <1>2, NothingWithin
  <2>4. Traverse(longer, Pointee(c), l, Now) = ch.occupant
    BY <2>2, <2>3, OccupantFacts DEF Traverse
  <2>5. QED
    BY <2>1, <2>4, GetTwo
<1>11. ASSUME NEW i \in Key, NEW j \in Key, ~(i = k /\ j = l)
       PROVE  Get(longer, <<i, j>>, Now) = Get(store, <<i, j>>, Now)
  <2> DEFINE at == InRoot(store, i, Now)
  <2>1. at.type = "pointee" => ~(at.muid = c /\ j = l)
    <3>1. CASE i = k
      BY <1>3, <1>11, <3>1
    <3>2. CASE i # k
      <4>1. ASSUME at.type = "pointee", at.muid = c
            PROVE  FALSE
        <5>1. Find(store, Root, i, Now) = Pointee(c)
          BY <1>1, <4>1, InRootType
        <5>2. Find(store, Root, k, Now).type = "pointee"
          BY <1>3, OccupantFacts
        <5>3. ~Aliased(store)
          BY DEF Clean
        <5>4. QED
          BY <1>3, <3>2, <5>1, <5>2, <5>3 DEF Aliased
      <4>2. QED
        BY <4>1
    <3>3. QED
      BY <3>1, <3>2
  <2>2. Traverse(longer, at, j, Now) = Traverse(store, at, j, Now)
    BY <1>1, <1>6, <1>8, <2>1, FindType, SameTraverse
  <2>3. InRoot(longer, i, Now) = at
    BY <1>9
  <2>4. QED
    BY <2>2, <2>3, GetTwo
<1>12. Get(longer, <<k>>, Now).type # "value"
  BY <1>3, <1>9, GetOne
<1>13. ASSUME NEW p \in Path
       PROVE  /\ IsPrefix(<<k, l>>, p) => p = <<k, l>>
              /\ IsPrefix(p, <<k, l>>) /\ p # <<k, l>> => Get(longer, p, Now).type # "value"
              /\ ~IsPrefix(<<k, l>>, p) => Get(longer, p, Now) = Get(store, p, Now)
  <2>1. CASE \E i \in Key : p = <<i>>
    <3>1. PICK i \in Key : p = <<i>>
      BY <2>1
    <3>2. ~IsPrefix(<<k, l>>, <<i>>) /\ (IsPrefix(<<i>>, <<k, l>>) <=> i = k)
      BY PrefixFacts
    <3>3. QED
      BY <1>9, <1>12, <3>1, <3>2
  <2>2. CASE \E i, j \in Key : p = <<i, j>>
    <3>1. PICK i \in Key, j \in Key : p = <<i, j>>
      BY <2>2
    <3>2. /\ IsPrefix(<<k, l>>, <<i, j>>) <=> k = i /\ l = j
          /\ IsPrefix(<<i, j>>, <<k, l>>) <=> k = i /\ l = j
      BY PrefixFacts
    <3>3. QED
      BY <1>11, <3>1, <3>2
  <2>3. QED
    BY <2>1, <2>2, PathCases
<1>14. <<k, l>> \in Path /\ Deletion.type # "value"
  BY TwoKeys, OccupantFacts
<1>15. CASE call.op = "set" /\ ch.occupant = Plain(call.value)
  <2>1. Tree(longer, Now) = Applied(Tree(store, Now), call)
    BY <1>10, <1>13, <1>14, <1>15, TreeOfSet
  <2>2. QED
    BY <1>7, <2>1
<1>16. CASE call.op = "delete" /\ ch.occupant = Deletion
  <2>1. Tree(longer, Now) = Applied(Tree(store, Now), call)
    BY <1>10, <1>13, <1>14, <1>16, TreeOfDelete
  <2>2. QED
    BY <1>7, <2>1
<1>17. QED
  BY <1>15, <1>16

\* A clearance that no entry precedes does what the call does to the tree.
LEMMA ClearanceFirst ==
    ASSUME NEW store, NEW longer, OneMore(store, longer, Clearance(Root)), Clean(store),
           \A i \in DOMAIN store[Len(store)].changes :
               store[Len(store)].changes[i].type = "container",
           NEW call, call.op = "clear"
    PROVE  Clean(longer) /\ Tree(longer, Now) = Applied(Tree(store, Now), call)
<1>1. StoreOK(store) /\ StoreOK(longer) /\ Len(longer) # 0
  BY DEF OneMore
<1>2. /\ \A k : Find(longer, Root, k, Now) = Deletion
      /\ \A c, k : c # Root => Find(longer, c, k, Now) = Find(store, c, k, Now)
  BY FindCleared
<1>3. Deletion.type = "deletion" /\ Deletion \in Occupant /\ \A m : Pointee(m).type = "pointee"
  BY OccupantFacts
<1>4. ~Aliased(longer)
  BY <1>2, <1>3 DEF Aliased
<1>5. ASSUME NEW m \in Muid, Ahead(longer, m), NEW k \in Key
      PROVE  /\ Find(longer, m, k, Now) = Deletion
             /\ \A c \in Muid : Find(longer, c, k, Now) # Pointee(m)
  <2>1. Ahead(store, m)
    BY <1>5, AheadMore
  <2>2. QED
    BY <1>2, <1>3, <2>1 DEF Clean
<1>6. \A k \in Key : Find(longer, Root, k, Now) # Pointee(Root)
  BY <1>2, <1>3
<1>7. Clean(longer)
  BY <1>1, <1>4, <1>5, <1>6 DEF Clean
<1>8. ASSUME NEW k
      PROVE  InRoot(longer, k, Now) = Deletion
  <2>1. GetContainer(longer, Deletion) = Deletion
    BY <1>3, NothingWithin
  <2>2. QED
    BY <1>2, <2>1 DEF InRoot
<1>9. ASSUME NEW p \in Path
      PROVE  Get(longer, p, Now).type # "value"
  <2>1. \A l : Traverse(longer, Deletion, l, Now) = Deletion
    BY <1>3, NothingWithin
  <2>2. \A k : Get(longer, <<k>>, Now) = Deletion
    BY <1>8, GetOne
  <2>3. \A k, l : Get(longer, <<k, l>>, Now) = Deletion
    BY <1>8, <2>1, GetTwo
  <2>4. QED
    BY <1>3, <2>2, <2>3, PathCases
<1>10. Tree(longer, Now) = Applied(Tree(store, Now), call)
  BY <1>9, TreeOfClear
<1>11. QED
  BY <1>7, <1>10

\* The changes of a new directory and of its first entry.
Founds(s0, s1, s2, s3, k, l, v) ==
    LET new == [time |-> 0, offset |-> Newest(s0).offset]
    IN  /\ OneMore(s0, s1, Container(FALSE))
        /\ OneMore(s1, s2, Entry(Root, k, Pointee(new)))
        /\ OneMore(s2, s3, Entry(new, l, Plain(v)))

\* What is found after these changes, in the new directory and elsewhere.
Founded(store, longer, new, k, l, v) ==
    /\ StoreOK(store) /\ StoreOK(longer)
    /\ new \in Muid /\ new # Root /\ Ahead(store, new)
    /\ \A c, i : Find(longer, c, i, Now) = IF c = Root /\ i = k THEN Pointee(new)
                                          ELSE IF c = new /\ i = l THEN Plain(v)
                                          ELSE Find(store, c, i, Now)
    /\ IsContainer(longer, new)
    /\ \A m \in Muid : m # new => (IsContainer(longer, m) <=> IsContainer(store, m))

LEMMA FoundedFacts ==
    ASSUME NEW s0, NEW s1, NEW s2, NEW s3, NEW k \in Key, NEW l \in Key, NEW v \in Value,
           Founds(s0, s1, s2, s3, k, l, v), Clean(s0), Find(s0, Root, k, Now) = Deletion
    PROVE  Clean(s3) /\ Founded(s0, s3, Newest(s0), k, l, v)
<1> DEFINE n    == Len(s0)
           new  == Newest(s0)
           rel  == [time |-> 0, offset |-> new.offset]
           ch1  == Container(FALSE)
           ch2  == Entry(Root, k, Pointee(rel))
           ch3  == Entry(rel, l, Plain(v))
<1>1. OneMore(s0, s1, ch1) /\ OneMore(s1, s2, ch2) /\ OneMore(s2, s3, ch3)
  BY DEF Founds
<1>2. /\ ch1.type = "container"
      /\ ch2.type = "entry" /\ ch2.container = Root /\ ch2.key = k /\ ch2.occupant = Pointee(rel)
      /\ ch3.type = "entry" /\ ch3.container = rel /\ ch3.key = l /\ ch3.occupant = Plain(v)
  BY DEF Container, Entry
<1>3. /\ Len(s1) = n /\ Len(s2) = n /\ Len(s3) = n /\ n \in 1 .. MaxBundles
      /\ StoreOK(s0) /\ StoreOK(s1) /\ StoreOK(s2) /\ StoreOK(s3)
      /\ new \in Muid /\ new.time = n
  <2> HIDE DEF ch1, ch2, ch3
  <2>1. Len(s1) = n /\ StoreOK(s0) /\ StoreOK(s1) /\ n \in 1 .. MaxBundles /\ new \in Muid /\ new.time = n
    BY <1>1, MoreFacts
  <2>2. Len(s2) = n /\ StoreOK(s2)
    BY <1>1, <2>1, MoreFacts
  <2>3. Len(s3) = n /\ StoreOK(s3)
    BY <1>1, <2>2, MoreFacts
  <2>4. QED
    BY <2>1, <2>2, <2>3
<1>4. /\ rel \in Muid /\ Absolute(rel, n) = new /\ Absolute(Root, n) = Root /\ new # Root
  <2>1. rel \in Muid /\ rel.time = 0 /\ rel.offset = new.offset
        /\ new = [time |-> n, offset |-> new.offset]
    <3>1. new.offset \in 0 .. MaxChanges /\ 0 \in -1 .. MaxBundles
      BY <1>3, MuidFacts, Bounds
    <3>2. QED
      BY <1>3, <3>1, MuidFacts
  <2>2. Root.time = -1
    BY DEF Root
  <2> HIDE DEF new, rel
  <2>3. QED
    BY <1>3, <2>1, <2>2, AbsoluteFacts, MuidFacts
<1> HIDE DEF new, rel, ch1, ch2, ch3
<1>5. Resolved(ch2.occupant, n) = Pointee(new) /\ Resolved(ch3.occupant, n) = Plain(v)
  <2>1. Pointee(rel).type = "pointee" /\ Pointee(rel).muid = rel /\ Plain(v).type = "value"
    BY OccupantFacts
  <2>2. QED
    BY <1>2, <1>4, <2>1 DEF Resolved
<1>6. /\ \A c, i : Find(s1, c, i, Now) = Find(s0, c, i, Now)
      /\ \A c, i : Find(s2, c, i, Now) = IF c = Root /\ i = k THEN Pointee(new)
                                         ELSE Find(s1, c, i, Now)
      /\ \A c, i : Find(s3, c, i, Now) = IF c = new /\ i = l THEN Plain(v)
                                         ELSE Find(s2, c, i, Now)
  <2>1. \A c, i : Find(s1, c, i, Now) = Find(s0, c, i, Now)
    BY <1>1, <1>2, FindMore
  <2>2. \A c, i : Find(s2, c, i, Now) = IF c = Root /\ i = k THEN Pointee(new)
                                        ELSE Find(s1, c, i, Now)
    BY <1>1, <1>2, <1>3, <1>4, <1>5, FindMore
  <2>3. \A c, i : Find(s3, c, i, Now) = IF c = new /\ i = l THEN Plain(v)
                                        ELSE Find(s2, c, i, Now)
    BY <1>1, <1>2, <1>3, <1>4, <1>5, FindMore
  <2>4. QED
    BY <2>1, <2>2, <2>3
<1>7. /\ Ahead(s0, new) /\ ~Ahead(s1, new)
      /\ \A m \in Muid : Ahead(s3, m) => Ahead(s2, m)
      /\ \A m \in Muid : Ahead(s2, m) => Ahead(s1, m)
      /\ \A m \in Muid : Ahead(s1, m) => Ahead(s0, m)
  <2>1. Ahead(s0, new) /\ ~Ahead(s1, new) /\ \A m \in Muid : Ahead(s1, m) => Ahead(s0, m)
    BY <1>1, AheadMore DEF new
  <2>2. \A m \in Muid : Ahead(s2, m) => Ahead(s1, m)
    BY <1>1, AheadMore
  <2>3. \A m \in Muid : Ahead(s3, m) => Ahead(s2, m)
    BY <1>1, AheadMore
  <2>4. QED
    BY <2>1, <2>2, <2>3
<1>8. Clean(s1)
  BY <1>1, <1>2, CleanMore
<1>9. Clean(s2)
  <2>1. \A c \in Muid, i \in Key : Find(s0, c, i, Now) # Pointee(new)
    BY <1>3, <1>7 DEF Clean
  <2>2. ~Aliased(s2)
    <3>1. ASSUME NEW i \in Key, NEW j \in Key, i # j, Find(s2, Root, i, Now).type = "pointee",
                 Find(s2, Root, i, Now) = Find(s2, Root, j, Now)
          PROVE  FALSE
      <4>1. i # k /\ j # k
        BY <1>6, <2>1, <3>1, MuidFacts
      <4>2. Find(s1, Root, i, Now).type = "pointee"
            /\ Find(s1, Root, i, Now) = Find(s1, Root, j, Now)
        BY <1>6, <3>1, <4>1
      <4>3. QED
        BY <1>8, <3>1, <4>2 DEF Clean, Aliased
    <3>2. QED
      BY <3>1 DEF Aliased
  <2>3. \A i \in Key : Find(s2, Root, i, Now) # Pointee(Root)
    <3>1. Pointee(new) # Pointee(Root)
      BY <1>4, OccupantFacts
    <3>2. QED
      BY <1>6, <1>8, <3>1 DEF Clean
  <2>4. ASSUME NEW m \in Muid, Ahead(s2, m), NEW i \in Key
        PROVE  /\ Find(s2, m, i, Now) = Deletion
               /\ \A c \in Muid : Find(s2, c, i, Now) # Pointee(m)
    <3>1. Ahead(s1, m) /\ m # new
      BY <1>7, <2>4
    <3>2. /\ Find(s1, m, i, Now) = Deletion
          /\ \A c \in Muid : Find(s1, c, i, Now) # Pointee(m)
      BY <1>8, <3>1 DEF Clean
    <3>3. m # Root
      <4>1. m.time = n
        BY <1>3, <3>1 DEF Ahead
      <4>2. QED
        BY <1>3, <4>1 DEF Root
    <3>4. Pointee(new) # Pointee(m)
      BY <3>1, OccupantFacts
    <3>5. QED
      BY <1>6, <3>2, <3>3, <3>4
  <2>5. StoreOK(s2) /\ Len(s2) # 0
    BY <1>3
  <2>6. QED
    BY <2>2, <2>3, <2>4, <2>5 DEF Clean
<1>10. Clean(s3)
  <2>1. ~Ahead(s3, new)
    BY <1>3, <1>7
  <2>2. ch3.occupant.type # "pointee"
    BY <1>2, OccupantFacts
  <2>3. QED
    BY <1>1, <1>2, <1>3, <1>4, <1>9, <2>1, <2>2, CleanMore
<1>11. /\ IsContainer(s1, new)
       /\ \A m \in Muid : m # new => (IsContainer(s1, m) <=> IsContainer(s0, m))
  BY <1>1, <1>2, <1>3, MoreContainers DEF new
<1>12. \A m \in Muid : IsContainer(s3, m) <=> IsContainer(s1, m)
  <2>1. \A m \in Muid : IsContainer(s2, m) <=> IsContainer(s1, m)
    BY <1>1, <1>2, MoreContainers
  <2>2. \A m \in Muid : IsContainer(s3, m) <=> IsContainer(s2, m)
    BY <1>1, <1>2, MoreContainers
  <2>3. QED
    BY <2>1, <2>2
<1>13. \A c, i : Find(s3, c, i, Now) = IF c = Root /\ i = k THEN Pointee(new)
                                       ELSE IF c = new /\ i = l THEN Plain(v)
                                       ELSE Find(s0, c, i, Now)
  BY <1>4, <1>6
<1>14. QED
  BY <1>3, <1>4, <1>7, <1>10, <1>11, <1>12, <1>13 DEF Founded, new

\* A new directory with one entry does what the call does to the tree.
LEMMA DirectoryAdded ==
    ASSUME NEW s0, NEW s1, NEW s2, NEW s3, NEW k \in Key, NEW l \in Key, NEW v \in Value,
           Founds(s0, s1, s2, s3, k, l, v), Clean(s0), Find(s0, Root, k, Now) = Deletion,
           NEW call, call.op = "set", call.path = <<k, l>>, call.value = v
    PROVE  Clean(s3) /\ Tree(s3, Now) = Applied(Tree(s0, Now), call)
<1> DEFINE new == Newest(s0)
<1>1. Clean(s3) /\ Founded(s0, s3, Newest(s0), k, l, v)
  BY FoundedFacts
<1>2. /\ StoreOK(s0) /\ StoreOK(s3) /\ Clean(s3)
      /\ new \in Muid /\ new # Root /\ Ahead(s0, new)
      /\ \A c, i : Find(s3, c, i, Now) =
                       IF c = Root /\ i = k THEN Pointee(new)
                       ELSE IF c = new /\ i = l THEN Plain(v)
                       ELSE Find(s0, c, i, Now)
      /\ IsContainer(s3, new)
      /\ \A m \in Muid : m # new => (IsContainer(s3, m) <=> IsContainer(s0, m))
  BY <1>1 DEF Founded
<1> HIDE DEF new
<1>3. /\ \A i \in Key : Find(s0, new, i, Now) = Deletion
      /\ \A c \in Muid, i \in Key : Find(s0, c, i, Now) # Pointee(new)
      /\ \A i \in Key : Find(s0, Root, i, Now) # Pointee(Root)
  BY <1>2 DEF Clean
<1>4. \A o \in Occupant : o # Pointee(new) => GetContainer(s3, o) = GetContainer(s0, o)
  <2>1. \A o \in Occupant : o.type = "pointee" => o.muid \in Muid /\ o = Pointee(o.muid)
    BY DEF Occupant, Pointee
  <2>2. QED
    BY <1>2, <2>1 DEF GetContainer
<1>5. InRoot(s3, k, Now) = Pointee(new) /\ Get(s3, <<k>>, Now).type # "value"
  <2>1. GetContainer(s3, Pointee(new)) = Pointee(new)
    BY <1>2, OccupantFacts DEF GetContainer
  <2>2. Find(s3, Root, k, Now) = Pointee(new)
    BY <1>2
  <2>3. InRoot(s3, k, Now) = Pointee(new)
    BY <2>1, <2>2 DEF InRoot
  <2>4. QED
    BY <2>3, GetOne, OccupantFacts
<1>6. Get(s3, <<k, l>>, Now) = Plain(v)
  <2>1. Find(s3, new, l, Now) = Plain(v)
    BY <1>2
  <2>2. GetContainer(s3, Plain(v)) = Plain(v)
    BY OccupantFacts, NothingWithin
  <2>3. Traverse(s3, Pointee(new), l, Now) = Plain(v)
    BY <2>1, <2>2, OccupantFacts DEF Traverse
  <2>4. QED
    BY <1>5, <2>3, GetTwo
<1>7. ASSUME NEW i \in Key, i # l
      PROVE  Get(s3, <<k, i>>, Now) = Get(s0, <<k, i>>, Now)
  <2>1. Find(s3, new, i, Now) = Deletion
    BY <1>2, <1>3, <1>7
  <2>2. \A store : GetContainer(store, Deletion) = Deletion
    BY OccupantFacts, NothingWithin
  <2>3. Traverse(s3, Pointee(new), i, Now) = Deletion
    BY <2>1, <2>2, OccupantFacts DEF Traverse
  <2>4. InRoot(s0, k, Now) = Deletion
    BY <2>2 DEF InRoot
  <2>5. Traverse(s0, Deletion, i, Now) = Deletion
    <3>1. Deletion \in Occupant /\ Deletion.type # "pointee"
      BY OccupantFacts
    <3>2. \A at \in Occupant : at.type # "pointee" => Traverse(s0, at, i, Now) = Deletion
      BY NothingWithin
    <3>3. QED
      BY <3>1, <3>2
  <2>6. QED
    BY <1>5, <2>3, <2>4, <2>5, GetTwo
<1>8. ASSUME NEW i \in Key, i # k
      PROVE  InRoot(s3, i, Now) = InRoot(s0, i, Now)
  <2>1. Find(s3, Root, i, Now) = Find(s0, Root, i, Now)
    BY <1>2, <1>8
  <2>2. Find(s0, Root, i, Now) # Pointee(new) /\ Find(s0, Root, i, Now) \in Occupant
    BY <1>2, <1>3, FindType, MuidFacts
  <2>3. QED
    BY <1>4, <2>1, <2>2 DEF InRoot
<1>9. ASSUME NEW i \in Key, i # k, NEW j \in Key
      PROVE  /\ Get(s3, <<i>>, Now) = Get(s0, <<i>>, Now)
             /\ Get(s3, <<i, j>>, Now) = Get(s0, <<i, j>>, Now)
  <2> DEFINE at == InRoot(s0, i, Now)
  <2>1. at.type = "pointee" =>
            at.muid \in Muid /\ at = Find(s0, Root, i, Now) /\ at = Pointee(at.muid)
    BY <1>2, InRootType
  <2>2. at.type = "pointee" => at.muid # Root /\ at.muid # new
    BY <1>3, <2>1, MuidFacts
  <2>3. InRoot(s3, i, Now) = at
    BY <1>8, <1>9
  <2> HIDE DEF at
  <2>4. at.type = "pointee" =>
            /\ Find(s3, at.muid, j, Now) = Find(s0, at.muid, j, Now)
            /\ Find(s0, at.muid, j, Now) # Pointee(new)
            /\ Find(s0, at.muid, j, Now) \in Occupant
    BY <1>2, <1>3, <2>1, <2>2, FindType
  <2>5. Traverse(s3, at, j, Now) = Traverse(s0, at, j, Now)
    BY <1>2, <1>4, <2>4, SameTraverse
  <2>6. QED
    BY <2>3, <2>5, GetOne, GetTwo DEF at
<1>10. ASSUME NEW p \in Path
      PROVE  /\ IsPrefix(<<k, l>>, p) => p = <<k, l>>
             /\ IsPrefix(p, <<k, l>>) /\ p # <<k, l>> => Get(s3, p, Now).type # "value"
             /\ ~IsPrefix(<<k, l>>, p) /\ ~IsPrefix(p, <<k, l>>) =>
                    Get(s3, p, Now) = Get(s0, p, Now)
  <2>1. CASE \E i \in Key : p = <<i>>
    <3>1. PICK i \in Key : p = <<i>>
      BY <2>1
    <3>2. ~IsPrefix(<<k, l>>, <<i>>) /\ (IsPrefix(<<i>>, <<k, l>>) <=> i = k)
      BY PrefixFacts
    <3>3. QED
      BY <1>5, <1>9, <3>1, <3>2
  <2>2. CASE \E i, j \in Key : p = <<i, j>>
    <3>1. PICK i \in Key, j \in Key : p = <<i, j>>
      BY <2>2
    <3>2. /\ IsPrefix(<<k, l>>, <<i, j>>) <=> k = i /\ l = j
          /\ IsPrefix(<<i, j>>, <<k, l>>) <=> k = i /\ l = j
      BY PrefixFacts
    <3>3. QED
      BY <1>7, <1>9, <3>1, <3>2
  <2>3. QED
    BY <2>1, <2>2, PathCases
<1>11. <<k, l>> \in Path
  BY TwoKeys
<1>12. Tree(s3, Now) = Applied(Tree(s0, Now), call)
  BY <1>6, <1>10, <1>11, TreeOfSet
<1>13. QED
  BY <1>2, <1>12

-----------------------------------------------------------------------------
(* Bundles that have yet to be committed. *)

\* A store with one bundle more.
Bundled(store, b, list, by) == Append(store, [by |-> b, changes |-> list, calls |-> by])

\* An entry is in no container that is later than the store and points to none, and
\* not to the root directory.
Addressed(store, ch) ==
    ch.type = "entry" =>
        /\ ch.container.time <= Len(store)
        /\ ch.occupant.type = "pointee" => ch.occupant.muid.time \in 0 .. Len(store)

\* What the store may have become when a bundle is committed.
Becomes(now, store) ==
    /\ StoreOK(store) /\ Len(store) < MaxBundles
    /\ Len(now) <= Len(store)
    /\ \A t \in DOMAIN now : store[t] = now[t]
    /\ \A m \in Muids(store) : Addressed(store, At(store, m))

\* The conditions under which a bundle is to be serializable.
Fair(store, b, list, by) ==
    LET bundle == [by |-> b, changes |-> list, calls |-> by]
    IN  OnTheRoot(bundle) /\ Valid(store, bundle) /\ ~Aliased(store)

\* Whenever they are committed, changes do what the calls would do.
Replays(now, list, by) ==
    /\ \A i \in DOMAIN by : by[i].after <= Len(list)
    /\ \A store : \A b \in Bundler \cup {None} :
           Becomes(now, store) /\ Fair(store, b, list, by) =>
               /\ Clean(Bundled(store, b, list, by))
               /\ Tree(Bundled(store, b, list, by), Now) = FoldLeft(Applied, Tree(store, Now), by)

\* A list of changes that fits in a bundle.
Listed(list) == list \in Seq(Change) /\ Len(list) <= MaxChanges

\* The store w is the other one and these changes.
EndsWith(w, store, list) ==
    LET n == Len(store) + 1
    IN  /\ StoreOK(w) /\ Len(w) = n /\ n \in 1 .. MaxBundles /\ n < Now
        /\ w[n].changes = list /\ n \notin DOMAIN store
        /\ \A t \in DOMAIN store : w[t] = store[t]
        /\ DOMAIN w = DOMAIN store \cup {n}
        /\ Muids(store) \subseteq Muids(w)
        /\ \A m \in Muids(store) : At(w, m) = At(store, m)
        /\ \A m \in Muids(w) :
               \/ m \in Muids(store)
               \/ m.time = n /\ m.offset \in DOMAIN list /\ At(w, m) = list[m.offset]

LEMMA BundledFacts ==
    ASSUME NEW store, StoreOK(store), Len(store) < MaxBundles, NEW b \in Bundler \cup {None},
           NEW list, Listed(list), NEW by \in Seq(Call)
    PROVE  EndsWith(Bundled(store, b, list, by), store, list)
<1> DEFINE bundle == [by |-> b, changes |-> list, calls |-> by]
<1>1. bundle \in Bundles /\ bundle.changes = list /\ Len(bundle.changes) <= MaxChanges
  BY DEF Bundles, Listed
<1> HIDE DEF bundle
<1>2. Bundled(store, b, list, by) = Append(store, bundle)
  BY DEF Bundled, bundle
<1>3. Len(store) \in Nat
  BY MuidsFacts
<1>4. QED
  BY <1>1, <1>2, <1>3, StoreGrows, Bounds DEF Now, EndsWith

\* One change more in a bundle.
Grows(store, w, longer, list, ch) ==
    /\ Listed(list)
    /\ OneMore(w, longer, ch)
    /\ Len(w) = Len(store) + 1 /\ w[Len(w)].changes = list
    /\ Newest(w) = [time |-> Len(store) + 1, offset |-> Len(list) + 1]

LEMMA BundledMore ==
    ASSUME NEW store, StoreOK(store), Len(store) < MaxBundles, NEW b \in Bundler \cup {None},
           NEW list \in Seq(Change), NEW ch \in Change, Listed(Append(list, ch)),
           NEW by \in Seq(Call), NEW more \in Seq(Call)
    PROVE  Grows(store, Bundled(store, b, list, by),
                 Bundled(store, b, Append(list, ch), more), list, ch)
<1> DEFINE w == Bundled(store, b, list, by)
           x == Bundled(store, b, Append(list, ch), more)
           n == Len(store) + 1
<1>1. Listed(list)
  <2>1. Len(Append(list, ch)) = Len(list) + 1 /\ Len(list) \in Nat
    BY AppendProperties, LenProperties
  <2>2. QED
    BY <2>1, Bounds DEF Listed
<1>2. EndsWith(w, store, list) /\ EndsWith(x, store, Append(list, ch))
  BY <1>1, BundledFacts
<1> HIDE DEF w, x
<1>3. /\ StoreOK(w) /\ Len(w) = n /\ n # 0 /\ w[n].changes = list
      /\ DOMAIN w = DOMAIN store \cup {n} /\ \A t \in DOMAIN store : w[t] = store[t]
  BY <1>2 DEF EndsWith
<1>4. /\ StoreOK(x) /\ Len(x) = n /\ x[n].changes = Append(list, ch)
      /\ \A t \in DOMAIN store : x[t] = store[t]
  BY <1>2 DEF EndsWith
<1>5. \A t \in DOMAIN w : t # Len(w) => x[t].changes = w[t].changes
  BY <1>3, <1>4
<1>6. OneMore(w, x, ch)
  BY <1>3, <1>4, <1>5 DEF OneMore
<1>7. Newest(w) = [time |-> n, offset |-> Len(list) + 1]
  BY <1>3 DEF Newest
<1>8. QED
  BY <1>1, <1>3, <1>6, <1>7 DEF w, x, Grows

\* What is found points to nothing that is later than the store.
PointsWithin(store, c, k) ==
    \/ Find(store, c, k, Now).type # "pointee"
    \/ \E m \in Muid : Find(store, c, k, Now) = Pointee(m) /\ m.time \in 1 .. Len(store)

LEMMA PointsWithinStore ==
    ASSUME NEW store, StoreOK(store), \A m \in Muids(store) : Addressed(store, At(store, m)),
           NEW c, NEW k
    PROVE  PointsWithin(store, c, k)
<1>1. ASSUME NEW e \in GetEntryByKey(store, c, k, Now), Find(store, c, k, Now).type = "pointee"
      PROVE  \E m \in Muid : Find(store, c, k, Now) = Pointee(m) /\ m.time \in 1 .. Len(store)
  <2> DEFINE there == At(store, e).occupant
  <2>1. /\ e \in Muids(store) /\ At(store, e).type = "entry"
        /\ Find(store, c, k, Now) = OccupantOf(store, {e})
    BY FoundFacts
  <2>2. e.time \in 1 .. Len(store) /\ e.time \in 1 .. MaxBundles /\ there \in Occupant
    BY <2>1, MuidsFacts, ChangeFacts
  <2>3. Find(store, c, k, Now) =
            IF there.type = "pointee" THEN Pointee(Absolute(there.muid, e.time)) ELSE there
    BY <2>1, OccupantOfOne
  <2>4. there.type = "pointee" /\ there.muid \in Muid /\ there.muid.time \in 0 .. Len(store)
    BY <1>1, <2>1, <2>2, <2>3, OccupantFacts DEF Addressed
  <2> HIDE DEF there
  <2>5. /\ Absolute(there.muid, e.time) \in Muid
        /\ Absolute(there.muid, e.time).time \in 1 .. Len(store)
    <3>1. there.muid.time = 0 =>
              Absolute(there.muid, e.time) = [time |-> e.time, offset |-> there.muid.offset]
      BY <2>2, <2>4, AbsoluteFacts
    <3>2. there.muid.time # 0 => Absolute(there.muid, e.time) = there.muid
      BY <2>2, <2>4, AbsoluteFacts
    <3>3. Absolute(there.muid, e.time) \in Muid
      BY <2>2, <2>4, AbsoluteFacts
    <3>4. QED
      BY <2>2, <2>4, <3>1, <3>2, <3>3
  <2>6. QED
    BY <2>3, <2>4, <2>5
<1>2. GetEntryByKey(store, c, k, Now) = {} => Find(store, c, k, Now).type # "pointee"
  BY OccupantFacts DEF Find, OccupantOf
<1>3. QED
  BY <1>1, <1>2 DEF PointsWithin

\* A bundle without changes changes nothing.
LEMMA BundledNothing ==
    ASSUME NEW now, NEW store, Becomes(now, store), ~Aliased(store), NEW b \in Bundler \cup {None}
    PROVE  LET w == Bundled(store, b, <<>>, <<>>)
           IN  Clean(w) /\ Tree(w, Now) = Tree(store, Now)
<1> DEFINE w == Bundled(store, b, <<>>, <<>>)
           n == Len(store) + 1
<1>1. /\ StoreOK(store) /\ Len(store) < MaxBundles
      /\ \A m \in Muids(store) : Addressed(store, At(store, m))
  BY DEF Becomes
<1>2. Listed(<<>>) /\ <<>> \in Seq(Call) /\ DOMAIN <<>> = {}
  BY Bounds DEF Listed
<1>3. EndsWith(w, store, <<>>)
  BY <1>1, <1>2, BundledFacts
<1> HIDE DEF w
<1>4. /\ StoreOK(w) /\ Len(w) = n /\ n \in 1 .. MaxBundles
      /\ Muids(w) = Muids(store)
      /\ \A m \in Muids(store) : At(w, m) = At(store, m)
  BY <1>2, <1>3 DEF EndsWith
<1>5. \A c, k : GetEntryByKey(w, c, k, Now) = GetEntryByKey(store, c, k, Now)
  <2>1. \A type, c : About(w, type, c, Now) = About(store, type, c, Now)
    BY <1>4 DEF About
  <2>2. ASSUME NEW c, NEW k
        PROVE  LastEntry(w, c, k, Now) = LastEntry(store, c, k, Now)
    <3>1. Entries(w, c, k, Now) = Entries(store, c, k, Now)
      BY <1>4, <2>1 DEF Entries, About
    <3>2. QED
      BY <3>1 DEF LastEntry, Entries
  <2>3. \A c : PriorClear(w, c, Now) = PriorClear(store, c, Now)
    BY <2>1 DEF PriorClear
  <2>4. QED
    BY <2>2, <2>3 DEF GetEntryByKey
<1>6. \A c, k : Find(w, c, k, Now) = Find(store, c, k, Now)
  <2>1. ASSUME NEW c, NEW k
        PROVE  Find(w, c, k, Now) = Find(store, c, k, Now)
    <3>1. GetEntryByKey(store, c, k, Now) \in SUBSET Muids(store)
      BY EntriesFacts
    <3>2. QED
      BY <1>4, <1>5, <3>1, SameOccupant DEF Find
  <2>2. QED
    BY <2>1
<1>7. \A m \in Muid : IsContainer(w, m) <=> IsContainer(store, m)
  BY <1>1, <1>4, IsContainerFacts
<1>8. \A o \in Occupant : GetContainer(w, o) = GetContainer(store, o)
  BY <1>7, OccupantFacts DEF GetContainer
<1>9. \A k : InRoot(w, k, Now) = InRoot(store, k, Now)
  BY <1>1, <1>6, <1>8, FindType DEF InRoot
<1>10. \A k, l : Get(w, <<k, l>>, Now) = Get(store, <<k, l>>, Now)
  <2>1. ASSUME NEW k, NEW l
        PROVE  Get(w, <<k, l>>, Now) = Get(store, <<k, l>>, Now)
    <3>1. Traverse(w, InRoot(store, k, Now), l, Now) = Traverse(store, InRoot(store, k, Now), l, Now)
      BY <1>1, <1>6, <1>8, FindType, SameTraverse
    <3>2. QED
      BY <1>9, <3>1, GetTwo
  <2>2. QED
    BY <2>1
<1>11. \A p \in Path : Get(w, p, Now) = Get(store, p, Now)
  <2>1. \A k : Get(w, <<k>>, Now) = Get(store, <<k>>, Now)
    BY <1>9, GetOne
  <2>2. QED
    BY <1>10, <2>1, PathCases
<1>12. Tree(w, Now) = Tree(store, Now)
  BY <1>11 DEF Tree
<1>13. \A c, k : PointsWithin(store, c, k)
  BY <1>1, PointsWithinStore
<1>14. \A k \in Key : Find(w, Root, k, Now) # Pointee(Root)
  <2>1. Root.time = -1 /\ Len(store) \in Nat
    BY <1>1, MuidsFacts DEF Root
  <2>2. QED
    BY <1>6, <1>13, <2>1, OccupantFacts DEF PointsWithin
<1>15. ASSUME NEW m \in Muid, Ahead(w, m), NEW k \in Key
       PROVE  /\ Find(w, m, k, Now) = Deletion
              /\ \A c \in Muid : Find(w, c, k, Now) # Pointee(m)
  <2>1. m.time = n /\ Len(store) \in Nat
    BY <1>1, <1>4, <1>15, MuidsFacts DEF Ahead
  <2>2. \A c \in Muid : Find(w, c, k, Now) # Pointee(m)
    BY <1>6, <1>13, <2>1, OccupantFacts DEF PointsWithin
  <2>3. GetEntryByKey(store, m, k, Now) = {}
    <3>1. ASSUME NEW e \in GetEntryByKey(store, m, k, Now)
          PROVE  FALSE
      <4>1. /\ e \in Muids(store) /\ At(store, e).type = "entry"
            /\ Absolute(At(store, e).container, e.time) = m
        BY EntriesFacts
      <4>2. /\ e.time \in 1 .. Len(store) /\ e.time \in 1 .. MaxBundles
            /\ At(store, e).container \in Muid
            /\ At(store, e).container.time <= Len(store)
        BY <1>1, <4>1, MuidsFacts, ChangeFacts DEF Addressed
      <4>3. m.time = e.time \/ m.time = At(store, e).container.time
        <5>1. At(store, e).container.time # 0 => m = At(store, e).container
          BY <4>1, <4>2, AbsoluteFacts
        <5>2. At(store, e).container.time = 0 =>
                  m = [time |-> e.time, offset |-> At(store, e).container.offset]
          BY <4>1, <4>2, AbsoluteFacts
        <5>3. QED
          BY <5>1, <5>2
      <4>4. QED
        BY <2>1, <4>2, <4>3, MuidFacts
    <3>2. QED
      BY <3>1
  <2>4. Find(w, m, k, Now) = Deletion
    BY <1>6, <2>3 DEF Find, OccupantOf
  <2>5. QED
    BY <2>2, <2>4
<1>16. ~Aliased(w) /\ Len(w) # 0
  BY <1>4, <1>6 DEF Aliased
<1>17. QED
  BY <1>4, <1>12, <1>14, <1>15, <1>16 DEF Clean, w

\* An empty bundle does what no calls do.
LEMMA ReplaysNothing ==
    ASSUME NEW now
    PROVE  Replays(now, <<>>, <<>>)
<1>1. ASSUME NEW store, NEW b \in Bundler \cup {None}, Becomes(now, store),
             Fair(store, b, <<>>, <<>>)
      PROVE  LET w == Bundled(store, b, <<>>, <<>>)
             IN  Clean(w) /\ Tree(w, Now) = FoldLeft(Applied, Tree(store, Now), <<>>)
  <2>1. ~Aliased(store)
    BY <1>1 DEF Fair
  <2>2. QED
    BY <1>1, <2>1, BundledNothing, FoldNothing
<1>2. QED
  BY <1>1 DEF Replays

\* The store has whole addresses only.
LogAddressed == \A m \in Muids(log) : Addressed(log, At(log, m))

\* What was read of a key of the root directory is what is there, and no change of the
\* bundle concerns it.
Stands(store, list, k) ==
    /\ GetEntryByKey(store, Root, k, Now) = GetEntryByKey(log, Root, k, Now)
    /\ \A j \in 1 .. Len(list) : ~Touches(list[j], Read(Root, k))

\* What is under a key of the root directory is what was read.
AsRead(w, k) ==
    /\ Find(w, Root, k, Now) = Find(log, Root, k, Now)
    /\ InRoot(w, k, Now) = InRoot(log, k, Now)

\* A reading that stands is what the bundle will find when it is committed.
LEMMA ReadStands ==
    ASSUME StoreOK(log), LogAddressed, NEW store, Becomes(log, store),
           NEW b \in Bundler \cup {None}, NEW list, Listed(list), NEW by \in Seq(Call),
           NEW k, Stands(store, list, k)
    PROVE  AsRead(Bundled(store, b, list, by), k)
<1> DEFINE w == Bundled(store, b, list, by)
           n == Len(store) + 1
           found == GetEntryByKey(log, Root, k, Now)
<1>1. StoreOK(store) /\ Len(store) < MaxBundles
  BY DEF Becomes
<1>2. EndsWith(w, store, list)
  BY <1>1, BundledFacts
<1> HIDE DEF w
<1>3. /\ StoreOK(w) /\ n \in 1 .. MaxBundles
      /\ Muids(store) \subseteq Muids(w)
      /\ \A m \in Muids(store) : At(w, m) = At(store, m)
      /\ \A m \in Muids(w) :
             m \notin Muids(store) =>
                 m.time = n /\ m.offset \in DOMAIN list /\ At(w, m) = list[m.offset]
  BY <1>2 DEF EndsWith
<1>4. /\ Muids(log) \subseteq Muids(store)
      /\ \A m \in Muids(log) : At(store, m) = At(log, m) /\ m.time \in 1 .. Len(log)
      /\ \A m \in Muids(store) : m.time \in 1 .. Len(log) => m \in Muids(log)
      /\ Len(log) \in Nat /\ Len(log) <= Len(store) /\ Len(store) \in Nat
  <2>1. /\ \A t \in DOMAIN log : store[t] = log[t]
        /\ DOMAIN log = 1 .. Len(log) /\ DOMAIN store = 1 .. Len(store)
        /\ Len(log) \in Nat /\ Len(log) <= Len(store) /\ Len(store) \in Nat
    BY <1>1, MuidsFacts DEF Becomes
  <2>2. ASSUME NEW m \in Muids(log)
        PROVE  m \in Muids(store) /\ At(store, m) = At(log, m) /\ m.time \in 1 .. Len(log)
    <3>1. /\ m.time \in DOMAIN log /\ m.offset \in DOMAIN log[m.time].changes
          /\ m = [time |-> m.time, offset |-> m.offset]
      BY MuidsFacts, MuidFacts
    <3>2. m.time \in DOMAIN store /\ store[m.time] = log[m.time]
      BY <2>1, <3>1
    <3>3. [time |-> m.time, offset |-> m.offset] \in Muids(store)
      BY <1>1, <3>1, <3>2, MuidsFacts
    <3>4. QED
      BY <2>1, <3>1, <3>2, <3>3 DEF At
  <2>3. ASSUME NEW m \in Muids(store), m.time \in 1 .. Len(log)
        PROVE  m \in Muids(log)
    <3>1. /\ m.offset \in DOMAIN store[m.time].changes
          /\ m = [time |-> m.time, offset |-> m.offset]
      BY <1>1, MuidsFacts, MuidFacts
    <3>2. m.time \in DOMAIN log /\ store[m.time] = log[m.time]
      BY <2>1, <2>3
    <3>3. [time |-> m.time, offset |-> m.offset] \in Muids(log)
      BY <3>1, <3>2, MuidsFacts
    <3>4. QED
      BY <3>1, <3>3
  <2>4. QED
    BY <2>1, <2>2, <2>3
<1>5. ASSUME NEW m \in Muids(w), At(w, m).type \in {"clearance", "entry"},
             At(w, m).type = "entry" => At(w, m).key = k,
             Absolute(At(w, m).container, m.time) = Root
      PROVE  m \in Muids(store)
  <2> SUFFICES ASSUME m \notin Muids(store)
               PROVE  FALSE
    OBVIOUS
  <2> DEFINE ch == list[m.offset]
  <2>1. m.time = n /\ m.offset \in DOMAIN list /\ At(w, m) = ch
    BY <1>3
  <2>2. m.offset \in 1 .. Len(list) /\ ch \in Change
    BY <2>1, LenProperties, ElementOfSeq DEF Listed
  <2>3. ch.container = Root
    <3>1. ch.container \in Muid
      BY <1>5, <2>1, <2>2, ChangeFacts
    <3>2. Absolute(ch.container, n) = Root /\ Root.time = -1
      BY <1>5, <2>1 DEF Root
    <3>3. ch.container.time = 0 => Absolute(ch.container, n) = [time |-> n, offset |-> ch.container.offset]
      BY <1>3, <3>1, AbsoluteFacts
    <3>4. ch.container.time # 0 => Absolute(ch.container, n) = ch.container
      BY <1>3, <3>1, AbsoluteFacts
    <3>5. QED
      BY <1>3, <3>2, <3>3, <3>4
  <2>4. Touches(ch, Read(Root, k))
    BY <1>5, <2>1, <2>3 DEF Touches, Read
  <2>5. QED
    BY <2>2, <2>4 DEF Stands
<1>6. About(w, "clearance", Root, Now) = About(store, "clearance", Root, Now)
  BY <1>3, <1>5 DEF About
<1>7. Entries(w, Root, k, Now) = Entries(store, Root, k, Now)
  BY <1>3, <1>5 DEF Entries, About
<1>8. GetEntryByKey(w, Root, k, Now) = found
  <2>1. LastEntry(w, Root, k, Now) = LastEntry(store, Root, k, Now)
    BY <1>7 DEF LastEntry, Entries
  <2>2. PriorClear(w, Root, Now) = PriorClear(store, Root, Now)
    BY <1>6 DEF PriorClear
  <2>3. QED
    BY <2>1, <2>2 DEF GetEntryByKey, Stands
<1>9. found \in SUBSET Muids(log)
  BY EntriesFacts
<1>10. \A m \in Muids(log) : At(w, m) = At(log, m) /\ m \in Muids(w)
  BY <1>3, <1>4
<1>11. Find(w, Root, k, Now) = Find(log, Root, k, Now)
  <2>1. OccupantOf(w, found) = OccupantOf(log, found)
    BY <1>9, <1>10, SameOccupant
  <2>2. QED
    BY <1>8, <2>1 DEF Find
<1>12. ASSUME NEW m \in Muid, m.time \in 1 .. Len(log)
       PROVE  IsContainer(w, m) <=> IsContainer(log, m)
  <2>1. m \in Muids(w) <=> m \in Muids(log)
    BY <1>3, <1>4, <1>12
  <2>2. QED
    BY <1>3, <1>10, <2>1, IsContainerFacts
<1>13. PointsWithin(log, Root, k)
  BY PointsWithinStore DEF LogAddressed
<1>14. GetContainer(w, Find(log, Root, k, Now)) = GetContainer(log, Find(log, Root, k, Now))
  BY <1>12, <1>13, OccupantFacts DEF PointsWithin, GetContainer
<1>15. QED
  BY <1>11, <1>14 DEF AsRead, InRoot, w

-----------------------------------------------------------------------------
(* One call more in a bundle. *)

\* The changes of one more call do to the tree what the call would do.
Does(list, by, made, call) ==
    \A store : \A b \in Bundler \cup {None} :
        /\ Becomes(log, store) /\ Fair(store, b, list \o made, Append(by, call))
        /\ Clean(Bundled(store, b, list, by))
        => /\ Clean(Bundled(store, b, list \o made, Append(by, call)))
           /\ Tree(Bundled(store, b, list \o made, Append(by, call)), Now)
                  = Applied(Tree(Bundled(store, b, list, by), Now), call)

\* The conditions hold of the first calls if they hold of all.
LEMMA FairBefore ==
    ASSUME NEW store, NEW b, NEW list \in Seq(Change), NEW made \in Seq(Change),
           NEW by \in Seq(Call), NEW call \in Call,
           \A i \in DOMAIN by : by[i].after <= Len(list),
           Fair(store, b, list \o made, Append(by, call))
    PROVE  Fair(store, b, list, by)
<1> DEFINE more == Append(by, call)
           long == list \o made
           before == [by |-> b, changes |-> list, calls |-> by]
           bundle == [by |-> b, changes |-> long, calls |-> more]
<1>1. \A i \in DOMAIN by : i \in DOMAIN more /\ more[i] = by[i] /\ by[i] \in Call
  BY AppendProperties, LenProperties, ElementOfSeq
<1>2. \A j \in 1 .. Len(list) : long[j] = list[j]
  BY ConcatProperties, LenProperties
<1>3. \A i \in DOMAIN by : 1 .. by[i].after \subseteq 1 .. Len(list)
  <2>1. \A i \in DOMAIN by : by[i].after \in 0 .. MaxChanges /\ Len(list) \in Nat
    BY <1>1, LenProperties DEF Call
  <2>2. QED
    BY <2>1, Bounds
<1> HIDE DEF more, long
<1>4. OnTheRoot(bundle) /\ Valid(store, bundle) /\ ~Aliased(store)
  BY DEF Fair, more, long
<1>5. OnTheRoot(before)
  <2>1. ASSUME NEW i \in DOMAIN by
        PROVE  /\ by[i].op \in {"set", "delete", "clear"}
               /\ by[i].op = "clear" => \A j \in 1 .. by[i].after : list[j].type = "container"
    <3>1. /\ more[i].op \in {"set", "delete", "clear"}
          /\ more[i].op = "clear" =>
                 \A j \in 1 .. more[i].after : long[j].type = "container"
      BY <1>1, <1>4 DEF OnTheRoot
    <3>2. QED
      BY <1>1, <1>2, <1>3, <3>1
  <2>2. QED
    BY <2>1 DEF OnTheRoot
<1>6. Valid(store, before)
  <2>1. ASSUME NEW i \in DOMAIN by, NEW read \in by[i].reads
        PROVE  /\ GetEntryByKey(store, read.container, read.key, Now) = read.found
               /\ \A j \in 1 .. by[i].after : ~Touches(list[j], read)
    BY <1>1, <1>2, <1>3, <1>4 DEF Valid
  <2>2. QED
    BY <2>1 DEF Valid
<1>7. QED
  BY <1>4, <1>5, <1>6 DEF Fair

LEMMA ReplayStep ==
    ASSUME NEW list \in Seq(Change), NEW made \in Seq(Change), NEW by \in Seq(Call),
           NEW call \in Call, call.after <= Len(list),
           Replays(log, list, by), Does(list, by, made, call)
    PROVE  Replays(log, list \o made, Append(by, call))
<1> DEFINE more == Append(by, call)
           long == list \o made
<1>1. \A i \in DOMAIN by : by[i].after <= Len(list)
  BY DEF Replays
<1>2. \A i \in DOMAIN more : more[i].after <= Len(long)
  <2>1. Len(long) = Len(list) + Len(made) /\ Len(list) \in Nat /\ Len(made) \in Nat
    BY ConcatProperties, LenProperties
  <2>2. \A i \in DOMAIN more : (i \in DOMAIN by /\ more[i] = by[i]) \/ more[i] = call
    BY AppendProperties, LenProperties
  <2>3. \A i \in DOMAIN more : more[i] \in Call
    BY AppendProperties, LenProperties, ElementOfSeq
  <2>4. ASSUME NEW i \in DOMAIN more
        PROVE  more[i].after <= Len(long)
    <3>1. more[i].after \in 0 .. MaxChanges /\ MaxChanges \in Nat
      BY <2>3, Bounds DEF Call
    <3>2. more[i].after <= Len(list)
      BY <1>1, <2>2
    <3> HIDE DEF more, long
    <3>3. QED
      BY <2>1, <3>1, <3>2
  <2>5. QED
    BY <2>4
<1>3. ASSUME NEW store, NEW b \in Bundler \cup {None}, Becomes(log, store),
             Fair(store, b, long, more)
      PROVE  /\ Clean(Bundled(store, b, long, more))
             /\ Tree(Bundled(store, b, long, more), Now)
                    = FoldLeft(Applied, Tree(store, Now), more)
  <2>1. Fair(store, b, list, by)
    BY <1>1, <1>3, FairBefore
  <2>2. /\ Clean(Bundled(store, b, list, by))
        /\ Tree(Bundled(store, b, list, by), Now) = FoldLeft(Applied, Tree(store, Now), by)
    BY <1>3, <2>1 DEF Replays
  <2>3. /\ Clean(Bundled(store, b, long, more))
        /\ Tree(Bundled(store, b, long, more), Now)
               = Applied(Tree(Bundled(store, b, list, by), Now), call)
    BY <1>3, <2>2 DEF Does
  <2>4. FoldLeft(Applied, Tree(store, Now), more)
            = Applied(FoldLeft(Applied, Tree(store, Now), by), call)
    BY FoldAppend
  <2>5. QED
    BY <2>2, <2>3, <2>4
<1> HIDE DEF more, long
<1>4. QED
  BY <1>2, <1>3 DEF Replays, more, long

\* What an entry does, by the call it is for.
SameAs(ch, call) ==
    \/ call.op = "set" /\ ch.occupant = Plain(call.value)
    \/ call.op = "delete" /\ ch.occupant = Deletion

LEMMA OneMoreChange ==
    ASSUME NEW list \in Seq(Change), NEW ch \in Change
    PROVE  /\ list \o <<ch>> = Append(list, ch) /\ Append(list, ch) \in Seq(Change)
           /\ \A made \in Seq(Change) : list \o (<<ch>> \o made) = Append(list, ch) \o made
<1>1. /\ list \o <<ch>> = Append(list, ch) /\ Append(list, ch) \in Seq(Change)
      /\ <<ch>> \in Seq(Change)
  OBVIOUS
<1>2. ASSUME NEW made \in Seq(Change)
      PROVE  list \o (<<ch>> \o made) = (list \o <<ch>>) \o made
  BY <1>1, ConcatAssociative
<1>3. QED
  BY <1>1, <1>2

\* The bundle with the changes of one more call is that without them and one more.
LEMMA OneChangeDoes ==
    ASSUME NEW list \in Seq(Change), NEW ch \in Change, Listed(list \o <<ch>>),
           NEW by \in Seq(Call), NEW call \in Call,
           \A store, w, longer : \A b \in Bundler \cup {None} :
               /\ Becomes(log, store) /\ Fair(store, b, list \o <<ch>>, Append(by, call))
               /\ w = Bundled(store, b, list, by)
               /\ OneMore(w, longer, ch) /\ Clean(w) /\ w[Len(w)].changes = list
               => Clean(longer) /\ Tree(longer, Now) = Applied(Tree(w, Now), call)
    PROVE  Does(list, by, <<ch>>, call)
<1> DEFINE more == Append(by, call)
           long == list \o <<ch>>
<1>1. long = Append(list, ch) /\ more \in Seq(Call)
  BY OneMoreChange, AppendProperties
<1> HIDE DEF more, long
<1>2. ASSUME NEW store, NEW b \in Bundler \cup {None}, Becomes(log, store),
             Fair(store, b, long, more), Clean(Bundled(store, b, list, by))
      PROVE  /\ Clean(Bundled(store, b, long, more))
             /\ Tree(Bundled(store, b, long, more), Now)
                    = Applied(Tree(Bundled(store, b, list, by), Now), call)
  <2> DEFINE w == Bundled(store, b, list, by)
             x == Bundled(store, b, long, more)
  <2>1. StoreOK(store) /\ Len(store) < MaxBundles /\ Listed(Append(list, ch))
    BY <1>1, <1>2 DEF Becomes, long
  <2>2. Grows(store, w, Bundled(store, b, Append(list, ch), more), list, ch)
    BY <1>1, <2>1, BundledMore
  <2> HIDE DEF w
  <2>3. x = Bundled(store, b, Append(list, ch), more)
    BY <1>1
  <2> HIDE DEF x
  <2>4. OneMore(w, x, ch) /\ Clean(w) /\ w[Len(w)].changes = list
    BY <1>2, <2>2, <2>3 DEF w, Grows
  <2>5. Clean(x) /\ Tree(x, Now) = Applied(Tree(w, Now), call)
    BY <1>2, <2>4 DEF w, more, long
  <2>6. QED
    BY <2>5 DEF w, x
<1>3. QED
  BY <1>2 DEF Does, more, long

LEMMA DirectDoes ==
    ASSUME NEW list \in Seq(Change), NEW ch \in Change, Listed(list \o <<ch>>),
           NEW by \in Seq(Call), NEW call \in Call,
           ch.type = "entry", ch.container = Root, call.path = <<ch.key>>, SameAs(ch, call)
    PROVE  Does(list, by, <<ch>>, call)
<1>1. ch.key \in Key
  BY ChangeFacts
<1>2. ASSUME NEW w, NEW longer, OneMore(w, longer, ch), Clean(w)
      PROVE  Clean(longer) /\ Tree(longer, Now) = Applied(Tree(w, Now), call)
  BY <1>1, <1>2, EntryInRoot DEF SameAs
<1>3. QED
  BY <1>2, OneChangeDoes

LEMMA ClearanceDoes ==
    ASSUME NEW list \in Seq(Change), Listed(list \o <<Clearance(Root)>>),
           NEW by \in Seq(Call), NEW call \in Call, call.op = "clear", call.after = Len(list)
    PROVE  Does(list, by, <<Clearance(Root)>>, call)
<1> DEFINE ch == Clearance(Root)
           more == Append(by, call)
           long == list \o <<ch>>
<1>1. ch \in Change
  BY MuidFacts DEF Clearance, Change
<1>2. ASSUME NEW store, NEW b, Fair(store, b, long, more)
      PROVE  \A j \in DOMAIN list : list[j].type = "container"
  <2>1. Len(by) + 1 \in DOMAIN more /\ more[Len(by) + 1] = call
    BY AppendProperties, LenProperties
  <2>2. \A j \in DOMAIN list : j \in 1 .. call.after /\ long[j] = list[j]
    BY <1>1, OneMoreChange, AppendProperties, LenProperties
  <2> HIDE DEF long, more
  <2>3. QED
    BY <1>2, <2>1, <2>2 DEF Fair, OnTheRoot
<1> HIDE DEF more, long, ch
<1>3. ASSUME NEW store, NEW b, Fair(store, b, long, more), NEW w, NEW longer,
             OneMore(w, longer, ch), Clean(w), w[Len(w)].changes = list
      PROVE  Clean(longer) /\ Tree(longer, Now) = Applied(Tree(w, Now), call)
  <2>1. \A i \in DOMAIN w[Len(w)].changes : w[Len(w)].changes[i].type = "container"
    BY <1>2, <1>3
  <2>2. QED
    BY <1>3, <2>1, ClearanceFirst DEF ch
<1>4. Does(list, by, <<ch>>, call)
  BY <1>1, <1>3, OneChangeDoes DEF long, more, ch
<1>5. QED
  BY <1>4 DEF ch

\* What the last call of a bundle has read stands if the bundle is valid.
LEMMA ValidStands ==
    ASSUME NEW store, NEW b, NEW list \in Seq(Change), NEW made \in Seq(Change),
           NEW by \in Seq(Call), NEW call \in Call, NEW k,
           Read(Root, k) \in call.reads, call.after = Len(list),
           Fair(store, b, list \o made, Append(by, call))
    PROVE  Stands(store, list, k)
<1> DEFINE more == Append(by, call)
           long == list \o made
<1>1. Len(by) + 1 \in DOMAIN more /\ more[Len(by) + 1] = call
  BY AppendProperties, LenProperties
<1>2. \A j \in 1 .. Len(list) : long[j] = list[j]
  BY ConcatProperties, LenProperties
<1>3. /\ Read(Root, k).container = Root /\ Read(Root, k).key = k
      /\ Read(Root, k).found = GetEntryByKey(log, Root, k, Now)
  BY DEF Read
<1> HIDE DEF more, long
<1>4. Valid(store, [by |-> b, changes |-> long, calls |-> more])
  BY DEF Fair, more, long
<1>5. /\ GetEntryByKey(store, Read(Root, k).container, Read(Root, k).key, Now) = Read(Root, k).found
      /\ \A j \in 1 .. call.after : ~Touches(long[j], Read(Root, k))
  BY <1>1, <1>4 DEF Valid
<1>6. QED
  BY <1>2, <1>3, <1>5 DEF Stands

LEMMA WithinDoes ==
    ASSUME StoreOK(log), LogAddressed,
           NEW list \in Seq(Change), NEW ch \in Change, Listed(list \o <<ch>>),
           NEW by \in Seq(Call), NEW call \in Call, NEW k \in Key,
           ch.type = "entry", InRoot(log, k, Now) = Pointee(ch.container),
           call.path = <<k, ch.key>>, SameAs(ch, call),
           Read(Root, k) \in call.reads, call.after = Len(list)
    PROVE  Does(list, by, <<ch>>, call)
<1>1. ch.key \in Key /\ ch.container \in Muid
  BY ChangeFacts
<1>2. ch.container.time # 0
  <2>1. Find(log, Root, k, Now) = Pointee(ch.container)
    BY InRootType, OccupantFacts
  <2>2. PointsWithin(log, Root, k)
    BY PointsWithinStore DEF LogAddressed
  <2>3. QED
    BY <2>1, <2>2, OccupantFacts DEF PointsWithin
<1>3. Listed(list)
  <2>1. Listed(Append(list, ch)) /\ Len(Append(list, ch)) = Len(list) + 1 /\ Len(list) \in Nat
    BY OneMoreChange, AppendProperties, LenProperties
  <2>2. QED
    BY <2>1, Bounds DEF Listed
<1>4. ASSUME NEW store, NEW b \in Bundler \cup {None}, NEW w, NEW longer,
             Becomes(log, store), Fair(store, b, list \o <<ch>>, Append(by, call)),
             w = Bundled(store, b, list, by), OneMore(w, longer, ch), Clean(w)
      PROVE  Clean(longer) /\ Tree(longer, Now) = Applied(Tree(w, Now), call)
  <2>1. Stands(store, list, k)
    BY <1>4, ValidStands, OneOf
  <2>2. AsRead(w, k)
    BY <1>3, <1>4, <2>1, ReadStands
  <2>3. QED
    BY <1>1, <1>2, <1>4, <2>2, EntryWithin DEF SameAs, AsRead
<1>5. QED
  BY <1>4, OneChangeDoes

\* The changes of a new directory with one entry, after n others.
Founding(n, k, l, v) ==
    LET new == [time |-> 0, offset |-> n + 1]
    IN  <<Container(FALSE), Entry(Root, k, Pointee(new)), Entry(new, l, Plain(v))>>

LEMMA UnfairReplays ==
    ASSUME NEW list \in Seq(Change), NEW by, \A i \in DOMAIN by : by[i].after <= Len(list),
           NEW i \in DOMAIN by, by[i].op \notin {"set", "delete", "clear"}
    PROVE  Replays(log, list, by)
<1>1. ASSUME NEW store, NEW b
      PROVE  ~Fair(store, b, list, by)
  BY DEF Fair, OnTheRoot
<1>2. QED
  BY <1>1 DEF Replays

LEMMA FoundingFacts ==
    ASSUME NEW list \in Seq(Change), NEW k \in Key, NEW l \in Key, NEW v \in Value,
           Listed(list \o Founding(Len(list), k, l, v))
    PROVE  LET new == [time |-> 0, offset |-> Len(list) + 1]
               ch1 == Container(FALSE)
               ch2 == Entry(Root, k, Pointee(new))
               ch3 == Entry(new, l, Plain(v))
           IN  /\ new \in Muid
               /\ ch1 \in Change /\ ch2 \in Change /\ ch3 \in Change
               /\ Founding(Len(list), k, l, v) \in Seq(Change)
               /\ list \o Founding(Len(list), k, l, v)
                      = Append(Append(Append(list, ch1), ch2), ch3)
<1> DEFINE new == [time |-> 0, offset |-> Len(list) + 1]
           ch1 == Container(FALSE)
           ch2 == Entry(Root, k, Pointee(new))
           ch3 == Entry(new, l, Plain(v))
           long == list \o Founding(Len(list), k, l, v)
<1>1. Founding(Len(list), k, l, v) = <<ch1, ch2, ch3>>
  BY DEF Founding
<1>2. Len(list) \in Nat
  BY LenProperties
<1> HIDE DEF ch1, ch2, ch3
<1>3. long = Append(Append(Append(list, ch1), ch2), ch3) /\ Len(long) = Len(list) + 3
  <2> SUFFICES ASSUME NEW x1, NEW x2, NEW x3, NEW S, list \in Seq(S)
               PROVE  /\ list \o <<x1, x2, x3>> = Append(Append(Append(list, x1), x2), x3)
                      /\ Len(list \o <<x1, x2, x3>>) = Len(list) + 3
    BY <1>1
  <2> QED
    OBVIOUS
<1> HIDE DEF long
<1>4. Len(list) + 1 \in 0 .. MaxChanges
  BY <1>2, <1>3, Bounds DEF Listed, long
<1>5. new \in Muid
  BY <1>4, Bounds, MuidFacts
<1> HIDE DEF new
<1>6. /\ Container(FALSE) \in Change
      /\ Pointee(new) \in Occupant /\ Plain(v) \in Occupant
  BY <1>5, MadeFacts, OccupantFacts DEF QuietChange
<1>7. ch1 \in Change /\ ch2 \in Change /\ ch3 \in Change
  BY <1>5, <1>6, MadeFacts, MuidFacts DEF ch1, ch2, ch3
<1>8. Founding(Len(list), k, l, v) \in Seq(Change)
  BY <1>1, <1>7
<1>9. QED
  BY <1>3, <1>5, <1>7, <1>8 DEF new, long, ch1, ch2, ch3

LEMMA FoundedDoes ==
    ASSUME StoreOK(log), LogAddressed,
           NEW list \in Seq(Change), NEW k \in Key, NEW l \in Key, NEW v \in Value,
           Listed(list \o Founding(Len(list), k, l, v)),
           NEW by \in Seq(Call), NEW call \in Call,
           call.op = "set", call.path = <<k, l>>, call.value = v,
           Read(Root, k) \in call.reads, call.after = Len(list),
           Find(log, Root, k, Now) = Deletion
    PROVE  Does(list, by, Founding(Len(list), k, l, v), call)
<1> DEFINE new == [time |-> 0, offset |-> Len(list) + 1]
           ch1 == Container(FALSE)
           ch2 == Entry(Root, k, Pointee(new))
           ch3 == Entry(new, l, Plain(v))
           one == Append(list, ch1)
           two == Append(one, ch2)
           made == Founding(Len(list), k, l, v)
           long == list \o made
           more == Append(by, call)
<1>1. /\ ch1 \in Change /\ ch2 \in Change /\ ch3 \in Change
      /\ made \in Seq(Change) /\ long = Append(two, ch3)
  BY FoundingFacts
<1>2. more \in Seq(Call)
  BY AppendProperties
<1>3. Listed(long)
  OBVIOUS
<1> HIDE DEF made, more, long
<1>4. ASSUME NEW store, NEW b \in Bundler \cup {None}, Becomes(log, store),
             Fair(store, b, long, more), Clean(Bundled(store, b, list, by))
      PROVE  /\ Clean(Bundled(store, b, long, more))
             /\ Tree(Bundled(store, b, long, more), Now)
                    = Applied(Tree(Bundled(store, b, list, by), Now), call)
  <2> DEFINE w0 == Bundled(store, b, list, by)
             w1 == Bundled(store, b, one, by)
             w2 == Bundled(store, b, two, by)
             w3 == Bundled(store, b, long, more)
  <2> HIDE DEF ch1, ch2, ch3
  <2>1. StoreOK(store) /\ Len(store) < MaxBundles
    BY <1>4 DEF Becomes
  <2>2. one \in Seq(Change) /\ two \in Seq(Change)
    BY <1>1, AppendProperties
  <2> HIDE DEF one, two
  <2>3. Grows(store, w2, w3, two, ch3)
    <3>1. Grows(store, Bundled(store, b, two, by), Bundled(store, b, Append(two, ch3), more), two, ch3)
      BY <1>1, <1>2, <1>3, <2>1, <2>2, BundledMore
    <3>2. QED
      BY <1>1, <3>1
  <2>4. Grows(store, w1, w2, one, ch2)
    <3>1. Listed(two) /\ two = Append(one, ch2)
      BY <2>3 DEF Grows, two
    <3>2. QED
      BY <1>1, <2>1, <2>2, <3>1, BundledMore
  <2>5. Grows(store, w0, w1, list, ch1)
    <3>1. Listed(one) /\ one = Append(list, ch1)
      BY <2>4 DEF Grows, one
    <3>2. QED
      BY <1>1, <2>1, <2>2, <3>1, BundledMore
  <2> HIDE DEF w0, w1, w2, w3
  <2>6. /\ OneMore(w0, w1, ch1) /\ OneMore(w1, w2, ch2) /\ OneMore(w2, w3, ch3)
        /\ Newest(w0).offset = Len(list) + 1
    BY <2>3, <2>4, <2>5 DEF Grows
  <2>7. Founds(w0, w1, w2, w3, k, l, v)
    BY <2>6 DEF Founds, ch1, ch2, ch3
  <2>8. Stands(store, list, k)
    BY <1>1, <1>4, ValidStands DEF long, more
  <2>9. Find(w0, Root, k, Now) = Deletion
    <3>1. Listed(list)
      BY <2>5 DEF Grows
    <3>2. AsRead(w0, k)
      BY <1>4, <2>8, <3>1, ReadStands DEF w0
    <3>3. QED
      BY <3>2 DEF AsRead
  <2>10. Clean(w3) /\ Tree(w3, Now) = Applied(Tree(w0, Now), call)
    BY <1>4, <2>7, <2>9, DirectoryAdded DEF w0
  <2>11. QED
    BY <2>10 DEF w0, w3
<1>5. QED
  BY <1>4 DEF Does, made, more, long

-----------------------------------------------------------------------------
(* What is pending, and what a commit makes of it. *)

AllAddressed(list) == \A i \in DOMAIN list : Addressed(log, list[i])

PendingReplays ==
    \A b \in Bundler : AllAddressed(changes[b]) /\ Replays(log, changes[b], calls[b])

SInv == IInv /\ LogAddressed /\ PendingReplays

SerialStep ==
    \A n \in DOMAIN log' \ DOMAIN log :
        OnTheRoot(log'[n]) /\ Valid(log, log'[n]) /\ ~Aliased(log) =>
            Tree(log', Now) = FoldLeft(Applied, Tree(log, Now), log'[n].calls)

\* What is pending stays as it is when another bundle is stored.
LEMMA ReplaysStays ==
    ASSUME NEW now, NEW later, Len(now) \in Nat, Len(later) \in Nat, Len(now) <= Len(later),
           \A t \in DOMAIN now : t \in DOMAIN later /\ later[t] = now[t],
           NEW list, NEW by, Replays(now, list, by)
    PROVE  Replays(later, list, by)
<1>1. ASSUME NEW store, Becomes(later, store)
      PROVE  Becomes(now, store)
  <2>1. Len(store) \in Nat /\ StoreOK(store) /\ Len(later) <= Len(store)
    BY <1>1, MuidsFacts DEF Becomes
  <2>2. Len(now) <= Len(store)
    BY <2>1
  <2>3. QED
    BY <1>1, <2>2 DEF Becomes
<1>2. QED
  BY <1>1 DEF Replays

LEMMA AddressedStays ==
    ASSUME NEW now, NEW later, Len(now) \in Nat, Len(later) \in Nat, Len(now) <= Len(later),
           NEW ch \in Change, Addressed(now, ch)
    PROVE  Addressed(later, ch)
<1>1. ch.type = "entry" =>
          /\ ch.container.time \in Int
          /\ ch.occupant.type = "pointee" => ch.occupant.muid.time \in Int
  BY ChangeFacts, OccupantFacts, MuidFacts
<1>2. QED
  BY <1>1 DEF Addressed

LEMMA StoredReplays ==
    ASSUME StoreOK(log), LogAddressed, NEW b \in Bundler \cup {None}, NEW list, Listed(list),
           NEW by \in Seq(Call), Stored(b, list, by), AllAddressed(list), Replays(log, list, by)
    PROVE  /\ LogAddressed' /\ SerialStep
           /\ \A l \in Seq(Change) : AllAddressed(l) => AllAddressed(l)'
           /\ \A l, c : Replays(log, l, c) => Replays(log', l, c)
<1>1. log' = Bundled(log, b, list, by) /\ Len(log) < MaxBundles
  BY DEF Stored, Bundled
<1>2. EndsWith(log', log, list)
  BY <1>1, BundledFacts
<1>3. /\ Len(log) \in Nat /\ Len(log') = Len(log) + 1
      /\ DOMAIN log' = DOMAIN log \cup {Len(log) + 1}
      /\ \A t \in DOMAIN log : log'[t] = log[t]
      /\ \A m \in Muids(log) : At(log', m) = At(log, m)
      /\ \A m \in Muids(log') :
             \/ m \in Muids(log)
             \/ m.offset \in DOMAIN list /\ At(log', m) = list[m.offset]
  BY <1>2, MuidsFacts DEF EndsWith
<1>4. \A ch \in Change : Addressed(log, ch) => Addressed(log', ch)
  BY <1>3, AddressedStays
<1>5. LogAddressed'
  <2>1. \A i \in DOMAIN list : list[i] \in Change
    BY ElementOfSeq, LenProperties DEF Listed
  <2>2. \A m \in Muids(log) : At(log, m) \in Change /\ Addressed(log, At(log, m))
    BY MuidsFacts DEF LogAddressed
  <2>3. \A m \in Muids(log') : Addressed(log', At(log', m))
    BY <1>3, <1>4, <2>1, <2>2 DEF AllAddressed
  <2>4. QED
    BY <2>3 DEF LogAddressed
<1>6. \A l \in Seq(Change) : AllAddressed(l) => AllAddressed(l)'
  <2>1. ASSUME NEW l \in Seq(Change), AllAddressed(l), NEW i \in DOMAIN l
        PROVE  Addressed(log', l[i])
    BY <1>4, <2>1, ElementOfSeq, LenProperties DEF AllAddressed
  <2>2. QED
    BY <2>1 DEF AllAddressed
<1>7. \A l, c : Replays(log, l, c) => Replays(log', l, c)
  BY <1>3, ReplaysStays
<1>8. SerialStep
  <2>1. Becomes(log, log)
    BY <1>1, <1>3 DEF Becomes, LogAddressed
  <2>2. ASSUME NEW n \in DOMAIN log' \ DOMAIN log,
               OnTheRoot(log'[n]), Valid(log, log'[n]), ~Aliased(log)
        PROVE  Tree(log', Now) = FoldLeft(Applied, Tree(log, Now), log'[n].calls)
    <3>1. log'[n] = [by |-> b, changes |-> list, calls |-> by]
      BY <1>1, <1>3, <2>2 DEF Bundled
    <3>2. Fair(log, b, list, by)
      BY <2>2, <3>1 DEF Fair
    <3>3. Tree(log', Now) = FoldLeft(Applied, Tree(log, Now), by)
      BY <1>1, <2>1, <3>2 DEF Replays
    <3>4. QED
      BY <3>1, <3>3
  <2>3. QED
    BY <2>2 DEF SerialStep
<1>9. QED
  BY <1>5, <1>6, <1>7, <1>8

\* The changes and the calls of a bundler, none if it is made for the operation.
Prior(e) == IF e = None THEN <<>> ELSE changes[e]
PriorCalls(e) == IF e = None THEN <<>> ELSE calls[e]

\* An operation adds changes that do what it is called for.
Serves(e, made, by) ==
    /\ made \in Seq(Change) /\ by \in Seq(Call)
    /\ AllAddressed(made)
    /\ Replays(log, Prior(e) \o made, PriorCalls(e) \o by)

LEMMA PerformReplays ==
    ASSUME SInv, NEW e \in Bundler \cup {None}, NEW made, NEW by,
           Perform(e, made, by), Serves(e, made, by)
    PROVE  LogAddressed' /\ PendingReplays' /\ SerialStep
<1>1. /\ StoreOK(log) /\ LogAddressed
      /\ \A b \in Bundler : /\ changes[b] \in Seq(Change) /\ calls[b] \in Seq(Call)
                            /\ AllAddressed(changes[b]) /\ Replays(log, changes[b], calls[b])
      /\ changes \in [Bundler -> Seq(Change)] /\ calls \in [Bundler -> Seq(Call)]
  BY BundlerFacts DEF SInv, PendingReplays, IInv, TypeOK
<1>2. made \in Seq(Change) /\ by \in Seq(Call) /\ AllAddressed(made)
  BY DEF Serves
<1>3. CASE e = None
  <2>1. Stored(None, made, by) /\ changes' = changes /\ calls' = calls /\ Len(made) <= MaxChanges
    <3>1. 0 + Len(made) <= MaxChanges /\ Len(made) \in Nat
      BY <1>2, <1>3, LenProperties DEF Perform, Count
    <3>2. QED
      BY <1>3, <3>1 DEF Perform
  <2>2. Replays(log, made, by) /\ Listed(made)
    <3>1. <<>> \o made = made /\ <<>> \o by = by
      BY <1>2, ConcatEmptySeq
    <3>2. QED
      BY <1>2, <1>3, <2>1, <3>1 DEF Serves, Prior, PriorCalls, Listed
  <2>3. /\ LogAddressed' /\ SerialStep
        /\ \A l \in Seq(Change) : AllAddressed(l) => AllAddressed(l)'
        /\ \A l, c : Replays(log, l, c) => Replays(log', l, c)
    BY <1>1, <1>2, <2>1, <2>2, StoredReplays
  <2>4. PendingReplays'
    <3>1. ASSUME NEW b \in Bundler
          PROVE  AllAddressed(changes[b])' /\ Replays(log, changes[b], calls[b])'
      BY <1>1, <2>1, <2>3 DEF AllAddressed
    <3>2. QED
      BY <3>1 DEF PendingReplays
  <2>5. QED
    BY <2>3, <2>4
<1>4. CASE e # None
  <2>1. /\ e \in Bundler /\ log' = log
        /\ changes' = [changes EXCEPT ![e] = @ \o made]
        /\ calls' = [calls EXCEPT ![e] = @ \o by]
    BY <1>4 DEF Perform
  <2>2. Replays(log, changes[e] \o made, calls[e] \o by)
    BY <1>4 DEF Serves, Prior, PriorCalls
  <2>3. AllAddressed(changes[e] \o made)
    BY <1>1, <1>2, <2>1, ConcatProperties, LenProperties DEF AllAddressed
  <2>4. SerialStep /\ LogAddressed'
    BY <1>1, <2>1 DEF SerialStep, LogAddressed
  <2>5. ASSUME NEW b \in Bundler
        PROVE  AllAddressed(changes'[b]) /\ Replays(log, changes'[b], calls'[b])
    BY <1>1, <2>1, <2>2, <2>3
  <2>6. PendingReplays'
    BY <2>1, <2>5 DEF PendingReplays, AllAddressed
  <2>7. QED
    BY <2>4, <2>6
<1>5. QED
  BY <1>3, <1>4

LEMMA CommitsReplays ==
    ASSUME SInv, NEW b \in Bundler, Commits(b), UNCHANGED <<changes, calls>>
    PROVE  LogAddressed' /\ PendingReplays' /\ SerialStep
<1>1. /\ StoreOK(log) /\ LogAddressed
      /\ \A d \in Bundler : /\ Listed(changes[d]) /\ changes[d] \in Seq(Change)
                            /\ calls[d] \in Seq(Call)
                            /\ AllAddressed(changes[d]) /\ Replays(log, changes[d], calls[d])
  BY BundlerFacts DEF SInv, PendingReplays, Listed
<1>2. changes' = changes /\ calls' = calls
  OBVIOUS
<1>3. CASE log' = log
  <2>1. SerialStep /\ LogAddressed'
    BY <1>1, <1>3 DEF SerialStep, LogAddressed
  <2>2. PendingReplays'
    BY <1>1, <1>2, <1>3 DEF PendingReplays, AllAddressed
  <2>3. QED
    BY <2>1, <2>2
<1>4. CASE Stored(b, changes[b], calls[b])
  <2>1. /\ LogAddressed' /\ SerialStep
        /\ \A l \in Seq(Change) : AllAddressed(l) => AllAddressed(l)'
        /\ \A l, c : Replays(log, l, c) => Replays(log', l, c)
    BY <1>1, <1>4, StoredReplays
  <2>2. ASSUME NEW d \in Bundler
        PROVE  AllAddressed(changes[d])' /\ Replays(log, changes[d], calls[d])'
    BY <1>1, <1>2, <2>1 DEF AllAddressed
  <2>3. QED
    BY <2>1, <2>2 DEF PendingReplays
<1>5. QED
  BY <1>3, <1>4 DEF Commits

-----------------------------------------------------------------------------
(* Each operation adds changes that do what it is called for. *)

Served ==
    \E made, by : \E e \in Bundler \cup {None} : Perform(e, made, by) /\ Serves(e, made, by)

LEMMA ServedReplays ==
    SInv /\ Served => LogAddressed' /\ PendingReplays' /\ SerialStep
BY PerformReplays DEF Served

LEMMA PriorFacts ==
    ASSUME SInv, NEW e \in Bundler \cup {None}
    PROVE  /\ Prior(e) \in Seq(Change) /\ PriorCalls(e) \in Seq(Call)
           /\ Len(Prior(e)) = Count(e) /\ Count(e) \in Nat
           /\ Replays(log, Prior(e), PriorCalls(e))
           /\ \A made \in Seq(Change) : \A by : Perform(e, made, by) => Listed(Prior(e) \o made)
<1>1. Prior(e) \in Seq(Change) /\ PriorCalls(e) \in Seq(Call) /\ Len(Prior(e)) = Count(e)
  <2>1. CASE e = None
    BY <2>1, ConcatEmptySeq, EmptySeq DEF Prior, PriorCalls, Count
  <2>2. CASE e # None
    BY <2>2, BundlerFacts DEF SInv, Prior, PriorCalls, Count
  <2>3. QED
    BY <2>1, <2>2
<1>2. Replays(log, Prior(e), PriorCalls(e))
  BY ReplaysNothing DEF SInv, PendingReplays, Prior, PriorCalls
<1>3. Count(e) \in Nat
  BY CountType, Bounds DEF SInv
<1>4. ASSUME NEW made \in Seq(Change), NEW by, Perform(e, made, by)
      PROVE  Listed(Prior(e) \o made)
  <2>1. Count(e) + Len(made) <= MaxChanges
    BY <1>4 DEF Perform
  <2>2. Prior(e) \o made \in Seq(Change) /\ Len(Prior(e) \o made) = Len(Prior(e)) + Len(made)
    BY <1>1, ConcatProperties
  <2>3. QED
    BY <1>1, <2>1, <2>2 DEF Listed
<1>5. QED
  BY <1>1, <1>2, <1>3, <1>4

\* An operation that makes one call.
LEMMA OneServes ==
    ASSUME SInv, NEW e \in Bundler \cup {None}, NEW made \in Seq(Change), AllAddressed(made),
           NEW call \in Call, call.after = Count(e), Perform(e, made, <<call>>),
           Does(Prior(e), PriorCalls(e), made, call)
    PROVE  Served
<1>1. /\ Prior(e) \in Seq(Change) /\ PriorCalls(e) \in Seq(Call)
      /\ Len(Prior(e)) = Count(e) /\ Count(e) \in Nat
      /\ Replays(log, Prior(e), PriorCalls(e))
  BY PriorFacts
<1>2. Replays(log, Prior(e) \o made, Append(PriorCalls(e), call))
  BY <1>1, ReplayStep
<1>3. PriorCalls(e) \o <<call>> = Append(PriorCalls(e), call) /\ <<call>> \in Seq(Call)
  BY <1>1
<1>4. Serves(e, made, <<call>>)
  BY <1>2, <1>3 DEF Serves
<1>5. QED
  BY <1>4 DEF Served

\* An operation with a call that the property is not about.
LEMMA OtherServes ==
    ASSUME SInv, NEW e \in Bundler \cup {None}, NEW made \in Seq(Change), AllAddressed(made),
           NEW by \in Seq(Call), by # <<>>,
           \A i \in DOMAIN by : by[i].after = Count(e) /\ by[i].op \in {"other", "reset"},
           Perform(e, made, by)
    PROVE  Served
<1> DEFINE long == Prior(e) \o made
           more == PriorCalls(e) \o by
<1>1. /\ Prior(e) \in Seq(Change) /\ PriorCalls(e) \in Seq(Call)
      /\ Len(Prior(e)) = Count(e) /\ Count(e) \in Nat
      /\ \A i \in DOMAIN PriorCalls(e) : PriorCalls(e)[i].after <= Len(Prior(e))
  BY PriorFacts DEF Replays
<1>2. long \in Seq(Change) /\ Len(long) \in Nat /\ Len(Prior(e)) <= Len(long)
  <2>1. long \in Seq(Change) /\ Len(long) = Len(Prior(e)) + Len(made) /\ Len(made) \in Nat
    BY <1>1, ConcatProperties, LenProperties
  <2>2. QED
    BY <1>1, <2>1
<1>3. /\ \A i \in DOMAIN more : \/ i \in DOMAIN PriorCalls(e) /\ more[i] = PriorCalls(e)[i]
                               \/ \E j \in DOMAIN by : more[i] = by[j]
      /\ more \in Seq(Call)
  BY <1>1, ConcatProperties, LenProperties
<1>4. \E i \in DOMAIN more : more[i].op \notin {"set", "delete", "clear"}
  <2>1. 1 \in DOMAIN by
    BY EmptySeq, LenProperties
  <2>2. Len(PriorCalls(e)) + 1 \in DOMAIN more /\ more[Len(PriorCalls(e)) + 1] = by[1]
    BY <1>1, <2>1, ConcatProperties, LenProperties
  <2>3. by[1].op \in {"other", "reset"}
    BY <2>1
  <2> HIDE DEF more
  <2>4. QED
    BY <2>2, <2>3
<1> HIDE DEF long, more
<1>5. ASSUME NEW i \in DOMAIN more
      PROVE  more[i].after <= Len(long)
  <2>1. more[i].after \in 0 .. MaxChanges /\ more[i].after <= Len(Prior(e))
    <3>1. more[i] \in Call
      BY <1>3, ElementOfSeq, LenProperties
    <3>2. more[i].after \in 0 .. MaxChanges
      BY <3>1 DEF Call
    <3>3. more[i].after = Count(e) \/ more[i].after <= Len(Prior(e))
      BY <1>1, <1>3
    <3>4. QED
      BY <1>1, <3>2, <3>3, Bounds
  <2>2. QED
    BY <1>1, <1>2, <2>1, Bounds
<1>6. Replays(log, long, more)
  BY <1>2, <1>4, <1>5, UnfairReplays
<1>7. Serves(e, made, by)
  BY <1>6 DEF Serves, long, more
<1>8. QED
  BY <1>7 DEF Served

\* The container of an entry at the end of a path.
OnTheWay(p, c) ==
    \/ \E k \in Key : p = <<k>> /\ c = Root
    \/ \E k, l \in Key : p = <<k, l>> /\ InRoot(log, k, Now) = Pointee(c)

LEMMA WalkFacts ==
    ASSUME SInv, NEW p \in Path, Walk(Front(p)).type = "pointee"
    PROVE  /\ OnTheWay(p, Walk(Front(p)).muid)
           /\ Walk(Front(p)).muid \in Muid /\ Last(p) \in Key
<1>1. Walk(Front(p)).muid \in Muid /\ Last(p) \in Key
  BY WalkType DEF SInv
<1>2. CASE \E k \in Key : p = <<k>>
  <2>1. PICK k \in Key : p = <<k>>
    BY <1>2
  <2>2. Walk(Front(p)) = Pointee(Root)
    BY <2>1, OneKey, GetNothing DEF Walk
  <2>3. QED
    BY <1>1, <2>1, <2>2, OccupantFacts DEF OnTheWay
<1>3. CASE \E k, l \in Key : p = <<k, l>>
  <2>1. PICK k \in Key, l \in Key : p = <<k, l>>
    BY <1>3
  <2>2. Walk(Front(p)) = InRoot(log, k, Now)
    BY <2>1, TwoKeys, GetOne DEF Walk
  <2>3. InRoot(log, k, Now) = Pointee(Walk(Front(p)).muid)
    BY <2>2, BundlerFacts, InRootType DEF SInv
  <2>4. QED
    BY <1>1, <2>1, <2>3 DEF OnTheWay
<1>4. QED
  BY <1>2, <1>3, PathCases

LEMMA WalkReadsFacts ==
    ASSUME NEW k \in Key, NEW l \in Key
    PROVE  Read(Root, k) \in WalkReads(<<k>>) /\ Read(Root, k) \in WalkReads(<<k, l>>)
<1>1. Walk(<<>>).muid = Root
  BY GetNothing, OccupantFacts DEF Walk
<1>2. /\ SubSeq(<<k>>, 1, 1 - 1) = <<>> /\ 1 \in DOMAIN <<k>> /\ <<k>>[1] = k
      /\ SubSeq(<<k, l>>, 1, 1 - 1) = <<>> /\ 1 \in DOMAIN <<k, l>> /\ <<k, l>>[1] = k
  BY OneKey, TwoKeys
<1>3. QED
  BY <1>1, <1>2 DEF WalkReads

\* Where an operation can be.
LEMMA PointeeAddress ==
    ASSUME SInv, NEW k, NEW c, InRoot(log, k, Now) = Pointee(c)
    PROVE  c \in Muid /\ c.time \in 1 .. Len(log)
<1>1. StoreOK(log) /\ LogAddressed
  BY BundlerFacts DEF SInv
<1>2. Find(log, Root, k, Now) = Pointee(c) /\ Pointee(c).muid = c
  BY <1>1, InRootType, OccupantFacts
<1>3. PointsWithin(log, Root, k)
  BY <1>1, PointsWithinStore DEF LogAddressed
<1>4. QED
  BY <1>2, <1>3, OccupantFacts DEF PointsWithin

LEMMA EntryServes ==
    ASSUME SInv, NEW e \in Bundler \cup {None}, NEW p \in Path, NEW c \in Muid, OnTheWay(p, c),
           NEW o \in Occupant, NEW op, NEW v, NEW reads, Called(op, p, v, e, reads) \in Call,
           (op = "set" /\ o = Plain(v)) \/ (op = "delete" /\ o = Deletion),
           \A k, l \in Key : p = <<k, l>> => Read(Root, k) \in reads,
           Perform(e, <<Entry(c, Last(p), o)>>, <<Called(op, p, v, e, reads)>>)
    PROVE  Served
<1> DEFINE call == Called(op, p, v, e, reads)
           ch   == Entry(c, Last(p), o)
<1>1. /\ call.op = op /\ call.path = p /\ call.value = v /\ call.reads = reads
      /\ call.after = Count(e)
  BY DEF Called
<1>2. Last(p) \in Key /\ StoreOK(log) /\ LogAddressed
  BY BundlerFacts, GetType DEF SInv
<1>3. /\ ch \in Change /\ ch.type = "entry" /\ ch.container = c /\ ch.key = Last(p)
      /\ ch.occupant = o
  BY <1>2, MadeFacts
<1> HIDE DEF call, ch
<1>4. SameAs(ch, call) /\ o.type # "pointee"
  BY <1>1, <1>3, OccupantFacts DEF SameAs
<1>5. <<ch>> \in Seq(Change) /\ DOMAIN <<ch>> = {1} /\ <<ch>>[1] = ch
  BY <1>3, OneOf, OneKey
<1>6. /\ Prior(e) \in Seq(Change) /\ PriorCalls(e) \in Seq(Call)
      /\ Len(Prior(e)) = Count(e) /\ Listed(Prior(e) \o <<ch>>)
  BY <1>5, PriorFacts DEF call, ch
<1>7. CASE \E k \in Key : p = <<k>> /\ c = Root
  <2>1. p = <<ch.key>> /\ ch.container = Root
    BY <1>3, <1>7, OneKey
  <2>2. Does(Prior(e), PriorCalls(e), <<ch>>, call)
    BY <1>1, <1>3, <1>4, <1>6, <2>1, DirectDoes DEF call
  <2>3. Root.time <= Len(log)
    BY <1>2, MuidsFacts DEF Root
  <2>4. AllAddressed(<<ch>>)
    BY <1>3, <1>4, <1>5, <2>1, <2>3 DEF AllAddressed, Addressed
  <2>5. QED
    BY <1>1, <1>5, <2>2, <2>4, OneServes DEF call, ch
<1>8. CASE \E k, l \in Key : p = <<k, l>> /\ InRoot(log, k, Now) = Pointee(c)
  <2>1. PICK k \in Key, l \in Key : p = <<k, l>> /\ InRoot(log, k, Now) = Pointee(c)
    BY <1>8
  <2>2. p = <<k, ch.key>> /\ Read(Root, k) \in call.reads
    BY <1>1, <1>3, <2>1, TwoKeys
  <2>3. Does(Prior(e), PriorCalls(e), <<ch>>, call)
    BY <1>1, <1>2, <1>3, <1>4, <1>6, <2>1, <2>2, WithinDoes DEF call
  <2>4. c.time <= Len(log)
    BY <1>2, <2>1, PointeeAddress, MuidsFacts
  <2>5. AllAddressed(<<ch>>)
    BY <1>3, <1>4, <1>5, <2>4 DEF AllAddressed, Addressed
  <2>6. QED
    BY <1>1, <1>5, <2>3, <2>5, OneServes DEF call, ch
<1>9. QED
  BY <1>7, <1>8 DEF OnTheWay

LEMMA DeleteServes ==
    ASSUME SInv, NEW b \in Bundler \cup {None}, NEW p \in Path, Delete(b, p)
    PROVE  Served
<1> DEFINE e == Effective(b)
           c == Walk(Front(p)).muid
           reads == WalkReads(Front(p))
<1>1. /\ Walk(Front(p)).type = "pointee"
      /\ Perform(e, <<Entry(c, Last(p), Deletion)>>, <<Called("delete", p, None, e, reads)>>)
  BY DEF Delete
<1>2. e \in Bundler \cup {None}
  BY EffectiveType DEF SInv
<1>3. OnTheWay(p, c) /\ c \in Muid
  BY <1>1, WalkFacts
<1>4. \A k, l \in Key : p = <<k, l>> => Read(Root, k) \in reads
  BY TwoKeys, WalkReadsFacts
<1> HIDE DEF e, c
<1>5. Called("delete", p, None, e, reads) \in Call
  BY <1>2, WalkReadsType, CalledType DEF SInv
<1> HIDE DEF reads
<1>6. QED
  BY <1>1, <1>2, <1>3, <1>4, <1>5, OccupantFacts, EntryServes

LEMMA PopServes ==
    ASSUME SInv, NEW b \in Bundler \cup {None}, NEW p \in Path, Pop(b, p)
    PROVE  Served
<1> DEFINE e == Effective(b)
           c == Walk(Front(p)).muid
           reads == WalkReads(p)
<1>1. /\ Walk(Front(p)).type = "pointee"
      /\ Perform(e, <<Entry(c, Last(p), Deletion)>>, <<Called("delete", p, None, e, reads)>>)
  BY DEF Pop
<1>2. e \in Bundler \cup {None}
  BY EffectiveType DEF SInv
<1>3. OnTheWay(p, c) /\ c \in Muid
  BY <1>1, WalkFacts
<1>4. \A k, l \in Key : p = <<k, l>> => Read(Root, k) \in reads
  BY WalkReadsFacts
<1> HIDE DEF e, c
<1>5. Called("delete", p, None, e, reads) \in Call
  BY <1>1, <1>2, WalkReadsType, CalledType DEF SInv
<1> HIDE DEF reads
<1>6. QED
  BY <1>1, <1>2, <1>3, <1>4, <1>5, OccupantFacts, EntryServes

LEMMA SetDefaultServes ==
    ASSUME SInv, NEW b \in Bundler \cup {None}, NEW p \in Path, NEW v \in Value,
           SetDefault(b, p, v)
    PROVE  Served
<1> DEFINE e == Effective(b)
           c == Walk(Front(p)).muid
           reads == WalkReads(p)
<1>1. /\ Walk(Front(p)).type = "pointee"
      /\ Perform(e, <<Entry(c, Last(p), Plain(v))>>, <<Called("set", p, v, e, reads)>>)
  BY DEF SetDefault
<1>2. e \in Bundler \cup {None}
  BY EffectiveType DEF SInv
<1>3. OnTheWay(p, c) /\ c \in Muid
  BY <1>1, WalkFacts
<1>4. \A k, l \in Key : p = <<k, l>> => Read(Root, k) \in reads
  BY WalkReadsFacts
<1> HIDE DEF e, c
<1>5. Called("set", p, v, e, reads) \in Call
  BY <1>1, <1>2, WalkReadsType, CalledType DEF SInv
<1> HIDE DEF reads
<1>6. QED
  BY <1>1, <1>2, <1>3, <1>4, <1>5, OccupantFacts, EntryServes

LEMMA PopItemServes ==
    ASSUME SInv, NEW b \in Bundler \cup {None}, PopItem(b)
    PROVE  Served
<1> DEFINE e     == Effective(b)
           reads == {Read(Root, l) : l \in Key}
<1>1. PICK k \in Key : Perform(e, <<Entry(Root, k, Deletion)>>,
                               <<Called("delete", <<k>>, None, e, reads)>>)
  BY DEF PopItem
<1>2. e \in Bundler \cup {None}
  BY EffectiveType DEF SInv
<1>3. <<k>> \in Path /\ Last(<<k>>) = k /\ OnTheWay(<<k>>, Root)
  BY OneKey DEF OnTheWay
<1> HIDE DEF e
<1>4. Called("delete", <<k>>, None, e, reads) \in Call
  <2>1. reads \in SUBSET Reads
    BY ReadType, MuidFacts DEF SInv
  <2>2. QED
    BY <1>2, <1>3, <2>1, CalledType DEF SInv
<1>5. \A i, l \in Key : <<k>> = <<i, l>> => Read(Root, i) \in reads
  OBVIOUS
<1> HIDE DEF reads
<1>6. QED
  BY <1>1, <1>2, <1>3, <1>4, <1>5, MuidFacts, OccupantFacts, EntryServes

\* An operation with one change and one call that the property is not about.
LEMMA OtherOneServes ==
    ASSUME SInv, NEW e \in Bundler \cup {None}, NEW ch \in Change, Addressed(log, ch),
           Perform(e, <<ch>>, <<Called("other", <<>>, None, e, {})>>)
    PROVE  Served
<1> DEFINE call == Called("other", <<>>, None, e, {})
           by   == <<call>>
           made == <<ch>>
<1>1. call \in Call /\ call.after = Count(e) /\ call.op = "other"
  BY PlainCallType DEF Called, SInv
<1> HIDE DEF call
<1>2. by \in Seq(Call) /\ by # <<>> /\ \A i \in DOMAIN by : by[i] = call
  BY <1>1
<1>3. made \in Seq(Change) /\ AllAddressed(made)
  BY OneOf, OneKey DEF AllAddressed
<1> HIDE DEF by, made
<1>4. QED
  BY <1>1, <1>2, <1>3, OtherServes DEF by, made, call

LEMMA NewServes ==
    ASSUME SInv, NEW b \in Bundler \cup {None}, New(b)
    PROVE  Served
<1> DEFINE ch == Container(Effective(b) # None)
<1>1. Effective(b) \in Bundler \cup {None}
  BY EffectiveType DEF SInv
<1>2. ch \in Change /\ Addressed(log, ch)
  BY MadeFacts DEF QuietChange, Container, Addressed
<1>3. Perform(Effective(b), <<ch>>, <<Called("other", <<>>, None, Effective(b), {})>>)
  BY DEF New
<1> HIDE DEF ch
<1>4. QED
  BY <1>1, <1>2, <1>3, OtherOneServes

LEMMA SetInServes ==
    ASSUME SInv, NEW b \in Bundler \cup {None}, NEW h \in Handles, NEW k \in Key, NEW v \in Value,
           SetIn(b, h, k, v)
    PROVE  Served
<1> DEFINE e  == Effective(b)
           ch == [Entry(PutInto(h), k, Plain(v)) EXCEPT !.owner = Proper(h, e)]
<1>1. Perform(e, <<ch>>, <<Called("other", <<>>, None, e, {})>>) /\ e \in Bundler \cup {None}
  BY EffectiveType DEF SetIn, SInv
<1> HIDE DEF e
<1>2. /\ PutInto(h) \in Muid /\ Plain(v) \in Occupant /\ Proper(h, e) \in Handle \cup {NoHandle}
      /\ PutInto(h).time <= Len(log)
  BY HandlesFacts, OccupantFacts, ProperType DEF SInv
<1>3. ch \in Change /\ ch.container = PutInto(h) /\ ch.occupant = Plain(v)
  BY <1>2 DEF Entry, Change
<1> HIDE DEF ch
<1>4. Addressed(log, ch)
  BY <1>2, <1>3, OccupantFacts DEF Addressed
<1>5. QED
  BY <1>1, <1>3, <1>4, OtherOneServes

LEMMA LinkServes ==
    ASSUME SInv, NEW b \in Bundler \cup {None}, NEW h \in Handles, NEW k \in Key, Link(b, k, h)
    PROVE  Served
<1> DEFINE e  == Effective(b)
           ch == [Entry(Root, k, Pointee(PutInto(h))) EXCEPT !.guest = Proper(h, e)]
<1>1. Perform(e, <<ch>>, <<Called("other", <<>>, None, e, {})>>) /\ e \in Bundler \cup {None}
  BY EffectiveType DEF Link, SInv
<1> HIDE DEF e
<1>2. /\ Pointee(PutInto(h)) \in Occupant /\ Root \in Muid
      /\ Proper(h, e) \in Handle \cup {NoHandle}
      /\ Pointee(PutInto(h)).muid = PutInto(h)
  BY HandlesFacts, OccupantFacts, ProperType, MuidFacts DEF SInv
<1>3. PutInto(h).time \in 0 .. Len(log) /\ Root.time <= Len(log)
  <2>1. PutInto(h).time = stamp[h.bundler] /\ PutInto(h).time <= Len(log)
        /\ stamp[h.bundler] \in 0 .. MaxBundles /\ Len(log) \in Nat
    BY HandlesFacts, BundlerFacts, MuidsFacts DEF SInv
  <2>2. QED
    BY <2>1, Bounds DEF Root
<1>4. ch \in Change /\ ch.container = Root /\ ch.occupant = Pointee(PutInto(h))
  BY <1>2 DEF Entry, Change
<1> HIDE DEF ch
<1>5. Addressed(log, ch)
  BY <1>2, <1>3, <1>4 DEF Addressed
<1>6. QED
  BY <1>1, <1>4, <1>5, OtherOneServes

LEMMA ClearServes ==
    ASSUME SInv, NEW b \in Bundler \cup {None}, Clear(b)
    PROVE  Served
<1> DEFINE e    == Effective(b)
           call == Called("clear", <<>>, None, e, {})
           made == <<Clearance(Root)>>
<1>1. Perform(e, made, <<call>>) /\ e \in Bundler \cup {None}
  BY EffectiveType DEF Clear, SInv
<1> HIDE DEF e
<1>2. call \in Call /\ call.op = "clear" /\ call.after = Count(e)
  BY <1>1, PlainCallType DEF Called, SInv
<1>3. made \in Seq(Change) /\ AllAddressed(made)
  <2>1. Clearance(Root) \in Change /\ Clearance(Root).type = "clearance"
    BY MuidFacts DEF Clearance, Change
  <2>2. DOMAIN made = {1} /\ made[1] = Clearance(Root)
    BY OneKey
  <2>3. QED
    BY <2>1, <2>2, OneOf DEF AllAddressed, Addressed
<1> HIDE DEF made
<1>4. /\ Prior(e) \in Seq(Change) /\ PriorCalls(e) \in Seq(Call)
      /\ Len(Prior(e)) = Count(e) /\ Listed(Prior(e) \o made)
  BY <1>1, <1>3, PriorFacts
<1> HIDE DEF call
<1>5. Does(Prior(e), PriorCalls(e), made, call)
  BY <1>2, <1>4, ClearanceDoes DEF made
<1>6. QED
  BY <1>1, <1>2, <1>3, <1>5, OneServes

\* What a reset makes has whole addresses.
LEMMA ResetAddressed ==
    ASSUME SInv, NEW containers \in SUBSET Muid, NEW to,
           \A c \in containers : IsContainer(log, c)
    PROVE  /\ ResetChanges(containers, to) \in Seq(Change)
           /\ AllAddressed(ResetChanges(containers, to))
<1> DEFINE made == ResetChanges(containers, to)
<1>1. /\ StoreOK(log) /\ LogKnown /\ LogAddressed
      /\ Len(log) \in Nat /\ \A m \in Muids(log) : m.time \in 1 .. Len(log)
  BY BundlerFacts, MuidsFacts DEF SInv, IInv
<1>2. /\ made \in Seq(QuietChange)
      /\ \A i \in DOMAIN made :
             \E p \in Pairs(containers, to) : made[i] = KeyReset(p[1], p[2], to)
  BY <1>1, ResetChangesFacts
<1> HIDE DEF made
<1>3. ASSUME NEW c \in containers, NEW k \in Key
      PROVE  Addressed(log, KeyReset(c, k, to))
  <2> DEFINE ch == KeyReset(c, k, to)
             then == ContainedThen(c, k, to)
  <2>1. c.time <= Len(log)
    BY <1>1, <1>3, IsContainerFacts DEF Root
  <2>2. /\ ch.type = "entry"
        /\ then = Deletion => ch.container = c /\ ch.occupant = Deletion
        /\ then # Deletion =>
               \E m \in LastEntry(log, c, k, to) :
                   /\ At(log, m).type = "entry"
                   /\ ch.container = At(log, m).container
                   /\ ch.occupant = At(log, m).occupant
    BY <1>1, KeyResetFacts
  <2>3. \A m \in LastEntry(log, c, k, to) : Addressed(log, At(log, m))
    BY <1>1, EntriesFacts DEF LogAddressed
  <2> HIDE DEF ch, then
  <2>4. CASE then = Deletion
    BY <2>1, <2>2, <2>4, OccupantFacts DEF Addressed, ch
  <2>5. CASE then # Deletion
    BY <2>2, <2>3, <2>5 DEF Addressed, ch
  <2>6. QED
    BY <2>4, <2>5
<1>4. AllAddressed(made)
  <2>1. \A p \in Pairs(containers, to) : p[1] \in containers /\ p[2] \in Key
    BY DEF Pairs, KeysOf
  <2>2. QED
    BY <1>2, <1>3, <2>1 DEF AllAddressed
<1>5. made \in Seq(Change)
  BY <1>2 DEF QuietChange
<1>6. QED
  BY <1>4, <1>5 DEF made

LEMMA ResetsServe ==
    ASSUME SInv, NEW b \in Bundler \cup {None}, NEW containers \in SUBSET Muid,
           NEW to \in DOMAIN log, \A c \in containers : IsContainer(log, c),
           NEW by, by = <<ResetCall(to, b)>> \/ by = <<ResetCall(to, b), ResetCall(to, b)>>,
           Perform(b, ResetChanges(containers, to), by)
    PROVE  Served
<1>1. /\ ResetCall(to, b) \in Call /\ ResetCall(to, b).op = "reset"
      /\ ResetCall(to, b).after = Count(b)
  BY ResetCallType DEF ResetCall, Called, SInv
<1>2. by \in Seq(Call) /\ by # <<>> /\ \A i \in DOMAIN by : by[i] = ResetCall(to, b)
  <2> SUFFICES ASSUME NEW x \in Call, by = <<x>> \/ by = <<x, x>>
               PROVE  by \in Seq(Call) /\ by # <<>> /\ \A i \in DOMAIN by : by[i] = x
    BY <1>1
  <2>1. /\ <<x>> \in Seq(Call) /\ <<x>> # <<>> /\ \A i \in DOMAIN <<x>> : <<x>>[i] = x
        /\ <<x, x>> \in Seq(Call) /\ <<x, x>> # <<>>
        /\ \A i \in DOMAIN <<x, x>> : <<x, x>>[i] = x
    OBVIOUS
  <2>2. QED
    BY <2>1
<1>3. QED
  BY <1>1, <1>2, ResetAddressed, OtherServes

LEMMA ResetServes ==
    ASSUME SInv, NEW b \in Bundler \cup {None}, NEW to \in DOMAIN log, NEW recursive \in BOOLEAN,
           Reset(b, to, recursive)
    PROVE  Served
<1> DEFINE containers == IF recursive THEN Reached(to) ELSE {Root}
           by == IF recursive THEN <<ResetCall(to, b), ResetCall(to, b)>>
                 ELSE <<ResetCall(to, b)>>
<1>1. /\ Perform(b, ResetChanges(containers, to), by)
      /\ \A c \in containers : IsContainer(log, c)
  BY DEF Reset
<1>2. containers \in SUBSET Muid
  BY BundlerFacts, ReachedType, MuidFacts DEF SInv
<1>3. by = <<ResetCall(to, b)>> \/ by = <<ResetCall(to, b), ResetCall(to, b)>>
  OBVIOUS
<1> HIDE DEF containers, by
<1>4. QED
  BY <1>1, <1>2, <1>3, ResetsServe

LEMMA ResetAllServes ==
    ASSUME SInv, NEW b \in Bundler \cup {None}, NEW to \in DOMAIN log, ResetAll(b, to)
    PROVE  Served
<1> DEFINE containers == {m \in Muids(log) \cup {Root} : IsContainer(log, m)}
           by == <<ResetCall(to, b), ResetCall(to, b)>>
<1>1. Perform(b, ResetChanges(containers, to), by)
  BY DEF ResetAll
<1>2. containers \in SUBSET Muid /\ \A c \in containers : IsContainer(log, c)
  BY BundlerFacts, MuidsFacts, MuidFacts DEF SInv
<1> HIDE DEF containers
<1>3. QED
  BY <1>1, <1>2, ResetsServe

\* What a sequence is with one or two elements more.
LEMMA MoreOf ==
    ASSUME NEW S, NEW s \in Seq(S), NEW x \in S
    PROVE  /\ <<x>> \in Seq(S) /\ s \o <<x>> = Append(s, x) /\ Append(s, x) \in Seq(S)
           /\ Len(Append(s, x)) = Len(s) + 1 /\ Len(s) \in Nat
           /\ \A t \in Seq(S) : s \o (<<x>> \o t) = Append(s, x) \o t
<1>1. <<x>> \in Seq(S) /\ s \o <<x>> = Append(s, x)
  OBVIOUS
<1>2. \A t \in Seq(S) : s \o (<<x>> \o t) = (s \o <<x>>) \o t
  BY <1>1, ConcatAssociative
<1>3. QED
  BY <1>1, <1>2, AppendProperties, LenProperties

LEMMA TwoMoreOf ==
    ASSUME NEW S, NEW s \in Seq(S), NEW x \in S, NEW y \in S
    PROVE  /\ s \o <<x, y>> = (s \o <<x>>) \o <<y>>
           /\ Len(s \o <<x, y>>) = Len(s) + 2 /\ Len(s \o <<x>>) = Len(s) + 1
           /\ s \o <<x>> \in Seq(S) /\ Len(s) \in Nat
<1>1. <<x>> \o <<y>> = <<x, y>> /\ <<y>> \in Seq(S)
  <2> DEFINE p == <<x>>
             q == <<y>>
             r == <<x, y>>
             u == p \o q
  <2>1. p \in Seq(S) /\ Len(p) = 1 /\ p[1] = x
    OBVIOUS
  <2>2. q \in Seq(S) /\ Len(q) = 1 /\ q[1] = y
    OBVIOUS
  <2>3. r \in Seq(S) /\ Len(r) = 2 /\ r[1] = x /\ r[2] = y
    OBVIOUS
  <2> HIDE DEF p, q, r
  <2>4. /\ u \in Seq(S) /\ Len(u) = Len(p) + Len(q)
        /\ \A i \in 1 .. Len(p) + Len(q) :
               u[i] = IF i <= Len(p) THEN p[i] ELSE q[i - Len(p)]
    BY <2>1, <2>2, ConcatProperties
  <2> HIDE DEF u
  <2>5. Len(u) = 2 /\ \A i \in 1 .. 2 : u[i] = r[i]
    BY <2>1, <2>2, <2>3, <2>4
  <2>6. u = r
    BY <2>3, <2>4, <2>5, SeqEqual
  <2>7. QED
    BY <2>2, <2>6 DEF p, q, r, u
<1>2. s \o <<x, y>> = Append(s, x) \o <<y>>
  BY <1>1, MoreOf
<1>3. s \o <<x>> = Append(s, x) /\ Append(s, x) \in Seq(S) /\ Len(Append(s, x)) = Len(s) + 1
      /\ Len(s) \in Nat
  BY MoreOf
<1>4. Append(s, x) \o <<y>> = Append(Append(s, x), y)
      /\ Len(Append(Append(s, x), y)) = Len(Append(s, x)) + 1
  BY <1>3, MoreOf
<1>5. s \o <<x, y>> = (s \o <<x>>) \o <<y>>
  BY <1>2, <1>3, Zenon
<1>6. s \o <<x, y>> = Append(Append(s, x), y)
  BY <1>2, <1>4, Zenon
<1>7. Len(s \o <<x, y>>) = Len(Append(Append(s, x), y)) /\ Len(s \o <<x>>) = Len(Append(s, x))
      /\ s \o <<x>> \in Seq(S)
  BY <1>3, <1>6, Zenon
<1>8. Len(s \o <<x, y>>) = Len(s) + 2 /\ Len(s \o <<x>>) = Len(s) + 1
  <2> DEFINE i == Len(s)
             j == Len(Append(s, x))
             k == Len(Append(Append(s, x), y))
  <2>1. i \in Nat /\ j = i + 1 /\ k = j + 1
    BY <1>3, <1>4
  <2>2. Len(s \o <<x, y>>) = k /\ Len(s \o <<x>>) = j
    BY <1>7
  <2> HIDE DEF i, j, k
  <2>3. k = i + 2
    BY <2>1
  <2>4. QED
    BY <2>1, <2>2, <2>3 DEF i
<1>9. QED
  BY <1>3, <1>5, <1>7, <1>8, Zenon

\* One key of an update.
UpdateEntry(k, v) == Entry(Root, k, Plain(v))
UpdateCall(k, v, e) == Called("set", <<k>>, v, e, {})

LEMMA UpdateOne ==
    ASSUME SInv, NEW e \in Bundler \cup {None}, NEW list \in Seq(Change), NEW by \in Seq(Call),
           Replays(log, list, by), Count(e) <= Len(list), NEW k \in Key, NEW v \in Value,
           Listed(list \o <<UpdateEntry(k, v)>>)
    PROVE  /\ Replays(log, list \o <<UpdateEntry(k, v)>>, by \o <<UpdateCall(k, v, e)>>)
           /\ list \o <<UpdateEntry(k, v)>> \in Seq(Change)
           /\ by \o <<UpdateCall(k, v, e)>> \in Seq(Call)
           /\ Count(e) <= Len(list \o <<UpdateEntry(k, v)>>)
<1> DEFINE ch   == UpdateEntry(k, v)
           call == UpdateCall(k, v, e)
<1>1. /\ ch \in Change /\ ch.type = "entry" /\ ch.container = Root /\ ch.key = k
      /\ ch.occupant = Plain(v)
  BY MuidFacts, OccupantFacts, MadeFacts DEF UpdateEntry
<1>2. call \in Call
  <2>1. <<k>> \in Path \cup {<<>>} /\ {} \in SUBSET Reads
    BY OneKey
  <2>2. QED
    BY <2>1, CalledType DEF SInv, UpdateCall
<1>3. call.op = "set" /\ call.path = <<k>> /\ call.value = v /\ call.after = Count(e)
  BY DEF UpdateCall, Called
<1> HIDE DEF ch, call
<1>4. Does(list, by, <<ch>>, call)
  <2>1. call.path = <<ch.key>> /\ SameAs(ch, call)
    BY <1>1, <1>3 DEF SameAs
  <2>2. QED
    BY <1>1, <1>2, <2>1, DirectDoes DEF ch
<1>5. <<ch>> \in Seq(Change) /\ by \o <<call>> = Append(by, call) /\ by \o <<call>> \in Seq(Call)
  BY <1>1, <1>2
<1>6. Replays(log, list \o <<ch>>, by \o <<call>>)
  BY <1>2, <1>3, <1>4, <1>5, ReplayStep
<1>7. list \o <<ch>> \in Seq(Change) /\ Len(list \o <<ch>>) = Len(list) + 1 /\ Len(list) \in Nat
  BY <1>1, OneMoreChange, AppendProperties, LenProperties
<1>8. Count(e) \in Nat
  BY PriorFacts
<1>9. QED
  BY <1>5, <1>6, <1>7, <1>8 DEF ch, call

LEMMA UpdateReplays ==
    ASSUME SInv, NEW e \in Bundler \cup {None}, NEW list \in Seq(Change), NEW by \in Seq(Call),
           Replays(log, list, by), Count(e) <= Len(list), NEW contents \in Contents,
           Listed(list \o UpdateChanges(contents))
    PROVE  Replays(log, list \o UpdateChanges(contents), by \o UpdateCalls(contents, e))
<1>1. CASE \E k \in Key, v \in Value : contents = <<<<k, v>>>>
  <2>1. PICK k \in Key, v \in Value : contents = <<<<k, v>>>>
    BY <1>1
  <2>2. /\ UpdateChanges(contents) = <<UpdateEntry(k, v)>>
        /\ UpdateCalls(contents, e) = <<UpdateCall(k, v, e)>>
    BY <2>1 DEF UpdateChanges, UpdateCalls, UpdateEntry, UpdateCall
  <2>3. QED
    BY <2>2, UpdateOne
<1>2. CASE \E k, l \in Key, v \in Value : contents = <<<<k, v>>, <<l, v>>>>
  <2>1. PICK k \in Key, l \in Key, v \in Value : contents = <<<<k, v>>, <<l, v>>>>
    BY <1>2
  <2> DEFINE ch1 == UpdateEntry(k, v)
             ch2 == UpdateEntry(l, v)
             call1 == UpdateCall(k, v, e)
             call2 == UpdateCall(l, v, e)
  <2>2. UpdateChanges(contents) = <<ch1, ch2>> /\ UpdateCalls(contents, e) = <<call1, call2>>
    BY <2>1 DEF UpdateChanges, UpdateCalls, UpdateEntry, UpdateCall
  <2>3. ch1 \in Change /\ ch2 \in Change /\ call1 \in Call /\ call2 \in Call
    <3>1. Root \in Muid /\ Plain(v) \in Occupant
      BY MuidFacts, OccupantFacts
    <3>2. {} \in SUBSET Reads /\ <<k>> \in Path \cup {<<>>} /\ <<l>> \in Path \cup {<<>>}
      BY OneKey
    <3>3. QED
      BY <3>1, <3>2, MadeFacts, CalledType DEF SInv, UpdateEntry, UpdateCall
  <2> HIDE DEF ch1, ch2, call1, call2
  <2>4. /\ list \o <<ch1, ch2>> = (list \o <<ch1>>) \o <<ch2>>
        /\ by \o <<call1, call2>> = (by \o <<call1>>) \o <<call2>>
        /\ Len(list \o <<ch1, ch2>>) = Len(list) + 2 /\ Len(list \o <<ch1>>) = Len(list) + 1
        /\ list \o <<ch1>> \in Seq(Change) /\ Len(list) \in Nat
    <3>1. \A x, y \in Call : by \o <<x, y>> = (by \o <<x>>) \o <<y>>
      BY TwoMoreOf
    <3>2. by \o <<call1, call2>> = (by \o <<call1>>) \o <<call2>>
      BY <2>3, <3>1
    <3>3. \A x, y \in Change :
              /\ list \o <<x, y>> = (list \o <<x>>) \o <<y>>
              /\ Len(list \o <<x, y>>) = Len(list) + 2 /\ Len(list \o <<x>>) = Len(list) + 1
              /\ list \o <<x>> \in Seq(Change) /\ Len(list) \in Nat
      BY TwoMoreOf
    <3>4. QED
      BY <2>3, <3>2, <3>3
  <2>5. Listed(list \o <<ch1>>) /\ Listed((list \o <<ch1>>) \o <<ch2>>)
    BY <2>2, <2>4, Bounds DEF Listed
  <2>6. /\ Replays(log, list \o <<ch1>>, by \o <<call1>>)
        /\ by \o <<call1>> \in Seq(Call) /\ Count(e) <= Len(list \o <<ch1>>)
    BY <2>5, UpdateOne DEF ch1, call1
  <2>7. Replays(log, (list \o <<ch1>>) \o <<ch2>>, (by \o <<call1>>) \o <<call2>>)
    BY <2>4, <2>5, <2>6, UpdateOne DEF ch2, call2
  <2>8. QED
    BY <2>2, <2>4, <2>7
<1>3. QED
  BY <1>1, <1>2 DEF Contents

LEMMA UpdateAddressed ==
    ASSUME SInv, NEW contents \in Contents
    PROVE  UpdateChanges(contents) \in Seq(Change) /\ AllAddressed(UpdateChanges(contents))
<1>1. UpdateChanges(contents) \in Seq(QuietChange)
  BY UpdateType DEF SInv
<1>2. Root.time <= Len(log)
  BY BundlerFacts, MuidsFacts DEF SInv, Root
<1>3. \A i \in DOMAIN contents : Addressed(log, Entry(Root, contents[i][1], Plain(contents[i][2])))
  <2>1. ASSUME NEW i \in DOMAIN contents
        PROVE  Addressed(log, Entry(Root, contents[i][1], Plain(contents[i][2])))
    <3>1. contents[i][1] \in Key /\ contents[i][2] \in Value
      BY ContentsFacts
    <3>2. QED
      BY <1>2, <3>1, MuidFacts, OccupantFacts, MadeFacts DEF Addressed
  <2>2. QED
    BY <2>1
<1>4. AllAddressed(UpdateChanges(contents))
  BY <1>3 DEF AllAddressed, UpdateChanges
<1>5. QED
  BY <1>1, <1>4 DEF QuietChange

LEMMA UpdateServes ==
    ASSUME SInv, NEW b \in Bundler \cup {None}, NEW contents \in Contents, Update(b, contents)
    PROVE  Served
<1> DEFINE e    == Effective(b)
           made == UpdateChanges(contents)
           by   == UpdateCalls(contents, e)
<1>1. Perform(e, made, by) /\ e \in Bundler \cup {None}
  BY EffectiveType DEF Update, SInv
<1> HIDE DEF e
<1>2. by \in Seq(Call) /\ made \in Seq(Change) /\ AllAddressed(made)
  BY <1>1, UpdateType, UpdateAddressed DEF SInv
<1>3. /\ Prior(e) \in Seq(Change) /\ PriorCalls(e) \in Seq(Call)
      /\ Len(Prior(e)) = Count(e) /\ Count(e) \in Nat /\ Listed(Prior(e) \o made)
      /\ Replays(log, Prior(e), PriorCalls(e))
  BY <1>1, <1>2, PriorFacts
<1>4. Replays(log, Prior(e) \o made, PriorCalls(e) \o by)
  BY <1>1, <1>3, UpdateReplays
<1>5. QED
  BY <1>1, <1>2, <1>4 DEF Serves, Served

LEMMA RefillServes ==
    ASSUME SInv, NEW b \in Bundler \cup {None}, NEW contents \in Contents, Refill(b, contents)
    PROVE  Served
<1> DEFINE e     == Effective(b)
           ch    == Clearance(Root)
           call  == Called("clear", <<>>, None, e, {})
           made  == UpdateChanges(contents)
           by    == UpdateCalls(contents, e)
           whole == <<ch>> \o made
           every == <<call>> \o by
<1>1. Perform(e, whole, every) /\ e \in Bundler \cup {None}
  BY EffectiveType DEF Refill, SInv
<1> HIDE DEF e
<1>2. by \in Seq(Call) /\ made \in Seq(Change) /\ AllAddressed(made)
  BY <1>1, UpdateType, UpdateAddressed DEF SInv
<1>3. ch \in Change /\ ch.type = "clearance" /\ Addressed(log, ch)
  BY MuidFacts DEF Clearance, Change, Addressed
<1>4. call \in Call /\ call.op = "clear" /\ call.after = Count(e)
  BY <1>1, PlainCallType DEF Called, SInv
<1> HIDE DEF made, by, call
<1>5. whole \in Seq(Change) /\ every \in Seq(Call) /\ AllAddressed(whole)
  <2>1. <<ch>> \in Seq(Change) /\ <<call>> \in Seq(Call) /\ Len(<<ch>>) = 1 /\ <<ch>>[1] = ch
    BY <1>3, <1>4
  <2> HIDE DEF ch
  <2>2. \A i \in DOMAIN whole : whole[i] = ch \/ \E j \in DOMAIN made : whole[i] = made[j]
    BY <1>2, <2>1, ConcatProperties, LenProperties
  <2>3. AllAddressed(whole)
    BY <1>2, <1>3, <2>2 DEF AllAddressed
  <2>4. QED
    BY <1>2, <2>1, <2>3, ConcatProperties
<1> HIDE DEF whole, every
<1>6. /\ Prior(e) \in Seq(Change) /\ PriorCalls(e) \in Seq(Call)
      /\ Len(Prior(e)) = Count(e) /\ Count(e) \in Nat /\ Listed(Prior(e) \o whole)
      /\ Replays(log, Prior(e), PriorCalls(e))
  BY <1>1, <1>5, PriorFacts
<1> DEFINE list  == Prior(e) \o <<ch>>
           calls_ == Append(PriorCalls(e), call)
<1>7. /\ list \in Seq(Change) /\ calls_ \in Seq(Call) /\ <<ch>> \in Seq(Change)
      /\ Len(list) = Count(e) + 1
      /\ Prior(e) \o whole = list \o made
      /\ PriorCalls(e) \o every = calls_ \o by
  <2> HIDE DEF ch
  <2>1. /\ list \in Seq(Change) /\ <<ch>> \in Seq(Change) /\ Len(list) = Count(e) + 1
        /\ Prior(e) \o (<<ch>> \o made) = list \o made
    <3>1. Prior(e) \o <<ch>> = Append(Prior(e), ch)
      BY <1>3, <1>6, MoreOf
    <3>2. QED
      BY <1>2, <1>3, <1>6, <3>1, MoreOf
  <2>2. calls_ \in Seq(Call) /\ PriorCalls(e) \o (<<call>> \o by) = calls_ \o by
    <3>1. \A s \in Seq(Call), x \in Call :
              /\ Append(s, x) \in Seq(Call)
              /\ \A t \in Seq(Call) : s \o (<<x>> \o t) = Append(s, x) \o t
      BY MoreOf
    <3>2. QED
      BY <1>2, <1>4, <1>6, <3>1
  <2>3. QED
    BY <2>1, <2>2 DEF whole, every
<1>8. Listed(list) /\ Listed(list \o made)
  <2>1. Len(list \o made) = Len(list) + Len(made) /\ Len(list) \in Nat /\ Len(made) \in Nat
    BY <1>2, <1>7, ConcatProperties, LenProperties
  <2> HIDE DEF list
  <2>2. QED
    BY <1>6, <1>7, <2>1, Bounds DEF Listed
<1>9. Replays(log, list, calls_)
  <2>1. Does(Prior(e), PriorCalls(e), <<ch>>, call)
    BY <1>4, <1>6, <1>8, ClearanceDoes
  <2>2. call.after <= Len(Prior(e))
    BY <1>4, <1>6
  <2> HIDE DEF ch
  <2>3. QED
    BY <1>4, <1>6, <1>7, <2>1, <2>2, ReplayStep
<1> HIDE DEF list, calls_
<1>10. Count(e) <= Len(list)
  BY <1>6, <1>7
<1>11. Replays(log, list \o made, calls_ \o by)
  BY <1>1, <1>7, <1>8, <1>9, <1>10, UpdateReplays DEF made, by
<1>12. QED
  BY <1>1, <1>5, <1>7, <1>11 DEF Serves, Served

\* Where the first key of a path leads Directory.set to.
LEMMA StepFacts ==
    ASSUME SInv, NEW k \in Key, NEW n \in Nat, Step(Start, k, n).ok
    PROVE  LET s   == Step(Start, k, n)
               new == [time |-> 0, offset |-> n + 1]
           IN  /\ s.reads = {Read(Root, k)}
               /\ \/ /\ s.made = <<>> /\ s.at \in Muid
                     /\ InRoot(log, k, Now) = Pointee(s.at)
                  \/ /\ s.made = <<Container(FALSE), Entry(Root, k, Pointee(new))>>
                     /\ s.at = new /\ Find(log, Root, k, Now) = Deletion
<1> DEFINE there == InRoot(log, k, Now)
           new   == [time |-> 0, offset |-> n + 1]
           reads == {Read(Root, k)}
<1>1. there \in Readable /\ StoreOK(log)
  BY BundlerFacts, InRootType DEF SInv
<1>2. there.type = "pointee" => there.muid \in Muid /\ there = Pointee(there.muid)
  BY <1>1, InRootType
<1>3. there.type = "deletion" => Find(log, Root, k, Now) = Deletion
  BY <1>1, FindType, OccupantFacts DEF InRoot, GetContainer, Lost
<1>4. Start.made = <<>> /\ Len(Start.made) = 0 /\ Start.at = Root /\ ~Start.fresh
      /\ Start.reads = {} /\ Start.ok /\ n + 0 + 1 = n + 1
  BY DEF Start
<1>5. Step(Start, k, n) =
          IF there.type = "deletion"
          THEN [at |-> new, fresh |-> TRUE, ok |-> Start.ok,
                made |-> Start.made \o <<Container(FALSE), Entry(Root, k, Pointee(new))>>,
                reads |-> Start.reads \cup reads]
          ELSE [Start EXCEPT !.at = IF there.type = "pointee" THEN there.muid ELSE @,
                             !.fresh = FALSE,
                             !.ok = @ /\ there.type = "pointee", !.reads = @ \cup reads]
  BY <1>4 DEF Step, InRoot, Find
<1> HIDE DEF there, reads, new
<1>6. CASE there.type = "deletion"
  <2> DEFINE s == [at |-> new, fresh |-> TRUE, ok |-> Start.ok,
                   made |-> Start.made \o <<Container(FALSE), Entry(Root, k, Pointee(new))>>,
                   reads |-> Start.reads \cup reads]
  <2>1. /\ s.reads = reads /\ s.at = new
        /\ s.made = <<>> \o <<Container(FALSE), Entry(Root, k, Pointee(new))>>
    BY <1>4
  <2>2. s.made = <<Container(FALSE), Entry(Root, k, Pointee(new))>>
    BY <2>1, PutTogether
  <2>3. QED
    BY <1>3, <1>5, <1>6, <2>1, <2>2 DEF new, reads
<1>7. CASE there.type # "deletion"
  <2> DEFINE s == [Start EXCEPT !.at = IF there.type = "pointee" THEN there.muid ELSE @,
                                !.fresh = FALSE,
                                !.ok = @ /\ there.type = "pointee", !.reads = @ \cup reads]
  <2>1. s.reads = reads /\ s.made = <<>> /\ (s.ok => there.type = "pointee")
        /\ s.at = IF there.type = "pointee" THEN there.muid ELSE Root
    BY DEF Start
  <2>2. s.ok
    BY <1>5, <1>7
  <2>3. s.at \in Muid /\ there = Pointee(s.at)
    BY <1>2, <2>1, <2>2
  <2>4. QED
    BY <1>5, <1>7, <2>1, <2>3 DEF reads, there
<1>8. QED
  BY <1>6, <1>7

\* Directory.set into a subdirectory that is not there yet.
LEMMA FoundingServes ==
    ASSUME SInv, NEW e \in Bundler \cup {None}, NEW k \in Key, NEW l \in Key, NEW v \in Value,
           Find(log, Root, k, Now) = Deletion,
           Perform(e, Founding(Count(e), k, l, v),
                   <<Called("set", <<k, l>>, v, e, {Read(Root, k)})>>)
    PROVE  Served
<1> DEFINE n    == Count(e)
           new  == [time |-> 0, offset |-> n + 1]
           made == Founding(n, k, l, v)
           call == Called("set", <<k, l>>, v, e, {Read(Root, k)})
<1>1. /\ call.op = "set" /\ call.path = <<k, l>> /\ call.value = v /\ call.after = n
      /\ call.reads = {Read(Root, k)}
  BY DEF Called
<1>2. call \in Call
  <2>1. <<k, l>> \in Path \cup {<<>>} /\ {Read(Root, k)} \in SUBSET Reads
    BY TwoKeys, ReadType, MuidFacts DEF SInv
  <2>2. QED
    BY <2>1, CalledType DEF SInv
<1>3. /\ Prior(e) \in Seq(Change) /\ PriorCalls(e) \in Seq(Call) /\ Len(Prior(e)) = n /\ n \in Nat
      /\ StoreOK(log) /\ LogAddressed /\ Len(log) \in Nat
  BY PriorFacts, BundlerFacts, MuidsFacts DEF SInv
<1>4. n + 3 <= MaxChanges
  <2>1. Len(made) = 3
    BY DEF Founding
  <2>2. QED
    BY <2>1 DEF Perform
<1>5. new \in Muid /\ new.time = 0
  <2>1. n + 1 \in 0 .. MaxChanges /\ 0 \in -1 .. MaxBundles
    BY <1>3, <1>4, Bounds
  <2>2. QED
    BY <2>1, MuidFacts
<1> DEFINE ch1 == Container(FALSE)
           ch2 == Entry(Root, k, Pointee(new))
           ch3 == Entry(new, l, Plain(v))
<1>6. made = <<ch1, ch2, ch3>>
  BY DEF Founding
<1> HIDE DEF n, new, made, call
<1>7. ch1 \in Change /\ ch2 \in Change /\ ch3 \in Change
  BY <1>5, MuidFacts, OccupantFacts, MadeFacts DEF QuietChange
<1>8. Addressed(log, ch1) /\ Addressed(log, ch2) /\ Addressed(log, ch3)
  <2>1. ch1.type = "container"
    BY DEF Container
  <2>2. /\ ch2.container = Root /\ ch2.occupant = Pointee(new) /\ Pointee(new).muid = new
        /\ ch3.container = new /\ ch3.occupant = Plain(v) /\ Plain(v).type = "value"
    BY <1>5, MuidFacts, OccupantFacts, MadeFacts
  <2>3. Root.time <= Len(log) /\ new.time <= Len(log) /\ new.time \in 0 .. Len(log)
    BY <1>3, <1>5 DEF Root
  <2> HIDE DEF ch1, ch2, ch3
  <2>4. QED
    BY <2>1, <2>2, <2>3 DEF Addressed
<1> HIDE DEF ch1, ch2, ch3
<1>9. made \in Seq(Change) /\ AllAddressed(made)
  <2>1. made \in Seq(Change)
    BY <1>6, <1>7
  <2>2. \A i \in DOMAIN made : made[i] = ch1 \/ made[i] = ch2 \/ made[i] = ch3
    BY <1>6
  <2>3. QED
    BY <1>8, <2>1, <2>2 DEF AllAddressed
<1>10. Listed(Prior(e) \o made)
  BY <1>9, PriorFacts DEF made, n, call
<1>11. Does(Prior(e), PriorCalls(e), made, call)
  <2>1. made = Founding(Len(Prior(e)), k, l, v)
    BY <1>3 DEF made
  <2>2. Read(Root, k) \in call.reads
    BY <1>1
  <2>3. QED
    BY <1>1, <1>2, <1>3, <1>10, <2>1, <2>2, FoundedDoes
<1>12. Perform(e, made, <<call>>) /\ call.after = Count(e)
  BY <1>1 DEF made, call, n
<1>13. QED
  BY <1>2, <1>9, <1>11, <1>12, OneServes

LEMMA SetServes ==
    ASSUME SInv, NEW b \in Bundler \cup {None}, NEW p \in Path, NEW v \in Value, Set(b, p, v)
    PROVE  Served
<1> DEFINE e == Effective(b)
           n == Count(e)
           s == Way(Front(p), n)
<1>1. /\ s.ok /\ e \in Bundler \cup {None}
      /\ Perform(e, Append(s.made, Entry(s.at, Last(p), Plain(v))),
                 <<Called("set", p, v, e, s.reads)>>)
  BY EffectiveType DEF Set, Way, Start, SInv
<1>2. n \in Nat /\ Plain(v) \in Occupant
  BY <1>1, PriorFacts, OccupantFacts
<1> HIDE DEF e
<1>3. ASSUME NEW c \in Muid, s.made = <<>>, s.at = c, OnTheWay(p, c), s.reads \in SUBSET Reads,
             \A k, l \in Key : p = <<k, l>> => Read(Root, k) \in s.reads
      PROVE  Served
  <2> HIDE DEF s
  <2>1. Append(<<>>, Entry(c, Last(p), Plain(v))) = <<Entry(c, Last(p), Plain(v))>>
    OBVIOUS
  <2>2. Perform(e, <<Entry(c, Last(p), Plain(v))>>, <<Called("set", p, v, e, s.reads)>>)
    BY <1>1, <1>3, <2>1
  <2>3. Called("set", p, v, e, s.reads) \in Call
    BY <1>1, <1>3, CalledType DEF SInv
  <2>4. QED
    BY <1>1, <1>2, <1>3, <2>2, <2>3, EntryServes
<1>4. CASE \E k \in Key : p = <<k>>
  <2>1. PICK k \in Key : p = <<k>>
    BY <1>4
  <2>2. s = Start
    BY <2>1, OneKey, WayOfNone
  <2>3. s.made = <<>> /\ s.at = Root /\ s.reads = {}
    BY <2>2 DEF Start
  <2>4. OnTheWay(p, Root) /\ Root \in Muid
    BY <2>1, MuidFacts DEF OnTheWay
  <2>5. \A i, l \in Key : p # <<i, l>>
    BY <2>1
  <2> HIDE DEF s
  <2>6. QED
    BY <1>3, <2>3, <2>4, <2>5
<1>5. CASE \E k, l \in Key : p = <<k, l>>
  <2>1. PICK k \in Key, l \in Key : p = <<k, l>>
    BY <1>5
  <2>2. s = Step(Start, k, n) /\ Last(p) = l
    BY <2>1, TwoKeys, WayOfOne
  <2> DEFINE new == [time |-> 0, offset |-> n + 1]
  <2> HIDE DEF s, n
  <2>3. /\ s.reads = {Read(Root, k)}
        /\ \/ s.made = <<>> /\ s.at \in Muid /\ InRoot(log, k, Now) = Pointee(s.at)
           \/ /\ s.made = <<Container(FALSE), Entry(Root, k, Pointee(new))>>
              /\ s.at = new /\ Find(log, Root, k, Now) = Deletion
    BY <1>1, <1>2, <2>2, StepFacts
  <2>4. CASE s.made = <<>> /\ s.at \in Muid /\ InRoot(log, k, Now) = Pointee(s.at)
    <3>1. OnTheWay(p, s.at)
      BY <2>1, <2>4 DEF OnTheWay
    <3>2. s.reads \in SUBSET Reads
      BY <2>3, ReadType, MuidFacts DEF SInv
    <3>3. \A i, j \in Key : p = <<i, j>> => Read(Root, i) \in s.reads
      BY <2>1, <2>3
    <3>4. QED
      BY <1>3, <2>4, <3>1, <3>2, <3>3
  <2>5. CASE /\ s.made = <<Container(FALSE), Entry(Root, k, Pointee(new))>>
             /\ s.at = new /\ Find(log, Root, k, Now) = Deletion
    <3>1. Append(s.made, Entry(s.at, l, Plain(v))) = Founding(n, k, l, v)
      BY <2>5, PutTogether DEF Founding
    <3>2. Perform(e, Founding(n, k, l, v), <<Called("set", <<k, l>>, v, e, {Read(Root, k)})>>)
      BY <1>1, <2>1, <2>2, <2>3, <3>1
    <3>3. QED
      BY <1>1, <2>5, <3>2, FoundingServes DEF n
  <2>6. QED
    BY <2>3, <2>4, <2>5
<1>6. QED
  BY <1>4, <1>5, PathCases

LEMMA InitPending == Init => LogAddressed /\ PendingReplays
<1> SUFFICES ASSUME Init
             PROVE  LogAddressed /\ PendingReplays
  OBVIOUS
<1>1. log = <<>> /\ \A b \in Bundler : changes[b] = <<>> /\ calls[b] = <<>>
  BY DEF Init
<1>2. LogAddressed
  BY <1>1 DEF LogAddressed, Muids
<1>3. PendingReplays
  BY <1>1, ReplaysNothing DEF PendingReplays, AllAddressed
<1>4. QED
  BY <1>2, <1>3

LEMMA NextPending == SInv /\ [Next]_vars => LogAddressed' /\ PendingReplays' /\ SerialStep
<1> SUFFICES ASSUME SInv, [Next]_vars
             PROVE  LogAddressed' /\ PendingReplays' /\ SerialStep
  OBVIOUS
<1>1. ASSUME UNCHANGED <<log, changes, calls>>
      PROVE  LogAddressed' /\ PendingReplays' /\ SerialStep
  BY <1>1 DEF SInv, LogAddressed, PendingReplays, AllAddressed, SerialStep
<1>2. ASSUME NEW b \in Bundler, Commit(b) \/ Rollback(b) \/ Enter(b)
      PROVE  LogAddressed' /\ PendingReplays' /\ SerialStep
  BY <1>1, <1>2, CommitsReplays DEF Commit, Rollback, Enter
<1>3. CASE Exit
  <2>1. active \in Bundler /\ UNCHANGED <<changes, calls>>
    BY <1>3, BundlerFacts DEF Exit, SInv
  <2>2. Commits(active) \/ log' = log
    BY <1>3 DEF Exit
  <2>3. QED
    BY <1>1, <2>1, <2>2, CommitsReplays
<1>4. ASSUME NEW b \in Bundler \cup {None},
             \/ \E path \in Path, v \in Value : Set(b, path, v) \/ SetDefault(b, path, v)
             \/ \E path \in Path : Delete(b, path) \/ Pop(b, path)
             \/ PopItem(b)
             \/ \E contents \in Contents : Update(b, contents) \/ Refill(b, contents)
             \/ Clear(b)
             \/ New(b)
             \/ \E h \in Handles, k \in Key : Link(b, k, h) \/ \E v \in Value : SetIn(b, h, k, v)
             \/ \E to \in DOMAIN log :
                 \/ \E recursive \in BOOLEAN : Reset(b, to, recursive)
                 \/ ResetAll(b, to)
      PROVE  Served
  BY <1>4, SetServes, SetDefaultServes, DeleteServes, PopServes, PopItemServes, UpdateServes,
     RefillServes, ClearServes, NewServes, LinkServes, SetInServes, ResetServes, ResetAllServes
<1>5. CASE Next
  BY <1>2, <1>3, <1>4, <1>5, ServedReplays DEF Next
<1>6. CASE UNCHANGED vars
  BY <1>1, <1>6 DEF vars
<1>7. QED
  BY <1>5, <1>6

LEMMA AlwaysPending == Spec => [](LogAddressed /\ PendingReplays)
<1>1. Init => LogAddressed /\ PendingReplays
  BY InitPending
<1>2. IInv /\ (LogAddressed /\ PendingReplays) /\ [Next]_vars => (LogAddressed /\ PendingReplays)'
  BY NextPending DEF SInv
<1>3. QED
  BY <1>1, <1>2, AlwaysSound, PTL DEF Spec

\* Operations on a directory read the store at once and write to it when their bundler is
\* committed, possibly after other bundles.  If what they read still holds then, the
\* bundle as a whole does to the tree what the operations would do to a nested dictionary,
\* one after the other, at the time of the commit (Directory.set, delete, pop, update,
\* Container.clear, BoundBundler.commit).
THEOREM BundlesAreSerializable == Spec => Serializable
<1>1. IInv /\ LogAddressed /\ PendingReplays /\ [Next]_vars =>
          [ \A n \in DOMAIN log' \ DOMAIN log :
                OnTheRoot(log'[n]) /\ Valid(log, log'[n]) /\ ~Aliased(log) =>
                    Tree(log', Now) = FoldLeft(Applied, Tree(log, Now), log'[n].calls) ]_vars
  BY NextPending DEF SInv, SerialStep
<1>2. QED
  BY <1>1, AlwaysSound, AlwaysPending, PTL DEF Spec, Serializable
=============================================================================
