----------------------------- MODULE QueriesProofs -----------------------------
(***************************************************************************)
(* Theorems about the traversals and the store they read, for any          *)
(* documents and any questions.                                            *)
(*                                                                         *)
(* SearchInv, QueryInv and ConfinedInv are about what either traversal has *)
(* yet to visit.  LevelInv measures impact's levels: what is queued is all *)
(* that lies at the depth reached.  TraceInv accounts for trace's paths:   *)
(* those found and those still awaited below the trail are together all    *)
(* the simple paths from the target, unless the walk says it was cut.      *)
(* What is left to do only falls: for impact the nodes not yet expanded    *)
(* (SweepInv), for trace the simple paths not yet entered.                 *)
(***************************************************************************)
EXTENDS LineageQueries, AuditLemmas, SequenceTheorems, FiniteSetTheorems

\* A question, once asked, stands; and the search has begun only with one.
Asked == (tracePc # "idle" => query # NoQuery) /\ (impactPc # "idle" => query # NoQuery)

\* Whatever depends directly on an expanded node has been reached.
Expanded(some) == \A id \in some : forwardNeighbours(id) \subseteq Reached

\* The nodes whose dependants may still be missing are those queued for this
\* level and the next.
SearchInv ==
  /\ Asked
  /\ queue \subseteq Reached /\ nextLevel \subseteq Reached
  /\ impactPc = "idle" => queue = {} /\ nextLevel = {}
  /\ impactPc = "levelling" => nextLevel \subseteq queue
  /\ impactPc \in {"levelling", "expanding"} => Expanded(Reached \ (queue \cup nextLevel))
  /\ impactPc = "returned" /\ ~impactTruncated => Expanded(Reached)

\* The invariant of the search holds before it.
LEMMA SearchInit == Init => SearchInv
BY DEF Init, TraceInit, ImpactInit, SearchInv, Asked

\* What was reached stays reached.
LEMMA ReachedGrows ==
  ASSUME NEW found PROVE DOMAIN withDistance(found) = Reached \cup found
BY DEF withDistance

\* Every step of the search keeps it.
LEMMA SearchStep == SearchInv /\ [Next]_vars => SearchInv'
<1> SUFFICES ASSUME SearchInv, [Next]_vars PROVE SearchInv'
  OBVIOUS
<1> USE DEF SearchInv, Asked, Reached
<1>1. CASE \E document \in Documents : LoadDocument(document)
  BY <1>1 DEF LoadDocument, traceVars, impactVars
<1>2. CASE \E q \in Queries : Ask(q)
  BY <1>2 DEF Ask, traceVars, impactVars, Expanded, forwardNeighbours, NoQuery
<1>3. CASE Trace
  <2>1. /\ query # NoQuery
        /\ UNCHANGED <<store, query, impactPc, distances, queue, nextLevel, impactTruncated>>
    BY <1>3 DEF Trace, impactVars
  <2>2. \A id : forwardNeighbours(id)' = forwardNeighbours(id)
    BY <2>1 DEF forwardNeighbours, neighbours, outgoing, incoming
  <2> QED
    BY <2>1, <2>2 DEF Expanded
<1>4. CASE Impact
  <2>1. query # NoQuery /\ UNCHANGED <<store, query, tracePc>>
    BY <1>4 DEF Impact, TraceOver, traceVars
  <2>2. \A id : forwardNeighbours(id)' = forwardNeighbours(id)
    BY <2>1 DEF forwardNeighbours, neighbours, outgoing, incoming
  <2>3. CASE ImpactStart
    BY <2>1, <2>2, <2>3 DEF ImpactStart, Expanded
  <2>4. CASE ImpactLevel
    BY <2>1, <2>2, <2>4 DEF ImpactLevel, Expanded
  <2>5. CASE ImpactExpand
    <3> PICK id \in queue :
          IF Cardinality(Unreached(id)) <= Room
          THEN /\ distances' = withDistance(Unreached(id))
               /\ nextLevel' = nextLevel \cup Unreached(id)
               /\ queue' = queue \ {id}
               /\ UNCHANGED <<impactPc, impactTruncated>>
          ELSE /\ \E found \in kSubset(Room, Unreached(id)) : distances' = withDistance(found)
               /\ impactTruncated' = TRUE
               /\ impactPc' = "returned"
               /\ UNCHANGED <<queue, nextLevel>>
      BY <2>5 DEF ImpactExpand
    <3>1. CASE Cardinality(Unreached(id)) <= Room
      <4>1. Reached' = Reached \cup forwardNeighbours(id)
        BY <3>1, ReachedGrows DEF Unreached
      <4>2. impactPc' = "expanding"
        BY <2>5, <3>1 DEF ImpactExpand
      <4> QED
        BY <2>1, <2>2, <2>5, <3>1, <4>1, <4>2 DEF Expanded, Unreached, ImpactExpand
    <3>2. CASE ~(Cardinality(Unreached(id)) <= Room)
      <4>1. Reached \subseteq Reached'
        BY <3>2, ReachedGrows
      <4> QED
        BY <2>1, <3>2, <4>1
    <3> QED
      BY <3>1, <3>2
  <2>6. CASE ImpactEndLevel
    BY <2>1, <2>2, <2>6 DEF ImpactEndLevel, Expanded
  <2> QED
    BY <1>4, <2>3, <2>4, <2>5, <2>6 DEF Impact, ImpactNext
<1>5. CASE UNCHANGED vars
  <2>1. \A id : forwardNeighbours(id)' = forwardNeighbours(id)
    BY <1>5 DEF vars, forwardNeighbours, neighbours, outgoing, incoming
  <2> QED
    BY <1>5, <2>1 DEF vars, traceVars, impactVars, Expanded
<1> QED
  BY <1>1, <1>2, <1>3, <1>4, <1>5 DEF Next

\* An impact that does not say it was cut lists everything that depends on its
\* origin (impact, packages/graph/src/impact.ts).
THEOREM ImpactIsComplete == Spec => []NothingLeftOut
<1>1. SearchInv => NothingLeftOut
  BY DEF SearchInv, NothingLeftOut, Expanded
<1> QED
  BY <1>1, SearchInit, SearchStep, PTL DEF Spec

-------------------------------------------------------------------------------
StoreInv == Dangling(store) = {} /\ IllFormed(store) = {}

\* What a store takes in leaves it closed and well formed.
LEMMA LoadKeepsStore ==
  ASSUME StoreInv, NEW document, Dangling(document) = {}
  PROVE  Dangling(load(store, document)) = {} /\ IllFormed(load(store, document)) = {}
<1>1. CASE loadable(document)
  <2> DEFINE loaded == load(store, document)
  <2>1. /\ DOMAIN loaded.nodes = DOMAIN document.nodes \cup DOMAIN store.nodes
        /\ loaded.edges = store.edges \cup document.edges
    BY <1>1 DEF load, recordOver
  <2>2. /\ \A e \in store.edges : {e.from, e.to} \subseteq DOMAIN store.nodes
        /\ \A e \in document.edges : {e.from, e.to} \subseteq DOMAIN document.nodes
    BY DEF StoreInv, Dangling
  <2>3. Dangling(loaded) = {}
    BY <2>1, <2>2 DEF Dangling
  <2>4. IllFormed(document) = {}
    BY <1>1 DEF loadable
  <2>5. IllFormed(loaded) \subseteq IllFormed(store) \cup IllFormed(document)
    <3> HIDE DEF loaded
    <3> QED
      BY <2>1, <2>2, <2>3 DEF IllFormed, Dangling
  <2> QED
    BY <2>3, <2>4, <2>5 DEF StoreInv
<1>2. CASE ~loadable(document)
  BY <1>2 DEF load, StoreInv
<1> QED
  BY <1>1, <1>2

\* The store is well formed at first.
LEMMA StoreInit == Init => StoreInv
BY DEF Init, EmptyStore, StoreInv, Dangling, IllFormed

\* Every load keeps it so.
LEMMA StoreStep == ASSUME ClosedDocuments PROVE StoreInv /\ [Next]_vars => StoreInv'
<1> SUFFICES ASSUME StoreInv, [Next]_vars PROVE StoreInv'
  OBVIOUS
<1>1. ASSUME NEW document \in Documents, LoadDocument(document) PROVE StoreInv'
  <2>1. store' = load(store, document) /\ Dangling(document) = {}
    BY <1>1 DEF LoadDocument, ClosedDocuments
  <2> QED
    BY <2>1, LoadKeepsStore DEF StoreInv, Dangling, IllFormed
<1>2. CASE UNCHANGED store
  BY <1>2 DEF StoreInv, Dangling, IllFormed
<1> QED
  BY <1>1, <1>2 DEF Next, Ask, Trace, Impact, vars

\* A store into which only documents that hold both ends of their edges are
\* loaded never holds an ill-formed edge (load, packages/graph/src/store.ts).
THEOREM StoreStaysWellFormed == ASSUME ClosedDocuments PROVE Spec => []DocumentsWellFormed
<1>1. StoreInv => DocumentsWellFormed
  BY DEF StoreInv, DocumentsWellFormed
<1> QED
  BY <1>1, StoreInit, StoreStep, PTL DEF Spec

-------------------------------------------------------------------------------
\* The nodes of the tenant that asks, and the steps that lead to them.
Mine == {id \in Ids : TenantOf(id) = query.tenant}
Hops == [to : Mine, edge : store.edges]

\* The stack of calls, the trail and its edges grow and shrink together, and
\* hold nothing that is not the tenant's.
WalkInv ==
  /\ tracePc \in {"idle", "walking", "returned", "thrown"}
  /\ trail \in Seq(Mine) /\ edgeTrail \in Seq(store.edges) /\ pending \in Seq(SUBSET Hops)
  /\ Len(pending) = Len(trail)
  /\ Len(edgeTrail) = IF Len(trail) = 0 THEN 0 ELSE Len(trail) - 1
  /\ \A path \in paths : path.nodes \in Seq(Mine)
  /\ traceTruncated \in BOOLEAN
  /\ tracePc = "idle" => trail = <<>> /\ edgeTrail = <<>> /\ pending = <<>> /\ paths = {}

ImpactInv ==
  /\ impactPc \in {"idle", "levelling", "expanding", "returned", "thrown"}
  /\ Reached \subseteq Mine
  /\ depth \in Nat /\ \A id \in Reached : distances[id] \in 0..depth
  /\ impactTruncated \in BOOLEAN
  /\ impactPc = "idle" => Reached = {}

QueryInv ==
  query \in Queries \cup {NoQuery} /\ StoreInv /\ SearchInv /\ WalkInv /\ ImpactInv

\* The invariant of a query holds before it.
LEMMA QueryInit == Init => QueryInv
<1> SUFFICES ASSUME Init PROVE QueryInv
  OBVIOUS
<1>1. StoreInv /\ SearchInv
  BY StoreInit, SearchInit
<1>2. WalkInv
  <2>1. <<>> \in Seq(Mine) /\ <<>> \in Seq(store.edges) /\ <<>> \in Seq(SUBSET Hops) /\ Len(<<>>) = 0
    OBVIOUS
  <2>2. traceTruncated \in BOOLEAN
    BY Zenon DEF Init, TraceInit
  <2> QED
    BY <2>1, <2>2 DEF Init, TraceInit, WalkInv
<1>3. ImpactInv
  <2>1. Reached = {}
    BY DEF Init, ImpactInit, Reached
  <2>2. impactTruncated \in BOOLEAN
    BY Zenon DEF Init, ImpactInit
  <2> QED
    BY <2>1, <2>2 DEF Init, ImpactInit, ImpactInv
<1> QED
  BY <1>1, <1>2, <1>3 DEF QueryInv, Init

\* Every edge the tenant walks leads to a node of the tenant.
LEMMA NeighboursAreMine ==
  ASSUME StoreInv, NEW id, NEW steps PROVE neighbours(id, steps) \subseteq Hops
<1>1. ASSUME NEW e \in store.edges, e.tenant = query.tenant PROVE {e.from, e.to} \subseteq Mine
  <2>1. e \notin Dangling(store) /\ e \notin IllFormed(store)
    BY DEF StoreInv
  <2>2. TenantOf(e.from) = e.tenant /\ TenantOf(e.to) = e.tenant
    BY <2>1 DEF IllFormed
  <2> QED
    BY <1>1, <2>2 DEF Mine, Ids
<1> QED
  BY <1>1 DEF neighbours, outgoing, incoming, Hops

\* A call of walk keeps the invariant, wherever it is made from.
LEMMA WalkKeeps ==
  ASSUME StoreInv, WalkInv, UNCHANGED <<store, query>>,
         NEW nodes \in Seq(Mine), NEW edges \in Seq(store.edges),
         NEW rest \in Seq(SUBSET Hops),
         Len(rest) = Len(trail), Len(nodes) = Len(rest) + 1, Len(edges) = Len(nodes) - 1,
         walk(nodes, edges, rest), tracePc' = "walking"
  PROVE  WalkInv'
<1> DEFINE next == Unvisited(nodes)
<1>1. Mine' = Mine /\ Hops' = Hops
  BY DEF Mine, Hops, Ids
<1>2. next \in SUBSET Hops
  BY NeighboursAreMine DEF Unvisited, backwardNeighbours
<1>3. CASE TooFar(nodes, paths)
  BY <1>1, <1>3 DEF walk, WalkInv
<1>4. CASE ~TooFar(nodes, paths) /\ next = {}
  BY <1>1, <1>4 DEF walk, WalkInv
<1>5. CASE ~TooFar(nodes, paths) /\ next # {}
  <2>1. /\ trail' = nodes /\ edgeTrail' = edges /\ pending' = Append(rest, next)
        /\ UNCHANGED <<paths, traceTruncated>>
    BY <1>5 DEF walk
  <2>2. pending' \in Seq(SUBSET Hops) /\ Len(pending') = Len(rest) + 1
    BY <1>2, <2>1
  <2> HIDE DEF next
  <2> QED
    BY <1>1, <2>1, <2>2 DEF WalkInv
<1> QED
  BY <1>3, <1>4, <1>5

\* The beginning of a list.
LEMMA Shortened ==
  ASSUME NEW S, NEW s \in Seq(S), NEW k \in 0..Len(s)
  PROVE  /\ SubSeq(s, 1, k) \in Seq(S) /\ Len(SubSeq(s, 1, k)) = k
         /\ \A i \in 1..k : SubSeq(s, 1, k)[i] = s[i]
<1>1. \A i \in 1..k : s[i] \in S
  OBVIOUS
<1> QED
  BY <1>1, SubSeqProperties

\* A step of the trace keeps what is known of the trail.
LEMMA TraceKeeps ==
  ASSUME StoreInv, WalkInv, TraceNext, UNCHANGED <<store, query>>
  PROVE  WalkInv'
<1>0. Mine' = Mine /\ Hops' = Hops
  BY DEF Mine, Hops, Ids
<1>1. CASE TraceStart
  <2>1. CASE hasNode(query.target)
    <3>1. query.target \in Mine
      BY <2>1 DEF hasNode, Mine, Ids
    <3>2. trail = <<>>
      BY <1>1 DEF TraceStart, WalkInv
    <3>3. walk(<<query.target>>, <<>>, <<>>) /\ tracePc' = "walking"
      BY <1>1, <2>1 DEF TraceStart
    <3>4. /\ <<query.target>> \in Seq(Mine) /\ Len(<<query.target>>) = 1
          /\ <<>> \in Seq(store.edges) /\ <<>> \in Seq(SUBSET Hops) /\ Len(<<>>) = 0
      BY <3>1
    <3>5. Len(<<>>) = Len(trail) /\ 1 = 0 + 1 /\ 0 = 1 - 1
      BY <3>2
    <3> QED
      BY <3>3, <3>4, <3>5, WalkKeeps
  <2>2. CASE ~hasNode(query.target)
    BY <1>0, <1>1, <2>2 DEF TraceStart, WalkInv
  <2> QED
    BY <2>1, <2>2
<1>2. CASE TraceDescend
  <2> PICK candidate \in Top :
        walk(Append(trail, candidate.to), Append(edgeTrail, candidate.edge),
             [pending EXCEPT ![Len(pending)] = @ \ {candidate}])
    BY <1>2 DEF TraceDescend
  <2>1. pending # <<>> /\ tracePc' = "walking"
    BY <1>2 DEF TraceDescend
  <2>2. Len(pending) \in DOMAIN pending /\ Len(pending) = Len(trail)
    BY <2>1 DEF WalkInv
  <2>3. candidate \in Hops
    BY <2>2 DEF Top, WalkInv
  <2> DEFINE rest == [pending EXCEPT ![Len(pending)] = @ \ {candidate}]
  <2>4. rest \in Seq(SUBSET Hops) /\ Len(rest) = Len(trail)
    <3>1. pending[Len(pending)] \ {candidate} \in SUBSET Hops
      BY <2>2 DEF WalkInv
    <3> QED
      BY <2>2, <3>1 DEF WalkInv
  <2>5. /\ Append(trail, candidate.to) \in Seq(Mine)
        /\ Len(Append(trail, candidate.to)) = Len(trail) + 1
    BY <2>3 DEF Hops, WalkInv
  <2>6. /\ Append(edgeTrail, candidate.edge) \in Seq(store.edges)
        /\ Len(Append(edgeTrail, candidate.edge)) = Len(trail)
    BY <2>1, <2>2, <2>3 DEF Hops, WalkInv
  <2>7. Len(trail) \in Nat
    BY DEF WalkInv
  <2>8. walk(Append(trail, candidate.to), Append(edgeTrail, candidate.edge), rest)
    OBVIOUS
  <2>9. Len(trail) = (Len(trail) + 1) - 1
    BY <2>7
  <2> HIDE DEF rest
  <2> QED
    BY <2>1, <2>4, <2>5, <2>6, <2>8, <2>9, WalkKeeps
<1>3. CASE TraceReturn
  <2> DEFINE keep == Len(pending) - 1
  <2>1. /\ pending # <<>>
        /\ pending' = SubSeq(pending, 1, keep) /\ trail' = SubSeq(trail, 1, keep)
        /\ edgeTrail' = SubSeq(edgeTrail, 1, IF keep = 0 THEN 0 ELSE keep - 1)
        /\ UNCHANGED <<tracePc, paths, traceTruncated>>
        /\ tracePc = "walking"
    BY <1>3 DEF TraceReturn
  <2>2. keep \in Nat /\ Len(trail) = keep + 1 /\ Len(edgeTrail) = keep
    BY <2>1 DEF WalkInv
  <2>3. pending' \in Seq(SUBSET Hops) /\ Len(pending') = keep
    BY <2>1, <2>2, SMTT(20) DEF WalkInv
  <2>4. trail' \in Seq(Mine) /\ Len(trail') = keep
    BY <2>1, <2>2 DEF WalkInv
  <2> DEFINE joined == IF keep = 0 THEN 0 ELSE keep - 1
  <2>5. edgeTrail' \in Seq(store.edges) /\ Len(edgeTrail') = joined
    <3>1. joined \in 0..Len(edgeTrail) /\ edgeTrail \in Seq(store.edges)
      <4> HIDE DEF keep
      <4>1. joined \in 0..keep
        BY <2>2
      <4>2. edgeTrail \in Seq(store.edges)
        BY DEF WalkInv
      <4> QED
        BY <2>2, <4>1, <4>2
    <3>2. edgeTrail' = SubSeq(edgeTrail, 1, joined)
      BY <2>1
    <3> HIDE DEF joined
    <3> QED
      BY <3>1, <3>2, Shortened
  <2> HIDE DEF keep
  <2> QED
    BY <1>0, <2>1, <2>3, <2>4, <2>5 DEF WalkInv
<1>4. CASE TraceEnd
  BY <1>0, <1>4 DEF TraceEnd, WalkInv
<1> QED
  BY <1>1, <1>2, <1>3, <1>4 DEF TraceNext

\* A step of the impact search keeps what is known of what it reached.
LEMMA ImpactKeeps ==
  ASSUME StoreInv, SearchInv, ImpactInv, ImpactNext, UNCHANGED <<store, query>>
  PROVE  ImpactInv'
<1>0. Mine' = Mine
  BY DEF Mine, Ids
<1>1. CASE ImpactStart
  <2>1. CASE hasNode(query.origin)
    <3>1. query.origin \in Mine
      BY <2>1 DEF hasNode, Mine, Ids
    <3> QED
      BY <1>0, <1>1, <2>1, <3>1 DEF ImpactStart, ImpactInv, Reached
  <2>2. CASE ~hasNode(query.origin)
    BY <1>0, <1>1, <2>2 DEF ImpactStart, ImpactInv, Reached
  <2> QED
    BY <2>1, <2>2
<1>2. CASE ImpactLevel
  <2>1. impactTruncated' \in BOOLEAN
    BY <1>2, Zenon DEF ImpactLevel, ImpactInv
  <2>2. depth' \in Nat /\ depth <= depth' /\ depth \in Nat
    BY <1>2 DEF ImpactLevel, ImpactInv
  <2>3. distances' = distances /\ impactPc' \in {"returned", "expanding"}
    BY <1>2 DEF ImpactLevel
  <2> QED
    BY <1>0, <2>1, <2>2, <2>3 DEF ImpactInv, Reached
<1>3. CASE ImpactExpand
  <2>1. PICK id \in queue : \E found \in SUBSET Unreached(id) : distances' = withDistance(found)
    <3>1. \A id \in queue : kSubset(Room, Unreached(id)) \subseteq SUBSET Unreached(id)
      BY DEF kSubset
    <3> QED
      BY <1>3, <3>1 DEF ImpactExpand
  <2> PICK found \in SUBSET Unreached(id) : distances' = withDistance(found)
    BY <2>1
  <2>2. found \subseteq Mine
    BY NeighboursAreMine DEF Unreached, forwardNeighbours, Hops
  <2>3. Reached' \subseteq Mine
    BY <2>2, ReachedGrows DEF ImpactInv, Reached
  <2>4. \A n \in Reached' : distances'[n] \in 0..depth
    BY ReachedGrows DEF ImpactInv, Reached, withDistance
  <2> QED
    BY <1>0, <1>3, <2>3, <2>4 DEF ImpactExpand, ImpactInv
<1>4. CASE ImpactEndLevel
  BY <1>0, <1>4 DEF ImpactEndLevel, ImpactInv, Reached
<1> QED
  BY <1>1, <1>2, <1>3, <1>4 DEF ImpactNext

\* What does not run keeps its invariant, also while a document is loaded or a
\* question is asked: it has not begun then.
LEMMA IdleKeeps ==
  ASSUME StoreInv, SearchInv, UNCHANGED <<traceVars, impactVars>>,
         query = NoQuery \/ UNCHANGED <<store, query>>
  PROVE  (WalkInv => WalkInv') /\ (ImpactInv => ImpactInv')
<1>1. CASE UNCHANGED <<store, query>>
  <2>1. Mine' = Mine /\ Hops' = Hops
    BY <1>1 DEF Mine, Hops, Ids
  <2> QED
    BY <1>1, <2>1 DEF WalkInv, ImpactInv, Reached, traceVars, impactVars
<1>2. CASE query = NoQuery
  <2>1. tracePc = "idle" /\ impactPc = "idle"
    BY <1>2 DEF SearchInv, Asked
  <2>2. WalkInv => WalkInv'
    <3> SUFFICES ASSUME WalkInv PROVE WalkInv'
      OBVIOUS
    <3>1. trail' = <<>> /\ edgeTrail' = <<>> /\ pending' = <<>> /\ paths' = {}
      BY <2>1 DEF WalkInv, traceVars
    <3>2. /\ <<>> \in Seq(Mine') /\ <<>> \in Seq((store.edges)')
          /\ <<>> \in Seq(SUBSET Hops') /\ Len(<<>>) = 0
      OBVIOUS
    <3>3. tracePc' = tracePc /\ traceTruncated' \in BOOLEAN
      BY DEF WalkInv, traceVars
    <3> QED
      BY <2>1, <3>1, <3>2, <3>3 DEF WalkInv
  <2>3. ImpactInv => ImpactInv'
    BY <2>1 DEF ImpactInv, Reached, impactVars
  <2> QED
    BY <2>2, <2>3
<1> QED
  BY <1>1, <1>2

\* Every step keeps the invariant.
LEMMA QueryStep == ASSUME ClosedDocuments PROVE QueryInv /\ [Next]_vars => QueryInv'
<1> SUFFICES ASSUME QueryInv, [Next]_vars PROVE QueryInv'
  OBVIOUS
<1>1. /\ query \in Queries \cup {NoQuery} /\ StoreInv /\ SearchInv
      /\ WalkInv /\ ImpactInv
  BY DEF QueryInv
<1>2. StoreInv' /\ SearchInv'
  BY <1>1, StoreStep, SearchStep
<1>3. query' \in Queries \cup {NoQuery}
  BY <1>1 DEF Next, LoadDocument, Ask, Trace, Impact, vars
<1>4. WalkInv' /\ ImpactInv'
  <2>1. CASE Trace
    <3>1. TraceNext /\ UNCHANGED <<store, query>> /\ UNCHANGED impactVars
      BY <2>1 DEF Trace
    <3>2. WalkInv'
      BY <1>1, <3>1, TraceKeeps
    <3>3. Mine' = Mine
      BY <3>1 DEF Mine, Ids
    <3> QED
      BY <1>1, <3>1, <3>2, <3>3 DEF ImpactInv, Reached, impactVars
  <2>2. CASE Impact
    <3>1. ImpactNext /\ UNCHANGED <<store, query>> /\ UNCHANGED traceVars
      BY <2>2 DEF Impact
    <3>2. ImpactInv'
      BY <1>1, <3>1, ImpactKeeps
    <3>3. Mine' = Mine /\ Hops' = Hops
      BY <3>1 DEF Mine, Hops, Ids
    <3> QED
      BY <1>1, <3>1, <3>2, <3>3 DEF WalkInv, traceVars
  <2>3. CASE \/ \E document \in Documents : LoadDocument(document)
             \/ \E q \in Queries : Ask(q)
             \/ UNCHANGED vars
    <3>1. UNCHANGED <<traceVars, impactVars>> /\ (query = NoQuery \/ UNCHANGED <<store, query>>)
      BY <2>3 DEF LoadDocument, Ask, vars
    <3> QED
      BY <1>1, <3>1, IdleKeeps
  <2> QED
    BY <2>1, <2>2, <2>3 DEF Next
<1> QED
  BY <1>2, <1>3, <1>4 DEF QueryInv

\* The variables of the two traversals keep their types.
THEOREM TypeCorrect == ASSUME ClosedDocuments PROVE Spec => []TypeOK
<1>1. QueryInv => TypeOK
  <2> SUFFICES ASSUME QueryInv PROVE TypeOK
    OBVIOUS
  <2>1. query \in Queries \cup {NoQuery} /\ WalkInv /\ ImpactInv /\ SearchInv
    BY DEF QueryInv
  <2>2. /\ Visiting(trail) \subseteq Ids
        /\ \A i \in DOMAIN edgeTrail : edgeTrail[i] \in store.edges
        /\ Len(pending) = Len(trail)
        /\ tracePc \in {"idle", "walking", "returned", "thrown"}
    BY <2>1 DEF WalkInv, Visiting, Mine
  <2>3. traceTruncated \in BOOLEAN /\ impactTruncated \in BOOLEAN
    BY <2>1, Zenon DEF WalkInv, ImpactInv
  <2>4. /\ Reached \subseteq Ids /\ queue \subseteq Reached /\ nextLevel \subseteq Reached
        /\ depth \in Nat /\ \A id \in Reached : distances[id] \in 0..depth
        /\ impactPc \in {"idle", "levelling", "expanding", "returned", "thrown"}
    BY <2>1 DEF ImpactInv, SearchInv, Mine
  <2> QED
    BY <2>1, <2>2, <2>3, <2>4 DEF TypeOK
<1> QED
  BY <1>1, QueryInit, QueryStep, PTL DEF Spec

\* Neither trace nor impact ever comes to a node of another tenant (outgoing
\* and incoming of packages/graph/src/store.ts filter edges by their tenant, and
\* checkEdge keeps an edge from joining tenants).
THEOREM NeitherLeavesTheTenant == ASSUME ClosedDocuments PROVE Spec => []StaysInTenant
<1>1. QueryInv => StaysInTenant
  <2> SUFFICES ASSUME QueryInv PROVE StaysInTenant
    OBVIOUS
  <2>1. WalkInv /\ Reached \subseteq Mine
    BY DEF QueryInv, ImpactInv
  <2>2. Visiting(trail) \subseteq Mine /\ \A path \in paths : Visiting(path.nodes) \subseteq Mine
    BY <2>1 DEF WalkInv, Visiting
  <2> QED
    BY <2>1, <2>2 DEF StaysInTenant, Mine
<1> QED
  BY <1>1, QueryInit, QueryStep, PTL DEF Spec

-------------------------------------------------------------------------------
Underived == ~\E e \in store.edges : e.type = "DERIVED_FROM"

ConfinedInv ==
  /\ \A id \in DOMAIN store.nodes : ~OutlivesRuns(id) => runOf(id) # NoRun
  /\ Underived /\ runOf(query.origin) # NoRun =>
       \A id \in Reached : runOf(id) = runOf(query.origin)

\* Without a derivation, what depends directly on a node of a run is of that run.
LEMMA DependantsInRun ==
  ASSUME StoreInv, ConfinedInv, Underived, NEW id, runOf(id) # NoRun,
         NEW m \in forwardNeighbours(id)
  PROVE  runOf(m) = runOf(id)
<1> DEFINE Local == {"PRODUCED", "SPLIT_INTO", "SUPPORTED_BY", "EXTRACTED_FROM"}
<1>1. PICK e \in store.edges :
        \/ e.type \in Local \ {"SUPPORTED_BY"} /\ e.from = id /\ e.to = m
        \/ e.type = "SUPPORTED_BY" /\ e.to = id /\ e.from = m
  BY DEF forwardNeighbours, neighbours, FORWARD_STEPS, Along, outgoing, incoming, Underived
<1>2. e \notin Dangling(store) /\ e \notin IllFormed(store)
  BY DEF StoreInv
<1>3. {e.from, e.to} \subseteq DOMAIN store.nodes
  BY <1>2 DEF Dangling
<1>4. <<KindOf(e.from), KindOf(e.to)>> \in EDGE_MATRIX[e.type]
  BY <1>2 DEF IllFormed
<1>5. e.type \in RUN_LOCAL_EDGE_TYPES
  BY <1>1 DEF RUN_LOCAL_EDGE_TYPES, EDGE_MATRIX
<1>6. ~OutlivesRuns(m)
  <2>1. e.type = "PRODUCED" => KindOf(e.to) \in {"Step", "Artifact", "Output"}
    BY <1>4 DEF EDGE_MATRIX
  <2>2. e.type = "SPLIT_INTO" => KindOf(e.to) = "Chunk"
    BY <1>4 DEF EDGE_MATRIX
  <2>3. e.type = "EXTRACTED_FROM" => KindOf(e.to) = "Output"
    BY <1>4 DEF EDGE_MATRIX
  <2>4. e.type = "SUPPORTED_BY" => KindOf(e.from) = "Claim"
    BY <1>4 DEF EDGE_MATRIX
  <2> QED
    BY <1>1, <2>1, <2>2, <2>3, <2>4 DEF OutlivesRuns
<1>7. runOf(m) # NoRun
  BY <1>1, <1>3, <1>6 DEF ConfinedInv
<1>8. runOf(e.from) = runOf(e.to)
  BY <1>1, <1>2, <1>5, <1>7 DEF IllFormed
<1> QED
  BY <1>1, <1>8

\* Nothing is found at first.
LEMMA ConfinedInit == Init => ConfinedInv
BY DEF Init, EmptyStore, ImpactInit, ConfinedInv, Reached

\* Nothing is found outside the run that is asked about.
LEMMA ConfinedStep ==
  ASSUME ClosedDocuments, RunsNamed
  PROVE  QueryInv /\ ConfinedInv /\ [Next]_vars => ConfinedInv'
<1> SUFFICES ASSUME QueryInv, ConfinedInv, [Next]_vars PROVE ConfinedInv'
  OBVIOUS
<1>0. StoreInv /\ ImpactInv /\ SearchInv
  BY DEF QueryInv
<1>1. ASSUME query = NoQuery, UNCHANGED impactVars PROVE Reached' = {}
  BY <1>0, <1>1 DEF SearchInv, Asked, ImpactInv, Reached, impactVars
<1>2. ASSUME NEW document \in Documents, LoadDocument(document) PROVE ConfinedInv'
  <2>1. DOMAIN store'.nodes \subseteq DOMAIN store.nodes \cup DOMAIN document.nodes
    BY <1>2 DEF LoadDocument, load, recordOver
  <2>2. Reached' = {}
    BY <1>1, <1>2 DEF LoadDocument
  <2> QED
    BY <2>1, <2>2 DEF ConfinedInv, RunsNamed
<1>3. ASSUME NEW q \in Queries, Ask(q) PROVE ConfinedInv'
  <2>1. Reached' = {} /\ store' = store
    BY <1>1, <1>3 DEF Ask
  <2> QED
    BY <2>1 DEF ConfinedInv
<1>4. CASE Trace \/ UNCHANGED vars
  BY <1>4 DEF Trace, vars, impactVars, ConfinedInv, Underived, Reached
<1>5. CASE Impact
  <2>1. ImpactNext /\ store' = store /\ query' = query
    BY <1>5 DEF Impact
  <2>2. CASE ImpactStart
    <3>1. Reached' \subseteq {query.origin} \cup Reached
      BY <2>2 DEF ImpactStart, Reached
    <3> QED
      BY <2>1, <3>1 DEF ConfinedInv, Underived
  <2>3. CASE ImpactExpand
    <3>1. PICK id \in queue : \E found \in SUBSET Unreached(id) : distances' = withDistance(found)
      <4>1. \A id \in queue : kSubset(Room, Unreached(id)) \subseteq SUBSET Unreached(id)
        BY DEF kSubset
      <4> QED
        BY <2>3, <4>1 DEF ImpactExpand
    <3>2. Reached' \subseteq Reached \cup forwardNeighbours(id)
      BY <3>1, ReachedGrows DEF Unreached, Reached
    <3>3. id \in Reached
      BY <1>0 DEF SearchInv
    <3>4. ASSUME Underived, runOf(query.origin) # NoRun, NEW n \in forwardNeighbours(id)
          PROVE  runOf(n) = runOf(query.origin)
      <4>1. runOf(id) = runOf(query.origin)
        BY <3>3, <3>4 DEF ConfinedInv
      <4> QED
        BY <1>0, <3>4, <4>1, DependantsInRun
    <3> QED
      BY <2>1, <3>2, <3>4 DEF ConfinedInv, Underived
  <2>4. CASE ImpactLevel \/ ImpactEndLevel
    BY <2>1, <2>4 DEF ImpactLevel, ImpactEndLevel, ConfinedInv, Underived, Reached
  <2> QED
    BY <2>1, <2>2, <2>3, <2>4 DEF ImpactNext
<1> QED
  BY <1>2, <1>3, <1>4, <1>5 DEF Next

\* But for recorded derivations, the impact of a node of one run names no other
\* run (checkEdge of packages/graph/src/validate.ts, impact).
THEOREM ImpactStaysInTheRun ==
  ASSUME ClosedDocuments, RunsNamed PROVE Spec => []IncidentStaysInItsRun
<1>1. QueryInv /\ ConfinedInv => IncidentStaysInItsRun
  BY DEF ConfinedInv, IncidentStaysInItsRun, affectedRuns, membersReached, Underived
<1> QED
  BY <1>1, QueryInit, QueryStep, ConfinedInit, ConfinedStep, PTL DEF Spec
-------------------------------------------------------------------------------
\* What is within a number of steps of the origin, step by step.
LEMMA WithinStepwise ==
  /\ Within[0] = {query.origin}
  /\ \A k \in Nat : Within[k + 1] = Spread(Within[k])
<1> DEFINE All == {query.origin} \cup Ids
           step == [some \in SUBSET All |-> Spread(some)]
           IsWithin(f) == f = [k \in Nat |-> IF k = 0 THEN {query.origin} ELSE Spread(f[k - 1])]
<1>1. \A id : forwardNeighbours(id) \subseteq Ids
  BY DEF forwardNeighbours, neighbours, outgoing, incoming, Ids
<1>2. step \in [SUBSET All -> SUBSET All]
  <2>1. \A some \in SUBSET All : Spread(some) \in SUBSET All
    BY <1>1 DEF Spread
  <2> QED
    BY <2>1
<1>3. \E f : IsWithin(f)
  <2>1. {query.origin} \in SUBSET All
    OBVIOUS
  <2> DEFINE Sets == SUBSET All
             origin == {query.origin}
  <2>2. origin \in Sets /\ step \in [Sets -> Sets]
    BY <1>2, <2>1
  <2>3. PICK f \in [Nat -> Sets] : f[0] = origin /\ \A k \in Nat : f[k + 1] = step[f[k]]
    <3> HIDE DEF Sets, origin, step
    <3> QED
      BY <2>2, Recurrence
  <2>4. f[0] = {query.origin} /\ \A k \in Nat : f[k + 1] = Spread(f[k])
    <3> HIDE DEF All
    <3> QED
      BY <2>3
  <2> HIDE DEF Sets
  <2>5. ASSUME NEW k \in Nat PROVE f[k] = IF k = 0 THEN {query.origin} ELSE Spread(f[k - 1])
    <3>1. CASE k = 0
      BY <2>4, <3>1
    <3>2. CASE k # 0
      <4>1. k - 1 \in Nat /\ (k - 1) + 1 = k
        BY <3>2
      <4> QED
        BY <2>4, <3>2, <4>1
    <3> QED
      BY <3>1, <3>2
  <2>6. f = [k \in Nat |-> f[k]]
    OBVIOUS
  <2> QED
    BY <2>5, <2>6
<1>4. IsWithin(Within)
  <2>1. Within = CHOOSE f : IsWithin(f)
    BY DEF Within
  <2> HIDE DEF IsWithin
  <2> QED
    BY <1>3, <2>1, Zenon
<1>5. \A k \in Nat : Within[k] = IF k = 0 THEN {query.origin} ELSE Spread(Within[k - 1])
  <2> DEFINE W == Within
  <2>1. W = [k \in Nat |-> IF k = 0 THEN {query.origin} ELSE Spread(W[k - 1])]
    BY <1>4
  <2> HIDE DEF W
  <2>2. \A k \in Nat : W[k] = IF k = 0 THEN {query.origin} ELSE Spread(W[k - 1])
    BY <2>1
  <2> QED
    BY <2>2 DEF W
<1>6. ASSUME NEW k \in Nat PROVE Within[k + 1] = Spread(Within[k])
  <2>1. k + 1 \in Nat /\ k + 1 # 0 /\ (k + 1) - 1 = k
    OBVIOUS
  <2> QED
    BY <1>5, <2>1
<1> QED
  BY <1>5, <1>6

\* Spreading from a set loses none of it, and takes in what depends on it.
LEMMA WithinSpreads ==
  ASSUME NEW k \in Nat, k # 0
  PROVE  /\ Within[k - 1] \subseteq Within[k]
         /\ \A id \in Within[k - 1] : forwardNeighbours(id) \subseteq Within[k]
         /\ \A m \in Within[k] :
              m \in Within[k - 1] \/ \E id \in Within[k - 1] : m \in forwardNeighbours(id)
<1>1. k - 1 \in Nat /\ (k - 1) + 1 = k
  OBVIOUS
<1>2. Within[k] = Spread(Within[k - 1])
  BY <1>1, WithinStepwise
<1> QED
  BY <1>2 DEF Spread

\* What a query may see does not change while it runs.
LEMMA WithinStands == UNCHANGED <<store, query>> => Within' = Within
BY DEF Within, Spread, forwardNeighbours, neighbours, outgoing, incoming
-------------------------------------------------------------------------------
\* The search has all of one distance before it looks for any of the next: at
\* the head of its loop what it has reached is what is within depth steps, and
\* in a level what is within one step less, and of the others only dependants
\* of that.
LevelInv ==
  /\ impactPc \in {"idle", "levelling", "expanding", "returned", "thrown"}
  /\ depth \in Nat /\ \A id \in Reached : distances[id] \in Nat
  /\ impactPc = "idle" => Reached = {} /\ depth = 0
  /\ impactPc \in {"levelling", "expanding", "returned"} => query.origin \in Reached
  /\ DistancesAreShortest
  /\ impactPc = "levelling" => Reached = Within[depth]
  /\ impactPc = "expanding" =>
       /\ depth # 0
       /\ Within[depth - 1] \subseteq Reached
       /\ Reached \subseteq Within[depth - 1] \cup nextLevel
       /\ nextLevel \subseteq Within[depth] \ Within[depth - 1]
       /\ queue \subseteq Within[depth - 1]

\* The invariant of the levels holds before the search.
LEMMA LevelInit == Init => LevelInv
BY DEF Init, ImpactInit, LevelInv, DistancesAreShortest, Reached

\* What a level finds is at the level's distance, and no nearer.
LEMMA FoundAtDepth ==
  ASSUME LevelInv, impactPc = "expanding", NEW id \in queue, NEW found \in SUBSET Unreached(id),
         distances' = withDistance(found), UNCHANGED <<store, query>>
  PROVE  /\ found \subseteq Within[depth] \ Within[depth - 1]
         /\ Reached' = Reached \cup found
         /\ \A n \in Reached' : distances'[n] \in Nat
         /\ DistancesAreShortest'
<1>1. /\ depth \in Nat /\ depth # 0 /\ id \in Within[depth - 1]
      /\ Within[depth - 1] \subseteq Reached
      /\ DistancesAreShortest /\ \A n \in Reached : distances[n] \in Nat
  BY DEF LevelInv
<1>2. found \subseteq Within[depth] \ Within[depth - 1]
  <2>1. forwardNeighbours(id) \subseteq Within[depth]
    BY <1>1, WithinSpreads
  <2> QED
    BY <1>1, <2>1 DEF Unreached
<1>3. Reached' = Reached \cup found
  BY ReachedGrows DEF Reached
<1>4. \A n \in Reached' : distances'[n] = IF n \in found THEN depth ELSE distances[n]
  BY <1>3 DEF withDistance, Reached
<1>5. \A n \in Reached' : distances'[n] \in Nat
  BY <1>1, <1>3, <1>4
<1>6. ASSUME NEW n \in Reached'
      PROVE  /\ n \in Within[distances'[n]]
             /\ distances'[n] > 0 => n \notin Within[distances'[n] - 1]
  <2>1. CASE n \in found
    BY <1>2, <1>4, <2>1
  <2>2. CASE n \notin found
    <3>1. n \in Reached /\ distances'[n] = distances[n]
      BY <1>3, <1>4, <2>2
    <3> QED
      BY <1>1, <3>1 DEF DistancesAreShortest
  <2> QED
    BY <2>1, <2>2
<1>7. Within' = Within
  BY WithinStands
<1> QED
  BY <1>2, <1>3, <1>5, <1>6, <1>7 DEF DistancesAreShortest

\* Every step of the search keeps it.
LEMMA LevelStep == SearchInv /\ LevelInv /\ [Next]_vars => LevelInv'
<1> SUFFICES ASSUME SearchInv, LevelInv, [Next]_vars PROVE LevelInv'
  OBVIOUS
<1>1. CASE UNCHANGED impactVars
  <2>1. CASE UNCHANGED <<store, query>>
    BY <1>1, <2>1, WithinStands DEF LevelInv, DistancesAreShortest, Reached, impactVars
  <2>2. CASE query = NoQuery
    BY <1>1, <2>2 DEF LevelInv, DistancesAreShortest, Reached, impactVars, SearchInv, Asked
  <2> QED
    BY <1>1, <2>1, <2>2 DEF Next, LoadDocument, Ask, Trace, Impact, vars
<1>2. CASE Impact
  <2>0. ImpactNext /\ UNCHANGED <<store, query>> /\ Within' = Within
    BY <1>2, WithinStands DEF Impact
  <2> USE DEF Reached
  <2>1. CASE ImpactStart
    <3>1. depth = 0 /\ Within[0] = {query.origin}
      BY <2>1, WithinStepwise DEF ImpactStart, LevelInv
    <3>2. CASE hasNode(query.origin)
      <4>1. /\ distances' = [id \in {query.origin} |-> 0] /\ depth' = depth /\ impactPc' = "levelling"
        BY <2>1, <3>2 DEF ImpactStart
      <4>2. DistancesAreShortest'
        BY <2>0, <3>1, <4>1 DEF DistancesAreShortest
      <4> QED
        BY <2>0, <3>1, <4>1, <4>2 DEF LevelInv
    <3>3. CASE ~hasNode(query.origin)
      BY <2>0, <2>1, <3>3 DEF ImpactStart, LevelInv, DistancesAreShortest
    <3> QED
      BY <3>2, <3>3
  <2>2. CASE ImpactLevel
    <3>1. distances' = distances /\ queue' = queue /\ nextLevel' = {} /\ queue \subseteq Reached
      BY <2>2 DEF ImpactLevel, SearchInv
    <3>2. DistancesAreShortest' /\ Reached = Within[depth] /\ depth \in Nat
      BY <2>0, <2>2, <3>1 DEF ImpactLevel, LevelInv, DistancesAreShortest
    <3>3. CASE impactPc' = "returned" /\ depth' = depth
      BY <2>0, <2>2, <3>1, <3>2, <3>3 DEF LevelInv, ImpactLevel
    <3>4. CASE impactPc' = "expanding" /\ depth' = depth + 1
      <4>1. depth' \in Nat /\ depth' # 0 /\ depth' - 1 = depth
        BY <3>2, <3>4
      <4>2. query.origin \in Reached /\ \A id \in Reached : distances[id] \in Nat
        BY <2>2 DEF LevelInv, ImpactLevel
      <4> QED
        BY <2>0, <3>1, <3>2, <3>4, <4>1, <4>2 DEF LevelInv
    <3> QED
      BY <2>2, <3>3, <3>4 DEF ImpactLevel
  <2>3. CASE ImpactExpand
    <3>0. impactPc = "expanding" /\ depth' = depth
      BY <2>3 DEF ImpactExpand
    <3> PICK id \in queue :
          IF Cardinality(Unreached(id)) <= Room
          THEN /\ distances' = withDistance(Unreached(id))
               /\ nextLevel' = nextLevel \cup Unreached(id)
               /\ queue' = queue \ {id}
               /\ UNCHANGED <<impactPc, impactTruncated>>
          ELSE /\ \E found \in kSubset(Room, Unreached(id)) : distances' = withDistance(found)
               /\ impactTruncated' = TRUE
               /\ impactPc' = "returned"
               /\ UNCHANGED <<queue, nextLevel>>
      BY <2>3 DEF ImpactExpand
    <3>1. CASE Cardinality(Unreached(id)) <= Room
      <4>1. /\ distances' = withDistance(Unreached(id)) /\ impactPc' = "expanding"
            /\ nextLevel' = nextLevel \cup Unreached(id) /\ queue' = queue \ {id}
        BY <3>0, <3>1
      <4>2. /\ Unreached(id) \subseteq Within[depth] \ Within[depth - 1]
            /\ Reached' = Reached \cup Unreached(id)
            /\ \A n \in Reached' : distances'[n] \in Nat
            /\ DistancesAreShortest'
        <5> HIDE DEF Reached
        <5> QED
          BY <2>0, <3>0, <4>1, FoundAtDepth
      <4> HIDE DEF Reached
      <4> QED
        BY <2>0, <3>0, <4>1, <4>2 DEF LevelInv
    <3>2. CASE ~(Cardinality(Unreached(id)) <= Room)
      <4>1. PICK found \in SUBSET Unreached(id) : distances' = withDistance(found)
        <5>1. kSubset(Room, Unreached(id)) \subseteq SUBSET Unreached(id)
          BY DEF kSubset
        <5> QED
          BY <3>2, <5>1
      <4>2. impactPc' = "returned"
        BY <3>2
      <4>3. /\ Reached' = Reached \cup found
            /\ \A n \in Reached' : distances'[n] \in Nat
            /\ DistancesAreShortest'
        <5> HIDE DEF Reached
        <5> QED
          BY <2>0, <3>0, <4>1, FoundAtDepth
      <4> HIDE DEF Reached
      <4> QED
        BY <2>0, <3>0, <4>2, <4>3 DEF LevelInv
    <3> QED
      BY <3>1, <3>2
  <2>4. CASE ImpactEndLevel
    <3>0. /\ impactPc = "expanding" /\ queue = {} /\ queue' = nextLevel /\ impactPc' = "levelling"
          /\ UNCHANGED <<distances, nextLevel, depth>>
      BY <2>4 DEF ImpactEndLevel
    <3>1. /\ depth \in Nat /\ depth # 0 /\ Within[depth - 1] \subseteq Reached
          /\ Reached \subseteq Within[depth - 1] \cup nextLevel
          /\ nextLevel \subseteq Within[depth] \ Within[depth - 1]
      BY <3>0 DEF LevelInv
    <3>2. Expanded(Reached \ nextLevel)
      BY <3>0 DEF SearchInv
    <3>3. \A id \in Within[depth - 1] : forwardNeighbours(id) \subseteq Reached
      BY <3>1, <3>2 DEF Expanded
    <3> HIDE DEF Reached
    <3>4. Reached = Within[depth]
      BY <3>1, <3>3, WithinSpreads
    <3>5. Reached' = Reached
      BY <3>0 DEF Reached
    <3>6. DistancesAreShortest'
      BY <2>0, <3>0, <3>5 DEF LevelInv, DistancesAreShortest
    <3> QED
      BY <2>0, <3>0, <3>4, <3>5, <3>6 DEF LevelInv
  <2> QED
    BY <2>0, <2>1, <2>2, <2>3, <2>4 DEF ImpactNext
<1> QED
  BY <1>1, <1>2 DEF Next, LoadDocument, Ask, Trace, vars

\* Each node impact reaches, it reaches by a shortest path: the distance it
\* reports is true, also when a bound cuts the search short (impact,
\* packages/graph/src/impact.ts: "the first time a node is reached is by a
\* shortest path and its recorded distance is the true one").
THEOREM DistancesAlwaysShortest == Spec => []DistancesAreShortest
<1>1. LevelInv => DistancesAreShortest
  BY DEF LevelInv
<1> QED
  BY <1>1, SearchInit, SearchStep, LevelInit, LevelStep, PTL DEF Spec
-------------------------------------------------------------------------------
Path(nodes, edges) == [nodes |-> nodes, edges |-> edges]

\* A path goes on from its i-th node by this step.
Hop(path, i) == [to |-> path.nodes[i + 1], edge |-> path.edges[i]]

\* The paths back from the target that come to no node twice.
Simple ==
  {path \in [nodes : Seq(Mine), edges : Seq(store.edges)] :
     /\ Len(path.nodes) = Len(path.edges) + 1
     /\ path.nodes[1] = query.target
     /\ \A i \in 1..Len(path.edges) : Hop(path, i) \in backwardNeighbours(path.nodes[i])
     /\ \A i, j \in 1..Len(path.nodes) : path.nodes[i] = path.nodes[j] => i = j}

\* A neighbour is a node of the store, along an edge of it.
LEMMA NeighboursAreIds ==
  ASSUME NEW id, NEW n \in backwardNeighbours(id)
  PROVE  n.to \in Ids /\ n.edge \in store.edges /\ n = [to |-> n.to, edge |-> n.edge]
BY DEF backwardNeighbours, neighbours, outgoing, incoming, Ids

\* The paths of each length are those of one edge less, prolonged.
LEMMA PathsStepwise ==
  /\ PathsOf[0] = {Path(<<query.target>>, <<>>)}
  /\ \A k \in Nat : PathsOf[k + 1] = UNION {Prolonged(path) : path \in PathsOf[k]}
<1> DEFINE All == [nodes : Seq({query.target} \cup Ids), edges : Seq(store.edges)]
           step == [some \in SUBSET All |-> UNION {Prolonged(path) : path \in some}]
           IsPaths(f) == f = [k \in Nat |->
                                IF k = 0 THEN {[nodes |-> <<query.target>>, edges |-> <<>>]}
                                ELSE UNION {Prolonged(path) : path \in f[k - 1]}]
<1>1. \A path \in All : Prolonged(path) \subseteq All
  <2> SUFFICES ASSUME NEW path \in All, NEW longer \in Prolonged(path) PROVE longer \in All
    OBVIOUS
  <2>1. PICK n \in backwardNeighbours(path.nodes[Len(path.nodes)]) :
          longer = [nodes |-> Append(path.nodes, n.to), edges |-> Append(path.edges, n.edge)]
    BY DEF Prolonged
  <2>2. n.to \in Ids /\ n.edge \in store.edges
    BY NeighboursAreIds
  <2>3. /\ Append(path.nodes, n.to) \in Seq({query.target} \cup Ids)
        /\ Append(path.edges, n.edge) \in Seq(store.edges)
    <3>1. path.nodes \in Seq({query.target} \cup Ids) /\ path.edges \in Seq(store.edges)
      OBVIOUS
    <3>2. n.to \in {query.target} \cup Ids
      BY <2>2
    <3> QED
      BY <2>2, <3>1, <3>2, AppendProperties
  <2> QED
    BY <2>1, <2>3
<1>2. {Path(<<query.target>>, <<>>)} \in SUBSET All
  <2>1. <<query.target>> \in Seq({query.target} \cup Ids) /\ <<>> \in Seq(store.edges)
    OBVIOUS
  <2> QED
    BY <2>1 DEF Path
<1> HIDE DEF All
<1>3. step \in [SUBSET All -> SUBSET All]
  <2>1. \A some \in SUBSET All : UNION {Prolonged(path) : path \in some} \in SUBSET All
    BY <1>1
  <2> QED
    BY <2>1
<1>4. \E f : IsPaths(f)
  <2> DEFINE Sets == SUBSET All
             base == {Path(<<query.target>>, <<>>)}
  <2>1. base \in Sets /\ step \in [Sets -> Sets]
    BY <1>2, <1>3
  <2>2. PICK f \in [Nat -> Sets] : f[0] = base /\ \A k \in Nat : f[k + 1] = step[f[k]]
    <3> HIDE DEF Sets, base, step
    <3> QED
      BY <2>1, Recurrence
  <2>3. /\ f[0] = {[nodes |-> <<query.target>>, edges |-> <<>>]}
        /\ \A k \in Nat : f[k + 1] = UNION {Prolonged(path) : path \in f[k]}
    BY <2>2 DEF Path
  <2> HIDE DEF Sets
  <2>4. ASSUME NEW k \in Nat
        PROVE  f[k] = IF k = 0 THEN {[nodes |-> <<query.target>>, edges |-> <<>>]}
                      ELSE UNION {Prolonged(path) : path \in f[k - 1]}
    <3>1. CASE k = 0
      BY <2>3, <3>1
    <3>2. CASE k # 0
      <4>1. k - 1 \in Nat /\ (k - 1) + 1 = k
        BY <3>2
      <4>2. f[(k - 1) + 1] = UNION {Prolonged(path) : path \in f[k - 1]}
        BY <2>3, <4>1
      <4> QED
        BY <3>2, <4>1, <4>2
    <3> QED
      BY <3>1, <3>2
  <2>5. f = [k \in Nat |-> f[k]]
    OBVIOUS
  <2> QED
    BY <2>4, <2>5
<1>5. IsPaths(PathsOf)
  <2>1. PathsOf = CHOOSE f : IsPaths(f)
    BY DEF PathsOf
  <2> HIDE DEF IsPaths
  <2> QED
    BY <1>4, <2>1, Zenon
<1>6. \A k \in Nat :
        PathsOf[k] = IF k = 0 THEN {Path(<<query.target>>, <<>>)}
                     ELSE UNION {Prolonged(path) : path \in PathsOf[k - 1]}
  <2> DEFINE P == PathsOf
             base == {Path(<<query.target>>, <<>>)}
  <2>1. P = [k \in Nat |-> IF k = 0 THEN base ELSE UNION {Prolonged(path) : path \in P[k - 1]}]
    BY <1>5 DEF Path
  <2> HIDE DEF P, base
  <2>2. \A k \in Nat : P[k] = IF k = 0 THEN base ELSE UNION {Prolonged(path) : path \in P[k - 1]}
    BY <2>1
  <2> QED
    BY <2>2 DEF P, base
<1>7. ASSUME NEW k \in Nat PROVE PathsOf[k + 1] = UNION {Prolonged(path) : path \in PathsOf[k]}
  <2>1. k + 1 \in Nat /\ k + 1 # 0 /\ (k + 1) - 1 = k
    OBVIOUS
  <2>2. PathsOf[k + 1] = UNION {Prolonged(path) : path \in PathsOf[(k + 1) - 1]}
    BY <1>6, <2>1
  <2> QED
    BY <2>1, <2>2
<1> QED
  BY <1>6, <1>7

\* What a simple path is, read as its nodes and edges.
LEMMA SimpleMeans ==
  ASSUME NEW nodes, NEW edges
  PROVE  Path(nodes, edges) \in Simple <=>
           /\ nodes \in Seq(Mine) /\ edges \in Seq(store.edges)
           /\ Len(nodes) = Len(edges) + 1
           /\ nodes[1] = query.target
           /\ \A i \in 1..Len(edges) :
                [to |-> nodes[i + 1], edge |-> edges[i]] \in backwardNeighbours(nodes[i])
           /\ \A i, j \in 1..Len(nodes) : nodes[i] = nodes[j] => i = j
<1>1. Path(nodes, edges).nodes = nodes /\ Path(nodes, edges).edges = edges
  BY DEF Path
<1>2. Path(nodes, edges) \in [nodes : Seq(Mine), edges : Seq(store.edges)]
        <=> nodes \in Seq(Mine) /\ edges \in Seq(store.edges)
  BY DEF Path
<1> DEFINE path == Path(nodes, edges)
<1> HIDE DEF path
<1>3. path \in Simple <=>
        /\ path \in [nodes : Seq(Mine), edges : Seq(store.edges)]
        /\ Len(path.nodes) = Len(path.edges) + 1
        /\ path.nodes[1] = query.target
        /\ \A i \in 1..Len(path.edges) :
             [to |-> path.nodes[i + 1], edge |-> path.edges[i]] \in backwardNeighbours(path.nodes[i])
        /\ \A i, j \in 1..Len(path.nodes) : path.nodes[i] = path.nodes[j] => i = j
  BY Zenon DEF Simple, Hop
<1>4. path.nodes = nodes /\ path.edges = edges
  BY <1>1 DEF path
<1>5. path \in [nodes : Seq(Mine), edges : Seq(store.edges)]
        <=> nodes \in Seq(Mine) /\ edges \in Seq(store.edges)
  BY <1>2 DEF path
<1>6. path \in Simple <=>
        /\ nodes \in Seq(Mine) /\ edges \in Seq(store.edges)
        /\ Len(nodes) = Len(edges) + 1
        /\ nodes[1] = query.target
        /\ \A i \in 1..Len(edges) :
             [to |-> nodes[i + 1], edge |-> edges[i]] \in backwardNeighbours(nodes[i])
        /\ \A i, j \in 1..Len(nodes) : nodes[i] = nodes[j] => i = j
  BY <1>3, <1>4, <1>5, Zenon
<1> QED
  BY <1>6 DEF path

\* A simple path is its nodes and edges.
LEMMA SimpleIsPath ==
  ASSUME NEW path \in Simple
  PROVE  path = Path(path.nodes, path.edges)
BY DEF Simple, Path

\* What is known of them.
LEMMA SimpleParts ==
  ASSUME NEW path \in Simple
  PROVE  /\ path.nodes \in Seq(Mine) /\ path.edges \in Seq(store.edges)
         /\ Len(path.nodes) = Len(path.edges) + 1 /\ Len(path.edges) \in Nat
         /\ path.nodes[1] = query.target
         /\ \A i, j \in 1..Len(path.nodes) : path.nodes[i] = path.nodes[j] => i = j
<1>1. Path(path.nodes, path.edges) \in Simple
  BY SimpleIsPath
<1> DEFINE nodes == path.nodes
           edges == path.edges
<1>2. Path(nodes, edges) \in Simple
  BY <1>1
<1> HIDE DEF nodes, edges
<1>3. /\ nodes \in Seq(Mine) /\ edges \in Seq(store.edges)
      /\ Len(nodes) = Len(edges) + 1 /\ Len(edges) \in Nat
      /\ nodes[1] = query.target
      /\ \A i, j \in 1..Len(nodes) : nodes[i] = nodes[j] => i = j
  BY <1>2, SimpleMeans
<1> QED
  BY <1>3 DEF nodes, edges

\* A simple path stays one when it goes on to a node it has not been to.
LEMMA Lengthened ==
  ASSUME StoreInv, NEW nodes, NEW edges, Path(nodes, edges) \in Simple, NEW n \in Unvisited(nodes)
  PROVE  Path(Append(nodes, n.to), Append(edges, n.edge)) \in Simple
<1> DEFINE longer == Append(nodes, n.to)
           joined == Append(edges, n.edge)
           k == Len(edges)
<1>1. /\ nodes \in Seq(Mine) /\ edges \in Seq(store.edges)
      /\ Len(nodes) = k + 1 /\ k \in Nat
      /\ nodes[1] = query.target
      /\ \A i \in 1..k :
           [to |-> nodes[i + 1], edge |-> edges[i]] \in backwardNeighbours(nodes[i])
      /\ \A i, j \in 1..k + 1 : nodes[i] = nodes[j] => i = j
  BY SimpleMeans
<1>2. n \in backwardNeighbours(nodes[k + 1]) /\ \A i \in 1..k + 1 : nodes[i] # n.to
  BY <1>1 DEF Unvisited, Visiting
<1>3. n.to \in Mine /\ n.edge \in store.edges /\ n = [to |-> n.to, edge |-> n.edge]
  BY <1>2, NeighboursAreMine DEF backwardNeighbours, Hops
<1>4. /\ longer \in Seq(Mine) /\ Len(longer) = k + 2
      /\ \A i \in 1..k + 1 : longer[i] = nodes[i]
      /\ longer[k + 2] = n.to
  BY <1>1, <1>3, AppendProperties
<1>5. /\ joined \in Seq(store.edges) /\ Len(joined) = k + 1
      /\ \A i \in 1..k : joined[i] = edges[i]
      /\ joined[k + 1] = n.edge
  BY <1>1, <1>3, AppendProperties
<1> HIDE DEF longer, joined, k
<1>6. ASSUME NEW i \in 1..k + 1
      PROVE  [to |-> longer[i + 1], edge |-> joined[i]] \in backwardNeighbours(longer[i])
  <2>1. CASE i \in 1..k
    <3>1. i + 1 \in 1..k + 1 /\ i \in 1..k + 1
      BY <1>1, <2>1
    <3>2. longer[i + 1] = nodes[i + 1] /\ longer[i] = nodes[i] /\ joined[i] = edges[i]
      BY <1>4, <1>5, <2>1, <3>1
    <3> QED
      BY <1>1, <2>1, <3>2
  <2>2. CASE i = k + 1
    <3>1. longer[i + 1] = n.to /\ longer[i] = nodes[k + 1] /\ joined[i] = n.edge
      BY <1>1, <1>4, <1>5, <2>2
    <3> QED
      BY <1>2, <1>3, <3>1
  <2> QED
    BY <1>1, <2>1, <2>2
<1>7. ASSUME NEW i \in 1..k + 2, NEW j \in 1..k + 2, longer[i] = longer[j] PROVE i = j
  <2>1. (i \in 1..k + 1 \/ i = k + 2) /\ (j \in 1..k + 1 \/ j = k + 2)
    BY <1>1
  <2> QED
    BY <1>1, <1>2, <1>4, <1>7, <2>1
<1>8. longer[1] = query.target
  BY <1>1, <1>4
<1>9. Path(longer, joined) \in Simple
  BY <1>1, <1>4, <1>5, <1>6, <1>7, <1>8, SimpleMeans
<1> QED
  BY <1>9 DEF longer, joined

\* And it stays one when it is cut, with a step to where it went from there.
LEMMA CutShort ==
  ASSUME NEW nodes, NEW edges, Path(nodes, edges) \in Simple, NEW i \in 1..Len(nodes)
  PROVE  /\ Path(SubSeq(nodes, 1, i), SubSeq(edges, 1, i - 1)) \in Simple
         /\ Len(SubSeq(nodes, 1, i)) = i
         /\ i < Len(nodes) =>
              [to |-> nodes[i + 1], edge |-> edges[i]] \in Unvisited(SubSeq(nodes, 1, i))
<1> DEFINE k == Len(edges)
           short == SubSeq(nodes, 1, i)
           few == SubSeq(edges, 1, i - 1)
<1>1. /\ nodes \in Seq(Mine) /\ edges \in Seq(store.edges)
      /\ Len(nodes) = k + 1 /\ k \in Nat /\ i \in 1..k + 1
      /\ nodes[1] = query.target
      /\ \A j \in 1..k :
           [to |-> nodes[j + 1], edge |-> edges[j]] \in backwardNeighbours(nodes[j])
      /\ \A j, m \in 1..k + 1 : nodes[j] = nodes[m] => j = m
  BY SimpleMeans
<1>2. /\ short \in Seq(Mine) /\ Len(short) = i /\ \A j \in 1..i : short[j] = nodes[j]
  <2>1. i \in 0..Len(nodes)
    BY <1>1
  <2> QED
    BY <1>1, <2>1, Shortened
<1>3. /\ few \in Seq(store.edges) /\ Len(few) = i - 1 /\ \A j \in 1..i - 1 : few[j] = edges[j]
  <2> DEFINE m == i - 1
  <2>1. m \in 0..Len(edges) /\ edges \in Seq(store.edges)
    BY <1>1
  <2> HIDE DEF m
  <2>2. /\ SubSeq(edges, 1, m) \in Seq(store.edges) /\ Len(SubSeq(edges, 1, m)) = m
        /\ \A j \in 1..m : SubSeq(edges, 1, m)[j] = edges[j]
    BY <2>1, Shortened
  <2> QED
    BY <2>2 DEF m
<1>4. Len(nodes) = k + 1
  BY <1>1
<1> HIDE DEF short, few, k
<1>5. ASSUME NEW j \in 1..i - 1
      PROVE  [to |-> short[j + 1], edge |-> few[j]] \in backwardNeighbours(short[j])
  <2>1. j + 1 \in 1..i /\ j \in 1..i /\ j \in 1..k
    BY <1>1
  <2> QED
    BY <1>1, <1>2, <1>3, <2>1
<1>6. \A j, m \in 1..i : short[j] = short[m] => j = m
  BY <1>1, <1>2
<1>7. Path(short, few) \in Simple
  <2>1. short \in Seq(Mine) /\ few \in Seq(store.edges) /\ Len(short) = Len(few) + 1
    BY <1>1, <1>2, <1>3
  <2>2. short[1] = query.target
    BY <1>1, <1>2
  <2>3. \A j \in 1..Len(few) : [to |-> short[j + 1], edge |-> few[j]] \in backwardNeighbours(short[j])
    BY <1>3, <1>5
  <2>4. \A j, m \in 1..Len(short) : short[j] = short[m] => j = m
    BY <1>2, <1>6
  <2> QED
    BY <2>1, <2>2, <2>3, <2>4, SimpleMeans
<1>8. ASSUME i < k + 1
      PROVE  [to |-> nodes[i + 1], edge |-> edges[i]] \in Unvisited(short)
  <2>1. i \in 1..k /\ i + 1 \in 1..k + 1 /\ \A j \in 1..i : j \in 1..k + 1 /\ j # i + 1
    BY <1>1, <1>8
  <2>2. [to |-> nodes[i + 1], edge |-> edges[i]] \in backwardNeighbours(short[i])
    BY <1>1, <1>2, <2>1
  <2>3. \A j \in 1..i : short[j] # nodes[i + 1]
    BY <1>1, <1>2, <2>1
  <2>4. DOMAIN short = 1..i
    BY <1>2
  <2> QED
    BY <1>2, <2>2, <2>3, <2>4 DEF Unvisited, Visiting
<1> QED
  BY <1>2, <1>4, <1>7, <1>8 DEF short, few

\* A list is what is before its last item, and that item.
LEMMA LastAppended ==
  ASSUME NEW S, NEW s \in Seq(S), NEW k \in Nat, Len(s) = k + 1
  PROVE  s = Append(SubSeq(s, 1, k), s[k + 1])
<1> DEFINE front == SubSeq(s, 1, k)
<1>1. front \in Seq(S) /\ Len(front) = k /\ \A i \in 1..k : front[i] = s[i]
  BY Shortened
<1>2. s[k + 1] \in S
  OBVIOUS
<1> HIDE DEF front
<1>3. /\ Append(front, s[k + 1]) \in Seq(S) /\ Len(Append(front, s[k + 1])) = k + 1
      /\ \A i \in 1..k : Append(front, s[k + 1])[i] = s[i]
      /\ Append(front, s[k + 1])[k + 1] = s[k + 1]
  BY <1>1, <1>2, AppendProperties
<1>4. \A i \in 1..k + 1 : Append(front, s[k + 1])[i] = s[i]
  BY <1>3
<1>5. s = Append(front, s[k + 1])
  BY <1>3, <1>4, SeqEqual
<1> QED
  BY <1>5 DEF front

\* The recursion finds the simple paths of each length, and no other.
LEMMA PathsAreSimple ==
  ASSUME StoreInv, hasNode(query.target)
  PROVE  \A k \in Nat : PathsOf[k] = {path \in Simple : Len(path.edges) = k}
<1> DEFINE Right == {k \in Nat : PathsOf[k] = {path \in Simple : Len(path.edges) = k}}
<1>1. 0 \in Right
  <2>1. Path(<<query.target>>, <<>>) \in Simple
    <3>1. query.target \in Mine
      BY DEF hasNode, Mine, Ids
    <3>2. /\ <<query.target>> \in Seq(Mine) /\ <<>> \in Seq(store.edges)
          /\ Len(<<query.target>>) = Len(<<>>) + 1 /\ Len(<<>>) = 0
          /\ <<query.target>>[1] = query.target
          /\ \A i, j \in 1..Len(<<query.target>>) : i = j
      BY <3>1
    <3>3. \A i \in 1..Len(<<>>) : FALSE
      BY <3>2
    <3> QED
      BY <3>2, <3>3, SimpleMeans
  <2>2. Path(<<query.target>>, <<>>).edges = <<>> /\ Len(<<>>) = 0
    BY DEF Path
  <2>3. ASSUME NEW path \in Simple, Len(path.edges) = 0
        PROVE  path = Path(<<query.target>>, <<>>)
    <3>1. path = Path(path.nodes, path.edges)
      BY SimpleIsPath
    <3>2. /\ path.nodes \in Seq(Mine) /\ path.edges \in Seq(store.edges)
          /\ Len(path.nodes) = 1 /\ path.nodes[1] = query.target
      <4>1. /\ path.nodes \in Seq(Mine) /\ path.edges \in Seq(store.edges)
            /\ Len(path.nodes) = Len(path.edges) + 1 /\ path.nodes[1] = query.target
        BY SimpleParts
      <4> QED
        BY <2>3, <4>1
    <3>3. path.nodes = <<query.target>> /\ path.edges = <<>>
      BY <2>3, <3>2
    <3> QED
      BY <3>1, <3>3
  <2> QED
    BY <2>1, <2>2, <2>3, PathsStepwise
<1>2. ASSUME NEW k \in Right PROVE k + 1 \in Right
  <2>0. k \in Nat /\ PathsOf[k] = {path \in Simple : Len(path.edges) = k}
    OBVIOUS
  <2> HIDE DEF Right
  <2>1. PathsOf[k + 1] = UNION {Prolonged(path) : path \in PathsOf[k]}
    BY <2>0, PathsStepwise
  <2>2. ASSUME NEW path \in PathsOf[k + 1] PROVE path \in Simple /\ Len(path.edges) = k + 1
    <3>1. PICK shorter \in PathsOf[k] : path \in Prolonged(shorter)
      BY <2>1
    <3>2. PICK n \in Unvisited(shorter.nodes) :
            path = Path(Append(shorter.nodes, n.to), Append(shorter.edges, n.edge))
      BY <3>1 DEF Prolonged, Unvisited, Path
    <3>3. shorter \in Simple /\ shorter = Path(shorter.nodes, shorter.edges)
      BY <2>0, SimpleIsPath
    <3>4. path \in Simple
      BY <3>2, <3>3, Lengthened
    <3>5. shorter.edges \in Seq(store.edges) /\ Len(shorter.edges) = k
      BY <2>0 DEF Simple
    <3>6. n.edge \in store.edges
      BY NeighboursAreIds DEF Unvisited
    <3>7. Len(Append(shorter.edges, n.edge)) = k + 1
      BY <3>5, <3>6, AppendProperties
    <3> QED
      BY <3>2, <3>4, <3>7 DEF Path
  <2>3. ASSUME NEW path \in Simple, Len(path.edges) = k + 1 PROVE path \in PathsOf[k + 1]
    <3> DEFINE nodes == path.nodes
               edges == path.edges
               short == SubSeq(nodes, 1, k + 1)
               few == SubSeq(edges, 1, k)
               n == [to |-> nodes[k + 2], edge |-> edges[k + 1]]
    <3>1. path = Path(nodes, edges)
      BY SimpleIsPath
    <3>2. nodes \in Seq(Mine) /\ edges \in Seq(store.edges) /\ Len(nodes) = k + 2
      BY <2>0, <2>3 DEF Simple
    <3>3. k + 1 \in 1..Len(nodes) /\ k + 1 < Len(nodes) /\ (k + 1) - 1 = k /\ (k + 1) + 1 = k + 2
      BY <2>0, <3>2
    <3>4. Path(short, few) \in Simple /\ n \in Unvisited(short)
      <4> HIDE DEF nodes, edges
      <4>1. Path(nodes, edges) \in Simple
        BY <3>1
      <4>2. /\ Path(SubSeq(nodes, 1, k + 1), SubSeq(edges, 1, (k + 1) - 1)) \in Simple
            /\ [to |-> nodes[(k + 1) + 1], edge |-> edges[k + 1]] \in Unvisited(SubSeq(nodes, 1, k + 1))
        BY <3>3, <4>1, CutShort
      <4> QED
        BY <3>3, <4>2
    <3>5. Len(few) = k /\ few \in Seq(store.edges)
      <4>1. k \in 0..Len(edges)
        BY <2>0, <2>3
      <4> QED
        BY <3>2, <4>1, Shortened, ZenonT(30)
    <3>6. nodes = Append(short, nodes[k + 2]) /\ edges = Append(few, edges[k + 1])
      <4>1. nodes = Append(SubSeq(nodes, 1, k + 1), nodes[(k + 1) + 1])
        <5>1. k + 1 \in Nat /\ Len(nodes) = (k + 1) + 1
          BY <2>0, <3>2
        <5> HIDE DEF nodes
        <5> QED
          BY <3>2, <5>1, LastAppended
      <4>2. edges = Append(SubSeq(edges, 1, k), edges[k + 1])
        <5>1. Len(edges) = k + 1
          BY <2>3
        <5> HIDE DEF edges
        <5> QED
          BY <2>0, <3>2, <5>1, LastAppended
      <4> QED
        BY <3>3, <4>1, <4>2
    <3>7. path = Path(Append(short, n.to), Append(few, n.edge))
      BY <3>1, <3>6
    <3>8. Path(short, few) \in PathsOf[k]
      <4>1. Path(short, few).edges = few
        BY DEF Path
      <4> QED
        BY <2>0, <3>4, <3>5, <4>1
    <3> HIDE DEF n, short, few
    <3>9. path \in Prolonged(Path(short, few))
      BY <3>4, <3>7 DEF Prolonged, Unvisited, Path
    <3> QED
      BY <2>1, <3>8, <3>9
  <2> QED
    BY <2>0, <2>2, <2>3 DEF Right
<1> HIDE DEF Right
<1>3. Right = Nat
  <2>1. Right \in SUBSET Nat
    BY DEF Right
  <2> QED
    BY <1>1, <1>2, <2>1, Upward
<1> QED
  BY <1>3 DEF Right

\* A path that comes to no node twice is no longer than there are nodes.
LEMMA SimpleBounded ==
  ASSUME IsFiniteSet(Ids), NEW path \in Simple
  PROVE  Cardinality(Ids) \in Nat /\ Len(path.nodes) <= Cardinality(Ids)
<1> DEFINE nodes == path.nodes
           n == Len(nodes)
<1>1. /\ nodes \in Seq(Mine)
      /\ \A i, j \in 1..n : nodes[i] = nodes[j] => i = j
  BY SimpleParts
<1>2. Mine \subseteq Ids
  BY DEF Mine
<1> HIDE DEF nodes
<1>3. n \in Nat /\ nodes \in [1..n -> Ids]
  BY <1>1, <1>2
<1>4. nodes \in Injection(1..n, Ids)
  BY <1>1, <1>3 DEF Injection, IsInjective
<1>5. IsFiniteSet(1..n) /\ Cardinality(1..n) = n
  <2> HIDE DEF n
  <2>1. n \in Int /\ 1 \in Int /\ n - 1 + 1 = n /\ (1 > n => n = 0)
    BY <1>3
  <2> QED
    BY <2>1, FS_Interval
<1>6. Cardinality(1..n) <= Cardinality(Ids)
  BY <1>4, FS_Injection
<1>7. Cardinality(Ids) \in Nat
  BY FS_CardinalityType
<1> QED
  BY <1>5, <1>6, <1>7 DEF nodes

\* So SimplePaths holds all of them,
LEMMA SimplePathsAreSimple ==
  ASSUME StoreInv, hasNode(query.target), IsFiniteSet(Ids)
  PROVE  SimplePaths = Simple
<1>1. ASSUME NEW path \in Simple PROVE path \in SimplePaths
  <2>2. Len(path.nodes) = Len(path.edges) + 1
    BY SimpleParts
  <2>3. Len(path.edges) \in Nat
    BY SimpleParts
  <2>4. Len(path.edges) \in 0..Cardinality(Ids)
    BY <2>2, <2>3, SimpleBounded
  <2>5. path \in PathsOf[Len(path.edges)]
    BY <2>3, PathsAreSimple
  <2> QED
    BY <2>4, <2>5 DEF SimplePaths
<1>2. Cardinality(Ids) \in Nat
  BY FS_CardinalityType
<1>3. \A k \in 0..Cardinality(Ids) : PathsOf[k] \subseteq Simple
  BY <1>2, PathsAreSimple
<1> QED
  BY <1>1, <1>3 DEF SimplePaths

\* and MaximalPaths those that cannot go on.
LEMMA MaximalMeans ==
  ASSUME StoreInv, hasNode(query.target), IsFiniteSet(Ids)
  PROVE  MaximalPaths = {path \in Simple : Unvisited(path.nodes) = {}}
<1>1. SimplePaths = Simple
  BY SimplePathsAreSimple
<1>2. \A path : Unvisited(path.nodes) = {}
        <=> {n.to : n \in backwardNeighbours(path.nodes[Len(path.nodes)])} \subseteq Visiting(path.nodes)
  BY DEF Unvisited
<1> QED
  BY <1>1, <1>2 DEF MaximalPaths

\* A path agrees with this trail and these edges up to its i-th node.
Agrees(path, nodes, edges, i) ==
  /\ i <= Len(path.nodes)
  /\ \A j \in 1..i : path.nodes[j] = nodes[j]
  /\ \A j \in 1..i - 1 : path.edges[j] = edges[j]

Beginning(nodes, edges) == {path \in MaximalPaths : Agrees(path, nodes, edges, Len(nodes))}

\* Every simple path begins some maximal one.
LEMMA Completed ==
  ASSUME StoreInv, hasNode(query.target), IsFiniteSet(Ids),
         NEW nodes, NEW edges, Path(nodes, edges) \in Simple
  PROVE  Beginning(nodes, edges) # {}
<1> DEFINE Longer == {path \in Simple : Agrees(path, nodes, edges, Len(nodes))}
           c == Cardinality(Ids)
           Lacking == {m \in Nat : \E path \in Longer : m = c - Len(path.nodes)}
<1>1. /\ c \in Nat
      /\ \A path \in Simple : Len(path.nodes) \in Nat /\ Len(path.nodes) <= c
  <2>1. \A path \in Simple : Len(path.nodes) \in Nat
    BY SimpleParts
  <2> QED
    BY <2>1, SimpleBounded, FS_CardinalityType
<1>2. Path(nodes, edges) \in Longer
  <2>1. Path(nodes, edges).nodes = nodes /\ Path(nodes, edges).edges = edges
    BY DEF Path
  <2>2. Len(nodes) <= Len(nodes)
    BY <1>1, <2>1
  <2> QED
    BY <2>1, <2>2 DEF Agrees
<1>3. Lacking # {} /\ Lacking \in SUBSET Nat
  <2>1. \A path \in Longer : c - Len(path.nodes) \in Nat
    BY <1>1
  <2> HIDE DEF Longer, c
  <2> QED
    BY <1>2, <2>1
<1>4. PICK path \in Longer : \A other \in Longer : Len(other.nodes) <= Len(path.nodes)
  <2>1. First(Lacking) \in Lacking /\ \A t \in Lacking : First(Lacking) <= t
    <3> HIDE DEF Lacking
    <3> QED
      BY <1>3, FirstPosition
  <2>2. PICK m \in Lacking : \A t \in Lacking : m <= t
    BY <2>1
  <2>3. PICK path \in Longer : m = c - Len(path.nodes)
    OBVIOUS
  <2>4. \A other \in Longer : Len(other.nodes) <= Len(path.nodes)
    <3> SUFFICES ASSUME NEW other \in Longer PROVE Len(other.nodes) <= Len(path.nodes)
      OBVIOUS
    <3>1. /\ c \in Nat /\ Len(other.nodes) \in Nat /\ Len(other.nodes) <= c
          /\ Len(path.nodes) \in Nat /\ Len(path.nodes) <= c
      BY <1>1
    <3>2. c - Len(other.nodes) \in Lacking
      <4> HIDE DEF Longer, c
      <4>1. c - Len(other.nodes) \in Nat
        BY <3>1
      <4> QED
        BY <4>1
    <3>3. m <= c - Len(other.nodes)
      BY <2>2, <3>2
    <3> HIDE DEF c, Longer, Lacking
    <3> QED
      BY <2>3, <3>1, <3>3
  <2> QED
    BY <2>4
<1>5. Unvisited(path.nodes) = {}
  <2> SUFFICES ASSUME NEW n \in Unvisited(path.nodes) PROVE FALSE
    OBVIOUS
  <2> DEFINE on == Append(path.nodes, n.to)
             over == Append(path.edges, n.edge)
  <2>1. Path(path.nodes, path.edges) \in Simple /\ path \in Simple
    BY SimpleIsPath
  <2>2. Path(on, over) \in Simple
    BY <2>1, Lengthened
  <2>3. path.nodes \in Seq(Mine) /\ path.edges \in Seq(store.edges) /\ Len(path.nodes) = Len(path.edges) + 1
    BY <2>1, SimpleParts
  <2>4. n.to \in Mine /\ n.edge \in store.edges
    BY NeighboursAreMine DEF Unvisited, backwardNeighbours, Hops
  <2>5. /\ Len(on) = Len(path.nodes) + 1 /\ \A i \in 1..Len(path.nodes) : on[i] = path.nodes[i]
        /\ \A i \in 1..Len(path.edges) : over[i] = path.edges[i]
    BY <2>3, <2>4, AppendProperties
  <2>6. Path(on, over).nodes = on /\ Path(on, over).edges = over
    BY DEF Path
  <2>7. Len(nodes) <= Len(path.nodes) /\ Len(nodes) \in Nat /\ Len(path.nodes) \in Nat
    BY <1>1, <1>2 DEF Agrees, Path
  <2> HIDE DEF on, over
  <2>8. Agrees(Path(on, over), nodes, edges, Len(nodes))
    <3>1. Agrees(path, nodes, edges, Len(nodes))
      OBVIOUS
    <3>2. Len(nodes) <= Len(on)
      BY <2>5, <2>7
    <3>3. \A j \in 1..Len(nodes) : j \in 1..Len(path.nodes)
      BY <2>7
    <3>4. \A j \in 1..Len(nodes) - 1 : j \in 1..Len(path.edges)
      BY <2>3, <2>7
    <3> QED
      BY <2>5, <2>6, <3>1, <3>2, <3>3, <3>4 DEF Agrees
  <2>9. Len(on) <= Len(path.nodes)
    BY <1>4, <2>2, <2>6, <2>8
  <2> QED
    BY <2>5, <2>7, <2>9
<1>6. path \in Beginning(nodes, edges)
  BY <1>5, MaximalMeans DEF Beginning
<1> QED
  BY <1>6

\* A path that agrees with a whole trail is that trail, or goes on from it to
\* a node it has not been to.
LEMMA EndsOrGoesOn ==
  ASSUME NEW nodes, NEW edges, Path(nodes, edges) \in Simple,
         NEW path \in Simple, Agrees(path, nodes, edges, Len(nodes))
  PROVE  \/ path = Path(nodes, edges)
         \/ Len(nodes) < Len(path.nodes) /\ Hop(path, Len(nodes)) \in Unvisited(nodes)
<1> DEFINE k == Len(nodes)
           all == path.nodes
           joints == path.edges
<1>1. /\ nodes \in Seq(Mine) /\ edges \in Seq(store.edges)
      /\ Len(edges) = k - 1 /\ k \in Nat /\ k # 0
  BY SimpleMeans
<1>2. all \in Seq(Mine) /\ joints \in Seq(store.edges) /\ Len(all) = Len(joints) + 1 /\ Len(all) \in Nat
  BY SimpleParts
<1>3. k <= Len(all) /\ (\A j \in 1..k : all[j] = nodes[j]) /\ \A j \in 1..k - 1 : joints[j] = edges[j]
  BY DEF Agrees
<1>4. path = Path(all, joints)
  BY SimpleIsPath
<1>5. Path(all, joints) \in Simple
  BY <1>4
<1>6. Hop(path, k) = [to |-> all[k + 1], edge |-> joints[k]]
  BY DEF Hop
<1> HIDE DEF all, joints, k
<1>7. CASE k = Len(all)
  <2>1. all = nodes
    BY <1>1, <1>2, <1>3, <1>7, SeqEqual DEF k
  <2>2. Len(joints) = k - 1
    BY <1>1, <1>2, <1>7
  <2>3. joints = edges
    BY <1>1, <1>2, <1>3, <2>2, SeqEqual
  <2> QED
    BY <1>4, <2>1, <2>3
<1>8. CASE k # Len(all)
  <2>1. k < Len(all) /\ k \in 1..Len(all)
    BY <1>1, <1>2, <1>3, <1>8
  <2>2. [to |-> all[k + 1], edge |-> joints[k]] \in Unvisited(SubSeq(all, 1, k))
    BY <1>5, <2>1, CutShort
  <2>3. SubSeq(all, 1, k) = nodes
    <3> DEFINE short == SubSeq(all, 1, k)
    <3>1. k \in 0..Len(all)
      BY <1>1, <2>1
    <3>2. short \in Seq(Mine) /\ Len(short) = k /\ \A j \in 1..k : short[j] = all[j]
      BY <1>2, <3>1, Shortened
    <3> HIDE DEF short
    <3>3. short = nodes
      BY <1>1, <1>3, <3>2, SeqEqual DEF k
    <3> QED
      BY <3>3 DEF short
  <2> QED
    BY <1>6, <2>1, <2>2, <2>3 DEF all, k
<1> QED
  BY <1>7, <1>8

\* Where a trail cannot go on it is the one path that begins so; and where it
\* can, each path that begins so goes on by one of its steps.
LEMMA BeginningEnds ==
  ASSUME StoreInv, hasNode(query.target), IsFiniteSet(Ids),
         NEW nodes, NEW edges, Path(nodes, edges) \in Simple
  PROVE  IF Unvisited(nodes) = {}
         THEN Beginning(nodes, edges) = {Path(nodes, edges)}
         ELSE \A path \in Beginning(nodes, edges) :
                Len(nodes) < Len(path.nodes) /\ Hop(path, Len(nodes)) \in Unvisited(nodes)
<1>1. Path(nodes, edges).nodes = nodes /\ Path(nodes, edges).edges = edges
  BY DEF Path
<1>2. ASSUME NEW path \in Beginning(nodes, edges)
      PROVE  \/ path = Path(nodes, edges)
             \/ Len(nodes) < Len(path.nodes) /\ Hop(path, Len(nodes)) \in Unvisited(nodes)
  BY EndsOrGoesOn, MaximalMeans DEF Beginning
<1>3. CASE Unvisited(nodes) = {}
  <2>1. Path(nodes, edges) \in MaximalPaths
    BY <1>1, <1>3, MaximalMeans
  <2>2. Agrees(Path(nodes, edges), nodes, edges, Len(nodes))
    <3>1. Len(nodes) \in Nat
      BY SimpleMeans
    <3>2. Len(nodes) <= Len(nodes)
      BY <3>1
    <3> QED
      BY <1>1, <3>2 DEF Agrees
  <2> QED
    BY <1>2, <1>3, <2>1, <2>2 DEF Beginning
<1>4. CASE Unvisited(nodes) # {}
  <2>1. Path(nodes, edges) \notin MaximalPaths
    BY <1>1, <1>4, MaximalMeans
  <2> QED
    BY <1>2, <1>4, <2>1 DEF Beginning
<1> QED
  BY <1>3, <1>4

\* The paths still to be found: those that go on from somewhere on the trail by
\* a step not yet taken there.
Awaiting(nodes, edges, rest) ==
  {path \in MaximalPaths :
     \E i \in 1..Len(rest) : /\ Agrees(path, nodes, edges, i) /\ i < Len(path.nodes)
                             /\ Hop(path, i) \in rest[i]}

\* Entering a node where a trail can go on awaits all paths that begin so.
LEMMA EnterAwaits ==
  ASSUME StoreInv, hasNode(query.target), IsFiniteSet(Ids),
         NEW nodes, NEW edges, Path(nodes, edges) \in Simple, Unvisited(nodes) # {},
         NEW S, NEW rest \in Seq(S), Unvisited(nodes) \in S, Len(nodes) = Len(rest) + 1
  PROVE  Awaiting(nodes, edges, Append(rest, Unvisited(nodes)))
           = Awaiting(nodes, edges, rest) \cup Beginning(nodes, edges)
<1> DEFINE next == Unvisited(nodes)
           more == Append(rest, next)
           k == Len(rest)
<1>1. k \in Nat /\ Len(more) = k + 1 /\ (\A i \in 1..k : more[i] = rest[i]) /\ more[k + 1] = next
  BY AppendProperties
<1>2. \A i \in 1..k + 1 : i \in 1..k \/ i = k + 1
  BY <1>1
<1>3. \A i \in 1..k : i \in 1..k + 1
  BY <1>1
<1>4. k + 1 \in 1..k + 1
  BY <1>1
<1>5. \A path \in Beginning(nodes, edges) :
        k + 1 < Len(path.nodes) /\ Hop(path, k + 1) \in next
  BY BeginningEnds
<1>6. Beginning(nodes, edges) = {path \in MaximalPaths : Agrees(path, nodes, edges, k + 1)}
  BY DEF Beginning
<1> HIDE DEF next, more, k
<1>7. Awaiting(nodes, edges, more)
        = {path \in MaximalPaths :
             \E i \in 1..k + 1 : /\ Agrees(path, nodes, edges, i) /\ i < Len(path.nodes)
                                 /\ Hop(path, i) \in more[i]}
  BY <1>1 DEF Awaiting
<1>8. Awaiting(nodes, edges, rest)
        = {path \in MaximalPaths :
             \E i \in 1..k : /\ Agrees(path, nodes, edges, i) /\ i < Len(path.nodes)
                             /\ Hop(path, i) \in rest[i]}
  BY DEF Awaiting, k
<1>9. Awaiting(nodes, edges, more) \subseteq Awaiting(nodes, edges, rest) \cup Beginning(nodes, edges)
  BY <1>1, <1>2, <1>6, <1>7, <1>8
<1>10. Awaiting(nodes, edges, rest) \subseteq Awaiting(nodes, edges, more)
  BY <1>1, <1>3, <1>7, <1>8
<1>11. Beginning(nodes, edges) \subseteq Awaiting(nodes, edges, more)
  BY <1>1, <1>4, <1>5, <1>6, <1>7
<1>12. Awaiting(nodes, edges, more) = Awaiting(nodes, edges, rest) \cup Beginning(nodes, edges)
  BY <1>9, <1>10, <1>11
<1> QED
  BY <1>12 DEF more, next

\* The trail, its edges and what is left to visit once a step is taken from it.
On(n) == Append(trail, n.to)
Over(n) == Append(edgeTrail, n.edge)
Left(n) == [pending EXCEPT ![Len(pending)] = @ \ {n}]

\* Taking a step splits what is awaited: into what begins with that step, and
\* what is awaited without it.
LEMMA StepSplits ==
  ASSUME MaximalPaths \subseteq Simple, WalkInv, pending # <<>>,
         \A i \in 1..Len(edgeTrail) : [to |-> trail[i + 1], edge |-> edgeTrail[i]] \notin pending[i],
         NEW n \in pending[Len(pending)],
         n.to \in Mine, n.edge \in store.edges, n = [to |-> n.to, edge |-> n.edge]
  PROVE  /\ Awaiting(trail, edgeTrail, pending)
              = Awaiting(On(n), Over(n), Left(n)) \cup Beginning(On(n), Over(n))
         /\ Awaiting(On(n), Over(n), Left(n)) \cap Beginning(On(n), Over(n)) = {}
         /\ Awaiting(On(n), Over(n), Left(n)) = Awaiting(trail, edgeTrail, Left(n))
         /\ \A i \in 1..Len(Over(n)) :
              [to |-> On(n)[i + 1], edge |-> Over(n)[i]] \notin Left(n)[i]
<1> DEFINE nodes == trail
           edges == edgeTrail
           rest == pending
           on == On(n)
           over == Over(n)
           left == Left(n)
<1>0. /\ nodes \in Seq(Mine) /\ edges \in Seq(store.edges) /\ rest \in Seq(SUBSET Hops)
      /\ Len(nodes) = Len(rest) /\ Len(rest) # 0 /\ Len(edges) = Len(rest) - 1
      /\ \A i \in 1..Len(edges) : [to |-> nodes[i + 1], edge |-> edges[i]] \notin rest[i]
      /\ n \in rest[Len(rest)]
      /\ on = Append(nodes, n.to) /\ over = Append(edges, n.edge)
      /\ left = [rest EXCEPT ![Len(rest)] = @ \ {n}]
  BY DEF WalkInv, On, Over, Left
<1> HIDE DEF nodes, edges, rest, on, over, left
<1> DEFINE k == Len(rest)
<1>1. k \in Nat /\ k \in 1..k /\ k # 0
  BY <1>0
<1>2. Len(on) = k + 1 /\ (\A i \in 1..k : on[i] = nodes[i]) /\ on[k + 1] = n.to
  BY <1>0, AppendProperties
<1>3. Len(over) = k /\ (\A i \in 1..k - 1 : over[i] = edges[i]) /\ over[k] = n.edge
  BY <1>0, <1>1, AppendProperties
<1>4. Len(left) = k /\ (\A i \in 1..k : i # k => left[i] = rest[i]) /\ left[k] = rest[k] \ {n}
  BY <1>0, <1>1
<1>5. /\ Len(nodes) = k /\ n \in rest[k]
      /\ \A i \in 1..k - 1 : [to |-> nodes[i + 1], edge |-> edges[i]] \notin rest[i]
  BY <1>0
<1>6. \A path : \A i \in 1..k : Agrees(path, on, over, i) <=> Agrees(path, nodes, edges, i)
  <2> SUFFICES ASSUME NEW path, NEW i \in 1..k
               PROVE  Agrees(path, on, over, i) <=> Agrees(path, nodes, edges, i)
    OBVIOUS
  <2>1. (\A j \in 1..i : j \in 1..k) /\ \A j \in 1..i - 1 : j \in 1..k - 1
    BY <1>1
  <2>2. (\A j \in 1..i : on[j] = nodes[j]) /\ \A j \in 1..i - 1 : over[j] = edges[j]
    BY <1>2, <1>3, <2>1
  <2> QED
    BY <2>2 DEF Agrees
<1>7. \A path : Len(path.nodes) \in Nat =>
        (Agrees(path, on, over, k + 1)
           <=> Agrees(path, nodes, edges, k) /\ k < Len(path.nodes) /\ Hop(path, k) = n)
  <2> SUFFICES ASSUME NEW path, Len(path.nodes) \in Nat
               PROVE  Agrees(path, on, over, k + 1)
                        <=> Agrees(path, nodes, edges, k) /\ k < Len(path.nodes) /\ Hop(path, k) = n
    OBVIOUS
  <2>1. Hop(path, k) = n <=> path.nodes[k + 1] = n.to /\ path.edges[k] = n.edge
    BY DEF Hop
  <2>2. /\ \A j : j \in 1..k + 1 <=> (j \in 1..k \/ j = k + 1)
        /\ \A j : j \in 1..(k + 1) - 1 <=> (j \in 1..k - 1 \/ j = k)
    BY <1>1
  <2> HIDE DEF k
  <2>3. Agrees(path, on, over, k + 1) <=>
          /\ k + 1 <= Len(path.nodes)
          /\ (\A j \in 1..k : path.nodes[j] = nodes[j]) /\ path.nodes[k + 1] = n.to
          /\ (\A j \in 1..k - 1 : path.edges[j] = edges[j]) /\ path.edges[k] = n.edge
    BY <1>2, <1>3, <2>2 DEF Agrees
  <2>4. k + 1 <= Len(path.nodes) <=> k <= Len(path.nodes) /\ k < Len(path.nodes)
    BY <1>1
  <2> QED
    BY <2>1, <2>3, <2>4 DEF Agrees
<1>8. \A path \in MaximalPaths : Len(path.nodes) \in Nat
  BY SimpleParts
<1>9. n \notin left[k] /\ \A i \in 1..k : left[i] \subseteq rest[i]
  BY <1>4
<1>10. \A m \in rest[k] : m = n \/ m \in left[k]
  BY <1>4
<1> HIDE DEF k
<1>11. Awaiting(nodes, edges, rest)
         = {path \in MaximalPaths :
              \E i \in 1..k : /\ Agrees(path, nodes, edges, i) /\ i < Len(path.nodes)
                              /\ Hop(path, i) \in rest[i]}
  BY DEF Awaiting, k
<1>12. Awaiting(on, over, left)
         = {path \in MaximalPaths :
              \E i \in 1..k : /\ Agrees(path, nodes, edges, i) /\ i < Len(path.nodes)
                              /\ Hop(path, i) \in left[i]}
  BY <1>4, <1>6 DEF Awaiting
<1>13. Awaiting(nodes, edges, left)
         = {path \in MaximalPaths :
              \E i \in 1..k : /\ Agrees(path, nodes, edges, i) /\ i < Len(path.nodes)
                              /\ Hop(path, i) \in left[i]}
  BY <1>4 DEF Awaiting
<1>14. Beginning(on, over)
         = {path \in MaximalPaths :
              Agrees(path, nodes, edges, k) /\ k < Len(path.nodes) /\ Hop(path, k) = n}
  BY <1>2, <1>7, <1>8 DEF Beginning
<1>15. Awaiting(nodes, edges, rest) \subseteq Awaiting(on, over, left) \cup Beginning(on, over)
  <2> SUFFICES ASSUME NEW path \in Awaiting(nodes, edges, rest), path \notin Awaiting(on, over, left)
               PROVE  path \in Beginning(on, over)
    OBVIOUS
  <2>1. PICK i \in 1..k : /\ Agrees(path, nodes, edges, i) /\ i < Len(path.nodes)
                          /\ Hop(path, i) \in rest[i]
    BY <1>11
  <2>2. path \in MaximalPaths /\ Hop(path, i) \notin left[i]
    BY <1>11, <1>12, <2>1
  <2>3. i = k
    BY <1>4, <2>1, <2>2
  <2> QED
    BY <1>10, <1>14, <2>1, <2>2, <2>3
<1>16. Awaiting(on, over, left) \subseteq Awaiting(nodes, edges, rest)
  BY <1>9, <1>11, <1>12
<1>17. Beginning(on, over) \subseteq Awaiting(nodes, edges, rest)
  BY <1>1, <1>5, <1>11, <1>14
<1>18. ASSUME NEW path \in Awaiting(on, over, left), path \in Beginning(on, over) PROVE FALSE
  <2>1. PICK i \in 1..k : /\ Agrees(path, nodes, edges, i) /\ i < Len(path.nodes)
                          /\ Hop(path, i) \in left[i]
    BY <1>12
  <2>2. Agrees(path, nodes, edges, k) /\ k < Len(path.nodes) /\ Hop(path, k) = n
    BY <1>14, <1>18
  <2>3. i # k
    BY <1>9, <2>1, <2>2
  <2>4. i \in 1..k - 1 /\ i + 1 \in 1..k
    BY <1>1, <2>3
  <2>5. path.nodes[i + 1] = nodes[i + 1] /\ path.edges[i] = edges[i]
    BY <2>2, <2>4 DEF Agrees
  <2>6. Hop(path, i) = [to |-> nodes[i + 1], edge |-> edges[i]]
    BY <2>5 DEF Hop
  <2> QED
    BY <1>5, <1>9, <2>1, <2>4, <2>6
<1>19. ASSUME NEW i \in 1..k PROVE [to |-> on[i + 1], edge |-> over[i]] \notin left[i]
  <2>1. CASE i = k
    BY <1>1, <1>2, <1>3, <1>9, <2>1
  <2>2. CASE i # k
    <3>1. i \in 1..k - 1 /\ i + 1 \in 1..k
      BY <1>1, <2>2
    <3>2. on[i + 1] = nodes[i + 1] /\ over[i] = edges[i]
      BY <1>2, <1>3, <3>1
    <3> QED
      BY <1>5, <1>9, <3>1, <3>2
  <2> QED
    BY <2>1, <2>2
<1>20. Awaiting(on, over, left) = Awaiting(nodes, edges, left)
  BY <1>12, <1>13
<1>21. Awaiting(nodes, edges, rest) = Awaiting(on, over, left) \cup Beginning(on, over)
  BY <1>15, <1>16, <1>17
<1>22. Awaiting(on, over, left) \cap Beginning(on, over) = {}
  BY <1>18
<1> QED
  BY <1>3, <1>19, <1>20, <1>21, <1>22 DEF nodes, edges, rest, on, over, left
-------------------------------------------------------------------------------
\* What is left to visit from a node of a trail are steps to nodes not on the
\* trail before it.
Open(nodes, rest) ==
  \A i \in 1..Len(rest) : \A n \in rest[i] :
    n \in backwardNeighbours(nodes[i]) /\ \A j \in 1..i : nodes[j] # n.to

\* The step the trail has taken from a node is not left there.
Untaken(nodes, edges, rest) ==
  \A i \in 1..Len(edges) : [to |-> nodes[i + 1], edge |-> edges[i]] \notin rest[i]

Shape(nodes, edges, rest) ==
  /\ nodes # <<>> => Path(nodes, edges) \in Simple
  /\ Open(nodes, rest)
  /\ Untaken(nodes, edges, rest)

\* No path is both found and awaited; and a bound has cut the walk exactly when
\* some path is neither.
Accounted(found, awaited, cut) ==
  /\ found \subseteq MaximalPaths
  /\ found \cap awaited = {}
  /\ cut <=> found \cup awaited # MaximalPaths

TraceInv ==
  /\ tracePc = "idle" => traceTruncated = FALSE
  /\ tracePc \in {"walking", "returned"} =>
       /\ hasNode(query.target)
       /\ Shape(trail, edgeTrail, pending)
       /\ Accounted(paths, Awaiting(trail, edgeTrail, pending), traceTruncated)
  /\ tracePc = "returned" => pending = <<>>

\* The paths do not change while a query runs.
LEMMA GraphStands ==
  UNCHANGED <<store, query>> =>
    /\ Simple' = Simple /\ SimplePaths' = SimplePaths /\ MaximalPaths' = MaximalPaths
    /\ Ids' = Ids
    /\ hasNode(query.target)' = hasNode(query.target)
    /\ \A id : backwardNeighbours(id)' = backwardNeighbours(id)
BY DEF Simple, MaximalPaths, SimplePaths, PathsOf, Prolonged, Hop, Mine, Ids, hasNode,
       backwardNeighbours, neighbours, outgoing, incoming, Visiting

\* Nor does what is accounted for.
LEMMA AccountStands ==
  ASSUME UNCHANGED <<store, query>>
  PROVE  /\ Shape(trail, edgeTrail, pending)' <=> Shape(trail', edgeTrail', pending')
         /\ Accounted(paths, Awaiting(trail, edgeTrail, pending), traceTruncated)'
              <=> Accounted(paths', Awaiting(trail', edgeTrail', pending'), traceTruncated')
<1>1. Shape(trail, edgeTrail, pending)' <=> Shape(trail', edgeTrail', pending')
  BY GraphStands DEF Shape, Open, Untaken, Path
<1>2. Awaiting(trail, edgeTrail, pending)' = Awaiting(trail', edgeTrail', pending')
  BY GraphStands DEF Awaiting, Agrees, Hop
<1>3. Accounted(paths, Awaiting(trail, edgeTrail, pending), traceTruncated)'
        <=> Accounted(paths', Awaiting(trail', edgeTrail', pending'), traceTruncated')
  BY <1>2, GraphStands DEF Accounted
<1> QED
  BY <1>1, <1>3

\* Nor does the invariant of a trace that is left alone.
LEMMA TraceInvStands ==
  ASSUME UNCHANGED <<store, query>>, TraceInv, UNCHANGED traceVars PROVE TraceInv'
<1>1. /\ tracePc' = tracePc /\ trail' = trail /\ edgeTrail' = edgeTrail /\ pending' = pending
      /\ paths' = paths /\ traceTruncated' = traceTruncated
  BY DEF traceVars
<1>2. hasNode(query.target)' = hasNode(query.target)
  BY GraphStands
<1>3. Shape(trail, edgeTrail, pending)' <=> Shape(trail, edgeTrail, pending)
  BY <1>1, AccountStands
<1>4. Accounted(paths, Awaiting(trail, edgeTrail, pending), traceTruncated)'
        <=> Accounted(paths, Awaiting(trail, edgeTrail, pending), traceTruncated)
  BY <1>1, AccountStands, Zenon
<1> QED
  BY <1>1, <1>2, <1>3, <1>4 DEF TraceInv

\* A call of walk keeps the account, wherever it is made from.
LEMMA CallAccounts ==
  ASSUME StoreInv, hasNode(query.target), IsFiniteSet(Ids), UNCHANGED <<store, query>>,
         NEW nodes, NEW edges, NEW rest \in Seq(SUBSET Hops),
         Path(nodes, edges) \in Simple, Len(nodes) = Len(rest) + 1,
         Open(nodes, rest), Untaken(nodes, edges, rest),
         Shape(trail, edgeTrail, rest),
         Awaiting(trail, edgeTrail, rest) = Awaiting(nodes, edges, rest),
         Awaiting(nodes, edges, rest) \cap Beginning(nodes, edges) = {},
         Accounted(paths, Awaiting(nodes, edges, rest) \cup Beginning(nodes, edges), traceTruncated),
         walk(nodes, edges, rest), tracePc' = "walking"
  PROVE  TraceInv'
<1> DEFINE next == Unvisited(nodes)
           awaited == Awaiting(nodes, edges, rest)
           begun == Beginning(nodes, edges)
<1>0. MaximalPaths' = MaximalPaths /\ hasNode(query.target)'
  BY GraphStands
<1>1. begun # {} /\ begun \subseteq MaximalPaths /\ awaited \subseteq MaximalPaths
  <2>1. begun # {}
    BY Completed
  <2> QED
    BY <2>1 DEF Beginning, Awaiting
<1>2. /\ paths \subseteq MaximalPaths /\ paths \cap awaited = {} /\ paths \cap begun = {}
      /\ awaited \cap begun = {}
      /\ traceTruncated <=> paths \cup (awaited \cup begun) # MaximalPaths
  BY DEF Accounted
<1>3. SUFFICES /\ Shape(trail', edgeTrail', pending')
               /\ Accounted(paths', Awaiting(trail', edgeTrail', pending'), traceTruncated')
  BY <1>0, AccountStands DEF TraceInv
<1>4. CASE TooFar(nodes, paths)
  <2>1. /\ traceTruncated' = TRUE /\ pending' = rest
        /\ trail' = trail /\ edgeTrail' = edgeTrail /\ paths' = paths
    BY <1>4 DEF walk
  <2>2. Awaiting(trail', edgeTrail', pending') = awaited
    BY <2>1
  <2>3. paths \cup awaited # MaximalPaths
    <3> HIDE DEF awaited, begun
    <3> QED
      BY <1>1, <1>2
  <2>4. Accounted(paths', awaited, traceTruncated')
    <3> HIDE DEF awaited
    <3> QED
      BY <1>2, <2>1, <2>3 DEF Accounted
  <2> QED
    BY <2>1, <2>2, <2>4
<1>5. CASE ~TooFar(nodes, paths) /\ next = {}
  <2>1. /\ paths' = paths \cup {Path(nodes, edges)} /\ pending' = rest
        /\ trail' = trail /\ edgeTrail' = edgeTrail /\ traceTruncated' = traceTruncated
    BY <1>5 DEF walk, Path
  <2>2. begun = {Path(nodes, edges)}
    BY <1>5, BeginningEnds
  <2>3. Awaiting(trail', edgeTrail', pending') = awaited
    BY <2>1
  <2>4. Accounted(paths', awaited, traceTruncated')
    <3> HIDE DEF awaited, begun
    <3>1. paths' = paths \cup begun
      BY <2>1, <2>2
    <3>2. (paths \cup begun) \cup awaited = paths \cup (awaited \cup begun)
      OBVIOUS
    <3>3. paths' \subseteq MaximalPaths /\ paths' \cap awaited = {}
      BY <1>1, <1>2, <3>1
    <3>4. traceTruncated' <=> paths' \cup awaited # MaximalPaths
      BY <1>2, <2>1, <3>1, <3>2, Zenon
    <3> QED
      BY <3>3, <3>4 DEF Accounted
  <2> QED
    BY <2>1, <2>3, <2>4
<1>6. CASE ~TooFar(nodes, paths) /\ next # {}
  <2>1. /\ trail' = nodes /\ edgeTrail' = edges /\ pending' = Append(rest, next)
        /\ paths' = paths /\ traceTruncated' = traceTruncated
    BY <1>6 DEF walk
  <2>2. next \in SUBSET Hops
    BY NeighboursAreMine DEF Unvisited, backwardNeighbours
  <2>3. Awaiting(nodes, edges, Append(rest, next)) = awaited \cup begun
    BY <1>6, <2>2, EnterAwaits
  <2>4. Shape(nodes, edges, Append(rest, next))
    <3> DEFINE more == Append(rest, next)
               k == Len(rest)
    <3>1. /\ k \in Nat /\ Len(more) = k + 1 /\ (\A i \in 1..k : more[i] = rest[i]) /\ more[k + 1] = next
      BY <2>2, AppendProperties
    <3>2. /\ nodes \in Seq(Mine) /\ Len(nodes) = k + 1 /\ Len(edges) = k
      BY <3>1, SimpleMeans
    <3>3. \A n \in next : n \in backwardNeighbours(nodes[k + 1]) /\ \A j \in 1..k + 1 : nodes[j] # n.to
      BY <3>2 DEF Unvisited, Visiting
    <3>4. \A i \in 1..k + 1 : i \in 1..k \/ i = k + 1
      BY <3>1
    <3> HIDE DEF more, next
    <3>5. Open(nodes, more)
      BY <3>1, <3>3, <3>4 DEF Open
    <3>6. Untaken(nodes, edges, more)
      BY <3>1, <3>2 DEF Untaken
    <3>7. Shape(nodes, edges, more)
      BY <3>5, <3>6 DEF Shape
    <3> QED
      BY <3>7 DEF more
  <2>5. Accounted(paths, awaited \cup begun, traceTruncated)
    OBVIOUS
  <2> HIDE DEF next, awaited, begun
  <2> QED
    BY <2>1, <2>3, <2>4, <2>5
<1> QED
  BY <1>4, <1>5, <1>6

\* At the target everything is still to be found.
LEMMA StartAccounts ==
  ASSUME StoreInv, WalkInv, TraceInv, IsFiniteSet(Ids), TraceStart, UNCHANGED <<store, query>>
  PROVE  TraceInv'
<1>1. CASE ~hasNode(query.target)
  BY <1>1 DEF TraceStart, TraceInv
<1>2. CASE hasNode(query.target)
  <2> DEFINE first == <<query.target>>
             none == <<>>
  <2>1. /\ trail = none /\ edgeTrail = none /\ pending = none /\ paths = {}
        /\ traceTruncated = FALSE /\ tracePc' = "walking" /\ walk(first, none, none)
    BY <1>2 DEF TraceStart, WalkInv, TraceInv
  <2>2. Path(first, none) \in Simple
    BY <1>2, PathsAreSimple, PathsStepwise
  <2>3. Len(first) = 1 /\ Len(none) = 0 /\ none \in Seq(SUBSET Hops) /\ first[1] = query.target
    OBVIOUS
  <2> HIDE DEF first, none
  <2>4. \A i \in 1..Len(none) : FALSE
    BY <2>3
  <2>5. \A nodes, edges : Awaiting(nodes, edges, none) = {}
    BY <2>4 DEF Awaiting
  <2>6. Beginning(first, none) = MaximalPaths
    <3>1. ASSUME NEW path \in MaximalPaths PROVE Agrees(path, first, none, 1)
      <4>1. path \in Simple
        BY <1>2, <3>1, MaximalMeans
      <4>2. path.nodes[1] = query.target /\ 1 <= Len(path.nodes)
        BY <4>1, SimpleParts
      <4> QED
        BY <2>3, <4>2 DEF Agrees
    <3> QED
      BY <2>3, <3>1 DEF Beginning
  <2>7. Open(first, none) /\ Untaken(first, none, none) /\ Shape(trail, edgeTrail, none)
    BY <2>1, <2>4 DEF Open, Untaken, Shape, none
  <2>8. Accounted(paths, Awaiting(first, none, none) \cup Beginning(first, none), traceTruncated)
    <3>1. Awaiting(first, none, none) \cup Beginning(first, none) = MaximalPaths
      BY <2>5, <2>6
    <3>2. paths \cup MaximalPaths = MaximalPaths
      BY <2>1
    <3>3. traceTruncated <=> paths \cup MaximalPaths # MaximalPaths
      BY <2>1, <3>2, Zenon
    <3>4. Accounted(paths, MaximalPaths, traceTruncated)
      BY <2>1, <3>3, Zenon DEF Accounted
    <3> QED
      BY <3>1, <3>4, Zenon
  <2>9. /\ Awaiting(trail, edgeTrail, none) = Awaiting(first, none, none)
        /\ Awaiting(first, none, none) \cap Beginning(first, none) = {}
    BY <2>5
  <2>10. Len(first) = Len(none) + 1
    BY <2>3
  <2> QED
    BY <1>2, <2>1, <2>2, <2>3, <2>7, <2>8, <2>9, <2>10, CallAccounts
<1> QED
  BY <1>1, <1>2

\* Going on by a step left there: what begins with it is visited now.
LEMMA DescendAccounts ==
  ASSUME StoreInv, WalkInv, TraceInv, IsFiniteSet(Ids), TraceDescend, UNCHANGED <<store, query>>
  PROVE  TraceInv'
<1> PICK n \in Top :
      walk(Append(trail, n.to), Append(edgeTrail, n.edge),
           [pending EXCEPT ![Len(pending)] = @ \ {n}])
  BY DEF TraceDescend
<1> DEFINE k == Len(pending)
           on == On(n)
           over == Over(n)
           left == Left(n)
<1>1. tracePc = "walking" /\ tracePc' = "walking" /\ pending # <<>>
  BY DEF TraceDescend
<1>2. /\ hasNode(query.target) /\ Shape(trail, edgeTrail, pending)
      /\ Accounted(paths, Awaiting(trail, edgeTrail, pending), traceTruncated)
  BY <1>1 DEF TraceInv
<1>3. /\ trail \in Seq(Mine) /\ edgeTrail \in Seq(store.edges) /\ pending \in Seq(SUBSET Hops)
      /\ Len(trail) = Len(pending) /\ Len(pending) # 0 /\ Len(edgeTrail) = Len(pending) - 1
  BY <1>1 DEF WalkInv
<1>4. k \in Nat /\ k \in 1..k /\ trail # <<>>
  BY <1>3
<1>5. /\ Path(trail, edgeTrail) \in Simple /\ Open(trail, pending)
      /\ Untaken(trail, edgeTrail, pending)
  BY <1>2, <1>4 DEF Shape
<1>6. n \in pending[Len(pending)]
  BY DEF Top
<1>7. n \in Unvisited(trail)
  <2>1. n \in backwardNeighbours(trail[k]) /\ \A j \in 1..k : trail[j] # n.to
    BY <1>4, <1>5, <1>6 DEF Open
  <2> QED
    BY <1>3, <2>1 DEF Unvisited, Visiting
<1>8. n.to \in Mine /\ n.edge \in store.edges /\ n = [to |-> n.to, edge |-> n.edge]
  BY <1>7, NeighboursAreMine DEF Unvisited, backwardNeighbours, Hops
<1>9. Path(on, over) \in Simple
  BY <1>5, <1>7, Lengthened DEF On, Over
<1>10. /\ left \in Seq(SUBSET Hops) /\ Len(left) = k /\ \A i \in 1..k : left[i] \subseteq pending[i]
  BY <1>3, <1>4, <1>6 DEF Left
<1>11. Len(on) = k + 1 /\ \A i \in 1..k : on[i] = trail[i]
  BY <1>3, <1>8, AppendProperties DEF On
<1>12. MaximalPaths \subseteq Simple
  BY <1>2, MaximalMeans
<1>13. \A i \in 1..Len(edgeTrail) : [to |-> trail[i + 1], edge |-> edgeTrail[i]] \notin pending[i]
  BY <1>5 DEF Untaken
<1>14. walk(on, over, left)
  BY DEF On, Over, Left
<1>15. /\ Awaiting(trail, edgeTrail, pending) = Awaiting(on, over, left) \cup Beginning(on, over)
       /\ Awaiting(on, over, left) \cap Beginning(on, over) = {}
       /\ Awaiting(on, over, left) = Awaiting(trail, edgeTrail, left)
       /\ \A i \in 1..Len(over) : [to |-> on[i + 1], edge |-> over[i]] \notin left[i]
  BY <1>1, <1>6, <1>8, <1>12, <1>13, StepSplits
<1> HIDE DEF on, over, left
<1>16. Open(on, left) /\ Untaken(on, over, left)
  <2>1. ASSUME NEW i \in 1..Len(left), NEW m \in left[i]
        PROVE  m \in backwardNeighbours(on[i]) /\ \A j \in 1..i : on[j] # m.to
    <3>1. i \in 1..k /\ m \in pending[i] /\ \A j \in 1..i : j \in 1..k
      BY <1>4, <1>10
    <3> QED
      BY <1>5, <1>11, <3>1 DEF Open
  <2> QED
    BY <1>15, <2>1 DEF Open, Untaken
<1>17. Shape(trail, edgeTrail, left)
  <2>1. Open(trail, left)
    BY <1>5, <1>10 DEF Open
  <2>2. \A i \in 1..Len(edgeTrail) : i \in 1..k
    BY <1>3, <1>4
  <2>3. Untaken(trail, edgeTrail, left)
    BY <1>5, <1>10, <2>2 DEF Untaken
  <2> QED
    BY <1>5, <2>1, <2>3 DEF Shape
<1>18. Accounted(paths, Awaiting(on, over, left) \cup Beginning(on, over), traceTruncated)
  BY <1>2, <1>15
<1>19. Len(on) = Len(left) + 1
  BY <1>10, <1>11
<1> QED
  BY <1>1, <1>2, <1>9, <1>10, <1>14, <1>15, <1>16, <1>17, <1>18, <1>19, CallAccounts

\* Nothing is awaited at a node that has no step left.
LEMMA ReturnAccounts ==
  ASSUME StoreInv, WalkInv, TraceInv, TraceReturn, UNCHANGED <<store, query>>
  PROVE  TraceInv'
<1> DEFINE k == Len(pending) - 1
           m == IF k = 0 THEN 0 ELSE k - 1
<1>1. /\ tracePc = "walking" /\ tracePc' = tracePc /\ pending # <<>> /\ pending[Len(pending)] = {}
      /\ pending' = SubSeq(pending, 1, k) /\ trail' = SubSeq(trail, 1, k)
      /\ edgeTrail' = SubSeq(edgeTrail, 1, m)
      /\ paths' = paths /\ traceTruncated' = traceTruncated
  BY DEF TraceReturn, Top
<1>2. /\ hasNode(query.target) /\ Shape(trail, edgeTrail, pending)
      /\ Accounted(paths, Awaiting(trail, edgeTrail, pending), traceTruncated)
  BY <1>1 DEF TraceInv
<1>3. /\ trail \in Seq(Mine) /\ edgeTrail \in Seq(store.edges) /\ pending \in Seq(SUBSET Hops)
      /\ Len(pending) = k + 1 /\ k \in Nat /\ Len(trail) = k + 1 /\ Len(edgeTrail) = k
      /\ trail # <<>>
  BY <1>1 DEF WalkInv
<1>4. pending[k + 1] = {}
  BY <1>1, <1>3
<1>5. m \in Nat /\ m \in 0..k /\ k \in 0..k + 1 /\ \A i \in 1..k : i \in 1..k + 1
  BY <1>3
<1> HIDE DEF k, m
<1>6. Len(trail') = k /\ \A i \in 1..k : trail'[i] = trail[i]
  BY <1>1, <1>3, <1>5, Shortened
<1>7. Len(pending') = k /\ \A i \in 1..k : pending'[i] = pending[i]
  BY <1>1, <1>3, <1>5, Shortened
<1>8. Len(edgeTrail') = m /\ \A i \in 1..m : edgeTrail'[i] = edgeTrail[i]
  BY <1>1, <1>3, <1>5, Shortened
<1>9. \A i \in 1..k : \A j \in 1..i - 1 : j \in 1..m
  BY <1>3 DEF m
<1>10. \A i \in 1..k : \A j \in 1..i : j \in 1..k
  BY <1>3
<1>11. \A path : \A i \in 1..k :
         Agrees(path, trail', edgeTrail', i) <=> Agrees(path, trail, edgeTrail, i)
  BY <1>6, <1>8, <1>9, <1>10 DEF Agrees
<1>12. Awaiting(trail', edgeTrail', pending') = Awaiting(trail, edgeTrail, pending)
  <2>1. Awaiting(trail', edgeTrail', pending')
          = {path \in MaximalPaths :
               \E i \in 1..k : /\ Agrees(path, trail, edgeTrail, i) /\ i < Len(path.nodes)
                               /\ Hop(path, i) \in pending[i]}
    BY <1>7, <1>11 DEF Awaiting
  <2>2. Awaiting(trail, edgeTrail, pending)
          = {path \in MaximalPaths :
               \E i \in 1..k + 1 : /\ Agrees(path, trail, edgeTrail, i) /\ i < Len(path.nodes)
                                   /\ Hop(path, i) \in pending[i]}
    BY <1>3 DEF Awaiting
  <2>3. \A i \in 1..k + 1 : i \in 1..k \/ i = k + 1
    BY <1>3
  <2> QED
    BY <1>4, <1>5, <2>1, <2>2, <2>3
<1>13. Shape(trail', edgeTrail', pending')
  <2>1. Path(trail, edgeTrail) \in Simple /\ Open(trail, pending) /\ Untaken(trail, edgeTrail, pending)
    BY <1>2, <1>3 DEF Shape
  <2>2. ASSUME trail' # <<>> PROVE Path(trail', edgeTrail') \in Simple
    <3>1. k # 0
      <4>1. k = 0 => SubSeq(trail, 1, k) = <<>>
        BY <1>3
      <4> QED
        BY <1>1, <2>2, <4>1
    <3>2. k \in 1..Len(trail) /\ m = k - 1
      BY <1>3, <3>1 DEF m
    <3>3. Path(SubSeq(trail, 1, k), SubSeq(edgeTrail, 1, k - 1)) \in Simple
      BY <2>1, <3>2, CutShort
    <3> QED
      BY <1>1, <3>2, <3>3
  <2>3. Open(trail', pending')
    BY <1>3, <1>5, <1>6, <1>7, <1>10, <2>1 DEF Open
  <2>4. Untaken(trail', edgeTrail', pending')
    <3>1. \A i \in 1..m : i \in 1..k /\ i + 1 \in 1..k
      BY <1>3 DEF m
    <3> QED
      BY <1>3, <1>6, <1>7, <1>8, <2>1, <3>1 DEF Untaken
  <2> QED
    BY <2>2, <2>3, <2>4 DEF Shape
<1>14. hasNode(query.target)'
  BY <1>2, GraphStands
<1>15. Accounted(paths', Awaiting(trail', edgeTrail', pending'), traceTruncated')
  BY <1>1, <1>2, <1>12, Zenon
<1> QED
  BY <1>1, <1>13, <1>14, <1>15, AccountStands DEF TraceInv
StoreFinite == IsFiniteSet(DOMAIN store.nodes)

\* The store is finite at first.
LEMMA FiniteInit == Init => StoreFinite
<1> SUFFICES ASSUME Init PROVE StoreFinite
  OBVIOUS
<1>1. DOMAIN store.nodes = {}
  BY DEF Init, EmptyStore
<1> QED
  BY <1>1, FS_EmptySet DEF StoreFinite

\* Every load keeps it so.
LEMMA FiniteStep == ASSUME FiniteDocuments PROVE StoreFinite /\ [Next]_vars => StoreFinite'
<1> SUFFICES ASSUME StoreFinite, [Next]_vars PROVE StoreFinite'
  OBVIOUS
<1>1. ASSUME NEW document \in Documents, LoadDocument(document) PROVE StoreFinite'
  <2>1. store' = load(store, document)
    BY <1>1 DEF LoadDocument
  <2>2. CASE loadable(document)
    <3>1. DOMAIN store'.nodes = DOMAIN document.nodes \cup DOMAIN store.nodes
      BY <2>1, <2>2 DEF load, recordOver
    <3>2. IsFiniteSet(DOMAIN document.nodes \cup DOMAIN store.nodes)
      BY FS_Union DEF FiniteDocuments, StoreFinite
    <3> QED
      BY <3>1, <3>2 DEF StoreFinite
  <2>3. CASE ~loadable(document)
    BY <2>1, <2>3 DEF load, StoreFinite
  <2> QED
    BY <2>2, <2>3
<1>2. CASE UNCHANGED store
  BY <1>2 DEF StoreFinite
<1> QED
  BY <1>1, <1>2 DEF Next, Ask, Trace, Impact, vars

\* A closed store names no node that it does not hold.
LEMMA IdsAreHeld == StoreInv => Ids = DOMAIN store.nodes
BY DEF StoreInv, Dangling, Ids

\* The invariant of the trace holds before it.
LEMMA TraceInvInit == Init => TraceInv
BY DEF Init, TraceInit, TraceInv

\* Every step keeps it.
LEMMA TraceInvStep ==
  QueryInv /\ StoreFinite /\ TraceInv /\ [Next]_vars => TraceInv'
<1> SUFFICES ASSUME QueryInv, StoreFinite, TraceInv, [Next]_vars PROVE TraceInv'
  OBVIOUS
<1>1. StoreInv /\ WalkInv /\ Asked
  BY DEF QueryInv, SearchInv
<1>2. IsFiniteSet(Ids)
  BY <1>1, IdsAreHeld DEF StoreFinite
<1>3. CASE Trace
  <2>1. TraceNext /\ UNCHANGED <<store, query>>
    BY <1>3 DEF Trace
  <2>2. CASE TraceStart
    BY <1>1, <1>2, <2>1, <2>2, StartAccounts
  <2>3. CASE TraceDescend
    BY <1>1, <1>2, <2>1, <2>3, DescendAccounts
  <2>4. CASE TraceReturn
    BY <1>1, <2>1, <2>4, ReturnAccounts
  <2>5. CASE TraceEnd
    <3>1. /\ tracePc = "walking" /\ tracePc' = "returned" /\ pending = <<>>
          /\ UNCHANGED <<trail, edgeTrail, pending, paths, traceTruncated>>
      BY <2>5 DEF TraceEnd
    <3>2. /\ hasNode(query.target)' /\ Shape(trail, edgeTrail, pending)'
          /\ Accounted(paths, Awaiting(trail, edgeTrail, pending), traceTruncated)'
      <4>1. /\ hasNode(query.target) /\ Shape(trail, edgeTrail, pending)
            /\ Accounted(paths, Awaiting(trail, edgeTrail, pending), traceTruncated)
        BY <3>1 DEF TraceInv
      <4>2. Shape(trail, edgeTrail, pending)' <=> Shape(trail, edgeTrail, pending)
        BY <2>1, <3>1, AccountStands
      <4>3. Accounted(paths, Awaiting(trail, edgeTrail, pending), traceTruncated)'
              <=> Accounted(paths, Awaiting(trail, edgeTrail, pending), traceTruncated)
        BY <2>1, <3>1, AccountStands, Zenon
      <4> QED
        BY <2>1, <4>1, <4>2, <4>3, GraphStands
    <3>3. tracePc' # "idle" /\ pending' = <<>>
      BY <3>1
    <3> QED
      BY <3>2, <3>3 DEF TraceInv
  <2> QED
    BY <2>1, <2>2, <2>3, <2>4, <2>5 DEF TraceNext
<1>4. CASE UNCHANGED traceVars
  <2>1. CASE UNCHANGED <<store, query>>
    BY <1>4, <2>1, TraceInvStands
  <2>2. CASE query = NoQuery
    <3>1. tracePc = "idle"
      BY <1>1, <2>2 DEF Asked
    <3> QED
      BY <1>4, <3>1 DEF TraceInv, traceVars
  <2> QED
    BY <1>4, <2>1, <2>2 DEF Next, LoadDocument, Ask, Trace, Impact, vars
<1> QED
  BY <1>3, <1>4 DEF Next, LoadDocument, Ask, Impact, vars

\* When the walk is over nothing is awaited.
LEMMA TraceIsOver ==
  ASSUME TraceInv, tracePc = "returned"
  PROVE  paths \subseteq MaximalPaths /\ (traceTruncated <=> paths # MaximalPaths)
<1>1. Accounted(paths, Awaiting(trail, edgeTrail, pending), traceTruncated) /\ pending = <<>>
  BY DEF TraceInv
<1>2. Awaiting(trail, edgeTrail, pending) = {}
  <2>1. \A i \in 1..Len(<<>>) : FALSE
    <3>1. Len(<<>>) = 0
      OBVIOUS
    <3> QED
      BY <3>1
  <2> QED
    BY <1>1, <2>1 DEF Awaiting
<1>3. paths \cup Awaiting(trail, edgeTrail, pending) = paths
  BY <1>2
<1> QED
  BY <1>1, <1>3, Zenon DEF Accounted

\* Trace returns each maximal simple path back from its target, and no other
\* path, or says that it was cut; it never says so of an exhaustive answer; and
\* explain then picks the shortest there are (trace, packages/graph/src/trace.ts:
\* "True when a bound stopped the walk, so the paths are not exhaustive").
THEOREM TraceIsExhaustive ==
  ASSUME ClosedDocuments, FiniteDocuments PROVE Spec => []TraceExhaustive
<1>1. TraceInv => TraceExhaustive
  <2> SUFFICES ASSUME TraceInv, tracePc = "returned"
               PROVE  /\ paths \subseteq MaximalPaths /\ (traceTruncated <=> paths # MaximalPaths)
                      /\ ~traceTruncated =>
                           explain.decisionPaths =
                             {p \in MaximalPaths :
                                \A q \in MaximalPaths : Len(p.nodes) <= Len(q.nodes)}
    BY DEF TraceExhaustive
  <2>1. paths \subseteq MaximalPaths /\ (traceTruncated <=> paths # MaximalPaths)
    BY TraceIsOver
  <2>2. explain.decisionPaths
          = {p \in paths : \A q \in paths : Len(p.nodes) <= Len(q.nodes)}
    BY DEF explain, shortestPaths
  <2> QED
    BY <2>1, <2>2
<1> QED
  BY <1>1, QueryInit, QueryStep, FiniteInit, FiniteStep, TraceInvInit, TraceInvStep, PTL DEF Spec

-------------------------------------------------------------------------------
\* An edge by which one node rests on the other.
RestsOn(id, m, e) ==
  /\ e \in store.edges /\ e.tenant = query.tenant
  /\ \/ e.type \in {"PRODUCED", "SPLIT_INTO", "EXTRACTED_FROM"} /\ e.from = m /\ e.to = id
     \/ e.type \in {"DERIVED_FROM", "SUPPORTED_BY"} /\ e.from = id /\ e.to = m

\* A step of a table that leads from one node to another by an edge.
Leads(step, id, m, e) ==
  /\ e \in store.edges /\ e.tenant = query.tenant /\ e.type = step.type
  /\ IF step.direction = "outgoing" THEN e.from = id /\ e.to = m ELSE e.to = id /\ e.from = m

\* A neighbour is what a step leads to.
LEMMA NeighbourMeans ==
  ASSUME NEW id, NEW m, NEW steps
  PROVE  (\E n \in neighbours(id, steps) : n.to = m)
           <=> \E step \in steps : \E e : Leads(step, id, m, e)
<1> DEFINE found(step) == IF step.direction = "outgoing"
                          THEN {[to |-> e.to, edge |-> e] : e \in outgoing(id, step.type)}
                          ELSE {[to |-> e.from, edge |-> e] : e \in incoming(id, step.type)}
<1>1. neighbours(id, steps) = UNION {found(step) : step \in steps}
  BY DEF neighbours
<1>2. ASSUME NEW step \in steps
      PROVE  (\E n \in found(step) : n.to = m) <=> \E e : Leads(step, id, m, e)
  <2>1. CASE step.direction = "outgoing"
    <3>1. found(step) = {[to |-> e.to, edge |-> e] : e \in outgoing(id, step.type)}
      BY <2>1
    <3> HIDE DEF found
    <3>2. ASSUME NEW n \in found(step), n.to = m PROVE \E e : Leads(step, id, m, e)
      <4>1. PICK e \in outgoing(id, step.type) : n = [to |-> e.to, edge |-> e]
        BY <3>1
      <4> QED
        BY <2>1, <3>2, <4>1 DEF outgoing, Leads
    <3>3. ASSUME NEW e, Leads(step, id, m, e) PROVE \E n \in found(step) : n.to = m
      <4>1. e \in outgoing(id, step.type) /\ e.to = m
        BY <2>1, <3>3 DEF outgoing, Leads
      <4>2. [to |-> e.to, edge |-> e] \in found(step)
        BY <3>1, <4>1
      <4> QED
        BY <4>1, <4>2
    <3> QED
      BY <3>2, <3>3
  <2>2. CASE step.direction # "outgoing"
    <3>1. found(step) = {[to |-> e.from, edge |-> e] : e \in incoming(id, step.type)}
      BY <2>2
    <3> HIDE DEF found
    <3>2. ASSUME NEW n \in found(step), n.to = m PROVE \E e : Leads(step, id, m, e)
      <4>1. PICK e \in incoming(id, step.type) : n = [to |-> e.from, edge |-> e]
        BY <3>1
      <4> QED
        BY <2>2, <3>2, <4>1 DEF incoming, Leads
    <3>3. ASSUME NEW e, Leads(step, id, m, e) PROVE \E n \in found(step) : n.to = m
      <4>1. e \in incoming(id, step.type) /\ e.from = m
        BY <2>2, <3>3 DEF incoming, Leads
      <4>2. [to |-> e.from, edge |-> e] \in found(step)
        BY <3>1, <4>1
      <4> QED
        BY <4>1, <4>2
    <3> QED
      BY <3>2, <3>3
  <2> QED
    BY <2>1, <2>2
<1> HIDE DEF found
<1>3. (\E n \in neighbours(id, steps) : n.to = m) <=> \E step \in steps : \E n \in found(step) : n.to = m
  BY <1>1
<1> QED
  BY <1>2, <1>3

\* The two tables of steps invert each other.
LEMMA StepsMirror ==
  ASSUME NEW id, NEW m
  PROVE  id \in forwardNeighbours(m) <=> \E n \in backwardNeighbours(id) : n.to = m
<1>1. id \in forwardNeighbours(m) <=> \E e : RestsOn(id, m, e)
  <2>1. id \in forwardNeighbours(m) <=> \E step \in FORWARD_STEPS : \E e : Leads(step, m, id, e)
    BY NeighbourMeans DEF forwardNeighbours
  <2>2. \A e : RestsOn(id, m, e) <=> \E step \in FORWARD_STEPS : Leads(step, m, id, e)
    BY DEF FORWARD_STEPS, Along, RestsOn, Leads
  <2> QED
    BY <2>1, <2>2
<1>2. (\E n \in backwardNeighbours(id) : n.to = m) <=> \E e : RestsOn(id, m, e)
  <2>1. (\E n \in backwardNeighbours(id) : n.to = m)
          <=> \E step \in BACKWARD_STEPS : \E e : Leads(step, id, m, e)
    BY NeighbourMeans DEF backwardNeighbours
  <2>2. \A e : RestsOn(id, m, e) <=> \E step \in BACKWARD_STEPS : Leads(step, id, m, e)
    BY DEF BACKWARD_STEPS, Along, RestsOn, Leads
  <2> QED
    BY <2>1, <2>2
<1> QED
  BY <1>1, <1>2

\* The nodes on the way back from the target.
OnTheWay(id) == \E path \in Simple : \E i \in 1..Len(path.nodes) : path.nodes[i] = id

\* What a node on the way rests on is on the way: the path to it is cut where
\* the node is, and goes on by that step or has been there before.
LEMMA WayGoesOn ==
  ASSUME StoreInv, NEW id, OnTheWay(id), NEW n \in backwardNeighbours(id)
  PROVE  OnTheWay(n.to)
<1> PICK path \in Simple : \E i \in 1..Len(path.nodes) : path.nodes[i] = id
  BY DEF OnTheWay
<1> PICK i \in 1..Len(path.nodes) : path.nodes[i] = id
  OBVIOUS
<1> DEFINE nodes == path.nodes
           edges == path.edges
           short == SubSeq(nodes, 1, i)
           few == SubSeq(edges, 1, i - 1)
<1>1. nodes \in Seq(Mine) /\ Path(nodes, edges) \in Simple /\ i \in 0..Len(nodes) /\ nodes[i] = id
  BY SimpleParts, SimpleIsPath
<1>2. i \in 1..Len(nodes) /\ i \in Nat /\ i \in 1..i
  BY <1>1
<1>3. short \in Seq(Mine) /\ Len(short) = i /\ \A j \in 1..i : short[j] = nodes[j]
  <2> HIDE DEF nodes
  <2> QED
    BY <1>1, Shortened
<1>4. Path(short, few) \in Simple
  <2> HIDE DEF nodes, edges
  <2> QED
    BY <1>1, <1>2, CutShort
<1>5. CASE \E j \in 1..i : short[j] = n.to
  <2>1. \A j \in 1..i : j \in 1..Len(nodes)
    BY <1>1
  <2> QED
    BY <1>3, <1>5, <2>1 DEF OnTheWay
<1>6. CASE ~\E j \in 1..i : short[j] = n.to
  <2> HIDE DEF short, few, nodes
  <2>1. n \in Unvisited(short)
    BY <1>1, <1>2, <1>3, <1>6 DEF Unvisited, Visiting
  <2>2. Path(Append(short, n.to), Append(few, n.edge)) \in Simple
    BY <1>4, <2>1, Lengthened
  <2>3. n.to \in Mine
    BY NeighboursAreMine DEF backwardNeighbours, Hops
  <2>4. Len(Append(short, n.to)) = i + 1 /\ Append(short, n.to)[i + 1] = n.to
    BY <1>3, <2>3, AppendProperties
  <2>5. i + 1 \in 1..i + 1
    BY <1>2
  <2> DEFINE longer == Path(Append(short, n.to), Append(few, n.edge))
  <2>6. longer.nodes = Append(short, n.to)
    BY DEF Path
  <2> HIDE DEF longer
  <2>7. longer \in Simple
    BY <2>2 DEF longer
  <2> QED
    BY <2>4, <2>5, <2>6, <2>7 DEF OnTheWay
<1> QED
  BY <1>5, <1>6

\* When something within some steps of the origin is on the way, so is the
\* origin.
LEMMA WayReachesOrigin ==
  ASSUME StoreInv
  PROVE  \A k \in Nat : (\E id \in Within[k] : OnTheWay(id)) => OnTheWay(query.origin)
<1> DEFINE Good == {k \in Nat : (\E id \in Within[k] : OnTheWay(id)) => OnTheWay(query.origin)}
<1>1. 0 \in Good
  BY WithinStepwise
<1>2. ASSUME NEW k \in Good PROVE k + 1 \in Good
  <2>1. k + 1 \in Nat /\ k + 1 # 0 /\ (k + 1) - 1 = k
    OBVIOUS
  <2> SUFFICES ASSUME NEW id \in Within[k + 1], OnTheWay(id) PROVE OnTheWay(query.origin)
    BY <2>1
  <2>2. id \in Within[k] \/ \E m \in Within[k] : id \in forwardNeighbours(m)
    BY <2>1, WithinSpreads
  <2>3. \E m \in Within[k] : OnTheWay(m)
    BY <2>2, StepsMirror, WayGoesOn
  <2> QED
    BY <2>3
<1>3. Good = Nat
  <2> HIDE DEF Good
  <2>1. Good \in SUBSET Nat
    BY DEF Good
  <2> QED
    BY <1>1, <1>2, <2>1, Upward
<1> QED
  BY <1>3

\* What comes after the origin on the way back to it depends on it.
LEMMA WayIsReached ==
  ASSUME Expanded(Reached), query.origin \in Reached,
         NEW path \in Simple, NEW i \in 1..Len(path.nodes), path.nodes[i] = query.origin
  PROVE  query.target \in Reached
<1> DEFINE nodes == path.nodes
           Up == {k \in Nat : k < i => nodes[i - k] \in Reached}
<1>1. Len(nodes) \in Nat /\ i \in Nat /\ i # 0 /\ i <= Len(nodes) /\ nodes[1] = query.target
  BY SimpleParts
<1>2. 0 \in Up
  BY <1>1
<1>3. ASSUME NEW k \in Up PROVE k + 1 \in Up
  <2> SUFFICES ASSUME k + 1 < i PROVE nodes[i - (k + 1)] \in Reached
    OBVIOUS
  <2>1. PICK j \in Nat : j = i - (k + 1)
    BY <1>1
  <2>2. i - k = j + 1 /\ j # 0 /\ j < Len(nodes) /\ k < i
    BY <1>1, <2>1
  <2>3. nodes[j + 1] \in Reached
    BY <2>2
  <2>4. \E n \in backwardNeighbours(nodes[j]) : n.to = nodes[j + 1]
    <3>1. j \in 1..Len(path.edges)
      BY <2>2, SimpleParts
    <3>2. Hop(path, j) \in backwardNeighbours(path.nodes[j])
      BY <3>1 DEF Simple
    <3> QED
      BY <3>2 DEF Hop
  <2>5. nodes[j] \in forwardNeighbours(nodes[j + 1])
    BY <2>4, StepsMirror
  <2> QED
    BY <2>1, <2>3, <2>5 DEF Expanded
<1>4. Up = Nat
  <2> HIDE DEF Up
  <2>1. Up \in SUBSET Nat
    BY DEF Up
  <2> QED
    BY <1>2, <1>3, <2>1, Upward
<1>5. i - 1 \in Nat /\ i - 1 < i /\ i - (i - 1) = 1
  BY <1>1
<1> QED
  BY <1>1, <1>4, <1>5

\* An uncut trace and an uncut impact agree on what rests on what: a node is on
\* some path back from the target exactly when the target is among what is
\* recorded as depending on the node (trace and impact of packages/graph, whose
\* tables of steps are written apart from each other).
THEOREM TheTraversalsAgree ==
  ASSUME ClosedDocuments, FiniteDocuments PROVE Spec => []TraceMirrorsImpact
<1>1. QueryInv /\ StoreFinite /\ TraceInv /\ LevelInv => TraceMirrorsImpact
  <2> SUFFICES ASSUME QueryInv, StoreFinite, TraceInv, LevelInv,
                      tracePc = "returned", ~traceTruncated,
                      impactPc = "returned", ~impactTruncated
               PROVE  (\E path \in paths : query.origin \in Visiting(path.nodes))
                        <=> query.target \in Reached
    BY DEF TraceMirrorsImpact
  <2>1. StoreInv /\ Expanded(Reached) /\ query.origin \in Reached /\ hasNode(query.target)
    BY DEF QueryInv, SearchInv, LevelInv, TraceInv
  <2>2. IsFiniteSet(Ids)
    BY <2>1, IdsAreHeld DEF StoreFinite
  <2>3. paths = MaximalPaths
    BY TraceIsOver
  <2>4. ASSUME NEW path \in paths, query.origin \in Visiting(path.nodes)
        PROVE  query.target \in Reached
    <3>1. path \in Simple
      BY <2>1, <2>2, <2>3, MaximalMeans
    <3>2. path.nodes \in Seq(Mine)
      BY <3>1, SimpleParts
    <3>3. PICK i \in 1..Len(path.nodes) : path.nodes[i] = query.origin
      BY <2>4, <3>2 DEF Visiting
    <3> QED
      BY <2>1, <3>1, <3>3, WayIsReached
  <2>5. ASSUME query.target \in Reached
        PROVE  \E path \in paths : query.origin \in Visiting(path.nodes)
    <3>1. query.target \in Within[distances[query.target]] /\ distances[query.target] \in Nat
      BY <2>5 DEF LevelInv, DistancesAreShortest
    <3>2. OnTheWay(query.target)
      <4>1. Path(<<query.target>>, <<>>) \in Simple
        BY <2>1, PathsAreSimple, PathsStepwise
      <4>2. PICK path \in Simple : path = Path(<<query.target>>, <<>>)
        BY <4>1
      <4>3. path.nodes = <<query.target>>
        BY <4>2 DEF Path
      <4>4. Len(path.nodes) = 1 /\ path.nodes[1] = query.target /\ 1 \in 1..1
        BY <4>3
      <4> QED
        BY <4>4 DEF OnTheWay
    <3>3. OnTheWay(query.origin)
      BY <2>1, <3>1, <3>2, WayReachesOrigin
    <3>4. PICK path \in Simple : \E i \in 1..Len(path.nodes) : path.nodes[i] = query.origin
      BY <3>3 DEF OnTheWay
    <3> DEFINE nodes == path.nodes
               edges == path.edges
    <3>5. PICK i \in 1..Len(nodes) : nodes[i] = query.origin
      BY <3>4
    <3>6. Path(nodes, edges) \in Simple /\ Len(nodes) \in Nat
      BY SimpleIsPath, SimpleParts
    <3> HIDE DEF nodes, edges
    <3>7. PICK whole \in Beginning(nodes, edges) : TRUE
      BY <2>1, <2>2, <3>6, Completed
    <3>8. whole \in paths /\ whole \in Simple /\ Len(nodes) <= Len(whole.nodes) /\ whole.nodes[i] = nodes[i]
      BY <2>1, <2>2, <2>3, <3>5, MaximalMeans DEF Beginning, Agrees
    <3>9. whole.nodes \in Seq(Mine)
      BY <3>8, SimpleParts
    <3>10. i \in DOMAIN whole.nodes
      BY <3>5, <3>6, <3>8, <3>9
    <3> QED
      BY <3>5, <3>8, <3>10 DEF Visiting
  <2> QED
    BY <2>4, <2>5
<1> QED
  BY <1>1, QueryInit, QueryStep, SearchInit, SearchStep, FiniteInit, FiniteStep, TraceInvInit,
     TraceInvStep, LevelInit, LevelStep, PTL DEF Spec
-------------------------------------------------------------------------------
\* The trace is over before the impact begins, no level lies deeper than asked,
\* and what is found is of the next level, never of this one.
SweepInv ==
  /\ impactPc # "idle" => TraceOver
  /\ impactPc = "idle" => depth = 0
  /\ impactPc = "levelling" \/ impactPc = "expanding" => depth <= query.maxDepth
  /\ impactPc = "expanding" => queue \cap nextLevel = {}

\* It holds before the search.
LEMMA SweepInit == Init => SweepInv
BY DEF Init, ImpactInit, SweepInv

\* Every step of the search keeps it.
LEMMA SweepStep ==
  ASSUME DepthsAreNumbers, QueryInv, SweepInv, [Next]_vars PROVE SweepInv'
<1>1. CASE Impact
  <2>1. /\ query \in Queries /\ TraceOver /\ TraceOver' /\ ImpactNext
        /\ query' = query /\ query.maxDepth \in Nat
    BY <1>1 DEF Impact, QueryInv, SearchInv, Asked, DepthsAreNumbers, TraceOver, traceVars
  <2>2. depth \in Nat /\ queue \subseteq Reached
    BY DEF QueryInv, ImpactInv, SearchInv
  <2>3. CASE ImpactStart
    BY <2>1, <2>3 DEF ImpactStart, SweepInv
  <2>4. CASE ImpactLevel
    <3>1. CASE queue = {} \/ depth >= query.maxDepth
      BY <2>1, <2>4, <3>1 DEF ImpactLevel, SweepInv
    <3>2. CASE ~(queue = {} \/ depth >= query.maxDepth)
      <4>1. impactPc' = "expanding" /\ depth' = depth + 1 /\ nextLevel' = {} /\ queue' = queue
        BY <2>4, <3>2 DEF ImpactLevel
      <4>2. depth' <= query'.maxDepth
        BY <2>1, <2>2, <3>2, <4>1
      <4> QED
        BY <2>1, <4>1, <4>2 DEF SweepInv
    <3> QED
      BY <3>1, <3>2
  <2>5. CASE ImpactExpand
    <3>1. impactPc = "expanding" /\ depth' = depth
      BY <2>5 DEF ImpactExpand
    <3>2. CASE impactPc' = "returned"
      BY <2>1, <3>2 DEF SweepInv
    <3>3. CASE impactPc' # "returned"
      <4>1. PICK id \in queue : /\ nextLevel' = nextLevel \cup Unreached(id)
                                /\ queue' = queue \ {id} /\ impactPc' = impactPc
        BY <2>5, <3>3 DEF ImpactExpand
      <4>2. Unreached(id) \cap queue = {}
        BY <2>2 DEF Unreached
      <4> QED
        BY <2>1, <3>1, <4>1, <4>2 DEF SweepInv
    <3> QED
      BY <3>2, <3>3
  <2>6. CASE ImpactEndLevel
    BY <2>1, <2>6 DEF ImpactEndLevel, SweepInv
  <2> QED
    BY <2>1, <2>3, <2>4, <2>5, <2>6 DEF ImpactNext
<1>2. CASE UNCHANGED impactVars /\ impactPc = "idle"
  BY <1>2 DEF SweepInv, impactVars
<1>3. CASE Trace /\ impactPc # "idle"
  BY <1>3 DEF Trace, TraceNext, TraceStart, TraceDescend, TraceReturn, TraceEnd, SweepInv, TraceOver
<1>4. CASE UNCHANGED vars
  BY <1>4 DEF SweepInv, TraceOver, vars, traceVars, impactVars
<1> QED
  BY <1>1, <1>2, <1>3, <1>4
     DEF Next, LoadDocument, Ask, Trace, QueryInv, SearchInv, Asked

\* What an impact still has to do is a number, and each step leaves less of it:
\* an expanded node is never queued again, since what is found was not reached.
LEMMA ImpactStepAdvances ==
  ASSUME DepthsAreNumbers, QueryInv, StoreFinite, SweepInv, [Next]_vars, vars' # vars,
         impactPc = "levelling" \/ impactPc = "expanding"
  PROVE  ImpactWork \in Nat /\ (impactPc' # "returned" => ImpactWork' < ImpactWork)
<1> DEFINE left == Ids \ (Reached \ (queue \cup nextLevel))
           levels == query.maxDepth - depth
           late == IF impactPc = "expanding" THEN 1 ELSE 0
<1>1. /\ query \in Queries /\ query.maxDepth \in Nat /\ depth \in Nat /\ depth <= query.maxDepth
      /\ queue \subseteq Reached /\ nextLevel \subseteq Reached /\ Reached \subseteq Ids
  BY DEF QueryInv, SearchInv, Asked, ImpactInv, SweepInv, DepthsAreNumbers, Mine
<1>2. IsFiniteSet(Ids)
  BY IdsAreHeld DEF QueryInv, StoreFinite
<1>3. \A some \in SUBSET Ids : IsFiniteSet(some) /\ Cardinality(some) \in Nat
  BY <1>2, FS_Subset, FS_CardinalityType
<1>4. levels \in Nat /\ late \in 0..1 /\ left \in SUBSET Ids
  BY <1>1
<1>5. ImpactWork = Cardinality(left) + 2 * levels + late
  BY DEF ImpactWork
<1>6. ImpactWork \in Nat
  <2> HIDE DEF left, levels, late
  <2>1. Cardinality(left) \in Nat
    BY <1>3, <1>4
  <2> QED
    BY <1>4, <1>5, <2>1
<1>7. ImpactNext /\ UNCHANGED <<store, query>>
  <2>1. query # NoQuery /\ ~Trace
    BY DEF QueryInv, SearchInv, Asked, SweepInv, TraceOver, Trace, TraceNext, TraceStart,
           TraceDescend, TraceReturn, TraceEnd
  <2> QED
    BY <2>1 DEF Next, LoadDocument, Ask, Impact
<1>8. Ids' = Ids
  BY <1>7, GraphStands
<1>9. SUFFICES ASSUME impactPc' # "returned" PROVE ImpactWork' < ImpactWork
  BY <1>6
<1>10. CASE ImpactLevel
  <2>1. /\ impactPc = "levelling" /\ impactPc' = "expanding" /\ depth' = depth + 1
        /\ nextLevel' = {} /\ queue' = queue /\ Reached' = Reached
    BY <1>9, <1>10 DEF ImpactLevel, Reached
  <2>2. queue' \cup nextLevel' = queue \cup nextLevel
    BY <2>1 DEF QueryInv, SearchInv
  <2>3. left' = left
    BY <1>8, <2>1, <2>2
  <2>4. levels' = levels - 1 /\ late = 0 /\ late' = 1
    BY <1>1, <1>7, <2>1
  <2>5. ImpactWork' = Cardinality(left) + 2 * (levels - 1) + 1
    BY <2>3, <2>4 DEF ImpactWork
  <2> HIDE DEF left, levels, late
  <2>6. Cardinality(left) \in Nat
    BY <1>3, <1>4
  <2> QED
    BY <1>4, <1>5, <2>4, <2>5, <2>6
<1>11. CASE ImpactExpand
  <2>1. PICK id \in queue :
          /\ impactPc = "expanding" /\ impactPc' = impactPc /\ depth' = depth
          /\ distances' = withDistance(Unreached(id))
          /\ nextLevel' = nextLevel \cup Unreached(id) /\ queue' = queue \ {id}
    BY <1>9, <1>11 DEF ImpactExpand
  <2>2. Reached' = Reached \cup Unreached(id) /\ Unreached(id) \cap Reached = {}
    BY <2>1, ReachedGrows DEF Reached, Unreached
  <2>3. id \notin nextLevel
    BY <2>1 DEF SweepInv
  <2>4. left' = left \ {id} /\ id \in left
    BY <1>1, <1>8, <2>1, <2>2, <2>3
  <2>5. levels' = levels /\ late' = late
    BY <1>7, <2>1
  <2>6. ImpactWork' = Cardinality(left \ {id}) + 2 * levels + late
    BY <2>4, <2>5 DEF ImpactWork
  <2> HIDE DEF left, levels, late
  <2>7. IsFiniteSet(left) /\ Cardinality(left) \in Nat
    BY <1>3, <1>4
  <2>8. Cardinality(left \ {id}) = Cardinality(left) - 1
    BY <2>4, <2>7, FS_RemoveElement
  <2> QED
    BY <1>4, <1>5, <2>6, <2>7, <2>8
<1>12. CASE ImpactEndLevel
  <2>1. /\ impactPc = "expanding" /\ impactPc' = "levelling" /\ depth' = depth
        /\ queue = {} /\ queue' = nextLevel /\ nextLevel' = nextLevel /\ Reached' = Reached
    BY <1>12 DEF ImpactEndLevel, Reached
  <2>2. left' = left /\ levels' = levels /\ late' = 0 /\ late = 1
    BY <1>7, <1>8, <2>1
  <2>3. ImpactWork' = Cardinality(left) + 2 * levels + 0
    BY <2>2 DEF ImpactWork
  <2> HIDE DEF left, levels, late
  <2>4. Cardinality(left) \in Nat
    BY <1>3, <1>4
  <2> QED
    BY <1>4, <1>5, <2>2, <2>3, <2>4
<1> QED
  BY <1>7, <1>10, <1>11, <1>12 DEF ImpactNext, ImpactStart

-------------------------------------------------------------------------------
\* The image of a finite set is finite.
LEMMA FiniteImage ==
  ASSUME NEW f, IsFiniteSet(DOMAIN f), f = [x \in DOMAIN f |-> f[x]]
  PROVE  IsFiniteSet({f[x] : x \in DOMAIN f})
<1> DEFINE T == {f[x] : x \in DOMAIN f}
<1>1. f \in Surjection(DOMAIN f, T)
  BY DEF Surjection
<1> QED
  BY <1>1, FS_Surjection

EdgesFinite == IsFiniteSet(store.edges)

\* The edges of the store are finite at first,
LEMMA EdgesInit == Init => EdgesFinite
BY FS_EmptySet DEF Init, EmptyStore, EdgesFinite

\* and every load keeps them so.
LEMMA EdgesStep == ASSUME FiniteEdges PROVE EdgesFinite /\ [Next]_vars => EdgesFinite'
<1> SUFFICES ASSUME EdgesFinite, [Next]_vars PROVE EdgesFinite'
  OBVIOUS
<1>1. ASSUME NEW document \in Documents, LoadDocument(document) PROVE EdgesFinite'
  <2>1. store' = load(store, document)
    BY <1>1 DEF LoadDocument
  <2>2. CASE loadable(document)
    <3>1. store'.edges = document.edges \cup store.edges
      BY <2>1, <2>2 DEF load, recordOver
    <3>2. IsFiniteSet(document.edges \cup store.edges)
      BY FS_Union DEF FiniteEdges, EdgesFinite
    <3> QED
      BY <3>1, <3>2 DEF EdgesFinite
  <2>3. CASE ~loadable(document)
    BY <2>1, <2>3 DEF load, EdgesFinite
  <2> QED
    BY <2>2, <2>3
<1>2. CASE UNCHANGED store
  BY <1>2 DEF EdgesFinite
<1> QED
  BY <1>1, <1>2 DEF Next, Ask, Trace, Impact, vars

\* A path can be prolonged in finitely many ways.
LEMMA FewProlonged ==
  ASSUME IsFiniteSet(Ids), IsFiniteSet(store.edges), NEW path
  PROVE  IsFiniteSet(Prolonged(path))
<1> DEFINE ends == Ids \X store.edges
           f == [end \in ends |-> [nodes |-> Append(path.nodes, end[1]),
                                   edges |-> Append(path.edges, end[2])]]
<1>1. IsFiniteSet(ends)
  BY FS_Product
<1>2. IsFiniteSet({f[end] : end \in DOMAIN f})
  <2>1. DOMAIN f = ends /\ f = [end \in DOMAIN f |-> f[end]]
    OBVIOUS
  <2> HIDE DEF f, ends
  <2> QED
    BY <1>1, <2>1, FiniteImage
<1>3. ASSUME NEW longer \in Prolonged(path) PROVE longer \in {f[end] : end \in DOMAIN f}
  <2>1. PICK n \in backwardNeighbours(path.nodes[Len(path.nodes)]) :
          longer = [nodes |-> Append(path.nodes, n.to), edges |-> Append(path.edges, n.edge)]
    BY DEF Prolonged
  <2>2. n.to \in Ids /\ n.edge \in store.edges
    BY NeighboursAreIds
  <2>3. <<n.to, n.edge>> \in ends /\ f[<<n.to, n.edge>>] = longer
    BY <2>1, <2>2
  <2> QED
    BY <2>3
<1> QED
  BY <1>2, <1>3, FS_Subset

\* There are finitely many simple paths.
LEMMA FewSimplePaths ==
  ASSUME IsFiniteSet(Ids), IsFiniteSet(store.edges)
  PROVE  IsFiniteSet(SimplePaths)
<1> DEFINE Few == {k \in Nat : IsFiniteSet(PathsOf[k])}
<1>1. 0 \in Few
  BY PathsStepwise, FS_Singleton
<1>2. ASSUME NEW k \in Few PROVE k + 1 \in Few
  <2> DEFINE f == [path \in PathsOf[k] |-> Prolonged(path)]
  <2>1. DOMAIN f = PathsOf[k] /\ f = [path \in DOMAIN f |-> f[path]]
    OBVIOUS
  <2>2. \A path \in DOMAIN f : IsFiniteSet(f[path])
    BY FewProlonged
  <2>3. UNION {f[path] : path \in DOMAIN f} = PathsOf[k + 1]
    <3>1. PathsOf[k + 1] = UNION {Prolonged(path) : path \in PathsOf[k]}
      BY PathsStepwise
    <3>2. {f[path] : path \in DOMAIN f} = {Prolonged(path) : path \in PathsOf[k]}
      OBVIOUS
    <3> QED
      BY <3>1, <3>2, Zenon
  <2> HIDE DEF f
  <2>4. IsFiniteSet({f[path] : path \in DOMAIN f})
    BY <2>1, FiniteImage
  <2>5. IsFiniteSet(UNION {f[path] : path \in DOMAIN f})
    BY <2>2, <2>4, FS_UNION
  <2>6. IsFiniteSet(PathsOf[k + 1])
    BY <2>3, <2>5, Zenon
  <2> QED
    BY <2>6
<1>3. Few = Nat
  <2>1. Few \in SUBSET Nat
    OBVIOUS
  <2> HIDE DEF Few
  <2> QED
    BY <1>1, <1>2, <2>1, Upward
<1> DEFINE n == Cardinality(Ids)
           g == [k \in 0..n |-> PathsOf[k]]
<1>4. n \in Nat /\ IsFiniteSet(0..n)
  BY FS_CardinalityType, FS_Interval
<1>5. DOMAIN g = 0..n /\ g = [k \in DOMAIN g |-> g[k]] /\ UNION {g[k] : k \in DOMAIN g} = SimplePaths
  BY DEF SimplePaths
<1>6. \A k \in DOMAIN g : IsFiniteSet(g[k])
  BY <1>3, <1>4
<1> HIDE DEF g, n, Few
<1>7. IsFiniteSet({g[k] : k \in DOMAIN g})
  BY <1>4, <1>5, FiniteImage
<1> QED
  BY <1>5, <1>6, <1>7, FS_UNION

\* The simple paths that leave a trail by a step left there.
Leaving(nodes, edges, rest) ==
  {path \in SimplePaths : \E i \in 1..Len(rest) :
     Agrees(path, nodes, edges, i) /\ i < Len(path.nodes) /\ Hop(path, i) \in rest[i]}

\* Those are the paths the walk may still enter.
LEMMA ToEnterMeans ==
  ASSUME SimplePaths \subseteq Simple
  PROVE  ToEnter = Leaving(trail, edgeTrail, pending)
<1>1. \A path \in SimplePaths : Len(path.nodes) \in Nat
  BY SimpleParts
<1>2. \A path \in SimplePaths : \A i \in 1..Len(pending) :
        LeavesAt(path, i) <=>
          Agrees(path, trail, edgeTrail, i) /\ i < Len(path.nodes) /\ Hop(path, i) \in pending[i]
  BY <1>1 DEF LeavesAt, Agrees, Hop
<1> QED
  BY <1>2 DEF ToEnter, Leaving

\* The same at the next step.
LEMMA ToEnterNext ==
  ASSUME SimplePaths \subseteq Simple, SimplePaths' = SimplePaths
  PROVE  ToEnter' = Leaving(trail', edgeTrail', pending')
<1>1. \A path \in SimplePaths : Len(path.nodes) \in Nat
  BY SimpleParts
<1>2. \A path \in SimplePaths : \A i \in 1..Len(pending') :
        LeavesAt(path, i)' <=> /\ Agrees(path, trail', edgeTrail', i)
                               /\ i < Len(path.nodes) /\ Hop(path, i) \in pending'[i]
  BY <1>1 DEF LeavesAt, Agrees, Hop
<1>3. ToEnter' = {path \in SimplePaths : \E i \in 1..Len(pending') : LeavesAt(path, i)'}
  BY DEF ToEnter
<1> QED
  BY <1>2, <1>3 DEF Leaving

\* A trail of k nodes goes on by step n, which is not left to take then.
GoesOn(nodes, edges, rest, k, n, on, over, left) ==
  /\ nodes \in Seq(Mine) /\ edges \in Seq(store.edges) /\ rest \in Seq(SUBSET Hops)
  /\ k \in Nat /\ k # 0 /\ Len(rest) = k /\ Len(nodes) = k /\ Len(edges) = k - 1
  /\ n \in rest[k] /\ n = [to |-> n.to, edge |-> n.edge]
  /\ left \in Seq(SUBSET Hops) /\ Len(left) = k /\ \A i \in 1..k : left[i] \subseteq rest[i]
  /\ Len(on) = k + 1 /\ (\A i \in 1..k : on[i] = nodes[i]) /\ on[k + 1] = n.to
  /\ Len(over) = k /\ (\A i \in 1..k - 1 : over[i] = edges[i]) /\ over[k] = n.edge
  /\ \A i \in 1..k : [to |-> on[i + 1], edge |-> over[i]] \notin left[i]

\* Then what may be entered could be before, and what has been entered cannot be
\* entered again.
LEMMA EnteredOnce ==
  ASSUME SimplePaths \subseteq Simple,
         NEW nodes, NEW edges, NEW rest, NEW k, NEW n, NEW on, NEW over, NEW left, NEW next,
         GoesOn(nodes, edges, rest, k, n, on, over, left), Path(on, over) \in SimplePaths
  PROVE  /\ Path(on, over) \in Leaving(nodes, edges, rest)
         /\ Leaving(nodes, edges, left) \subseteq Leaving(nodes, edges, rest) \ {Path(on, over)}
         /\ Leaving(on, over, Append(left, next))
              \subseteq Leaving(nodes, edges, rest) \ {Path(on, over)}
<1> USE DEF GoesOn
<1> DEFINE entered == Path(on, over)
           more == Append(left, next)
<1>1. entered.nodes = on /\ entered.edges = over /\ entered \in SimplePaths
  BY DEF Path
<1>2. \A i \in 1..k : Hop(entered, i) = [to |-> on[i + 1], edge |-> over[i]]
  BY <1>1 DEF Hop
<1>3. Len(more) = k + 1 /\ \A i \in 1..k : more[i] = left[i]
  BY AppendProperties
<1>4. k \in 1..k /\ \A i \in 1..k + 1 : i \in 1..k \/ i = k + 1
  OBVIOUS
<1> HIDE DEF entered, more
<1>5. entered \in Leaving(nodes, edges, rest)
  <2>1. Agrees(entered, nodes, edges, k) /\ k < Len(entered.nodes)
    BY <1>1 DEF Agrees
  <2>2. Hop(entered, k) = n
    BY <1>2, <1>4
  <2> QED
    BY <1>1, <1>4, <2>1, <2>2 DEF Leaving
<1>6. ASSUME NEW path \in SimplePaths, NEW i \in 1..k, Hop(path, i) \in left[i],
             Agrees(path, on, over, i) \/ Agrees(path, nodes, edges, i), i < Len(path.nodes)
      PROVE  path \in Leaving(nodes, edges, rest) /\ path # entered
  <2>1. \A j \in 1..i : j \in 1..k
    OBVIOUS
  <2>2. \A j \in 1..i - 1 : j \in 1..k - 1
    OBVIOUS
  <2>3. Agrees(path, nodes, edges, i)
    BY <1>6, <2>1, <2>2 DEF Agrees
  <2>4. Hop(path, i) \in rest[i]
    BY <1>6
  <2>5. path # entered
    BY <1>2, <1>6
  <2> QED
    BY <1>6, <2>3, <2>4, <2>5 DEF Leaving
<1>7. ASSUME NEW path \in SimplePaths, Agrees(path, on, over, k + 1), k + 1 < Len(path.nodes)
      PROVE  path \in Leaving(nodes, edges, rest) /\ path # entered
  <2>1. Len(path.nodes) \in Nat
    BY SimpleParts
  <2>2. Agrees(path, nodes, edges, k)
    <3>1. k <= Len(path.nodes)
      BY <1>7, <2>1
    <3>2. \A j \in 1..k : j \in 1..k + 1
      OBVIOUS
    <3>3. \A j \in 1..k - 1 : j \in 1..(k + 1) - 1
      OBVIOUS
    <3> QED
      BY <1>7, <3>1, <3>2, <3>3 DEF Agrees
  <2>3. path.nodes[k + 1] = n.to /\ path.edges[k] = n.edge
    <3>1. k + 1 \in 1..k + 1 /\ k \in 1..(k + 1) - 1
      OBVIOUS
    <3> QED
      BY <1>7, <3>1 DEF Agrees
  <2>4. Hop(path, k) = n
    BY <2>3 DEF Hop
  <2>5. k < Len(path.nodes)
    BY <1>7, <2>1
  <2>6. path # entered
    BY <1>1, <1>7
  <2> QED
    BY <1>4, <2>2, <2>4, <2>5, <2>6 DEF Leaving
<1>8. Leaving(nodes, edges, left) \subseteq Leaving(nodes, edges, rest) \ {entered}
  BY <1>6 DEF Leaving
<1>9. Leaving(on, over, more) \subseteq Leaving(nodes, edges, rest) \ {entered}
  <2> SUFFICES ASSUME NEW path \in Leaving(on, over, more)
               PROVE  path \in Leaving(nodes, edges, rest) /\ path # entered
    OBVIOUS
  <2>1. PICK i \in 1..k + 1 :
          Agrees(path, on, over, i) /\ i < Len(path.nodes) /\ Hop(path, i) \in more[i]
    BY <1>3 DEF Leaving
  <2>2. path \in SimplePaths
    BY DEF Leaving
  <2>3. CASE i \in 1..k
    BY <1>3, <1>6, <2>1, <2>2, <2>3
  <2>4. CASE i = k + 1
    BY <1>7, <2>1, <2>2, <2>4
  <2> QED
    BY <1>4, <2>3, <2>4
<1> QED
  BY <1>5, <1>8, <1>9 DEF entered, more
\* Going on by a step left there enters one path more.
LEMMA DescendAdvances ==
  ASSUME StoreInv, WalkInv, TraceInv, IsFiniteSet(Ids), IsFiniteSet(SimplePaths),
         TraceDescend, UNCHANGED <<store, query>>
  PROVE  TraceWork' < TraceWork
<1> PICK n \in Top :
      walk(Append(trail, n.to), Append(edgeTrail, n.edge),
           [pending EXCEPT ![Len(pending)] = @ \ {n}])
  BY DEF TraceDescend
<1> DEFINE k == Len(pending)
           on == On(n)
           over == Over(n)
           left == Left(n)
           next == Unvisited(on)
<1>1. tracePc = "walking" /\ pending # <<>>
  BY DEF TraceDescend
<1>2. hasNode(query.target) /\ Shape(trail, edgeTrail, pending)
  BY <1>1 DEF TraceInv
<1>3. /\ trail \in Seq(Mine) /\ edgeTrail \in Seq(store.edges) /\ pending \in Seq(SUBSET Hops)
      /\ Len(trail) = k /\ k # 0 /\ k \in Nat /\ Len(edgeTrail) = k - 1
  BY <1>1 DEF WalkInv
<1>4. k \in 1..k /\ trail # <<>>
  BY <1>3
<1>5. /\ Path(trail, edgeTrail) \in Simple /\ Open(trail, pending)
      /\ Untaken(trail, edgeTrail, pending)
  BY <1>2, <1>4 DEF Shape
<1>6. n \in pending[k]
  BY DEF Top
<1>7. n \in Unvisited(trail)
  <2>1. n \in backwardNeighbours(trail[k]) /\ \A j \in 1..k : trail[j] # n.to
    BY <1>4, <1>5, <1>6 DEF Open
  <2> QED
    BY <1>3, <2>1 DEF Unvisited, Visiting
<1>8. n.to \in Mine /\ n.edge \in store.edges /\ n = [to |-> n.to, edge |-> n.edge]
  BY <1>7, NeighboursAreMine DEF Unvisited, backwardNeighbours, Hops
<1>9. SimplePaths = Simple
  BY <1>2, SimplePathsAreSimple
<1>10. Path(on, over) \in SimplePaths
  BY <1>5, <1>7, <1>9, Lengthened DEF On, Over
<1>11. /\ left \in Seq(SUBSET Hops) /\ Len(left) = k /\ \A i \in 1..k : left[i] \subseteq pending[i]
  BY <1>3, <1>4, <1>6 DEF Left
<1>12. Len(on) = k + 1 /\ (\A i \in 1..k : on[i] = trail[i]) /\ on[k + 1] = n.to
  BY <1>3, <1>8, AppendProperties DEF On
<1>13. Len(over) = k /\ (\A i \in 1..k - 1 : over[i] = edgeTrail[i]) /\ over[k] = n.edge
  BY <1>3, <1>8, AppendProperties DEF Over
<1>14. \A i \in 1..k : [to |-> on[i + 1], edge |-> over[i]] \notin left[i]
  <2>1. MaximalPaths \subseteq Simple
    BY <1>2, MaximalMeans
  <2>2. \A i \in 1..Len(edgeTrail) : [to |-> trail[i + 1], edge |-> edgeTrail[i]] \notin pending[i]
    BY <1>5 DEF Untaken
  <2>3. \A i \in 1..Len(over) : [to |-> on[i + 1], edge |-> over[i]] \notin left[i]
    BY <1>1, <1>6, <1>8, <2>1, <2>2, StepSplits
  <2> QED
    BY <1>13, <2>3
<1>15. walk(on, over, left)
  BY DEF On, Over, Left
<1> HIDE DEF k, on, over, left
<1>16. /\ Path(on, over) \in Leaving(trail, edgeTrail, pending)
       /\ Leaving(trail, edgeTrail, left) \subseteq Leaving(trail, edgeTrail, pending) \ {Path(on, over)}
       /\ Leaving(on, over, Append(left, next))
            \subseteq Leaving(trail, edgeTrail, pending) \ {Path(on, over)}
  <2>1. Len(pending) = k
    BY DEF k
  <2>2. GoesOn(trail, edgeTrail, pending, k, n, on, over, left)
    BY <1>3, <1>6, <1>8, <1>11, <1>12, <1>13, <1>14, <2>1 DEF GoesOn
  <2>3. SimplePaths \subseteq Simple
    BY <1>9
  <2> HIDE DEF next
  <2> QED
    BY <1>10, <2>2, <2>3, EnteredOnce
<1>17. ToEnter = Leaving(trail, edgeTrail, pending)
  BY <1>9, ToEnterMeans
<1>18. ToEnter' = Leaving(trail', edgeTrail', pending')
  <2>1. SimplePaths' = SimplePaths
    BY GraphStands
  <2> QED
    BY <1>9, <2>1, ToEnterNext
<1>19. /\ ToEnter' \subseteq ToEnter \ {Path(on, over)} /\ Path(on, over) \in ToEnter
       /\ Len(pending') = k \/ Len(pending') = k + 1
  <2>1. CASE pending' = left /\ trail' = trail /\ edgeTrail' = edgeTrail
    BY <1>11, <1>16, <1>17, <1>18, <2>1
  <2>2. CASE pending' = Append(left, next) /\ trail' = on /\ edgeTrail' = over
    <3>1. Len(Append(left, next)) = k + 1
      BY <1>11, AppendProperties
    <3> QED
      BY <1>16, <1>17, <1>18, <2>2, <3>1
  <2> QED
    BY <1>15, <2>1, <2>2 DEF walk
<1>20. IsFiniteSet(ToEnter)
  BY FS_Subset DEF ToEnter
<1> DEFINE before == ToEnter
           after == ToEnter'
           entered == Path(on, over)
<1>21. Cardinality(after) <= Cardinality(before) - 1 /\ Cardinality(before) \in Nat
       /\ Cardinality(after) \in Nat
  <2>1. IsFiniteSet(before) /\ after \in SUBSET (before \ {entered}) /\ entered \in before
    BY <1>19, <1>20
  <2> HIDE DEF before, after, entered
  <2>2. IsFiniteSet(before \ {entered}) /\ Cardinality(before \ {entered}) = Cardinality(before) - 1
    BY <2>1, FS_RemoveElement
  <2>3. IsFiniteSet(after) /\ Cardinality(after) <= Cardinality(before \ {entered})
    BY <2>1, <2>2, FS_Subset
  <2> QED
    BY <2>1, <2>2, <2>3, FS_CardinalityType
<1>22. TraceWork = 2 * Cardinality(before) + k
  BY DEF TraceWork, k
<1>23. TraceWork' = 2 * Cardinality(after) + Len(pending')
  BY DEF TraceWork
<1> HIDE DEF before, after
<1> QED
  BY <1>3, <1>19, <1>21, <1>22, <1>23

\* Returning takes a node off the trail from which there is no step left.
LEMMA ReturnAdvances ==
  ASSUME StoreInv, WalkInv, TraceInv, IsFiniteSet(Ids), IsFiniteSet(SimplePaths),
         TraceReturn, UNCHANGED <<store, query>>
  PROVE  TraceWork' < TraceWork
<1> DEFINE k == Len(pending) - 1
           m == IF k = 0 THEN 0 ELSE k - 1
<1>1. /\ tracePc = "walking" /\ pending # <<>>
      /\ pending' = SubSeq(pending, 1, k) /\ trail' = SubSeq(trail, 1, k)
      /\ edgeTrail' = SubSeq(edgeTrail, 1, m)
  BY DEF TraceReturn
<1>2. hasNode(query.target)
  BY <1>1 DEF TraceInv
<1>3. /\ trail \in Seq(Mine) /\ edgeTrail \in Seq(store.edges) /\ pending \in Seq(SUBSET Hops)
      /\ Len(pending) = k + 1 /\ k \in Nat /\ Len(trail) = k + 1 /\ Len(edgeTrail) = k
  BY <1>1 DEF WalkInv
<1>4. m \in Nat /\ m \in 0..k /\ k \in 0..k + 1 /\ \A i \in 1..k : i \in 1..k + 1
  BY <1>3
<1> HIDE DEF k, m
<1>5. Len(trail') = k /\ \A i \in 1..k : trail'[i] = trail[i]
  BY <1>1, <1>3, <1>4, Shortened
<1>6. Len(pending') = k /\ \A i \in 1..k : pending'[i] = pending[i]
  BY <1>1, <1>3, <1>4, Shortened
<1>7. Len(edgeTrail') = m /\ \A i \in 1..m : edgeTrail'[i] = edgeTrail[i]
  BY <1>1, <1>3, <1>4, Shortened
<1>8. \A i \in 1..k : \A j \in 1..i - 1 : j \in 1..m
  BY <1>3 DEF m
<1>9. \A i \in 1..k : \A j \in 1..i : j \in 1..k
  BY <1>3
<1>10. ASSUME NEW path, NEW i \in 1..k
       PROVE  LeavesAt(path, i)' => LeavesAt(path, i)
  BY <1>5, <1>6, <1>7, <1>8, <1>9 DEF LeavesAt
<1>11. SimplePaths' = SimplePaths
  BY GraphStands
<1>12. ToEnter' \subseteq ToEnter
  <2>1. ToEnter' = {path \in SimplePaths : \E i \in 1..k : LeavesAt(path, i)'}
    BY <1>6, <1>11 DEF ToEnter
  <2>2. ToEnter = {path \in SimplePaths : \E i \in 1..k + 1 : LeavesAt(path, i)}
    BY <1>3 DEF ToEnter
  <2> QED
    BY <1>4, <1>10, <2>1, <2>2
<1>13. IsFiniteSet(ToEnter)
  BY FS_Subset DEF ToEnter
<1>14. Cardinality(ToEnter') <= Cardinality(ToEnter)
       /\ Cardinality(ToEnter) \in Nat /\ Cardinality(ToEnter') \in Nat
  <2> DEFINE before == ToEnter
             after == ToEnter'
  <2>1. IsFiniteSet(before) /\ after \in SUBSET before
    BY <1>12, <1>13
  <2> HIDE DEF before, after
  <2>2. IsFiniteSet(after) /\ Cardinality(after) <= Cardinality(before)
    BY <2>1, FS_Subset
  <2>3. Cardinality(before) \in Nat /\ Cardinality(after) \in Nat
    BY <2>1, <2>2, FS_CardinalityType
  <2> QED
    BY <2>2, <2>3 DEF before, after
<1>15. TraceWork = 2 * Cardinality(ToEnter) + (k + 1) /\ TraceWork' = 2 * Cardinality(ToEnter') + k
  BY <1>3, <1>6 DEF TraceWork
<1> QED
  BY <1>3, <1>14, <1>15

\* What a walk still has to do is a number, and each step leaves less of it.
LEMMA TraceStepAdvances ==
  ASSUME QueryInv, StoreFinite, EdgesFinite, TraceInv, [Next]_vars, vars' # vars,
         tracePc = "walking"
  PROVE  TraceWork \in Nat /\ (tracePc' = "walking" => TraceWork' < TraceWork)
<1>1. StoreInv /\ WalkInv /\ Asked /\ IsFiniteSet(Ids)
  BY IdsAreHeld DEF QueryInv, SearchInv, StoreFinite
<1>2. IsFiniteSet(SimplePaths)
  BY <1>1, FewSimplePaths DEF EdgesFinite
<1>3. TraceWork \in Nat
  <2>1. IsFiniteSet(ToEnter)
    BY <1>2, FS_Subset DEF ToEnter
  <2>2. Cardinality(ToEnter) \in Nat /\ Len(pending) \in Nat
    BY <1>1, <2>1, FS_CardinalityType DEF WalkInv
  <2> QED
    BY <2>2 DEF TraceWork
<1>4. TraceNext /\ UNCHANGED <<store, query>>
  BY <1>1 DEF Next, LoadDocument, Ask, Asked, Trace, Impact, TraceOver, vars
<1>5. CASE TraceDescend
  BY <1>1, <1>2, <1>3, <1>4, <1>5, DescendAdvances DEF QueryInv
<1>6. CASE TraceReturn
  BY <1>1, <1>2, <1>3, <1>4, <1>6, ReturnAdvances DEF QueryInv
<1>7. CASE TraceStart \/ TraceEnd
  BY <1>3, <1>7 DEF TraceStart, TraceEnd
<1> QED
  BY <1>4, <1>5, <1>6, <1>7 DEF TraceNext

\* A walk enters each simple path at most once and leaves it once, and an impact
\* expands each node at most once: what a search still has to do is a number that
\* every step makes smaller, on any store, with circles or without, and for any
\* bounds (trace, impact; packages/graph/src/trace.ts: "trace must terminate on a
\* graph that has not been validated").
THEOREM SearchesAlwaysAdvance ==
  ASSUME ClosedDocuments, FiniteDocuments, FiniteEdges, DepthsAreNumbers
  PROVE  Spec => SearchesAdvance
<1> DEFINE AllInv == QueryInv /\ StoreFinite /\ EdgesFinite /\ TraceInv /\ SweepInv
<1>1. Init => AllInv
  BY QueryInit, FiniteInit, EdgesInit, TraceInvInit, SweepInit
<1>2. AllInv /\ [Next]_vars => AllInv'
  BY QueryStep, FiniteStep, EdgesStep, TraceInvStep, SweepStep
<1>3. AllInv /\ [Next]_vars =>
        [/\ tracePc = "walking" =>
              /\ TraceWork \in Nat
              /\ tracePc' = "walking" => TraceWork' < TraceWork
         /\ impactPc = "levelling" \/ impactPc = "expanding" =>
              /\ ImpactWork \in Nat
              /\ impactPc' # "returned" => ImpactWork' < ImpactWork]_vars
  BY TraceStepAdvances, ImpactStepAdvances
<1> QED
  BY <1>1, <1>2, <1>3, PTL DEF Spec, SearchesAdvance
===============================================================================
