----------------------------- MODULE LineageQueries -----------------------------
(***************************************************************************)
(* A store that documents are loaded into one after the other, and the two *)
(* traversals asked of what it then holds: trace from a target, and after  *)
(* it impact from an origin.  Both are synchronous, so that no document is *)
(* loaded while one runs.                                                  *)
(***************************************************************************)
EXTENDS TraceWalk, ImpactSearch

CONSTANTS
  Documents,  \* the graphs that may be loaded: [nodes, edges]
  Queries     \* what may be asked

NoQuery == [tenant |-> "none"]

vars == <<store, query, traceVars, impactVars>>

Init == store = EmptyStore /\ query = NoQuery /\ TraceInit /\ ImpactInit

\* store.load(graph), which stores all of a document or none of it.
LoadDocument(document) ==
  /\ query = NoQuery
  /\ store' = load(store, document)
  /\ UNCHANGED <<query, traceVars, impactVars>>

Ask(q) ==
  /\ query = NoQuery
  /\ query' = q
  /\ UNCHANGED <<store, traceVars, impactVars>>

Trace == query # NoQuery /\ TraceNext /\ UNCHANGED <<store, query, impactVars>>

TraceOver == tracePc \in {"returned", "thrown"}

Impact == TraceOver /\ ImpactNext /\ UNCHANGED <<store, query, traceVars>>

Next ==
  \/ \E document \in Documents : LoadDocument(document)
  \/ \E q \in Queries : Ask(q)
  \/ Trace
  \/ Impact

Spec == Init /\ [][Next]_vars

\* A synchronous call that has begun runs until it returns.
FairSpec == Spec /\ WF_vars(Trace) /\ WF_vars(Impact)

-------------------------------------------------------------------------------
Ids == DOMAIN store.nodes \cup UNION {{e.from, e.to} : e \in store.edges}

TypeOK ==
  /\ query \in Queries \cup {NoQuery}
  /\ tracePc \in {"idle", "walking", "returned", "thrown"}
  /\ Visiting(trail) \subseteq Ids
  /\ \A i \in DOMAIN edgeTrail : edgeTrail[i] \in store.edges
  /\ Len(pending) = Len(trail)
  /\ traceTruncated \in BOOLEAN
  /\ impactPc \in {"idle", "levelling", "expanding", "returned", "thrown"}
  /\ Reached \subseteq Ids /\ queue \subseteq Reached /\ nextLevel \subseteq Reached
  /\ depth \in Nat /\ \A id \in Reached : distances[id] \in 0..depth
  /\ impactTruncated \in BOOLEAN

\* A path prolonged by a node it has not been to.
Prolonged(path) ==
  {[nodes |-> Append(path.nodes, n.to), edges |-> Append(path.edges, n.edge)] :
     n \in {m \in backwardNeighbours(path.nodes[Len(path.nodes)]) :
                m.to \notin Visiting(path.nodes)}}

\* The simple paths of k edges from the target.
PathsOf[k \in Nat] ==
  IF k = 0 THEN {[nodes |-> <<query.target>>, edges |-> <<>>]}
  ELSE UNION {Prolonged(path) : path \in PathsOf[k - 1]}

SimplePaths == UNION {PathsOf[k] : k \in 0..Cardinality(Ids)}

\* Those that cannot be prolonged without a circle.
MaximalPaths ==
  {path \in SimplePaths :
     {n.to : n \in backwardNeighbours(path.nodes[Len(path.nodes)])} \subseteq Visiting(path.nodes)}

\* What depends directly on some of these, and they.
Spread(ids) == ids \cup UNION {forwardNeighbours(id) : id \in ids}

\* The nodes at most k forward steps from the origin.
Within[k \in Nat] == IF k = 0 THEN {query.origin} ELSE Spread(Within[k - 1])

\* What trace returns are real paths, each once around no circle, to an end;
\* and it says that it was cut exactly when some path is missing.  ("truncated:
\* True when a bound stopped the walk, so the paths are not exhaustive.")  The
\* decision paths explain picks from an uncut trace are the shortest there are.
TraceExhaustive ==
  tracePc = "returned" =>
    /\ paths \subseteq MaximalPaths /\ (traceTruncated <=> paths # MaximalPaths)
    /\ ~traceTruncated =>
         explain.decisionPaths =
           {p \in MaximalPaths : \A q \in MaximalPaths : Len(p.nodes) <= Len(q.nodes)}

\* A distance that impact records is that of a shortest path, at every moment
\* of the search and even where a bound will cut it short.
DistancesAreShortest ==
  \A id \in Reached : /\ id \in Within[distances[id]]
                      /\ distances[id] > 0 => id \notin Within[distances[id] - 1]

\* An impact that does not say it was cut has left nothing out: with every
\* node all that depends on it directly is there too.
NothingLeftOut ==
  impactPc = "returned" /\ ~impactTruncated =>
    \A id \in Reached : forwardNeighbours(id) \subseteq Reached

\* The two traversals agree: a node is on the way back from a target exactly
\* when the target is among what depends on the node.
TraceMirrorsImpact ==
  /\ tracePc = "returned" /\ ~traceTruncated
  /\ impactPc = "returned" /\ ~impactTruncated
  => ((\E path \in paths : query.origin \in Visiting(path.nodes)) <=> query.target \in Reached)

\* Neither traversal leaves the tenant it was asked for.
StaysInTenant ==
  \A id \in Visiting(trail) \cup Reached \cup UNION {Visiting(path.nodes) : path \in paths} :
    TenantOf(id) = query.tenant

\* An incident stays in its run: but for a source, which many runs share, a
\* node of one run reaches another only along a recorded derivation.
IncidentStaysInItsRun ==
  /\ impactPc = "returned"
  /\ runOf(query.origin) # NoRun
  /\ ~\E e \in store.edges : e.type = "DERIVED_FROM"
  => DOMAIN affectedRuns \subseteq {runOf(query.origin)}

\* No document ever loaded leaves an ill-formed edge in the store.  (store.ts:
\* "Structural and scope failures reject the whole batch.")
DocumentsWellFormed == IllFormed(store) = {}

\* A path leaves the trail after its i-th node, by a step not yet taken there.
LeavesAt(path, i) ==
  /\ i < Len(path.nodes)
  /\ \A j \in 1..i : path.nodes[j] = trail[j]
  /\ \A j \in 1..i - 1 : path.edges[j] = edgeTrail[j]
  /\ [to |-> path.nodes[i + 1], edge |-> path.edges[i]] \in pending[i]

\* The simple paths that the walk may still enter.
ToEnter == {path \in SimplePaths : \E i \in 1..Len(pending) : LeavesAt(path, i)}

\* What a walk has left to do: to enter those, and to leave each again.
TraceWork == 2 * Cardinality(ToEnter) + Len(pending)

\* What an impact has left to do: to expand the nodes it has not expanded, and to
\* begin and end the levels it may still go down.
ImpactWork ==
  Cardinality(Ids \ (Reached \ (queue \cup nextLevel))) + 2 * (query.maxDepth - depth)
    + (IF impactPc = "expanding" THEN 1 ELSE 0)

\* A walk enters each simple path at most once, and an impact expands each node at
\* most once: however the graph runs in circles, every step of a search leaves
\* less to do.  (trace.ts: "trace must terminate on a graph that has not been
\* validated".)
SearchesAdvance ==
  [][/\ tracePc = "walking" =>
          /\ TraceWork \in Nat
          /\ tracePc' = "walking" => TraceWork' < TraceWork
     /\ impactPc = "levelling" \/ impactPc = "expanding" =>
          /\ ImpactWork \in Nat
          /\ impactPc' # "returned" => ImpactWork' < ImpactWork]_vars

\* Every question asked is answered, on a graph with circles too.
QueriesReturn == (query # NoQuery) ~> (impactPc \in {"returned", "thrown"})
-------------------------------------------------------------------------------
\* What the theorems ask of the documents: each has finitely many nodes and edges,
\* holds both ends of its edges, and names a run in every node that belongs to one
\* (validate.ts rejects an empty runId).
FiniteDocuments == \A document \in Documents : IsFiniteSet(DOMAIN document.nodes)

FiniteEdges == \A document \in Documents : IsFiniteSet(document.edges)

ClosedDocuments == \A document \in Documents : Dangling(document) = {}

OutlivesRuns(id) == KindOf(id) \in {"Source", "Policy"}

RunsNamed == \A document \in Documents : \A id \in DOMAIN document.nodes :
               ~OutlivesRuns(id) => runOf(id) # NoRun

\* And of the questions: how deep an impact may go is a number of levels.
DepthsAreNumbers == \A q \in Queries : q.maxDepth \in Nat
===============================================================================
