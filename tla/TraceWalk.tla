------------------------------- MODULE TraceWalk -------------------------------
(***************************************************************************)
(* trace (packages/graph/src/trace.ts): the recorded paths from a node     *)
(* back to what it rests on, by a depth-first walk.  The walk's recursion  *)
(* is a stack of the neighbours each call has still to visit; the nodes of *)
(* the trail are the ones the code keeps in "visiting".                    *)
(***************************************************************************)
EXTENDS Lineage

VARIABLES
  tracePc,        \* "idle", "walking", "returned" or "thrown"
  trail,          \* nodeTrail: the nodes from the target to the current one
  edgeTrail,      \* the edges that join them
  pending,        \* per node of the trail, the neighbours not yet visited
  paths,          \* the paths found: [nodes, edges]
  traceTruncated  \* a bound has cut something off

traceVars == <<tracePc, trail, edgeTrail, pending, paths, traceTruncated>>

TraceInit ==
  /\ tracePc = "idle" /\ trail = <<>> /\ edgeTrail = <<>> /\ pending = <<>>
  /\ paths = {} /\ traceTruncated = FALSE

Visiting(nodes) == {nodes[i] : i \in DOMAIN nodes}

\* Where a walk may go on from the end of a trail.
Unvisited(nodes) ==
  {n \in backwardNeighbours(nodes[Len(nodes)]) : n.to \notin Visiting(nodes)}

TooFar(nodes, found) ==
  Cardinality(found) >= query.maxPaths \/ Len(nodes) > query.maxTrail

\* walk that stops at its count of paths without a word.
walk_silent(nodes, edges, rest) ==
  LET next == Unvisited(nodes)
  IN  IF TooFar(nodes, paths)
      THEN /\ traceTruncated' = (traceTruncated \/ Len(nodes) > query.maxTrail)
           /\ pending' = rest
           /\ UNCHANGED <<trail, edgeTrail, paths>>
      ELSE IF next = {}
      THEN /\ paths' = paths \cup {[nodes |-> nodes, edges |-> edges]}
           /\ pending' = rest
           /\ UNCHANGED <<trail, edgeTrail, traceTruncated>>
      ELSE /\ trail' = nodes
           /\ edgeTrail' = edges
           /\ pending' = Append(rest, next)
           /\ UNCHANGED <<paths, traceTruncated>>

\* A call of walk for the last of nodes, reached by edges, with rest left to
\* visit on the calls below it.
walk(nodes, edges, rest) ==
  LET next == Unvisited(nodes)
  IN  IF TooFar(nodes, paths)
      THEN /\ traceTruncated' = TRUE
           /\ pending' = rest
           /\ UNCHANGED <<trail, edgeTrail, paths>>
      ELSE IF next = {}
      THEN /\ paths' = paths \cup {[nodes |-> nodes, edges |-> edges]}
           /\ pending' = rest
           /\ UNCHANGED <<trail, edgeTrail, traceTruncated>>
      ELSE /\ trail' = nodes
           /\ edgeTrail' = edges
           /\ pending' = Append(rest, next)
           /\ UNCHANGED <<paths, traceTruncated>>

TraceStart ==
  /\ tracePc = "idle"
  /\ IF hasNode(query.target)
     THEN tracePc' = "walking" /\ walk(<<query.target>>, <<>>, <<>>)
     ELSE /\ tracePc' = "thrown"
          /\ UNCHANGED <<trail, edgeTrail, pending, paths, traceTruncated>>

Top == pending[Len(pending)]

\* TraceDescend that does not mark its candidate as visited by this call.
TraceDescend_again ==
  /\ tracePc = "walking"
  /\ pending # <<>>
  /\ \E candidate \in Top :
       walk(Append(trail, candidate.to), Append(edgeTrail, candidate.edge), pending)
  /\ UNCHANGED tracePc

\* The loop of the innermost call goes on to its next candidate.
TraceDescend ==
  /\ tracePc = "walking"
  /\ pending # <<>>
  /\ \E candidate \in Top :
       walk(Append(trail, candidate.to), Append(edgeTrail, candidate.edge),
            [pending EXCEPT ![Len(pending)] = @ \ {candidate}])
  /\ UNCHANGED tracePc

\* The innermost call returns, and its caller takes the node off the trail.
TraceReturn ==
  /\ tracePc = "walking"
  /\ pending # <<>> /\ Top = {}
  /\ LET depth == Len(pending) - 1
     IN  /\ pending' = SubSeq(pending, 1, depth)
         /\ trail' = SubSeq(trail, 1, depth)
         /\ edgeTrail' = SubSeq(edgeTrail, 1, IF depth = 0 THEN 0 ELSE depth - 1)
  /\ UNCHANGED <<tracePc, paths, traceTruncated>>

TraceEnd ==
  /\ tracePc = "walking"
  /\ pending = <<>>
  /\ tracePc' = "returned"
  /\ UNCHANGED <<trail, edgeTrail, pending, paths, traceTruncated>>

TraceNext == TraceStart \/ TraceDescend \/ TraceReturn \/ TraceEnd

\* collectSources: the sources any path reached.
collectSources ==
  {id \in UNION {Visiting(path.nodes) : path \in paths} : hasNode(id) /\ KindOf(id) = "Source"}

\* shortestPaths: all paths of minimal length.
shortestPaths ==
  {path \in paths : \A other \in paths : Len(path.nodes) <= Len(other.nodes)}

\* What explain says of the evidence behind the target.
explain == [decisionPaths |-> shortestPaths, sources |-> collectSources]
===============================================================================
