------------------------------ MODULE ImpactSearch ------------------------------
(***************************************************************************)
(* impact (packages/graph/src/impact.ts): what is recorded as depending on *)
(* a node, by a breadth-first search, level by level.                      *)
(***************************************************************************)
EXTENDS Lineage, FiniteSetsExt

VARIABLES
  impactPc,        \* "idle", "levelling", "expanding", "returned" or "thrown"
  distances,       \* per node reached, the edges traversed from the origin
  queue,           \* the nodes of this level still to be expanded
  nextLevel,       \* the nodes found at the next one
  depth,           \* the distance of the nodes found now
  impactTruncated  \* a bound has stopped the search

impactVars == <<impactPc, distances, queue, nextLevel, depth, impactTruncated>>

ImpactInit ==
  /\ impactPc = "idle" /\ distances = <<>> /\ queue = {} /\ nextLevel = {}
  /\ depth = 0 /\ impactTruncated = FALSE

Reached == DOMAIN distances

ImpactStart ==
  /\ impactPc = "idle"
  /\ IF hasNode(query.origin)
     THEN /\ impactPc' = "levelling"
          /\ distances' = [id \in {query.origin} |-> 0]
          /\ queue' = {query.origin}
     ELSE impactPc' = "thrown" /\ UNCHANGED <<distances, queue>>
  /\ UNCHANGED <<nextLevel, depth, impactTruncated>>

\* ImpactLevel that stops at its depth without a word.
ImpactLevel_silent ==
  /\ impactPc = "levelling"
  /\ IF queue = {} \/ depth >= query.maxDepth
     THEN impactPc' = "returned" /\ UNCHANGED depth
     ELSE impactPc' = "expanding" /\ depth' = depth + 1
  /\ nextLevel' = {}
  /\ UNCHANGED <<distances, queue, impactTruncated>>

\* The head of the search's loop.
ImpactLevel ==
  /\ impactPc = "levelling"
  /\ IF queue = {} \/ depth >= query.maxDepth
     THEN /\ impactPc' = "returned"
          /\ impactTruncated' = (queue # {})
          /\ UNCHANGED depth
     ELSE /\ impactPc' = "expanding"
          /\ depth' = depth + 1
          /\ UNCHANGED impactTruncated
  /\ nextLevel' = {}
  /\ UNCHANGED <<distances, queue>>

\* Unreached that finds a node again, farther away.
Unreached_again(id) == forwardNeighbours(id) \ {query.origin, id}

\* The neighbours of a node that have no distance yet.
Unreached(id) == forwardNeighbours(id) \ Reached

\* Each node found gets the distance of this level.
withDistance(found) ==
  [id \in Reached \cup found |-> IF id \in found THEN depth ELSE distances[id]]

Room == query.maxNodes - Cardinality(Reached)

\* One node of the level: all its neighbours are found, or as many as there
\* is room for, and then the search stops.
ImpactExpand ==
  /\ impactPc = "expanding"
  /\ \E id \in queue :
       IF Cardinality(Unreached(id)) <= Room
       THEN /\ distances' = withDistance(Unreached(id))
            /\ nextLevel' = nextLevel \cup Unreached(id)
            /\ queue' = queue \ {id}
            /\ UNCHANGED <<impactPc, impactTruncated>>
       ELSE /\ \E found \in kSubset(Room, Unreached(id)) : distances' = withDistance(found)
            /\ impactTruncated' = TRUE
            /\ impactPc' = "returned"
            /\ UNCHANGED <<queue, nextLevel>>
  /\ UNCHANGED depth

ImpactEndLevel ==
  /\ impactPc = "expanding"
  /\ queue = {}
  /\ queue' = nextLevel
  /\ impactPc' = "levelling"
  /\ UNCHANGED <<distances, nextLevel, depth, impactTruncated>>

ImpactNext == ImpactStart \/ ImpactLevel \/ ImpactExpand \/ ImpactEndLevel

\* The result: the nodes of a kind that depend on the origin.
affected(kind) == {id \in Reached \ {query.origin} : hasNode(id) /\ KindOf(id) = kind}

deliveredOutputs == {id \in affected("Output") : store.nodes[id].delivered}

\* A run is affected when anything inside it is, at the smallest distance.
membersReached(run) ==
  {id \in Reached \ {query.origin} : hasNode(id) /\ KindOf(id) # "Run" /\ runOf(id) = run}

affectedRuns ==
  LET runs == {run \in DOMAIN store.nodes :
                 KindOf(run) = "Run" /\ hasNode(run) /\ membersReached(run) # {}}
  IN  [run \in runs |-> Min({distances[id] : id \in membersReached(run)})]
===============================================================================
