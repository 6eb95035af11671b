-------------------------------- MODULE Lineage --------------------------------
(***************************************************************************)
(* What is read of a store (packages/graph, store.ts), and the two tables  *)
(* that say which way an edge is walked: toward what a node rests on, and  *)
(* toward what rests on it.  A store returns edges in the order of their   *)
(* ids, which are hashes: here that is any order.                          *)
(***************************************************************************)
EXTENDS Ledger, Sequences

VARIABLES
  store,  \* the store that is read
  query   \* what is asked: [tenant, target, origin, maxPaths, maxTrail, maxNodes, maxDepth]

\* The node is there, and is this tenant's.
hasNode(id) == id \in DOMAIN store.nodes /\ TenantOf(id) = query.tenant

outgoing(id, type) ==
  {e \in store.edges : e.from = id /\ e.tenant = query.tenant /\ e.type = type}

incoming(id, type) ==
  {e \in store.edges : e.to = id /\ e.tenant = query.tenant /\ e.type = type}

Along(type, direction) == [type |-> type, direction |-> direction]

BACKWARD_STEPS ==
  {Along("EXTRACTED_FROM", "incoming"), Along("SUPPORTED_BY", "outgoing"),
   Along("SPLIT_INTO", "incoming"), Along("DERIVED_FROM", "outgoing"),
   Along("PRODUCED", "incoming")}

\* FORWARD_STEPS that walks a derivation the way it is written.
FORWARD_STEPS_derived ==
  {Along("PRODUCED", "outgoing"), Along("SPLIT_INTO", "outgoing"),
   Along("DERIVED_FROM", "outgoing"), Along("SUPPORTED_BY", "incoming"),
   Along("EXTRACTED_FROM", "outgoing")}

FORWARD_STEPS ==
  {Along("PRODUCED", "outgoing"), Along("SPLIT_INTO", "outgoing"),
   Along("DERIVED_FROM", "incoming"), Along("SUPPORTED_BY", "incoming"),
   Along("EXTRACTED_FROM", "outgoing")}

\* One step from a node: where it leads, and by which edge.
neighbours(id, steps) ==
  UNION {IF step.direction = "outgoing"
         THEN {[to |-> e.to, edge |-> e] : e \in outgoing(id, step.type)}
         ELSE {[to |-> e.from, edge |-> e] : e \in incoming(id, step.type)} : step \in steps}

backwardNeighbours(id) == neighbours(id, BACKWARD_STEPS)
forwardNeighbours(id)  == {n.to : n \in neighbours(id, FORWARD_STEPS)}
===============================================================================
