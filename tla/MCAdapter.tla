------------------------------- MODULE MCAdapter -------------------------------
(***************************************************************************)
(* Two clients, of one adapter or of two, one of which keeps raw text.     *)
(***************************************************************************)
EXTENDS GraphAdapter, TLC

CONSTANTS c1, c2

MCAdapters == {[name |-> "default", persistRawText |-> FALSE],
               [name |-> "raw", persistRawText |-> TRUE]}

Run1 == RunId("acme", "k1")
Run2 == RunId("globex", "k2")
Art1 == ArtifactId(Run1, "h1")
Chk1 == ChunkId(Run1, "h1", 1)
Out1 == OutputId(Run1, "o1")
Clm1 == ClaimId(Run1, Out1, 1)
Vrd1 == VerdictId(Run1, Clm1, PolicyId("acme", [name |-> "default", version |-> "1"]))
Chk2 == ChunkId(Run2, "h2", 1)

Edge(type, from, to) == createEdge(TenantOf(from), type, from, to)

Texts(ids) == [id \in ids |-> IF KindOf(id) \in {"Chunk", "Claim", "Output"}
                              THEN [text |-> "what it says"] ELSE NoAttributes]

\* A run's chunk; its claim and a verdict, with the chunk.
Retrieved == [nodes |-> Texts({Run1, Art1, Chk1}), edges |-> {Edge("SPLIT_INTO", Art1, Chk1)}]
Claimed   == [nodes |-> Texts({Run1, Chk1, Clm1}) @@ (Vrd1 :> [reasonCodes |-> "none"]),
              edges |-> {Edge("SUPPORTED_BY", Clm1, Chk1)}]

\* Another tenant's, and one whose kind there is not.
Foreign == [nodes |-> Texts({Run2, Chk2}), edges |-> {}]
Corrupt == [nodes |-> Texts({Run1}) @@ (<<"Wormhole", Run1, "x">> :> NoAttributes),
            edges |-> {}]

\* The claim in a graph that leaves its chunk to another.
ClaimedApart == [nodes |-> Texts({Run1, Clm1}), edges |-> {Edge("SUPPORTED_BY", Clm1, Chk1)}]

MCGraphs     == {Retrieved, Claimed, Foreign, Corrupt}
MCOpenGraphs == {Retrieved, ClaimedApart}

\* The graphs of the run Adapter are what the theorems ask for.
ASSUME WhatTheoremsAsk ==
  Graphs = MCGraphs => ClosedGraphs /\ WellFormedGraphs /\ SameAttributes

ClientSymmetry == Permutations({c1, c2})
===============================================================================
