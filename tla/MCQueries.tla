------------------------------- MODULE MCQueries -------------------------------
(***************************************************************************)
(* A source, two artifacts, their chunks, a claim on each and the output   *)
(* of one run; a second run that the first may derive from; and a source   *)
(* of another tenant.  Each document holds both ends of its edges.         *)
(***************************************************************************)
EXTENDS LineageQueries

Run1 == RunId("acme", "k1")
Run2 == RunId("acme", "k2")
Src  == SourceId("acme", "api", "tool")
Art1 == ArtifactId(Run1, "h1")
Art2 == ArtifactId(Run1, "h2")
Chk1 == ChunkId(Run1, "h1", 1)
Chk2 == ChunkId(Run1, "h2", 2)
Chk3 == ChunkId(Run2, "h3", 1)
Out1 == OutputId(Run1, "o1")
Out2 == OutputId(Run2, "o2")
Clm1 == ClaimId(Run1, Out1, 1)
Clm2 == ClaimId(Run2, Out2, 1)
Foreign == SourceId("globex", "api", "tool")

Attributes(id) ==
  IF KindOf(id) = "Output" THEN [delivered |-> id = Out1] ELSE NoAttributes

Edge(type, from, to) == createEdge("acme", type, from, to)

\* A document of edges with the nodes they join, and others.
Holding(edges, others) ==
  [nodes |-> [id \in UNION {{e.from, e.to} : e \in edges} \cup others |-> Attributes(id)],
   edges |-> edges]

Supported ==
  Holding({Edge("PRODUCED", Src, Art1), Edge("SPLIT_INTO", Art1, Chk1),
           Edge("SUPPORTED_BY", Clm1, Chk1), Edge("EXTRACTED_FROM", Clm1, Out1)}, {Run1})

SecondSource ==
  Holding({Edge("PRODUCED", Src, Art2), Edge("SPLIT_INTO", Art2, Chk2),
           Edge("SUPPORTED_BY", Clm1, Chk2)}, {Run1})

OtherRun ==
  Holding({Edge("SUPPORTED_BY", Clm2, Chk3), Edge("EXTRACTED_FROM", Clm2, Out2)}, {Run2})

\* Derivations of the two artifacts that close a circle, each sound alone;
\* and one between the runs.
Derived1 == Holding({Edge("DERIVED_FROM", Art1, Art2)}, {})
Derived2 == Holding({Edge("DERIVED_FROM", Art2, Art1)}, {})
AcrossRuns == Holding({Edge("DERIVED_FROM", Chk3, Chk1)}, {})

\* A support across runs, and a product of another tenant's source.
Stray   == Holding({Edge("SUPPORTED_BY", Clm2, Chk1)}, {})
Smuggle == Holding({Edge("PRODUCED", Foreign, Art1)}, {})

MCDocuments == {Supported, SecondSource, OtherRun, Derived1, Derived2, AcrossRuns,
                Stray, Smuggle}

Question(target, origin, maxPaths, maxTrail, maxNodes, maxDepth) ==
  [tenant |-> "acme", target |-> target, origin |-> origin, maxPaths |-> maxPaths,
   maxTrail |-> maxTrail, maxNodes |-> maxNodes, maxDepth |-> maxDepth]

MCQueries ==
  {Question(target, origin, b[1], b[2], b[3], b[4]) :
     target \in {Clm1, Out1, Out2, Foreign}, origin \in {Src, Art1, Chk1, Foreign},
     b \in {<<100, 64, 100, 64>>, <<2, 4, 4, 2>>, <<1, 3, 6, 4>>}}
\* What the theorems ask of documents and questions is so of these.
ASSUME WhatTheoremsAsk ==
  FiniteDocuments /\ FiniteEdges /\ ClosedDocuments /\ RunsNamed /\ DepthsAreNumbers
===============================================================================
