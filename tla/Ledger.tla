-------------------------------- MODULE Ledger --------------------------------
(***************************************************************************)
(* The lineage ledger (packages/graph): the graph one run's audit becomes, *)
(* what is checked of a graph, and what loading one does to a store.       *)
(*                                                                         *)
(* An id is derived from the kind, the tenant and the identity fields of a *)
(* node; here it is the tuple of those, so that equal ids mean what equal  *)
(* hashes mean.  The kinds that belong to a run hold the run's id, and the *)
(* tenant through it.  Everything else about a node is an attribute: a     *)
(* graph is the function from its ids to their attributes, and a set of    *)
(* edges.  An edge has no attributes.                                      *)
(***************************************************************************)
EXTENDS Provenance, FiniteSets

\* A content hash stands for the content.
contentDigest(content) == content

\* PolicyId by name alone.
PolicyId_unversioned(tenant, policy) == <<"Policy", tenant, policy.name>>

RunId(tenant, runKey)           == <<"Run", tenant, runKey>>
PolicyId(tenant, policy)        == <<"Policy", tenant, policy.name, policy.version>>
SourceId(tenant, uri, kind)     == <<"Source", tenant, uri, kind>>
StepId(run, index)              == <<"Step", run, index>>
ArtifactId(run, hash)           == <<"Artifact", run, hash>>
ChunkId(run, hash, ordinal)     == <<"Chunk", run, hash, ordinal>>
OutputId(run, hash)             == <<"Output", run, hash>>
ClaimId(run, output, span)      == <<"Claim", run, output, span>>
VerdictId(run, target, policy)  == <<"Verdict", run, target, policy>>

KindOf(id) == id[1]

NodeKinds == {"Source", "Run", "Step", "Artifact", "Chunk", "Claim", "Policy", "Verdict",
              "Output"}

\* The run an element belongs to; sources and policies outlive one.
NoRun == <<>>
runOf(id) == IF KindOf(id) \in {"Source", "Policy"} THEN NoRun
             ELSE IF KindOf(id) = "Run" THEN id ELSE id[2]

TenantOf(id) == IF KindOf(id) \in {"Run", "Policy", "Source"} THEN id[2] ELSE id[2][2]

sourceKindForChannel(channel) ==
  IF channel = "RETRIEVED_DOC" THEN "retrieval"
  ELSE IF channel = "TOOL_RESULT" THEN "tool"
  ELSE IF channel = "USER_MESSAGE" THEN "user"
  ELSE IF channel = "CACHE" THEN "cache"
  ELSE IF channel \in {"SYSTEM_ALERT", "DIAGNOSTIC_LOG"} THEN "system"
  ELSE "unknown"

decisionForGrounding(status) ==
  IF status = "grounded" THEN "allow"
  ELSE IF status = "unverifiable" THEN "quarantine" ELSE "block"

RETRIEVE_STEP == 0
ASSEMBLE_STEP == 1
GENERATE_STEP == 2

Earliest(positions) == CHOOSE i \in positions : \A k \in positions : i <= k
Latest(positions)   == CHOOSE i \in positions : \A k \in positions : k <= i

\* The ids in the graph of an audit
\*   [tenant, runKey, policy, output, delivered,
\*    chunks: sequence of [chunk, admitted, decision],
\*    claims: sequence of [status, method, supporting]].
\* A claim's span is its position in the output.
RunIn(audit)        == RunId(audit.tenant, audit.runKey)
PolicyIn(audit)     == PolicyId(audit.tenant, audit.policy)
StepIn(audit, step) == StepId(RunIn(audit), step)
OutputIn(audit)     == OutputId(RunIn(audit), contentDigest(audit.output))
HashOf(audit, i)    == contentDigest(audit.chunks[i].chunk.text)
SourceIn(audit, i)  == SourceId(audit.tenant, audit.chunks[i].chunk.source,
                                sourceKindForChannel(audit.chunks[i].chunk.channel))
ArtifactIn(audit, i) == ArtifactId(RunIn(audit), HashOf(audit, i))
ChunkIn(audit, i)    == ChunkId(RunIn(audit), HashOf(audit, i), i)
ClaimIn(audit, i)    == ClaimId(RunIn(audit), OutputIn(audit), i)
VerdictIn(audit, target) == VerdictId(RunIn(audit), target, PolicyIn(audit))

\* ChunksIn that leaves the refused chunks out of the record.
ChunksIn_admitted(audit) ==
  {ChunkIn(audit, i) : i \in {k \in DOMAIN audit.chunks : audit.chunks[k].admitted}}

ChunksIn(audit) == {ChunkIn(audit, i) : i \in DOMAIN audit.chunks}
ClaimsIn(audit) == {ClaimIn(audit, i) : i \in DOMAIN audit.claims}

IdsIn(audit) ==
  {RunIn(audit), PolicyIn(audit), OutputIn(audit)}
    \cup {StepIn(audit, s) : s \in {RETRIEVE_STEP, ASSEMBLE_STEP, GENERATE_STEP}}
    \cup {SourceIn(audit, i) : i \in DOMAIN audit.chunks}
    \cup {ArtifactIn(audit, i) : i \in DOMAIN audit.chunks}
    \cup ChunksIn(audit) \cup ClaimsIn(audit)
    \cup {VerdictIn(audit, target) : target \in ChunksIn(audit) \cup ClaimsIn(audit)}

\* VerdictOn that records every verdict as enforced.
VerdictOn_enforced(audit, target) ==
  IF KindOf(target) = "Chunk"
  THEN [decision |-> audit.chunks[target[4]].decision, method |-> "deterministic",
        monitored |-> FALSE]
  ELSE [decision  |-> decisionForGrounding(audit.claims[target[4]].status),
        method    |-> "deterministic", monitored |-> FALSE]

VerdictOn(audit, target) ==
  LET monitored == audit.policy.mode = "monitor"
  IN  IF KindOf(target) = "Chunk"
      THEN [decision |-> audit.chunks[target[4]].decision, method |-> "deterministic",
            monitored |-> monitored]
      ELSE LET grounding == audit.claims[target[4]]
           IN  [decision  |-> decisionForGrounding(grounding.status),
                method    |-> IF grounding.method = "judge" THEN "judge" ELSE "deterministic",
                monitored |-> monitored]

\* Where two chunks share an artifact, the first one's status is recorded.
ArtifactStatus(audit, hash) ==
  audit.chunks[Earliest({i \in DOMAIN audit.chunks : HashOf(audit, i) = hash})].chunk.status

NoAttributes == [kind |-> "plain"]

AttributesIn(audit, id) ==
  IF KindOf(id) = "Policy"
  THEN [mode |-> audit.policy.mode, contentHash |-> audit.policy.contentHash]
  ELSE IF KindOf(id) = "Output" THEN [delivered |-> audit.delivered]
  ELSE IF KindOf(id) = "Artifact" THEN [status |-> ArtifactStatus(audit, id[3])]
  ELSE IF KindOf(id) = "Chunk"
  THEN LET entry == audit.chunks[id[4]]
       IN  [admitted |-> entry.admitted, channel |-> entry.chunk.channel,
            tier |-> entry.chunk.tier, status |-> entry.chunk.status]
  ELSE IF KindOf(id) = "Verdict" THEN VerdictOn(audit, id[3])
  ELSE NoAttributes

\* The chunks that entered context.
AdmittedIn(audit) == {i \in DOMAIN audit.chunks : audit.chunks[i].admitted}

\* NamedBy widened to every chunk that entered context.
NamedBy_all(audit, supporting) == {ChunkIn(audit, i) : i \in AdmittedIn(audit)}

\* The chunk nodes a grounding's ids name.  Where two chunks of the run have
\* one id, the later one has taken it.
NamedBy(audit, supporting) ==
  {ChunkIn(audit, Latest({k \in DOMAIN audit.chunks : audit.chunks[k].chunk.id = id})) :
     id \in {audit.chunks[k].chunk.id : k \in DOMAIN audit.chunks} \cap supporting}

\* An edge is its tenant, its type and its ends: its id derives from them.
createEdge(tenant, type, from, to) == [tenant |-> tenant, type |-> type, from |-> from, to |-> to]

EdgesIn(audit) ==
  LET Edge(type, from, to) == createEdge(audit.tenant, type, from, to)
      Step(s) == StepIn(audit, s)
      All == DOMAIN audit.chunks
  IN  {Edge("PRODUCED", RunIn(audit), Step(s)) :
         s \in {RETRIEVE_STEP, ASSEMBLE_STEP, GENERATE_STEP}}
      \cup {Edge("PRODUCED", SourceIn(audit, i), ArtifactIn(audit, i)) : i \in All}
      \cup {Edge("PRODUCED", Step(RETRIEVE_STEP), ArtifactIn(audit, i)) : i \in All}
      \cup {Edge("SPLIT_INTO", ArtifactIn(audit, i), ChunkIn(audit, i)) : i \in All}
      \cup {Edge("CONSUMED", Step(ASSEMBLE_STEP), ChunkIn(audit, i)) : i \in AdmittedIn(audit)}
      \cup {Edge("INCLUDED_IN", ChunkIn(audit, i), Step(ASSEMBLE_STEP)) : i \in AdmittedIn(audit)}
      \cup {Edge("PRODUCED", Step(GENERATE_STEP), OutputIn(audit))}
      \cup {Edge("EXTRACTED_FROM", claim, OutputIn(audit)) : claim \in ClaimsIn(audit)}
      \cup {Edge("EVALUATED_BY", subject, PolicyIn(audit)) :
              subject \in ChunksIn(audit) \cup ClaimsIn(audit) \cup {OutputIn(audit)}}
      \cup {Edge("DECIDES", VerdictIn(audit, target), target) :
              target \in ChunksIn(audit) \cup ClaimsIn(audit)}
      \cup UNION {{Edge("SUPPORTED_BY", ClaimIn(audit, i), chunk) :
                     chunk \in NamedBy(audit, audit.claims[i].supporting)} :
                  i \in DOMAIN audit.claims}

buildGraph(audit) ==
  [nodes |-> [id \in IdsIn(audit) |-> AttributesIn(audit, id)], edges |-> EdgesIn(audit)]

-------------------------------------------------------------------------------
\* Which kinds an edge of each type may join.
EDGE_MATRIX ==
  [PRODUCED        |-> {<<"Run", "Step">>, <<"Step", "Artifact">>, <<"Step", "Output">>,
                        <<"Source", "Artifact">>},
   CONSUMED        |-> {<<"Step", "Chunk">>, <<"Step", "Artifact">>},
   DERIVED_FROM    |-> {<<"Artifact", "Artifact">>, <<"Artifact", "Source">>,
                        <<"Chunk", "Chunk">>},
   SPLIT_INTO      |-> {<<"Artifact", "Chunk">>},
   EXTRACTED_FROM  |-> {<<"Claim", "Output">>},
   SUPPORTED_BY    |-> {<<"Claim", "Chunk">>},
   CONTRADICTED_BY |-> {<<"Claim", "Chunk">>},
   EVALUATED_BY    |-> {<<"Chunk", "Policy">>, <<"Claim", "Policy">>, <<"Output", "Policy">>},
   DECIDES         |-> {<<"Verdict", "Chunk">>, <<"Verdict", "Claim">>,
                        <<"Verdict", "Output">>},
   INCLUDED_IN     |-> {<<"Chunk", "Step">>}]

RUN_LOCAL_EDGE_TYPES == DOMAIN EDGE_MATRIX \ {"DERIVED_FROM", "EVALUATED_BY"}

Dangling(graph) ==
  {e \in graph.edges : ~({e.from, e.to} \subseteq DOMAIN graph.nodes)}

\* IllFormed that looks at the tenant of one end.
IllFormed_tenant(graph) ==
  {e \in graph.edges \ Dangling(graph) :
     \/ <<KindOf(e.from), KindOf(e.to)>> \notin EDGE_MATRIX[e.type]
     \/ TenantOf(e.to) # e.tenant}

\* checkEdge, of the edges both of whose ends are there.
IllFormed(graph) ==
  {e \in graph.edges \ Dangling(graph) :
     \/ <<KindOf(e.from), KindOf(e.to)>> \notin EDGE_MATRIX[e.type]
     \/ TenantOf(e.from) # e.tenant \/ TenantOf(e.to) # e.tenant
     \/ /\ e.type \in RUN_LOCAL_EDGE_TYPES
        /\ NoRun \notin {runOf(e.from), runOf(e.to)}
        /\ runOf(e.from) # runOf(e.to)}

OfKind(graph, kind) == {id \in DOMAIN graph.nodes : KindOf(id) = kind}

\* The chunks the effective policy refused.
Refused(graph) ==
  {c \in OfKind(graph, "Chunk") :
     \/ ~graph.nodes[c].admitted
     \/ \E v \in OfKind(graph, "Verdict") :
          v[3] = c /\ ~graph.nodes[v].monitored /\ graph.nodes[v].decision # "allow"}

SupportFromBlocked(graph) ==
  {e \in graph.edges : e.type = "SUPPORTED_BY" /\ e.to \in Refused(graph)}

\* Delivered claims with neither support nor a verdict that explains them.
UnsupportedDelivery(graph) ==
  {c \in OfKind(graph, "Claim") :
     /\ c[3] \in DOMAIN graph.nodes /\ graph.nodes[c[3]].delivered
     /\ ~\E e \in graph.edges : e.type = "SUPPORTED_BY" /\ e.from = c
     /\ ~\E v \in OfKind(graph, "Verdict") :
          v[3] = c /\ (graph.nodes[v].decision = "allow" \/ graph.nodes[v].monitored)}

ACYCLIC_EDGE_TYPES == {"DERIVED_FROM", "SPLIT_INTO"}

\* checkAcyclic: edges that each lead to another of them close a cycle.
Cyclic(graph) ==
  \E loop \in SUBSET {e \in graph.edges \ Dangling(graph) : e.type \in ACYCLIC_EDGE_TYPES} :
    loop # {} /\ \A e \in loop : \E f \in loop : f.from = e.to

\* Only failures of structure and scope keep a graph out of a store, and a
\* dangling edge is none of them.
loadable(graph) == IllFormed(graph) = {} /\ ~Cyclic(graph)

EmptyStore == [nodes |-> <<>>, edges |-> {}]

\* What is newly recorded takes the place of what was recorded under its id.
recordOver(older, newer) ==
  [id \in DOMAIN older \cup DOMAIN newer |-> IF id \in DOMAIN newer THEN newer[id] ELSE older[id]]

\* The latest attributes recorded under an id replace the earlier ones.
load(store, graph) ==
  IF loadable(graph)
  THEN [nodes |-> recordOver(store.nodes, graph.nodes), edges |-> store.edges \cup graph.edges]
  ELSE store
===============================================================================
