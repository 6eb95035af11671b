------------------------------ MODULE GraphAdapter ------------------------------
(***************************************************************************)
(* The Neo4j adapter (packages/neo4j/src/index.ts): clients that ingest    *)
(* graphs and read snapshots through adapters that share one database.     *)
(* Every query is awaited, so that clients interleave between queries; a   *)
(* query may fail, and a write that was committed may look as if it had.   *)
(***************************************************************************)
EXTENDS Ledger, Naturals

CONSTANTS
  Clients,   \* concurrent callers
  Adapters,  \* instances: [name, persistRawText]
  Tenants,   \* who may call
  Graphs     \* what may be ingested: [nodes, edges]

\* A graph is a record, and so are the attributes of a node.
ASSUME GraphsAssumption ==
  \A graph \in Graphs :
    /\ DOMAIN graph = {"nodes", "edges"}
    /\ \A id \in DOMAIN graph.nodes :
         graph.nodes[id] = [a \in DOMAIN graph.nodes[id] |-> graph.nodes[id][a]]

VARIABLES
  db,            \* the committed graph
  schema,        \* the statements of initialise that have taken effect
  schemaReady,   \* #schemaReady of each adapter
  adapter,       \* the adapter each client uses
  pc,            \* where each client's call stands
  request,       \* [tenant, graph] of each client's call; of a read, no graph
  statement,     \* the statement of initialise a client has come to
  nodesRead,     \* what the first query of a snapshot returned
  answer,        \* its kind: "none", "stored", "refused", "failed", "read"
  acknowledged,  \* history: the ingests that have been acknowledged
  owed           \* history: those that had been when a client's call began

callVars    == <<pc, request, statement, nodesRead, answer>>
historyVars == <<acknowledged, owed>>
vars        == <<db, schema, schemaReady, adapter, callVars, historyVars>>

LAST_STATEMENT == 5
NoGraph   == EmptyStore
NoRequest == [tenant |-> "none", graph |-> NoGraph]
Answer(kind) == [kind |-> kind]
REDACTED == "[redacted]"

REDACTABLE_ATTRIBUTES(kind) == IF kind \in {"Chunk", "Claim", "Output"} THEN {"text"} ELSE {}

\* A node as an adapter records it.
redactNodeForStorage(id, attributes) ==
  [a \in DOMAIN attributes |->
     IF a \in REDACTABLE_ATTRIBUTES(KindOf(id)) THEN REDACTED ELSE attributes[a]]

Recorded(a, graph) ==
  IF a.persistRawText THEN graph
  ELSE [graph EXCEPT !.nodes = [id \in DOMAIN graph.nodes |->
                                  redactNodeForStorage(id, graph.nodes[id])]]

\* Attributes whose values the database cannot hold go there as JSON, and come
\* back from it as they were.
JSON_ENCODED_FIELDS == {"reasonCodes"}

toNodeParameter(attributes) ==
  [a \in DOMAIN attributes |->
     IF a \in JSON_ENCODED_FIELDS THEN [json |-> attributes[a]] ELSE attributes[a]]

fromStoredNode(stored) ==
  [a \in DOMAIN stored |-> IF a \in JSON_ENCODED_FIELDS THEN stored[a].json ELSE stored[a]]

Sent(a, graph) ==
  LET nodes == Recorded(a, graph).nodes
  IN  [graph EXCEPT !.nodes = [id \in DOMAIN nodes |-> toNodeParameter(nodes[id])]]

assertTenantScoped(tenant, graph) ==
  /\ \A id \in DOMAIN graph.nodes : TenantOf(id) = tenant
  /\ \A e \in graph.edges : e.tenant = tenant

\* Of a graph's structure only the kinds of its nodes are looked at.
assertStructurallySound(graph) == \A id \in DOMAIN graph.nodes : KindOf(id) \in NodeKinds

\* mergeNodes that sets the attributes of a node it creates, and no others.
mergeNodes_on_create(nodes, new) == recordOver(new, nodes)

\* MERGE of the nodes, SET n += node.properties: attributes that the new
\* recording does not have stay.
mergeNodes(nodes, new) ==
  recordOver(nodes, [id \in DOMAIN new |->
                       IF id \in DOMAIN nodes THEN recordOver(nodes[id], new[id]) ELSE new[id]])

\* MATCH of both ends, MERGE of the edge: an edge without its ends is dropped.
matchEdges(nodes, new) ==
  {e \in new : /\ {e.from, e.to} \subseteq DOMAIN nodes
               /\ TenantOf(e.from) = e.tenant /\ TenantOf(e.to) = e.tenant}

\* transaction with its two statements in the other order.
transaction_edges_first(graph) ==
  [nodes |-> mergeNodes(db.nodes, graph.nodes),
   edges |-> db.edges \cup matchEdges(db.nodes, graph.edges)]

\* The two statements of the write transaction.
transaction(graph) ==
  LET nodes == mergeNodes(db.nodes, graph.nodes)
  IN  [nodes |-> nodes, edges |-> db.edges \cup matchEdges(nodes, graph.edges)]

Init ==
  /\ db = EmptyStore /\ schema = {} /\ schemaReady = [a \in Adapters |-> FALSE]
  /\ adapter \in [Clients -> Adapters]
  /\ pc = [c \in Clients |-> "idle"]
  /\ request = [c \in Clients |-> NoRequest]
  /\ statement = [c \in Clients |-> 0]
  /\ nodesRead = [c \in Clients |-> <<>>]
  /\ answer = [c \in Clients |-> Answer("none")]
  /\ acknowledged = {} /\ owed = [c \in Clients |-> {}]

\* Where a call goes on once the schema is there.
AfterInitialise(c) == IF request[c].graph = NoGraph THEN "readingNodes" ELSE "writing"

\* The synchronous beginning of a call, up to the first query of initialise,
\* or past it where this adapter has seen the schema.
Begin(c, tenant, graph) ==
  /\ request' = [request EXCEPT ![c] = [tenant |-> tenant, graph |-> graph]]
  /\ IF schemaReady[adapter[c]]
     THEN pc' = [pc EXCEPT ![c] = AfterInitialise(c)'] /\ UNCHANGED statement
     ELSE /\ pc' = [pc EXCEPT ![c] = "initialising"]
          /\ statement' = [statement EXCEPT ![c] = 1]
  /\ answer' = [answer EXCEPT ![c] = Answer("none")]
  /\ UNCHANGED <<db, schema, schemaReady, adapter, nodesRead, acknowledged>>

\* A call returns, and its frame is gone.
Return(c, what) ==
  /\ pc' = [pc EXCEPT ![c] = "idle"]
  /\ request' = [request EXCEPT ![c] = NoRequest]
  /\ statement' = [statement EXCEPT ![c] = 0]
  /\ nodesRead' = [nodesRead EXCEPT ![c] = <<>>]
  /\ answer' = [answer EXCEPT ![c] = what]

CallIngest(c, tenant, graph) ==
  /\ pc[c] = "idle"
  /\ IF assertTenantScoped(tenant, graph) /\ assertStructurallySound(graph)
     THEN Begin(c, tenant, graph)
     ELSE /\ Return(c, Answer("refused"))
          /\ UNCHANGED <<db, schema, schemaReady, adapter, acknowledged>>
  /\ owed' = [owed EXCEPT ![c] = {}]

CallSnapshot(c, tenant) ==
  /\ pc[c] = "idle"
  /\ Begin(c, tenant, NoGraph)
  /\ owed' = [owed EXCEPT ![c] = {ingest \in acknowledged : ingest.tenant = tenant}]

\* CreateSchema that believes in the schema from its first statement on.
CreateSchema_early(c) ==
  /\ pc[c] = "initialising"
  /\ schema' = schema \cup {statement[c]}
  /\ schemaReady' = [schemaReady EXCEPT ![adapter[c]] = TRUE]
  /\ IF statement[c] = LAST_STATEMENT
     THEN /\ pc' = [pc EXCEPT ![c] = AfterInitialise(c)]
          /\ statement' = [statement EXCEPT ![c] = 0]
     ELSE statement' = [statement EXCEPT ![c] = @ + 1] /\ UNCHANGED pc
  /\ UNCHANGED <<db, adapter, request, nodesRead, answer, historyVars>>

\* One statement of initialise returns; each is a transaction of its own.
CreateSchema(c) ==
  /\ pc[c] = "initialising"
  /\ schema' = schema \cup {statement[c]}
  /\ IF statement[c] = LAST_STATEMENT
     THEN /\ schemaReady' = [schemaReady EXCEPT ![adapter[c]] = TRUE]
          /\ pc' = [pc EXCEPT ![c] = AfterInitialise(c)]
          /\ statement' = [statement EXCEPT ![c] = 0]
     ELSE /\ statement' = [statement EXCEPT ![c] = @ + 1]
          /\ UNCHANGED <<schemaReady, pc>>
  /\ UNCHANGED <<db, adapter, request, nodesRead, answer, historyVars>>

\* The transaction of executeWrite commits.  Before that it may be rolled back
\* and run again any number of times, which changes nothing.
Commit(c) ==
  /\ pc[c] = "writing"
  /\ db' = transaction(Sent(adapter[c], request[c].graph))
  /\ pc' = [pc EXCEPT ![c] = "committed"]
  /\ UNCHANGED <<schema, schemaReady, adapter, request, statement, nodesRead, answer, historyVars>>

\* The commit is not acknowledged, and the driver runs the work again.
Retry(c) ==
  /\ pc[c] = "committed"
  /\ pc' = [pc EXCEPT ![c] = "writing"]
  /\ UNCHANGED <<db, schema, schemaReady, adapter, request, statement, nodesRead, answer,
                 historyVars>>

Acknowledge(c) ==
  /\ pc[c] = "committed"
  /\ Return(c, Answer("stored"))
  /\ acknowledged' = acknowledged \cup {request[c]}
  /\ UNCHANGED <<db, schema, schemaReady, adapter, owed>>

nodesOf(tenant) ==
  [id \in {n \in DOMAIN db.nodes : TenantOf(n) = tenant} |-> fromStoredNode(db.nodes[id])]

edgesOf(tenant) == {e \in db.edges : e.tenant = tenant}

ReadNodes(c) ==
  /\ pc[c] = "readingNodes"
  /\ nodesRead' = [nodesRead EXCEPT ![c] = nodesOf(request[c].tenant)]
  /\ pc' = [pc EXCEPT ![c] = "readingEdges"]
  /\ UNCHANGED <<db, schema, schemaReady, adapter, request, statement, answer, historyVars>>

\* The second query of a snapshot, in a session of its own.
ReadEdges(c) ==
  /\ pc[c] = "readingEdges"
  /\ Return(c, [kind |-> "read", nodes |-> nodesRead[c], edges |-> edgesOf(request[c].tenant)])
  /\ UNCHANGED <<db, schema, schemaReady, adapter, historyVars>>

\* A query fails for good, and the call with it; one of initialise may have
\* taken effect all the same, and so may a write that looks failed.
Fail(c) ==
  /\ pc[c] # "idle"
  /\ schema' \in {schema, IF pc[c] = "initialising" THEN schema \cup {statement[c]} ELSE schema}
  /\ Return(c, Answer("failed"))
  /\ UNCHANGED <<db, schemaReady, adapter, historyVars>>

Next ==
  \E c \in Clients :
    \/ \E tenant \in Tenants, graph \in Graphs : CallIngest(c, tenant, graph)
    \/ \E tenant \in Tenants : CallSnapshot(c, tenant)
    \/ CreateSchema(c) \/ Commit(c) \/ Retry(c) \/ Acknowledge(c)
    \/ ReadNodes(c) \/ ReadEdges(c) \/ Fail(c)

Spec == Init /\ [][Next]_vars

-------------------------------------------------------------------------------
TypeOK ==
  /\ schema \subseteq 1 .. LAST_STATEMENT
  /\ adapter \in [Clients -> Adapters] /\ schemaReady \in [Adapters -> BOOLEAN]
  /\ \A c \in Clients :
       /\ pc[c] \in {"idle", "initialising", "writing", "committed", "readingNodes", "readingEdges"}
       /\ pc[c] # "idle" => request[c] \in [tenant : Tenants, graph : Graphs \cup {NoGraph}]
       /\ statement[c] \in 0 .. LAST_STATEMENT
       /\ DOMAIN nodesRead[c] \subseteq DOMAIN db.nodes

\* Nothing is written before the uniqueness constraints that keep concurrent
\* MERGEs from making two nodes of one id: whichever adapter made them, and
\* however an earlier call of initialise failed.
ConstraintsBeforeWrites == db # EmptyStore => schema = 1 .. LAST_STATEMENT

\* What an acknowledged ingest wrote is in every snapshot begun afterwards,
\* whatever other clients did, failed at or repeated.  ("A stored graph comes
\* back canonically identical to what was written.")
AcknowledgedIsRead ==
  \A c \in Clients : answer[c].kind = "read" =>
    \A ingest \in owed[c] :
      /\ DOMAIN ingest.graph.nodes \subseteq DOMAIN answer[c].nodes
      /\ ingest.graph.edges \subseteq answer[c].edges

\* Through failures, retries and interleavings the database changes only as
\* the in-memory reference does when it ingests a whole graph.
Contract == INSTANCE MemoryAdapter WITH
  store  <- [nodes |-> [id \in DOMAIN db.nodes |-> fromStoredNode(db.nodes[id])],
             edges |-> db.edges],
  Graphs <- {Recorded(a, graph) : a \in Adapters, graph \in Graphs}

ImplementsReference == Contract!Spec

-------------------------------------------------------------------------------
\* What the theorems ask of the graphs.  For an acknowledged one to be read back
\* whole: every edge comes with both its ends.  (The run AdapterOpen shows why.)
ClosedGraphs == \A graph \in Graphs : Dangling(graph) = {}

\* The graphs that some tenant may ingest.
Accepted ==
  {graph \in Graphs : /\ assertStructurallySound(graph)
                      /\ \E tenant \in Tenants : assertTenantScoped(tenant, graph)}

\* For the database to follow the reference: each of them is a closed and
\* well-formed graph, as buildGraph makes it, ...
WellFormedGraphs == \A graph \in Accepted : Dangling(graph) = {} /\ loadable(graph)

\* ... and a node has the same attributes, of whatever values, in every graph it
\* is in, since SET n += keeps those a new recording leaves out.
SameAttributes ==
  \A g, h \in Accepted : \A id \in DOMAIN g.nodes \cap DOMAIN h.nodes :
    DOMAIN g.nodes[id] = DOMAIN h.nodes[id]
===============================================================================
