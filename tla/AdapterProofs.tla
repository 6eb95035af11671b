----------------------------- MODULE AdapterProofs -----------------------------
(***************************************************************************)
(* For any clients, adapters and graphs: why no write of the Neo4j adapter *)
(* goes ahead of its constraints, why what it acknowledges is read back,   *)
(* and why it implements the in-memory reference.  The first needs nothing *)
(* of the graphs; the others need what GraphAdapter says of them last.     *)
(***************************************************************************)
EXTENDS GraphAdapter, TLAPS

Places == {"idle", "initialising", "writing", "committed", "readingNodes", "readingEdges"}

All == 1 .. LAST_STATEMENT

\* Of a client: in initialise, the statements before its own have taken effect,
\* and past it all have.
ClientInv(c) ==
  /\ pc[c] # "idle" => request[c] \in [tenant : Tenants, graph : Graphs \cup {NoGraph}]
  /\ pc[c] = "initialising" => /\ statement[c] \in All
                               /\ \A k \in All : k < statement[c] => k \in schema
  /\ pc[c] \notin {"idle", "initialising"} => schema = All
  /\ DOMAIN nodesRead[c] \subseteq DOMAIN db.nodes

\* And of all together: an adapter that says the schema is ready is right.
Inv ==
  /\ schema \subseteq All
  /\ schemaReady \in [Adapters -> BOOLEAN]
  /\ adapter \in [Clients -> Adapters]
  /\ pc \in [Clients -> Places]
  /\ statement \in [Clients -> 0 .. LAST_STATEMENT]
  /\ DOMAIN request = Clients
  /\ DOMAIN nodesRead = Clients
  /\ \A a \in Adapters : schemaReady[a] => schema = All
  /\ \A c \in Clients : ClientInv(c)
  /\ db # EmptyStore => schema = All

\* The invariant holds of the empty database.
LEMMA InitInv == Init => Inv
<1> SUFFICES ASSUME Init PROVE Inv
  OBVIOUS
<1>1. DOMAIN EmptyStore.nodes = {}
  BY DEF EmptyStore
<1>2. \A c \in Clients : ClientInv(c)
  BY <1>1 DEF Init, ClientInv
<1>3. QED
  BY <1>2 DEF Init, Inv, Places, LAST_STATEMENT

\* A call that returns leaves no frame behind.
LEMMA ReturnStep ==
  ASSUME Inv, NEW c \in Clients, NEW what, Return(c, what),
         UNCHANGED <<db, schemaReady, adapter>>,
         schema' \in {schema, IF pc[c] = "initialising" THEN schema \cup {statement[c]} ELSE schema}
  PROVE  Inv'
<1>1. schema \subseteq schema' /\ schema' \subseteq All
  BY DEF Inv, ClientInv, All
<1>2. ASSUME schema = All PROVE schema' = All
  BY <1>1, <1>2
<1>3. ASSUME NEW d \in Clients PROVE ClientInv(d)'
  <2>1. CASE d = c
    <3>1. pc'[d] = "idle" /\ nodesRead'[d] = <<>>
      BY <2>1 DEF Inv, Return
    <3>2. QED
      BY <3>1 DEF ClientInv
  <2>2. CASE d # c
    <3>1. /\ pc'[d] = pc[d] /\ request'[d] = request[d]
          /\ statement'[d] = statement[d] /\ nodesRead'[d] = nodesRead[d]
      BY <2>2 DEF Inv, Return
    <3>2. ClientInv(d)
      BY DEF Inv
    <3>3. QED
      BY <1>1, <1>2, <3>1, <3>2 DEF ClientInv
  <2>3. QED
    BY <2>1, <2>2
<1>4. QED
  BY <1>1, <1>2, <1>3 DEF Inv, Return, Places, LAST_STATEMENT

\* The beginning of a call skips initialise only on the word of its adapter.
LEMMA BeginStep ==
  ASSUME Inv, NEW c \in Clients, NEW tenant \in Tenants, NEW graph \in Graphs \cup {NoGraph},
         Begin(c, tenant, graph)
  PROVE  Inv'
<1>1. ASSUME NEW d \in Clients PROVE ClientInv(d)'
  <2>0. ClientInv(d) /\ nodesRead' = nodesRead /\ db' = db /\ schema' = schema
    BY DEF Inv, Begin
  <2>1. CASE d = c
    <3>1. request'[d] = [tenant |-> tenant, graph |-> graph]
      BY <2>1 DEF Inv, Begin
    <3>2. CASE schemaReady[adapter[c]]
      <4>1. schema = All /\ pc'[d] \in {"readingNodes", "writing"}
        BY <2>1, <3>2 DEF Inv, Begin, AfterInitialise
      <4>2. QED
        BY <2>0, <3>1, <4>1 DEF ClientInv
    <3>3. CASE ~schemaReady[adapter[c]]
      <4>1. pc'[d] = "initialising" /\ statement'[d] = 1
        BY <2>1, <3>3 DEF Inv, Begin
      <4>2. QED
        BY <2>0, <3>1, <4>1 DEF ClientInv, All, LAST_STATEMENT
    <3>4. QED
      BY <3>2, <3>3
  <2>2. CASE d # c
    <3>1. /\ pc'[d] = pc[d] /\ request'[d] = request[d] /\ statement'[d] = statement[d]
      BY <2>2 DEF Inv, Begin
    <3>2. QED
      BY <2>0, <3>1 DEF ClientInv
  <2>3. QED
    BY <2>1, <2>2
<1>2. pc' \in [Clients -> Places] /\ statement' \in [Clients -> 0 .. LAST_STATEMENT]
  BY DEF Inv, Begin, AfterInitialise, Places, LAST_STATEMENT
<1>3. QED
  BY <1>1, <1>2 DEF Inv, Begin

\* Whoever runs the last statement has run the others, or seen them fail.
LEMMA CreateSchemaStep ==
  ASSUME Inv, NEW c \in Clients, CreateSchema(c)
  PROVE  Inv'
<1>0. /\ statement[c] \in All /\ \A k \in All : k < statement[c] => k \in schema
      /\ schema' = schema \cup {statement[c]} /\ schema' \subseteq All
  BY DEF Inv, ClientInv, CreateSchema
<1>1. ASSUME statement[c] = LAST_STATEMENT PROVE schema' = All
  <2>1. \A k \in All : k = LAST_STATEMENT \/ k < LAST_STATEMENT
    BY DEF All, LAST_STATEMENT
  <2>2. QED
    BY <1>0, <1>1, <2>1
<1>2. ASSUME NEW d \in Clients PROVE ClientInv(d)'
  <2>0. ClientInv(d) /\ request' = request /\ nodesRead' = nodesRead /\ db' = db
    BY DEF Inv, CreateSchema
  <2>1. CASE d = c /\ statement[c] = LAST_STATEMENT
    <3>1. pc'[d] \in {"readingNodes", "writing"} /\ pc[d] = "initialising"
      BY <2>1 DEF Inv, CreateSchema, AfterInitialise
    <3>2. QED
      BY <1>1, <2>0, <2>1, <3>1 DEF ClientInv
  <2>2. CASE d = c /\ statement[c] # LAST_STATEMENT
    <3>1. pc'[d] = "initialising" /\ pc[d] = "initialising" /\ statement'[d] = statement[c] + 1
      BY <2>2 DEF Inv, CreateSchema
    <3>2. statement[c] + 1 \in All /\ \A k \in All : k < statement[c] + 1 => k \in schema'
      BY <1>0, <2>2 DEF All, LAST_STATEMENT
    <3>3. QED
      BY <2>0, <3>1, <3>2 DEF ClientInv
  <2>3. CASE d # c
    <3>1. pc'[d] = pc[d] /\ statement'[d] = statement[d]
      BY <2>3 DEF Inv, CreateSchema
    <3>2. QED
      BY <1>0, <2>0, <3>1 DEF ClientInv
  <2>4. QED
    BY <2>1, <2>2, <2>3
<1>3. \A a \in Adapters : schemaReady'[a] => schema' = All
  <2>1. CASE statement[c] = LAST_STATEMENT
    BY <1>1, <2>1
  <2>2. CASE statement[c] # LAST_STATEMENT
    BY <1>0, <2>2 DEF Inv, CreateSchema
  <2>3. QED
    BY <2>1, <2>2
<1>4. schemaReady' \in [Adapters -> BOOLEAN]
  BY DEF Inv, CreateSchema
<1>5. pc' \in [Clients -> Places]
  BY DEF Inv, CreateSchema, AfterInitialise, Places
<1>6. statement' \in [Clients -> 0 .. LAST_STATEMENT]
  BY <1>0 DEF Inv, CreateSchema, All, LAST_STATEMENT
<1>7. QED
  BY <1>0, <1>2, <1>3, <1>4, <1>5, <1>6 DEF Inv, CreateSchema

\* The database only grows.
LEMMA Growth ==
  ASSUME NEW graph PROVE DOMAIN db.nodes \subseteq DOMAIN transaction(graph).nodes
BY DEF transaction, mergeNodes, recordOver

\* The other steps are of clients past initialise and change no schema.
LEMMA QueryStep ==
  ASSUME Inv, NEW c \in Clients, Commit(c) \/ Retry(c) \/ ReadNodes(c)
  PROVE  Inv'
<1>1. /\ schema = All /\ pc[c] \notin {"idle", "initialising"}
      /\ request[c] \in [tenant : Tenants, graph : Graphs \cup {NoGraph}]
  BY DEF Inv, ClientInv, Commit, Retry, ReadNodes
<1>2. DOMAIN db.nodes \subseteq DOMAIN db'.nodes
  BY Growth DEF Commit, Retry, ReadNodes
<1>3. /\ pc'[c] \notin {"idle", "initialising"} /\ pc' \in [Clients -> Places]
      /\ \A d \in Clients \ {c} : pc'[d] = pc[d] /\ nodesRead'[d] = nodesRead[d]
  BY DEF Inv, Commit, Retry, ReadNodes, Places
<1>4. DOMAIN nodesRead' = Clients /\ DOMAIN nodesRead'[c] \subseteq DOMAIN db'.nodes
  <2>1. DOMAIN nodesRead[c] \subseteq DOMAIN db.nodes
    BY DEF Inv, ClientInv
  <2>2. CASE Commit(c) \/ Retry(c)
    BY <1>2, <2>1, <2>2 DEF Inv, Commit, Retry
  <2>3. CASE ReadNodes(c)
    BY <2>3 DEF Inv, ReadNodes, nodesOf
  <2>4. QED
    BY <2>2, <2>3
<1>5. UNCHANGED <<schema, schemaReady, adapter, request, statement>>
  BY DEF Commit, Retry, ReadNodes
<1>6. ASSUME NEW d \in Clients PROVE ClientInv(d)'
  <2>1. ClientInv(d)
    BY DEF Inv
  <2>2. CASE d = c
    BY <1>1, <1>3, <1>4, <1>5, <2>2 DEF ClientInv
  <2>3. CASE d # c
    BY <1>1, <1>2, <1>3, <1>5, <2>1, <2>3 DEF ClientInv
  <2>4. QED
    BY <2>2, <2>3
<1>7. QED
  BY <1>1, <1>3, <1>4, <1>5, <1>6 DEF Inv

\* Every step of a writer or of the database keeps it.
LEMMA StepInv == Inv /\ [Next]_vars => Inv'
<1> SUFFICES ASSUME Inv, [Next]_vars PROVE Inv'
  OBVIOUS
<1>1. ASSUME NEW c \in Clients, NEW tenant \in Tenants, NEW graph \in Graphs,
             CallIngest(c, tenant, graph)
      PROVE  Inv'
  <2>1. CASE Begin(c, tenant, graph)
    BY <2>1, BeginStep
  <2>2. CASE Return(c, Answer("refused")) /\ UNCHANGED <<db, schema, schemaReady, adapter>>
    BY <2>2, ReturnStep
  <2>3. QED
    BY <1>1, <2>1, <2>2 DEF CallIngest
<1>2. ASSUME NEW c \in Clients, NEW tenant \in Tenants, CallSnapshot(c, tenant) PROVE Inv'
  BY <1>2, BeginStep DEF CallSnapshot
<1>3. ASSUME NEW c \in Clients, CreateSchema(c) PROVE Inv'
  BY <1>3, CreateSchemaStep
<1>4. ASSUME NEW c \in Clients, Commit(c) \/ Retry(c) \/ ReadNodes(c) PROVE Inv'
  BY <1>4, QueryStep
<1>5. ASSUME NEW c \in Clients, Acknowledge(c) PROVE Inv'
  BY <1>5, ReturnStep DEF Acknowledge
<1>6. ASSUME NEW c \in Clients, ReadEdges(c) PROVE Inv'
  <2>1. PICK what : Return(c, what)
    BY <1>6 DEF ReadEdges
  <2>2. QED
    BY <1>6, <2>1, ReturnStep DEF ReadEdges
<1>7. ASSUME NEW c \in Clients, Fail(c) PROVE Inv'
  BY <1>7, ReturnStep DEF Fail
<1>8. CASE UNCHANGED vars
  BY <1>8 DEF Inv, ClientInv, vars, callVars
<1>9. QED
  BY <1>1, <1>2, <1>3, <1>4, <1>5, <1>6, <1>7, <1>8 DEF Next

(* The state of the calls is well formed, for any clients, adapters,        *)
(* tenants and graphs.                                                      *)
THEOREM AdapterTypeCorrect == Spec => []TypeOK
<1>1. Inv => TypeOK
  BY DEF Inv, ClientInv, TypeOK, All, Places
<1>2. QED
  BY <1>1, InitInv, StepInv, PTL DEF Spec

(* No client writes before all of initialise has taken effect, however many *)
(* adapters share the database and however their calls of it fail.          *)
THEOREM ConstraintsComeFirst == Spec => []ConstraintsBeforeWrites
<1>1. Inv => ConstraintsBeforeWrites
  BY DEF Inv, ConstraintsBeforeWrites, All
<1>2. QED
  BY <1>1, InitInv, StepInv, PTL DEF Spec
-------------------------------------------------------------------------------
\* Everything an ingest was to write is in the database, under its own tenant.
Held(ingest) ==
  /\ assertTenantScoped(ingest.tenant, ingest.graph)
  /\ DOMAIN ingest.graph.nodes \subseteq DOMAIN db.nodes
  /\ ingest.graph.edges \subseteq db.edges

Covered(ingest, nodes) == DOMAIN ingest.graph.nodes \subseteq DOMAIN nodes

\* Of a client: what it may acknowledge is held, and what it owes was
\* acknowledged, is of its tenant, and is in what it has read so far.
KeepsWord(c) ==
  /\ pc[c] # "idle" => assertTenantScoped(request[c].tenant, request[c].graph)
  /\ pc[c] = "committed" => Held(request[c])
  /\ owed[c] \subseteq acknowledged
  /\ pc[c] # "idle" => \A ingest \in owed[c] : ingest.tenant = request[c].tenant
  /\ pc[c] = "readingEdges" => \A ingest \in owed[c] : Covered(ingest, nodesRead[c])
  /\ answer[c].kind = "read" =>
       \A ingest \in owed[c] : /\ Covered(ingest, answer[c].nodes)
                               /\ ingest.graph.edges \subseteq answer[c].edges

AckInv ==
  /\ Inv
  /\ DOMAIN answer = Clients
  /\ DOMAIN owed = Clients
  /\ \A ingest \in acknowledged : Held(ingest)
  /\ \A c \in Clients : KeepsWord(c)

\* Nothing is acknowledged at first.
LEMMA AckInit == Init => AckInv
<1> SUFFICES ASSUME Init PROVE AckInv
  OBVIOUS
<1>1. ASSUME NEW c \in Clients PROVE KeepsWord(c)
  BY DEF Init, KeepsWord, Answer
<1>2. Inv /\ DOMAIN answer = Clients /\ DOMAIN owed = Clients /\ acknowledged = {}
  BY InitInv DEF Init
<1>3. QED
  BY <1>1, <1>2 DEF AckInv

\* The graph a transaction is given names the nodes and edges it was asked for.
LEMMA SentShape ==
  ASSUME NEW a \in Adapters, NEW graph \in Graphs \cup {NoGraph}
  PROVE  /\ DOMAIN Sent(a, graph).nodes = DOMAIN graph.nodes
         /\ Sent(a, graph).edges = graph.edges
         /\ DOMAIN Recorded(a, graph).nodes = DOMAIN graph.nodes
         /\ Recorded(a, graph).edges = graph.edges
<1>1. DOMAIN graph = {"nodes", "edges"}
  BY GraphsAssumption DEF NoGraph, EmptyStore
<1>2. /\ DOMAIN Recorded(a, graph).nodes = DOMAIN graph.nodes
      /\ Recorded(a, graph).edges = graph.edges
  BY <1>1 DEF Recorded
<1>3. /\ DOMAIN Sent(a, graph).nodes = DOMAIN Recorded(a, graph).nodes
      /\ Sent(a, graph).edges = graph.edges
  BY <1>1 DEF Sent
<1>4. QED
  BY <1>2, <1>3

\* A commit writes all of a closed graph of one tenant.
LEMMA CommitHolds ==
  ASSUME ClosedGraphs, AckInv, NEW c \in Clients, Commit(c)
  PROVE  /\ DOMAIN db.nodes \subseteq DOMAIN db'.nodes /\ db.edges \subseteq db'.edges
         /\ DOMAIN request[c].graph.nodes \subseteq DOMAIN db'.nodes
         /\ request[c].graph.edges \subseteq db'.edges
<1> DEFINE graph == request[c].graph
           sent == Sent(adapter[c], graph)
<1>1. /\ pc[c] = "writing" /\ adapter[c] \in Adapters
      /\ graph \in Graphs \cup {NoGraph}
      /\ assertTenantScoped(request[c].tenant, graph)
  BY DEF Commit, AckInv, Inv, ClientInv, KeepsWord
<1>2. DOMAIN sent.nodes = DOMAIN graph.nodes /\ sent.edges = graph.edges
  BY <1>1, SentShape
<1>3. \A e \in graph.edges : {e.from, e.to} \subseteq DOMAIN graph.nodes
  BY <1>1 DEF ClosedGraphs, Dangling, NoGraph, EmptyStore
<1>4. db' = transaction(sent)
  BY DEF Commit
<1> HIDE DEF sent, graph
<1> DEFINE nodes == mergeNodes(db.nodes, sent.nodes)
<1>5. DOMAIN nodes = DOMAIN db.nodes \cup DOMAIN graph.nodes
  BY <1>2 DEF mergeNodes, recordOver
<1>6. matchEdges(nodes, sent.edges) = graph.edges
  BY <1>1, <1>2, <1>3, <1>5 DEF matchEdges, assertTenantScoped
<1>7. db'.nodes = nodes /\ db'.edges = db.edges \cup graph.edges
  BY <1>4, <1>6 DEF transaction
<1>8. QED
  BY <1>5, <1>7 DEF graph

\* Nothing that was held is lost while the database grows.
LEMMA HeldStays ==
  ASSUME NEW ingest, Held(ingest),
         DOMAIN db.nodes \subseteq DOMAIN db'.nodes, db.edges \subseteq db'.edges
  PROVE  Held(ingest)'
BY DEF Held

\* A step of another client.
LEMMA OthersKeepWord ==
  ASSUME NEW c \in Clients, KeepsWord(c),
         DOMAIN db.nodes \subseteq DOMAIN db'.nodes, db.edges \subseteq db'.edges,
         acknowledged \subseteq acknowledged',
         pc'[c] = pc[c], request'[c] = request[c], nodesRead'[c] = nodesRead[c],
         answer'[c] = answer[c], owed'[c] = owed[c]
  PROVE  KeepsWord(c)'
BY HeldStays DEF KeepsWord, Covered

\* The beginning of a call: of an ingest that passed the checks, which owes
\* nothing, or of a snapshot, which owes what its tenant was acknowledged.
LEMMA AckBegin ==
  ASSUME AckInv, NEW c \in Clients, NEW tenant \in Tenants, NEW graph \in Graphs \cup {NoGraph},
         Begin(c, tenant, graph), assertTenantScoped(tenant, graph),
         NEW owes \in SUBSET {ingest \in acknowledged : ingest.tenant = tenant},
         owed' = [owed EXCEPT ![c] = owes]
  PROVE  AckInv'
<1>1. Inv'
  BY BeginStep DEF AckInv
<1>2. UNCHANGED <<db, acknowledged, nodesRead>>
  BY DEF Begin
<1>3. /\ request'[c] = [tenant |-> tenant, graph |-> graph]
      /\ pc'[c] \in {"initialising", "readingNodes", "writing"}
      /\ answer'[c] = Answer("none") /\ owed'[c] = owes
      /\ DOMAIN answer' = Clients /\ DOMAIN owed' = Clients
  BY DEF AckInv, Inv, Begin, AfterInitialise
<1>4. KeepsWord(c)'
  BY <1>2, <1>3 DEF KeepsWord, Answer
<1>5. ASSUME NEW d \in Clients, d # c PROVE KeepsWord(d)'
  <2>1. /\ pc'[d] = pc[d] /\ request'[d] = request[d] /\ answer'[d] = answer[d]
        /\ owed'[d] = owed[d]
    BY <1>5 DEF AckInv, Inv, Begin
  <2>2. QED
    BY <1>2, <2>1, OthersKeepWord DEF AckInv
<1>6. \A ingest \in acknowledged' : Held(ingest)'
  BY <1>2 DEF AckInv, Held
<1>7. QED
  BY <1>1, <1>3, <1>4, <1>5, <1>6 DEF AckInv

\* The end of one: an answer that is read covers what the call owes.
LEMMA AckReturn ==
  ASSUME AckInv, Inv', NEW c \in Clients, NEW what, Return(c, what), UNCHANGED db,
         DOMAIN owed' = Clients, \A d \in Clients \ {c} : owed'[d] = owed[d],
         owed'[c] \subseteq owed[c],
         acknowledged \subseteq acknowledged',
         \A ingest \in acknowledged' \ acknowledged : Held(ingest),
         what.kind = "read" =>
           \A ingest \in owed[c] : /\ Covered(ingest, what.nodes)
                                   /\ ingest.graph.edges \subseteq what.edges
  PROVE  AckInv'
<1>1. /\ pc'[c] = "idle" /\ answer'[c] = what /\ DOMAIN answer' = Clients
  BY DEF AckInv, Inv, Return
<1>2. KeepsWord(c)'
  BY <1>1 DEF AckInv, KeepsWord, Covered
<1>3. ASSUME NEW d \in Clients, d # c PROVE KeepsWord(d)'
  <2>1. /\ pc'[d] = pc[d] /\ request'[d] = request[d] /\ answer'[d] = answer[d]
        /\ nodesRead'[d] = nodesRead[d] /\ owed'[d] = owed[d]
    BY <1>3 DEF AckInv, Inv, Return
  <2>2. QED
    BY <2>1, OthersKeepWord DEF AckInv
<1>4. \A ingest \in acknowledged' : Held(ingest)'
  BY DEF AckInv, Held
<1>5. QED
  BY <1>1, <1>2, <1>3, <1>4 DEF AckInv

\* What a snapshot reads is all that is held of its tenant.
LEMMA SnapshotCovers ==
  ASSUME NEW ingest, Held(ingest)
  PROVE  /\ Covered(ingest, nodesOf(ingest.tenant))
         /\ ingest.graph.edges \subseteq edgesOf(ingest.tenant)
BY DEF Held, Covered, assertTenantScoped, nodesOf, edgesOf

\* The steps in between.
LEMMA AckMiddle ==
  ASSUME ClosedGraphs, AckInv, Inv', NEW c \in Clients,
         CreateSchema(c) \/ Commit(c) \/ Retry(c) \/ ReadNodes(c)
  PROVE  AckInv'
<1>1. /\ UNCHANGED <<request, answer, acknowledged, owed>>
      /\ \A d \in Clients \ {c} : pc'[d] = pc[d] /\ nodesRead'[d] = nodesRead[d]
  BY DEF AckInv, Inv, CreateSchema, Commit, Retry, ReadNodes, historyVars
<1>2. DOMAIN db.nodes \subseteq DOMAIN db'.nodes /\ db.edges \subseteq db'.edges
  BY CommitHolds DEF CreateSchema, Retry, ReadNodes
<1>3. KeepsWord(c)
  BY DEF AckInv
<1>4. KeepsWord(c)'
  <2>1. CASE CreateSchema(c)
    <3>1. pc[c] = "initialising" /\ pc'[c] \in {"initialising", "readingNodes", "writing"}
      BY <2>1 DEF AckInv, Inv, CreateSchema, AfterInitialise
    <3>2. QED
      BY <1>1, <1>3, <3>1 DEF KeepsWord
  <2>2. CASE Commit(c)
    <3>1. pc[c] = "writing" /\ pc'[c] = "committed"
      BY <2>2 DEF AckInv, Inv, Commit
    <3>2. Held(request[c])'
      BY <1>1, <1>3, <2>2, <3>1, CommitHolds DEF KeepsWord, Held
    <3>3. QED
      BY <1>1, <1>3, <3>1, <3>2 DEF KeepsWord
  <2>3. CASE Retry(c)
    <3>1. pc[c] = "committed" /\ pc'[c] = "writing"
      BY <2>3 DEF AckInv, Inv, Retry
    <3>2. QED
      BY <1>1, <1>3, <3>1 DEF KeepsWord
  <2>4. CASE ReadNodes(c)
    <3>1. /\ pc[c] = "readingNodes" /\ pc'[c] = "readingEdges"
          /\ nodesRead'[c] = nodesOf(request[c].tenant)
      BY <2>4 DEF AckInv, Inv, ReadNodes
    <3>2. ASSUME NEW ingest \in owed[c] PROVE Covered(ingest, nodesRead'[c])
      BY <1>3, <3>1, SnapshotCovers DEF AckInv, KeepsWord
    <3>3. QED
      BY <1>1, <1>3, <3>1, <3>2 DEF KeepsWord, Covered
  <2>5. QED
    BY <2>1, <2>2, <2>3, <2>4
<1>5. ASSUME NEW d \in Clients, d # c PROVE KeepsWord(d)'
  BY <1>1, <1>2, <1>5, OthersKeepWord DEF AckInv
<1>6. \A ingest \in acknowledged' : Held(ingest)'
  BY <1>1, <1>2, HeldStays DEF AckInv
<1>7. QED
  BY <1>1, <1>4, <1>5, <1>6 DEF AckInv

\* A write is acknowledged once every row of it has landed, and stays.
LEMMA AckStep ==
  ASSUME ClosedGraphs
  PROVE  AckInv /\ [Next]_vars => AckInv'
<1> SUFFICES ASSUME AckInv, [Next]_vars PROVE AckInv'
  OBVIOUS
<1>0. Inv'
  BY StepInv DEF AckInv
<1>1. ASSUME NEW c \in Clients, NEW tenant \in Tenants, NEW graph \in Graphs,
             CallIngest(c, tenant, graph)
      PROVE  AckInv'
  <2>1. CASE Begin(c, tenant, graph) /\ assertTenantScoped(tenant, graph)
    BY <1>1, <2>1, AckBegin DEF CallIngest
  <2>2. CASE Return(c, Answer("refused")) /\ UNCHANGED <<db, acknowledged>>
    BY <1>0, <1>1, <2>2, AckReturn DEF CallIngest, Answer, AckInv
  <2>3. QED
    BY <1>1, <2>1, <2>2 DEF CallIngest
<1>2. ASSUME NEW c \in Clients, NEW tenant \in Tenants, CallSnapshot(c, tenant) PROVE AckInv'
  <2>1. assertTenantScoped(tenant, NoGraph)
    BY DEF assertTenantScoped, NoGraph, EmptyStore
  <2>2. QED
    BY <1>2, <2>1, AckBegin DEF CallSnapshot
<1>3. ASSUME NEW c \in Clients, CreateSchema(c) \/ Commit(c) \/ Retry(c) \/ ReadNodes(c)
      PROVE  AckInv'
  BY <1>0, <1>3, AckMiddle
<1>4. ASSUME NEW c \in Clients, Acknowledge(c) PROVE AckInv'
  <2>1. Held(request[c]) /\ acknowledged' = acknowledged \cup {request[c]}
    BY <1>4 DEF Acknowledge, AckInv, KeepsWord
  <2>2. Return(c, Answer("stored")) /\ UNCHANGED <<db, owed>>
    BY <1>4 DEF Acknowledge
  <2>3. QED
    BY <1>0, <2>1, <2>2, AckReturn DEF Answer, AckInv
<1>5. ASSUME NEW c \in Clients, ReadEdges(c) PROVE AckInv'
  <2> DEFINE what == [kind |-> "read", nodes |-> nodesRead[c], edges |-> edgesOf(request[c].tenant)]
  <2>1. Return(c, what) /\ UNCHANGED <<db, owed, acknowledged>> /\ pc[c] = "readingEdges"
    BY <1>5 DEF ReadEdges, historyVars
  <2>2. \A ingest \in owed[c] : /\ Covered(ingest, what.nodes)
                                /\ ingest.graph.edges \subseteq what.edges
    BY <2>1, SnapshotCovers DEF AckInv, KeepsWord
  <2> HIDE DEF what
  <2>3. QED
    BY <1>0, <2>1, <2>2, AckReturn DEF AckInv
<1>6. ASSUME NEW c \in Clients, Fail(c) PROVE AckInv'
  <2>1. Return(c, Answer("failed")) /\ UNCHANGED <<db, owed, acknowledged>>
    BY <1>6 DEF Fail, historyVars
  <2>2. QED
    BY <1>0, <2>1, AckReturn DEF Answer, AckInv
<1>7. CASE UNCHANGED vars
  <2>1. \A c \in Clients : KeepsWord(c)'
    BY <1>7, OthersKeepWord DEF AckInv, vars, callVars, historyVars
  <2>2. QED
    BY <1>0, <1>7, <2>1 DEF AckInv, Held, vars, callVars, historyVars
<1>8. QED
  BY <1>1, <1>2, <1>3, <1>4, <1>5, <1>6, <1>7 DEF Next

(* What was acknowledged is in every snapshot begun afterwards, in spite of *)
(* failures, retries and other clients, as long as every edge comes with    *)
(* its ends.                                                                *)
THEOREM AcknowledgedIsAlwaysRead ==
  ASSUME ClosedGraphs
  PROVE  Spec => []AcknowledgedIsRead
<1>1. Init => AckInv
  BY AckInit
<1>2. AckInv /\ [Next]_vars => AckInv'
  BY AckStep
<1>3. AckInv => AcknowledgedIsRead
  BY DEF AckInv, KeepsWord, Covered, AcknowledgedIsRead
<1>4. QED
  BY <1>1, <1>2, <1>3, PTL DEF Spec

-------------------------------------------------------------------------------
\* The contract reads a graph as the adapter does.
LEMMA SameTenantOf == \A id : Contract!TenantOf(id) = TenantOf(id)
BY DEF Contract!TenantOf, TenantOf, Contract!KindOf, KindOf

\* The contract's reading of a dangling edge is this module's.
LEMMA SameDangling == \A graph : Contract!Dangling(graph) = Dangling(graph)
BY DEF Contract!Dangling, Dangling

\* So is what it calls ill formed.
LEMMA SameIllFormed == \A graph : Contract!IllFormed(graph) = IllFormed(graph)
<1>1. Contract!EDGE_MATRIX = EDGE_MATRIX
  BY DEF Contract!EDGE_MATRIX, EDGE_MATRIX
<1>2. Contract!RUN_LOCAL_EDGE_TYPES = RUN_LOCAL_EDGE_TYPES
  BY <1>1 DEF Contract!RUN_LOCAL_EDGE_TYPES, RUN_LOCAL_EDGE_TYPES
<1>3. \A id : Contract!KindOf(id) = KindOf(id) /\ Contract!runOf(id) = runOf(id)
  BY DEF Contract!KindOf, KindOf, Contract!runOf, runOf, Contract!NoRun, NoRun
<1>4. Contract!NoRun = NoRun
  BY DEF Contract!NoRun, NoRun
<1>5. QED
  BY <1>1, <1>2, <1>3, <1>4, SameTenantOf, SameDangling DEF Contract!IllFormed, IllFormed

\* So is what a load leaves.
LEMMA SameLoad == \A older, graph : Contract!load(older, graph) = load(older, graph)
<1>1. \A graph : Contract!Cyclic(graph) <=> Cyclic(graph)
  BY SameDangling DEF Contract!Cyclic, Cyclic, Contract!ACYCLIC_EDGE_TYPES, ACYCLIC_EDGE_TYPES
<1>2. \A graph : Contract!loadable(graph) <=> loadable(graph)
  BY <1>1, SameIllFormed, Zenon DEF Contract!loadable, loadable
<1>3. QED
  BY <1>2, Zenon DEF Contract!load, load, Contract!recordOver, recordOver

\* What the adapter changes in a recording is no concern of the checks.
LEMMA RecordedLoadable ==
  ASSUME NEW a \in Adapters, NEW graph \in Graphs
  PROVE  loadable(Recorded(a, graph)) <=> loadable(graph)
<1> DEFINE stored == Recorded(a, graph)
<1>1. DOMAIN stored.nodes = DOMAIN graph.nodes /\ stored.edges = graph.edges
  BY SentShape
<1> HIDE DEF stored
<1>2. Dangling(stored) = Dangling(graph)
  BY <1>1 DEF Dangling
<1>3. IllFormed(stored) = IllFormed(graph)
  BY <1>1, <1>2 DEF IllFormed
<1>4. Cyclic(stored) <=> Cyclic(graph)
  BY <1>1, <1>2 DEF Cyclic
<1>5. loadable(stored) <=> loadable(graph)
  BY <1>3, <1>4, Zenon DEF loadable
<1>6. QED
  BY <1>5 DEF stored

\* A node comes back from the database as it went there.
LEMMA RoundTrip == \A attributes : /\ DOMAIN toNodeParameter(attributes) = DOMAIN attributes
                                   /\ fromStoredNode(toNodeParameter(attributes))
                                        = [a \in DOMAIN attributes |-> attributes[a]]
<1> TAKE attributes
<1>1. DOMAIN toNodeParameter(attributes) = DOMAIN attributes
  BY DEF toNodeParameter
<1>2. \A a \in DOMAIN attributes :
        (IF a \in JSON_ENCODED_FIELDS THEN toNodeParameter(attributes)[a].json
         ELSE toNodeParameter(attributes)[a]) = attributes[a]
  BY DEF toNodeParameter
<1>3. QED
  BY <1>1, <1>2 DEF fromStoredNode

\* Of a client: its graph is one some tenant may ingest, and is its tenant's.
MayIngest(c) ==
  /\ pc[c] # "idle" => \/ request[c].graph = NoGraph
                       \/ /\ request[c].graph \in Accepted /\ request[c].tenant \in Tenants
                          /\ assertTenantScoped(request[c].tenant, request[c].graph)
  /\ pc[c] \in {"writing", "committed"} => request[c].graph # NoGraph

\* And of the database: a node has the attributes it has in the graphs.
RefInv ==
  /\ Inv
  /\ \A c \in Clients : MayIngest(c)
  /\ \A id \in DOMAIN db.nodes : \E graph \in Accepted :
       id \in DOMAIN graph.nodes /\ DOMAIN db.nodes[id] = DOMAIN graph.nodes[id]

\* The empty database is the empty store of the contract.
LEMMA RefInit == Init => RefInv
<1> SUFFICES ASSUME Init PROVE RefInv
  OBVIOUS
<1>1. \A c \in Clients : MayIngest(c)
  BY DEF Init, MayIngest
<1>2. DOMAIN db.nodes = {}
  BY DEF Init, EmptyStore
<1>3. QED
  BY <1>1, <1>2, InitInv DEF RefInv

\* Where a node is already there, the new recording has all its attributes, and
\* setting them replaces it.
LEMMA CommitWrites ==
  ASSUME WellFormedGraphs, SameAttributes, RefInv, NEW c \in Clients, Commit(c)
  PROVE  LET graph == request[c].graph
             nodes == Recorded(adapter[c], graph).nodes
         IN  /\ db'.edges = db.edges \cup graph.edges
             /\ db'.nodes = [id \in DOMAIN db.nodes \cup DOMAIN graph.nodes |->
                               IF id \in DOMAIN graph.nodes THEN toNodeParameter(nodes[id])
                               ELSE db.nodes[id]]
             /\ DOMAIN nodes = DOMAIN graph.nodes
             /\ \A id \in DOMAIN graph.nodes : DOMAIN nodes[id] = DOMAIN graph.nodes[id]
<1> DEFINE graph == request[c].graph
           nodes == Recorded(adapter[c], graph).nodes
           sent == Sent(adapter[c], graph)
           merged == mergeNodes(db.nodes, sent.nodes)
<1>1. /\ graph \in Accepted /\ graph \in Graphs /\ adapter[c] \in Adapters
      /\ assertTenantScoped(request[c].tenant, graph) /\ DOMAIN graph = {"nodes", "edges"}
  BY GraphsAssumption DEF Commit, RefInv, Inv, MayIngest, Accepted
<1>2. DOMAIN nodes = DOMAIN graph.nodes
  BY <1>1, SentShape
<1>3. ASSUME NEW id \in DOMAIN graph.nodes PROVE DOMAIN nodes[id] = DOMAIN graph.nodes[id]
  BY <1>1, <1>3 DEF Recorded, redactNodeForStorage
<1>4. sent.edges = graph.edges
      /\ sent.nodes = [id \in DOMAIN graph.nodes |-> toNodeParameter(nodes[id])]
  <2> HIDE DEF nodes
  <2>1. sent = [graph EXCEPT !.nodes = [id \in DOMAIN nodes |-> toNodeParameter(nodes[id])]]
    BY DEF Sent, nodes
  <2>2. QED
    BY <1>1, <1>2, <2>1
<1> HIDE DEF sent, nodes
<1>5. ASSUME NEW id \in DOMAIN db.nodes, id \in DOMAIN graph.nodes
      PROVE  recordOver(db.nodes[id], sent.nodes[id]) = sent.nodes[id]
  <2>1. PICK g \in Accepted : id \in DOMAIN g.nodes /\ DOMAIN db.nodes[id] = DOMAIN g.nodes[id]
    BY DEF RefInv
  <2>2. DOMAIN sent.nodes[id] = DOMAIN db.nodes[id]
    BY <1>1, <1>3, <1>4, <1>5, <2>1, RoundTrip DEF SameAttributes
  <2>3. sent.nodes[id] = [a \in DOMAIN sent.nodes[id] |-> sent.nodes[id][a]]
    BY <1>4, <1>5 DEF toNodeParameter
  <2>4. QED
    BY <2>2, <2>3 DEF recordOver
<1>6. merged = [id \in DOMAIN db.nodes \cup DOMAIN graph.nodes |->
                  IF id \in DOMAIN graph.nodes THEN sent.nodes[id] ELSE db.nodes[id]]
  <2>1. DOMAIN sent.nodes = DOMAIN graph.nodes
    BY <1>4
  <2>2. QED
    BY <1>5, <2>1 DEF mergeNodes, recordOver
<1>7. matchEdges(merged, sent.edges) = graph.edges
  <2>1. \A e \in graph.edges : {e.from, e.to} \subseteq DOMAIN graph.nodes
    BY <1>1 DEF WellFormedGraphs, Dangling
  <2>2. DOMAIN merged = DOMAIN db.nodes \cup DOMAIN graph.nodes
    BY <1>6
  <2> HIDE DEF merged, graph
  <2>3. QED
    BY <1>1, <1>4, <2>1, <2>2 DEF matchEdges, assertTenantScoped
<1>8. db'.nodes = merged /\ db'.edges = db.edges \cup graph.edges
  <2>1. db' = transaction(sent)
    BY DEF Commit, sent
  <2>2. QED
    BY <1>7, <2>1 DEF transaction
<1>9. QED
  BY <1>2, <1>3, <1>4, <1>6, <1>8 DEF nodes

\* Every step is a step of the contract, or one it does not see.
LEMMA RefStep ==
  ASSUME WellFormedGraphs, SameAttributes
  PROVE  RefInv /\ [Next]_vars => RefInv'
<1> SUFFICES ASSUME RefInv, [Next]_vars PROVE RefInv'
  OBVIOUS
<1> DEFINE Attributes == \A id \in DOMAIN db.nodes : \E graph \in Accepted :
                           id \in DOMAIN graph.nodes /\ DOMAIN db.nodes[id] = DOMAIN graph.nodes[id]
<1>0. Inv' /\ Inv /\ Attributes /\ \A c \in Clients : MayIngest(c)
  BY StepInv DEF RefInv
<1> HIDE DEF Attributes
<1>1. ASSUME NEW c \in Clients, NEW tenant \in Tenants, NEW graph,
             Begin(c, tenant, graph),
             graph = NoGraph \/ (graph \in Accepted /\ assertTenantScoped(tenant, graph))
      PROVE  \A d \in Clients : MayIngest(d)'
  <2>1. /\ request'[c] = [tenant |-> tenant, graph |-> graph]
        /\ pc'[c] \in {"initialising", "readingNodes", "writing"}
        /\ pc'[c] = "writing" => graph # NoGraph
    BY <1>0, <1>1 DEF Inv, Begin, AfterInitialise
  <2>2. \A d \in Clients \ {c} : pc'[d] = pc[d] /\ request'[d] = request[d]
    BY <1>0, <1>1 DEF Inv, Begin
  <2>3. QED
    BY <1>0, <1>1, <2>1, <2>2 DEF MayIngest
<1>2. ASSUME NEW c \in Clients, NEW what, Return(c, what)
      PROVE  \A d \in Clients : MayIngest(d)'
  BY <1>0, <1>2 DEF Inv, Return, MayIngest
<1>3. ASSUME NEW c \in Clients, CreateSchema(c) \/ Commit(c) \/ Retry(c) \/ ReadNodes(c)
      PROVE  \A d \in Clients : MayIngest(d)'
  <2>1. request' = request /\ \A d \in Clients \ {c} : pc'[d] = pc[d]
    BY <1>0, <1>3 DEF Inv, CreateSchema, Commit, Retry, ReadNodes
  <2>2. pc[c] # "idle" /\ (pc'[c] \in {"writing", "committed"} => request[c].graph # NoGraph)
    BY <1>0, <1>3 DEF Inv, CreateSchema, Commit, Retry, ReadNodes, MayIngest, AfterInitialise
  <2>3. QED
    BY <1>0, <2>1, <2>2 DEF MayIngest
<1>4. ASSUME NEW c \in Clients, Commit(c) PROVE Attributes'
  <2> DEFINE graph == request[c].graph
             nodes == Recorded(adapter[c], graph).nodes
  <2>1. /\ db'.nodes = [id \in DOMAIN db.nodes \cup DOMAIN graph.nodes |->
                          IF id \in DOMAIN graph.nodes THEN toNodeParameter(nodes[id])
                          ELSE db.nodes[id]]
        /\ \A id \in DOMAIN graph.nodes : DOMAIN nodes[id] = DOMAIN graph.nodes[id]
    BY <1>4, CommitWrites
  <2>2. graph \in Accepted
    BY <1>0, <1>4 DEF Commit, MayIngest
  <2> HIDE DEF graph, nodes
  <2>3. ASSUME NEW id \in DOMAIN db'.nodes
        PROVE  \E g \in Accepted : id \in DOMAIN g.nodes /\ DOMAIN db'.nodes[id] = DOMAIN g.nodes[id]
    <3>1. CASE id \in DOMAIN graph.nodes
      <4>1. DOMAIN db'.nodes[id] = DOMAIN graph.nodes[id]
        BY <2>1, <3>1, RoundTrip
      <4>2. QED
        BY <2>2, <3>1, <4>1
    <3>2. CASE id \notin DOMAIN graph.nodes
      <4>1. id \in DOMAIN db.nodes /\ db'.nodes[id] = db.nodes[id]
        BY <2>1, <2>3, <3>2
      <4>2. QED
        BY <1>0, <4>1 DEF Attributes
    <3>3. QED
      BY <3>1, <3>2
  <2>4. Accepted' = Accepted
    BY DEF Accepted, assertStructurallySound, assertTenantScoped
  <2>5. QED
    BY <2>3, <2>4 DEF Attributes
<1>5. ASSUME db' = db PROVE Attributes'
  BY <1>0, <1>5 DEF Attributes, Accepted, assertStructurallySound, assertTenantScoped
<1>6. ASSUME NEW c \in Clients, NEW tenant \in Tenants, NEW graph \in Graphs,
             CallIngest(c, tenant, graph)
      PROVE  db' = db /\ \A d \in Clients : MayIngest(d)'
  <2>1. CASE Begin(c, tenant, graph) /\ assertTenantScoped(tenant, graph)
             /\ assertStructurallySound(graph)
    BY <1>1, <2>1 DEF Accepted, Begin
  <2>2. CASE Return(c, Answer("refused")) /\ UNCHANGED db
    BY <1>2, <2>2
  <2>3. QED
    BY <1>6, <2>1, <2>2 DEF CallIngest
<1>7. ASSUME NEW c \in Clients, NEW tenant \in Tenants, CallSnapshot(c, tenant)
      PROVE  db' = db /\ \A d \in Clients : MayIngest(d)'
  BY <1>1, <1>7 DEF CallSnapshot, Begin
<1>8. ASSUME NEW c \in Clients, Acknowledge(c) \/ ReadEdges(c) \/ Fail(c)
      PROVE  db' = db /\ \A d \in Clients : MayIngest(d)'
  BY <1>2, <1>8 DEF Acknowledge, ReadEdges, Fail
<1>9. ASSUME NEW c \in Clients, CreateSchema(c) \/ Retry(c) \/ ReadNodes(c) PROVE db' = db
  BY <1>9 DEF CreateSchema, Retry, ReadNodes
<1>10. ASSUME UNCHANGED vars PROVE db' = db /\ \A d \in Clients : MayIngest(d)'
  BY <1>0, <1>10 DEF vars, callVars, MayIngest
<1>12. Attributes' /\ \A d \in Clients : MayIngest(d)'
  BY <1>3, <1>4, <1>5, <1>6, <1>7, <1>8, <1>9, <1>10 DEF Next
<1>13. QED
  BY <1>0, <1>12 DEF RefInv, Attributes

(* Through failures, retries and interleavings the adapter changes the      *)
(* database only as the in-memory reference does when it ingests one whole  *)
(* graph.                                                                   *)
THEOREM AdapterImplementsReference ==
  ASSUME WellFormedGraphs, SameAttributes
  PROVE  Spec => ImplementsReference
<1> DEFINE Loaded == [nodes |-> [id \in DOMAIN db.nodes |-> fromStoredNode(db.nodes[id])],
                      edges |-> db.edges]
<1>1. Init => Contract!Init
  BY DEF Init, Contract!Init, Contract!EmptyStore, EmptyStore
<1>2. RefInv /\ [Next]_vars => [Contract!Next]_Loaded
  <2> SUFFICES ASSUME RefInv, [Next]_vars, Loaded' # Loaded PROVE Contract!Next
    OBVIOUS
  <2>1. PICK c \in Clients : Commit(c)
    <3>1. db' # db
      BY DEF Loaded
    <3>2. QED
      BY <3>1 DEF Next, vars, CallIngest, Return, CallSnapshot, Begin, CreateSchema, Retry,
                  Acknowledge, ReadNodes, ReadEdges, Fail
  <2> DEFINE graph == request[c].graph
             recorded == Recorded(adapter[c], graph)
             nodes == recorded.nodes
  <2>2. /\ graph \in Accepted /\ request[c].tenant \in Tenants /\ graph \in Graphs
        /\ assertTenantScoped(request[c].tenant, graph) /\ assertStructurallySound(graph)
        /\ adapter[c] \in Adapters
    BY <2>1 DEF RefInv, Inv, MayIngest, Commit, Accepted
  <2>3. /\ db'.edges = db.edges \cup graph.edges
        /\ db'.nodes = [id \in DOMAIN db.nodes \cup DOMAIN graph.nodes |->
                          IF id \in DOMAIN graph.nodes THEN toNodeParameter(nodes[id])
                          ELSE db.nodes[id]]
        /\ DOMAIN nodes = DOMAIN graph.nodes
    BY <2>1, CommitWrites
  <2>4. DOMAIN recorded.nodes = DOMAIN graph.nodes /\ recorded.edges = graph.edges
    BY <2>2, SentShape
  <2>5. loadable(recorded)
    BY <2>2, RecordedLoadable DEF WellFormedGraphs
  <2>6. ASSUME NEW id \in DOMAIN graph.nodes
        PROVE  fromStoredNode(toNodeParameter(nodes[id])) = nodes[id]
    <3>1. nodes[id] = redactNodeForStorage(id, graph.nodes[id]) \/ nodes[id] = graph.nodes[id]
      BY <2>2, <2>6, GraphsAssumption DEF Recorded
    <3>2. nodes[id] = [a \in DOMAIN nodes[id] |-> nodes[id][a]]
      BY <2>2, <2>6, <3>1, GraphsAssumption DEF redactNodeForStorage
    <3> HIDE DEF nodes
    <3>3. QED
      BY <3>2, RoundTrip
  <2>7. Loaded' = load(Loaded, recorded)
    <3> HIDE DEF recorded, graph
    <3>1. load(Loaded, recorded) =
            [nodes |-> [id \in DOMAIN db.nodes \cup DOMAIN graph.nodes |->
                          IF id \in DOMAIN graph.nodes THEN nodes[id]
                          ELSE fromStoredNode(db.nodes[id])],
             edges |-> db.edges \cup graph.edges]
      BY <2>4, <2>5 DEF load, recordOver
    <3>2. \A id \in DOMAIN db'.nodes :
            fromStoredNode(db'.nodes[id]) =
              IF id \in DOMAIN graph.nodes THEN nodes[id] ELSE fromStoredNode(db.nodes[id])
      BY <2>3, <2>6
    <3>3. DOMAIN db'.nodes = DOMAIN db.nodes \cup DOMAIN graph.nodes
      BY <2>3
    <3>4. QED
      BY <2>3, <3>1, <3>2, <3>3
  <2>8. Contract!TenantScoped(request[c].tenant, recorded)
    BY <2>2, <2>4, SameTenantOf DEF Contract!TenantScoped, assertTenantScoped
  <2>9. Contract!WellKinded(recorded)
    BY <2>2, <2>4 DEF Contract!WellKinded, assertStructurallySound, Contract!KindOf, KindOf,
                      Contract!NodeKinds, NodeKinds
  <2>10. Contract!Ingest(request[c].tenant, recorded)
    BY <2>7, <2>8, <2>9, SameLoad DEF Contract!Ingest
  <2>11. QED
    BY <2>2, <2>10 DEF Contract!Next
<1>3. QED
  BY <1>1, <1>2, RefInit, RefStep, PTL DEF Spec, ImplementsReference, Contract!Spec
===============================================================================
