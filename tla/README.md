# Provenance Guard in TLA+

A verification development for `provenance-guard`: TLA+ modules translated from the TypeScript under
`packages/*/src`, TLC configurations that check them on small instances, and proofs, checked by TLAPS,
of the properties that matter most.

Paths below are relative to the repository's root (`src/`).

## The system

The guard stands on both sides of a language model. On the way in it labels every payload that might
enter the model's context (which channel, which credibility tier T1 to T5) and refuses what a context
slot does not take. On the way out it breaks the model's output into claims and delivers it only if every
claim traces back to something trusted that was in context. What it did is recorded as a lineage graph.

| component | state | operations | correct when |
|---|---|---|---|
| schema (`packages/schema`) | none | parse | - |
| inbound guard (`packages/inbound`) | none; the label travels with the chunk | `classifyChunk`, `checkSlot`, `assembleContext` | no path of labelling gains trust; nothing that reads as a failure is taken for data |
| outbound guard (`packages/outbound`) | none | `extractClaims`, `assessClaim`, `auditOutput`, `auditOutputWithJudge` | only trusted evidence grounds; an invented specific blocks; the answer does not depend on the order of retrieval |
| judge hook (`packages/judge`, or the user's) | none known | a promise per claim | the judge can only make an outcome stricter |
| middleware (`packages/middleware`) | one pending call per `run` | `admitContext`, `run` | decisions independent of mode, of other runs and of the judge's manners; enforcing delivers only what is sound |
| graph (`packages/graph`) | `MemoryGraphStore`: nodes, edges, indexes | `buildGraph`, `validateGraph`, `load`, reads, trace, impact, serialize | the ledger says of every run what happened in it, and nothing else |
| Neo4j adapter (`packages/neo4j`) | a database, `#schemaReady` | `initialise`, `ingest`, `snapshot`, reads, `clear` | it keeps the contract of `packages/graph/src/adapter.ts`: ingest is atomic and idempotent, what was acknowledged can be read, no write precedes the constraints |
| CLI (`packages/cli`) | a ledger file; a count of control runs per process | check, bench, trace, explain, impact, graph validate | its pipeline is no more permissive than the middleware; the ledger of a check is sound; writing the file again repairs it |
| benchmark (`packages/harness`, the bench command) | none | scenarios, control, rates | every scenario is counted once and its rates say what the guard withholds |
| demo, scripts | none | printing, packaging | - |

**Interactions.** `createGuard` calls `classifyChunk` and `checkSlot` for every candidate, twice: in
`admitContext`, before the model writes, and again in `run`, after. `run` calls `auditOutputWithJudge` on
the admissible chunks, which awaits the user's judge once per claim nothing else settled; every await lets
other runs make steps. `run` returns a graph; the caller loads it into a store, whenever and as often as it
likes, beside the graphs of other runs and tenants. `trace`, `impact` and `explain` read that store. A graph may
instead go to a `GraphStoreAdapter`, in memory or in Neo4j, where every query is awaited. The command line does not
use the middleware: `runPipeline` composes the two gates itself, and `auditFromPipeline` makes its ledger of the result. Ids are derived from content, so recording is idempotent
by design, and everything outside an id is overwritten by the latest recording.

**What is hard.** The awaits of the judge (interleaving, failure, silence); labels that are not part of a
chunk's id, so that ids collide; a store that accumulates edges and overwrites nodes; a ladder of stages in
which the first conclusion decides; thresholds; searches that are cut by bounds; a database shared by clients
whose queries interleave, fail, and are retried; a ledger file written in place by commands that may overlap,
fail and crash; offsets carried through four ways of cutting a text. `PROJECT.json` lists the hazards at their lines.

## The modules

| module | models | notes |
|---|---|---|
| `Provenance` | `packages/schema`, the tier arithmetic of inbound | a tier is its rank: larger is less trusted |
| `InboundGuard` | `classifyChunk`, `checkSlot` and all they call | pure operators; a payload is a record of what each detector sees in it |
| `InboundPipeline` | one payload: labelled by the guard or by hand, perhaps classified again, checked | actions `Classify`, `LabelByHand`, `Reclassify`, `CheckSlot` |
| `InboundProofs` | theorems about `InboundPipeline` | |
| `Grounding` | `assessClaim` with its stages, `verdictFor`, `auditOutput` | pure operators; a text is a record of what the matchers find in it |
| `AuditLemmas` | lemmas about lists, about `assessClaim` and `verdictFor`, and about the graph of one audit | what the proof modules share |
| `EvidenceAudit` | one output audited while evidence is added and reordered | actions `Retrieve`, `Reorder` |
| `Guard` | `createGuard`: several runs, guards and judges | actions `AdmitContext`, `Run`, `JudgeAnswer`, `Deliver` |
| `DeliveryGate` | what a caller is promised: submit, decide | the abstract specification `Guard` implements |
| `Ledger` | `buildGraph`, the validator's lineage checks, the store | pure operators; ids are tuples of the hashed fields |
| `GuardLedger` | `Guard` with a store its runs are recorded in | `EXTENDS Guard, Ledger`; adds `Record` |
| `LedgerProofs` | theorems about `Guard` and about `GuardLedger` | |
| `Lineage` | which steps lead back to a node's grounds and forward to its dependants | the two step tables and `neighbours` |
| `TraceWalk` | `trace`'s recursive walk, and `explain`'s paths | actions `TraceStart`, `TraceDescend`, `TraceReturn`, `TraceEnd`; the recursion's stack is `trail`, `edgeTrail`, `pending` |
| `ImpactSearch` | `impact`'s levelled search | actions `ImpactStart`, `ImpactLevel`, `ImpactExpand`, `ImpactEndLevel` |
| `LineageQueries` | a store that documents are loaded into, and the two searches on it | `EXTENDS TraceWalk, ImpactSearch`; actions `LoadDocument`, `Ask`, `Trace`, `Impact` |
| `QueriesProofs` | theorems about `LineageQueries` | |
| `MemoryAdapter` | the storage contract as its in-memory reference keeps it | the abstract specification: `Ingest`, all or nothing |
| `GraphAdapter` | the Neo4j adapter: several clients, several adapters, one database | actions `CallIngest`, `CallSnapshot`, `CreateSchema`, `Commit`, `Retry`, `Acknowledge`, `ReadNodes`, `ReadEdges`, `Fail` |
| `AdapterProofs` | theorems about `GraphAdapter` | |
| `EvidenceProofs` | theorems about `EvidenceAudit` | |
| `ClaimExtraction` | `extractClaims`, run again on every prefix of an output | action `Write`: the model writes a piece more |
| `ExtractionProofs` | theorems about `ClaimExtraction` | |
| `CheckPipeline` | `runPipeline`, the bypassed pipeline, `auditFromPipeline` | pure operators; `EXTENDS Grounding, InboundGuard, Ledger` |
| `Bench` | a scenario's control, the verification of its evidence, rates and breakdowns | pure operators |
| `Cli` | the commands, several at once in several processes over one ledger file | actions `Start`, `RunCheck`, `OpenGraph`, `WriteGraph`, `OpenFails`, `WriteFails`, `OpenLedger`, `Traverse`, `Validate`, `RunBench`, `Return`, `Crash` |
| `CliProofs` | theorems about `Cli` | |
| `MC*` | instances for TLC | |

How state and actions correspond to the code:

- `AdmitContext(r, list)` is one synchronous call of `admitContext`; `Run(r, output)` is `run` up to its
  first await, which labels and checks the candidates again and runs the whole deterministic ladder;
  `JudgeAnswer(r, answer)` is the continuation after `await judge(...)`, up to the next await or the end of
  the loop; `Deliver(r)` is the continuation of `run` after `await auditOutputWithJudge(...)`. Between any two
  of them other runs may act, as the event loop allows.
- `pc[r]` is where call `r` stands: `idle`, `admitted`, `judging` (awaiting the judge), `settled` (the audit's
  promise has resolved), `done`. `asking[r]` is the claim the loop stands at.
- The caller is assumed to hand `run` the candidates it had admitted, as `docs/INTEGRATION.md` shows.
- `JudgeAnswers` holds what a judge may answer: any status, an unusable value, a rejection. That it may never
  answer is the absence of fairness for `JudgeStep`.
- `Record(r)` is `store.load(result.graph)`. `recorded` and `latest` are history variables: which runs have
  been loaded, and which of those that share a run id last.
- `TraceDescend` is one iteration of walk's loop over neighbours, `TraceReturn` the end of a call of it. A
  node's neighbours are visited in any order, while the code sorts edge ids, which are hashes. `Trace` and
  `Impact` are synchronous: no `LoadDocument` happens while a query is under way.
- In `GraphAdapter` a step is what happens between two awaits. `CreateSchema(c)` is one statement of
  `initialise`, `Commit(c)` the write transaction taking effect, `Retry(c)` the driver running it again because
  the acknowledgement was lost, `Fail(c)` any query failing for good. `ReadNodes` and `ReadEdges` are the two
  sessions of `snapshot`. `acknowledged` and `owed` are history variables.
- In `Cli` a call is one invocation of `main` or of an exported function; calls of one process share
  `controlInvocations`. `RunCheck` is a check up to its verdict, `OpenGraph` and `WriteGraph` the two effects of
  `writeFile` on the ledger file (it is emptied, then written), between which other calls act. `Crash(p)` ends a
  process. A reader opens the file (`OpenLedger`) and has read it some time later (`Traverse`, `Validate`). What is
  in the file is `absent`, `empty`, `torn`, some `other` JSON, the `document` of one check (with its last newline or
  without), or `mixed`: the file is written in place and without a lock, so where two calls overlap a part of one
  ledger may stand beside the rest of another, or of other ones, and parse. `overlapped` holds the calls that had a
  writer beside them since they opened the file; `Left` is what such writers may leave and `Readable(c)` what such a
  reader may see. Of a mixed document any answer is possible: which parts fit together depends on the bytes, and the
  model allows more than they do. `standing` is a history variable: the check that wrote the file by itself, if nobody
  has opened it for writing since. A benchmark has no await between the reset of the counter and its summary and is
  one action.
- In `ClaimExtraction` a symbol stands for a run of characters with one role (words, a terminator, a quote, a
  bullet, a cell border, a fence marker) and is one character wide, so offsets are computed as in the code.

What is abstracted:

- A payload is eleven fields, one per detector (`InboundGuard!Payloads`), and the error score is exact in
  tenths, which is the precision of the code's weights; the density term is rounded down, which no comparison
  with the threshold can see.
- A chunk's text, for grounding, is the claims it quotes and restates, the specifics it mentions and its
  words. There an output is its claims; how claims come out of a text is `ClaimExtraction`, which in turn knows
  nothing of what they mean.
- The default content hash is a hash of the text, so equal texts have equal hashes. Hashes do not collide: an
  id is the tuple of what is hashed.
- Timestamps, scores, messages and telemetry are left out; no decision reads them.

## The runs

| run | module, instance | states | shows |
|---|---|---|---|
| `inbound` | `MCInbound`, about 130 payloads with at most two signals, every channel and tier declared or not, statuses 199, 200, 299, 300 and none, six slots | 253,380 | the inbound properties |
| `evidence` | `MCEvidence`, three claims, up to three chunks of eight texts and two tiers, ids distinct | 26,161 | the answer only improves with evidence, whatever its order |
| `guard` | `MCGuard`, two runs, three guards, two candidate lists, four outputs, five kinds of answer, a slot that also takes T4 cached material; only the event loop is fair | 38,809 | the guard's safety; that `Guard` refines `DeliveryGate`; that only a run with an open claim can wait for ever, and none if the judge answers in the end |
| `ledger` | `MCLedger`, two runs, guards of two tenants under policies named apart, ids that tell labels apart | 3,757 | the ledger's properties |
| `ledger_judge` | the same system, one submission run again while the judge fails | violation | finding 1 |
| `queries` | `MCQueries`, eight documents, two of them to be refused and two that close a circle, four targets, four origins, three sets of bounds | 47,928 | both searches exact within their bounds, each the other's mirror, within the tenant; every step leaves less to do, and every query returns |
| `adapter` | `MCAdapter`, two clients, adapters with and without redaction, two tenants, four graphs of which one is foreign and one malformed, symmetric in the clients | 150,647 | constraints before writes; nothing acknowledged is lost; `GraphAdapter` refines `MemoryAdapter` |
| `adapter_open` | one tenant, a graph that leaves an edge's end to another | violation | finding 2 |
| `cli` | `MCCli`, two calls in two processes; one is given any of some 300 checks (up to two entries of eight, ids missing, distinct or equal, two slots, a policy of the input's own, unusable inputs), benchmarks of six scenarios with ten controls, and four checks with a ledger; the other one check with a ledger, and reads it | 1,175,120 | the command is no more permissive than the guard; the ledger of every check is sound; a check that writes the file by itself restores it, whatever was left there; the benchmark measures the guard |
| `cli_collide` | the same, checks in which one id names an admitted and a refused chunk | violation | finding 3 |
| `extraction` | `MCExtraction`, every output of up to six symbols made of twelve pieces | 454,501 | spans, fences, nothing asserted unclaimed, finished lines stand |
| `extraction_quote` | the same outputs | violation | finding 4 |

**Why the bounds are enough.** The inbound operators read signals one at a time, and the only interaction
between them is the order of detectors and the sum of the error score: two signals together meet every pair
in that order and every sum on either side of the threshold. In `evidence` three chunks give a stage an
untrusted, a trusted and an irrelevant chunk in every order. In `guard` two runs meet every interleaving of
two loops; a run shares no state with another, so a third adds no kind of interference, and the theorems cover
any number. In `ledger` two runs are a recording and its repetition, or two tenants. The bounds of `queries` are
one set that nothing meets and two that cut walks in their depth, in their number, at a level and within
one; its graph has two ways to one claim, a circle, and a second run. In `adapter` two clients suffice for every
pair of steps to interleave, and two adapters for one of them to find the schema made by the other;
failures and retries are unbounded. In `cli` two calls
meet as two writers of different ledgers, or as a writer and a reader, with a crash at any point, and go on to a next
call over what is left; two entries are the fewest of which
one can stand in for the other; the scenarios hold a hit and a miss of each gate and every tier. In `extraction`
six symbols hold a fence with its line and three more, or two sentences with a mark and a space between, which is
every pair of the constructs that share an offset or a boundary.
`CHECK_DEADLOCK FALSE` is said where the system really stops: a payload that has been checked, runs that have
all returned, queries that have been answered, an output of the longest length. The adapter and cli runs check
deadlock: a client and a caller can always go on.

**Fairness.** `LoopFairness` is weak fairness of `Deliver`: Node resumes every continuation whose promise has
settled. Nothing of the caller is assumed fair: it may never call `run`. `JudgeFairness` is the hypothesis of
`EveryRunReturns` and of nothing else: `auditOutputWithJudge` sets no timeout, and `OnlyTheUndecidedWait`
says exactly which runs depend on it. `FairSpec` of `LineageQueries` is weak fairness of `Trace` and of `Impact`: a
synchronous call runs until it returns. Nothing makes the caller load or ask. `GraphAdapter`, `Cli` and
`ClaimExtraction` assume no fairness.

## The findings

1. `ledger_judge`: a submission repeated with a failing judge overwrites the judge's verdict with a
   deterministic one.
2. `adapter_open`: an edge whose end is not stored is dropped by the Neo4j adapter, which reports it as stored.
3. `cli_collide`: the check command delivers chunks by id, so that a refused chunk may be delivered in the
   place of an admitted one with the same id, and a claim only it states is reported as grounded.
4. `extraction_quote`: the loop that gives a sentence its closing quote is never entered, because a
   terminator followed by a quote is not taken for the end of a sentence; two sentences become one claim.

Each contradicts a sentence of the code's own documentation, quoted in `PROJECT.json`. The passing runs are under the
conditions that avoid them: sources that differ when labels do, policies named apart, ids that do not name both an
admitted and a refused chunk, documents that hold both ends of their edges.

Met while modelling, and shown by no run:

- `stageSpecifics` dedupes by chunk id before it looks at tiers (`ground.ts:182`), so the order of two labels of one
  text decides whether a claim is refused for low tier, against the comment at `ground.ts:270`.
- Guards that leave `policyName` and `policyVersion` at their defaults share one Policy node whatever their mode
  and slots, and the ledger overwrites it (`nodes.ts:117` says a changed policy is a new node).
- An explanation's `decisionPaths` are not empty for a target that rests on nothing, and are empty for one whose
  paths a depth bound cut, without a word about the bound (`trace.ts:136`).
- An edge whose end another document brings escapes `checkEdge` and joins what it may not (`store.ts:50`).
- A run that holds one text under an admitted and a refused label records the support of the admitted chunk on
  the refused one; a submission repeated under a refused label keeps the assembly edge of its first recording.
- An impact exactly `maxDepth` deep is complete and reported as truncated; a snapshot read while another client
  ingests may hold edges whose nodes it lacks.
- `saturationWarnings` looks at the basic and hard tiers alone, while `docs/LIMITATIONS.md:38` speaks of a tier.
- No code raises `OUTPUT_NOT_WRITABLE`: a ledger that cannot be written ends as `INPUT_INVALID_CHECK`, with the
  verdict unprinted, after the earlier ledger may have been emptied.
- Two checks that write one ledger file at once may leave parts of both in it. Where they lay out alike, as a run under
  two modes or with other verdicts does, the parts may parse together, and a traversal answers from a ledger
  that no check produced (`cli/src/index.ts:921`).
- `verifyControlEvidence` takes labels that are usable but wrong, and hashes beyond the chunks: nothing that is
  counted depends on either, which `MeasuresTheGuard` checks with the controls `relabelling` and `verbose`.

## The proofs

TLAPS checks, for all values of the constants:

- **`InboundProofs`**: seven invariants of the pipeline. The inductive invariant `LabelInv` is the type
  invariant, the two bounds on the tier, and that a verdict is the one of the chunk and slot beside it. The
  step that needs work is `Reclassify`: the ceiling holds again because a ceiling only lowers
  (`CeilingLowers`), and the declaration is not exceeded because the chunk's own tier is the next declaration.
  That an allowing slot has found no contradiction (`CheckedChunk`) follows from reasons being a
  concatenation: the whole is empty only if each part is. `BetterTierIsNeverWorse` compares two classifications
  of one payload. `AllowedIff` says exactly when a slot admits; `AsGood` is that one chunk is another but for a better
  tier, which admission respects because a failure's label is no data channel; `Traced` is the invariant that
  however often a chunk was classified, it is no better than the first classification of what was declared.
- **`AuditLemmas`**: a grounded assessment names a trusted chunk of the evidence, a support lies within the evidence,
  an allowing verdict means every claim is grounded; a filter keeps exactly the items at its positions (`ItemsKept`,
  `EachKept`); the graph of any single audit is closed, well formed and of one run (`SoundGraph`), and its
  `SUPPORTED_BY` edges are those the assessments name (`SupportEdges`).
- **`LedgerProofs`, the guard**: nine theorems from one inductive invariant, `Inv`: the shapes of the variables, and per
  run (`RunInv`) that evidence is what the slot admits of the candidates, that every assessment is the ladder's
  or a judge's `ungrounded` of one the ladder left open, that the judge has been asked of exactly the open
  claims before `asking[r]`, and that a result is the verdict of the assessments. It is stronger than the
  checked properties because none of them alone survives a step: `DeliverySound` needs to know where
  assessments came from, `DecisionModeIndependent` that two runs' assessments differ only where a judge
  turned an open claim into an ungrounded one, and with the guard's fixed `block` policy for open claims both
  decide the same. `GuardIsAGate` proves the refinement: `Run` maps to `Submit`, `Deliver` to `Decide`, all
  else to stuttering; that `Decide` is right is the same argument, by the ladder alone.
  Assumptions used: guards have a mode and a Boolean judge, candidate lists and outputs are sequences.
  `TLC` also checked `Inv` as an invariant of the `guard` instance.
- **`EvidenceProofs`**: five theorems for any claims and evidence. The invariant `Apart` is that ids tell chunks apart,
  which retrieval keeps and exchange does not touch. The ladder's answer is then a function of the set of
  chunks (`AssessedAlike`): every stage is an existence of chunks, and whether one of them is trusted; that is why order
  is irrelevant. `GroundedIff` says which sets ground a claim, by a condition that more chunks only satisfy the
  better. Assumed: claims are sequences of specifics and words.
- **`LedgerProofs`, the ledger**: five theorems about the store. A store is overwritten node by node, so the invariant
  `LedgerInv` says what may have become of a node: the edges are the union of the edges of the recorded runs, each
  node is as some recorded run has it, and the nodes that belong to a run id are as the run recorded last under
  that id has them (`LatestOf`). The checked properties follow from it and from what one audit's graph is like.
  `RefusedNeverSupports` needs two hypotheses about the inputs: `IdsTellChunksApart`, since with two labels under one
  id the support is recorded on the wrong one, and `JudgeNamesAdmitted`, since nothing in the code keeps a judge to what
  it was shown. `ReplayConverges` needs `PoliciesNamedApart`: a policy's node outlives runs, and two policies of one
  name overwrite each other. The other three need nothing.
- **`QueriesProofs`**: nine theorems about the searches for every store, question and bound.
  - The frontier invariant `SearchInv` is what makes an impact complete: a reached node whose dependants may be
    missing is in the queue, in the level being built, or the search says that it was cut.
  - `StoreInv` carries well-formedness across loads; it needs `ClosedDocuments`, that documents hold both ends of their
    edges. `WalkInv`, `ImpactInv` and `ConfinedInv` confine trails and levels to the tenant and, with `RunsNamed`, to
    the run: an edge that is not a derivation and does not pass through a source or a policy keeps to its run.
  - `LevelInv` makes distances those of shortest ways: what has been reached is all within `depth` steps and, beyond
    them, only the next level in part. `Within` is a recursive function, so what is used of it is its defining
    equation (`WithinStepwise`), and induction is by a least counterexample (`Upward`).
  - `TraceInv` accounts for paths: those found, and those that still can be found below the trail, given the
    neighbours not yet visited at each depth of it (`Awaiting`), are together the maximal paths from the target, unless the
    walk says it was cut. A step of walk moves paths from one side to the other (`EnterAwaits`, `StepSplits`). At the
    end nothing is awaited. `MaximalPaths` bounds the length of simple paths by the number of nodes, which takes
    the pigeonhole (`SimpleBounded`) and `FiniteDocuments`.
  - `TheTraversalsAgree` follows: the forward step table is the backward one reversed (`StepsMirror`), a complete impact is
    closed under forward steps, and an uncut trace has every simple path, one of which goes through the origin when
    anything does.
  - `SearchesAlwaysAdvance` is what can be proved of termination: what is left to do is a natural number (`TraceWork`,
    `ImpactWork`) that every step makes smaller, on stores with circles too. For an impact it counts
    nodes not expanded yet; that a node is never queued again takes `SweepInv`, which keeps this level and the next
    apart. For a walk it counts the simple paths it may still enter: there are finitely many (`FewSimplePaths`, which needs
    `FiniteEdges`), and a step enters one that is never entered again (`EnteredOnce`), since the step is not left at its
    node. `DepthsAreNumbers` says that `maxDepth` is a natural number.
- **`AdapterProofs`**: from `Inv`, that an adapter believing the schema is ready is right, that a client in
  `initialise` has all earlier statements behind it, and that a client past it finds all of them. It is
  inductive where `ConstraintsBeforeWrites` is not, since a write says nothing of how its client came there; no
  assumption is needed. `AcknowledgedIsRead` adds what was acknowledged to what is stored, and what a
  snapshot has read so far; it needs `ClosedGraphs`, and `adapter_open` shows why. `AdapterImplementsReference`
  proves the refinement: `Commit` and a `Retry` that writes map to `Ingest`, all else to stuttering; it needs graphs the
  reference takes (`WellFormedGraphs`) that record a node with the same attributes (`SameAttributes`).
- **`CliProofs`**: the inductive invariant says that a check past its gates is one that could be run, that a call which
  writes and had no other beside it is the only writer and has an empty file before it, and that where a check stands, its
  document is in the file and nobody writes (`FileInv`). `RewriteRestores` alone is not inductive: that the last writer
  leaves its own document and nothing else follows only from the empty file it found. `RewriteAlwaysRestores` adds
  that this document is one a validation and a load find nothing wrong with. `BenchAlwaysCountsItsOwn` needs that
  nothing happens between reset and summary, and that a refused scenario ends the benchmark.
  `LedgersAlwaysValidate` proves that the ledger of every single check is sound, from `auditFromPipeline` and the
  lemmas about one audit; it needs `IdsTellVerdicts`, that no id names both an admitted and a refused chunk. So do
  `RewriteAlwaysRestores`, `RefusedNeverGround` and `AllowedIsAlwaysDeliverable`, and `cli_collide` shows why: under it the delivered chunks and the admitted ones
  have the same texts at the same ids, and the two compositions of the gates come to the same assessments.
  They also need `SharedIdsAreTrusted`: of two admitted chunks with one id the command audits the first twice, which makes a
  difference only if their tiers are on different sides of the grounding threshold. `InputsAreLists` says that
  what is parsed from arrays is a list.
- **`CliProofs`, the benchmark**: `AlwaysMeasuresTheGuard` is about every corpus. The inductive invariant `BenchInv` says
  that what a completed benchmark reports is the summary of some results whose controls were all verified; which controls
  they were is lost with the call, so the rest is about the summary of any of them. Two arguments meet there.
  - What is counted is right: a scenario `wouldBlock` exactly if an enforcing guard withholds something of it
    (`ScenarioPipeline`, `ResultFields`). The pipeline of the benchmark and the guard's own gates are two compositions, which
    agree where an id names one chunk; that a control's evidence was verified is what makes `guardEffect` mean a
    change, and a block always names one gate and one reason code (`BlockIsNamed`), so nothing falls out of a breakdown.
  - It is counted once: a rate is the length of a filtered list, which is the number of places kept (`KeptLength`);
    the tiers and provenances part the scenarios, and a fold over a function is the number of items in its cells
    (`CountsAddUp`, over finite sets by a least counterexample), so the cells add up to the corpus (`RecallTotals`,
    `FalsePositiveTotals`, `BreakdownTotals`).

  It needs `ScenariosAreTyped`: each scenario has a tier, a provenance and an expectation of the harness's types, lists
  for its chunks and claims, and no id for two different chunks.
- **`ExtractionProofs`**: four theorems for every output and any pieces it is written in. The invariant says only that the
  claims are those of the output so far; the work is in what `extractClaims` computes.
  - A list of spans is a cut of a span (`Cut`) when each points at its text, lies inside it, and none begins before the one
    before it ends. Each way of cutting is shown to give one, and to lose nothing but what it is meant to: lines and
    cells (`SplitCut`, `SplitHolds`), trimming (`TrimmedHolds`), sentences (`SentencesCut`), and cuts of cuts laid
    end to end (`FlattenCut`). `SpansAlwaysPoint` and `NoAssertionSlipsBy` follow: between the cuts there are only
    separators, bullets and spaces.
  - `CodeIsNeverMined` is about counting. The number of a line is one more than the newlines above it (`LineNumber`), and
    it is in one of the ranges exactly when it is a fence line or an odd number of fence lines is above it: the k-th
    range is from the fence numbered 2k - 1 to the one numbered 2k, or to the end.
  - `FinishedLinesAlwaysStand` compares two outputs. A finished line and the fences above it are the same in both, so what
    is found before the last newline is the same; two ascending lists with the same items below a limit begin alike
    (`BeginAlike`), so the ids are the same too.

  `FlattenSeq` and what is built from it are defined by recursive functions; what is used of them is the defining
  equation (`FlattenStepwise`), and induction is by a least counterexample, as for the searches. It is assumed only that
  pieces are made of the symbols.

The hypotheses about the inputs are defined beside the modules they are about, and `MCLedger`, `MCAdapter`, `MCCli` and
`MCQueries` assume them of their instances (`WhatTheoremsAsk`), so that TLC evaluates them: each is met by inputs that the
runs explore.

**Only model-checked:** liveness (`OnlyTheUndecidedWait`, `EveryRunReturns`, `QueriesReturn`), which the prover
does not do. Of `QueriesReturn` only the fairness is left to TLC: that a search cannot go on for ever is proved, as
`SearchesAdvance`. Every safety property of a passing run is proved, under the hypotheses named above.

**Only proved:** `DocumentsWellFormed`, which `StaysInTenant` rests on; the type invariants of `InboundPipeline`, `Guard`,
`LineageQueries` and `GraphAdapter`; `SuccessClaimOnFailureRefused`, `EvidenceTierJustified`, `AuditedOnAdmissible`,
`JudgedInOrder`, `MonitorChangesNothing`, `SettledStaysSettled` and `IncidentStaysInItsRun`.

## Not modelled

Tokenizing, folding and entity matching of `text.ts` (regular expressions over characters); of extraction the
numbered lists, headings, block quotes and digits that take the same paths as bullets and words; parsing with zod,
redaction on export, and stripping of credentials; `loadUnchecked`, which tests use; the verdict and policy that
`explain` reads off the store; the Neo4j adapter's `clear`, also for tests, and its single reads; `assembleContext`,
which the demo calls; the parsing of arguments, the printing and `bench-results.json` of the command line, and its
tenant and redaction flags; the scenarios of the harness, which are data; the validator's checks of ids and
references in documents that were tampered with; the demo, scripts and telemetry (`safeSpan` swallows failures
and changes no state).

`GraphAdapter` is compared with its reference for graphs whose edges are well formed and whose nodes are
recorded with the same attributes. For others the two differ: Neo4j takes edges the reference refuses, and keeps
optional attributes that a later recording leaves out.

## The plan

The order followed so far: the vocabulary and the inbound guard, the ladder, the guard with its judge, the
ledger, the searches, the adapter, extraction, the command line and its benchmark; each with its proofs as far as
the section above says.

Next, in order:

1. A reference adapter that keeps optional attributes; `clear` beside ingests.
2. Tampered documents: `validateGraph`'s checks of ids, references and duplicates.
