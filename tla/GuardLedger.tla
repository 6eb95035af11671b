------------------------------ MODULE GuardLedger ------------------------------
(***************************************************************************)
(* The runs of the guard and the ledger they are recorded in.  run returns *)
(* the graph of its audit; a caller loads it into a store whenever it gets *)
(* to it, in any order and as often as it likes.  Runs of one tenant share *)
(* sources and policies; runs that submit the same output with the same    *)
(* chunks are one run to the ledger, whatever their labels, mode or judge. *)
(***************************************************************************)
EXTENDS Guard, Ledger

\* A guard of this module also has a tenant and a policy: [name, version].
ASSUME TenantsAssumption == \A g \in Guards : {"tenant", "policy"} \subseteq DOMAIN g

VARIABLES
  store,    \* the ledger: the nodes and edges of every graph loaded
  recorded, \* the runs whose graph was loaded into it
  latest    \* per run id of the ledger, the run whose graph was loaded last

ledgerVars == <<store, recorded, latest>>

\* The audit run records.  Its chunks are all the candidates; admitted says
\* what an enforcing policy does with each, in either mode.
runAudit(r) ==
  LET chunks == chunksOf(candidates[r])
  IN  [tenant    |-> guard[r].tenant,
       runKey    |-> <<claims[r], [i \in DOMAIN chunks |-> chunks[i].id]>>,
       policy    |-> [name |-> guard[r].policy.name, version |-> guard[r].policy.version,
                      contentHash |-> contentDigest(Slot), mode |-> guard[r].mode],
       output    |-> claims[r],
       delivered |-> result[r].delivered,
       chunks    |-> [i \in DOMAIN chunks |->
                        [chunk    |-> chunks[i],
                         admitted |-> ~wouldRefuse(chunks[i]),
                         decision |-> checkSlot(chunks[i], Slot).decision]],
       claims    |-> [i \in DOMAIN claims[r] |->
                        [status     |-> assessments[r][i].status,
                         method     |-> assessments[r][i].decidedBy,
                         supporting |-> assessments[r][i].supporting]]]

graphOf(r) == buildGraph(runAudit(r))

LedgerInit ==
  /\ Init
  /\ store = EmptyStore
  /\ recorded = {}
  /\ latest = <<>>

\* store.load(result.graph), for a run that has returned.
Record(r) ==
  /\ Done(r)
  /\ store' = load(store, graphOf(r))
  /\ recorded' = recorded \cup {r}
  /\ latest' = recordOver(latest, [id \in {RunIn(runAudit(r))} |-> r])
  /\ UNCHANGED vars

LedgerNext ==
  \/ Next /\ UNCHANGED ledgerVars
  \/ \E r \in Runs : Record(r)

LedgerSpec == LedgerInit /\ [][LedgerNext]_<<vars, ledgerVars>>

-------------------------------------------------------------------------------
\* The chunks the ledger says a claim rests on.
SupportOf(claim) == {e.to : e \in {f \in store.edges : f.type = "SUPPORTED_BY" /\ f.from = claim}}

(* The whole store is a well-formed graph whatever was loaded and in which  *)
(* order: every edge joins two stored nodes of kinds it may join, of one    *)
(* tenant, and, if it is local to a run, of one run.                        *)
StoreWellFormed == Dangling(store) = {} /\ IllFormed(store) = {}

(* A claim is said to rest on exactly the chunks that a recorded run of its *)
(* run id named as its grounds: neither sharing a ledger with other runs    *)
(* nor the order of recording gives a claim a support nothing found.        *)
SupportIsWhatWasNamed ==
  \A r \in recorded : \A i \in DOMAIN claims[r] :
    LET audit == runAudit(r)
        idOf(k) == audit.chunks[k].chunk.id
        alike == {s \in recorded : RunIn(runAudit(s)) = RunIn(audit)}
    IN  {idOf(c[4]) : c \in SupportOf(ClaimIn(audit, i))}
          = (UNION {assessments[s][i].supporting : s \in alike})
              \cap {idOf(k) : k \in DOMAIN audit.chunks}

(* Nothing the slot refused supports a claim, in either mode: the validator *)
(* finds no claim that rests on a refused chunk, whoever grounded it.       *)
RefusedNeverSupports == SupportFromBlocked(store) = {}

(* In what the gate delivers, the ledger explains every claim: it has       *)
(* support, or a verdict that allowed it or was only monitored.             *)
DeliveriesExplained == UnsupportedDelivery(store) = {}

(* Recording again a run that is what the ledger knows of its run id        *)
(* changes nothing, whatever was recorded in between.                       *)
ReplayConverges ==
  [][\A id \in DOMAIN latest : Record(latest[id]) => store' = store]_<<vars, ledgerVars>>

(* "A judge-decided claim is recorded as such and can never be relabelled   *)
(* deterministic".                                                          *)
JudgeNeverRelabelled ==
  [][\A v \in OfKind(store, "Verdict") :
       store.nodes[v].method = "judge" => store'.nodes[v].method = "judge"]_<<vars, ledgerVars>>

-------------------------------------------------------------------------------
\* What the theorems ask of the inputs.  An id is that of one labelled chunk, as it
\* is unless one text of one source comes under two labels, or a caller gives an
\* id twice.
IdsTellChunksApart ==
  \A a, b \in Candidates : chunkOf(a).id = chunkOf(b).id => chunkOf(a) = chunkOf(b)

\* A judge that refutes a claim names no chunk that was kept from it.
JudgeNamesAdmitted ==
  \A answer \in JudgeAnswers, candidate \in Candidates :
    answer.kind = "ungrounded" /\ chunkOf(candidate).id \in answer.supporting
      => ~wouldRefuse(chunkOf(candidate))

\* Policies of one name and version are one policy.
PoliciesNamedApart ==
  \A g, h \in Guards :
    /\ g.tenant = h.tenant
    /\ g.policy.name = h.policy.name /\ g.policy.version = h.policy.version
    => g.mode = h.mode
===============================================================================
