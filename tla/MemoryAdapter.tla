----------------------------- MODULE MemoryAdapter -----------------------------
(***************************************************************************)
(* The storage contract (packages/graph/src/adapter.ts), as its reference  *)
(* implementation keeps it: a graph is stored as a whole in one step, or   *)
(* refused and nothing changes.                                            *)
(***************************************************************************)
EXTENDS Ledger

CONSTANTS
  Tenants,  \* who may call
  Graphs    \* what may be ingested

VARIABLE store

WellKinded(graph) == \A id \in DOMAIN graph.nodes : KindOf(id) \in NodeKinds

\* assertTenantScoped: every element of a batch is the caller's.
TenantScoped(tenant, graph) ==
  /\ \A id \in DOMAIN graph.nodes : TenantOf(id) = tenant
  /\ \A e \in graph.edges : e.tenant = tenant

Ingest(tenant, graph) ==
  /\ TenantScoped(tenant, graph)
  /\ WellKinded(graph)
  /\ store' = load(store, graph)

Init == store = EmptyStore
Next == \E tenant \in Tenants, graph \in Graphs : Ingest(tenant, graph)
Spec == Init /\ [][Next]_store
===============================================================================
