------------------------------ MODULE Queries -------------------------------
(***************************************************************************)
(* The pure functions that read a list of observations: the pages of       *)
(* GET /v1/observations, diagnose, plan_agent_request and                  *)
(* execute_safe_tool.  An observation is a record with id, tenant,         *)
(* started (started_at_ms) and failed (status Error).                      *)
(***************************************************************************)
EXTENDS Lists

Largest(m, n) == IF m > n THEN m ELSE n
Smallest(m, n) == IF m < n THEN m ELSE n

(* sort_by_key is stable: an item comes after those that started before it, *)
(* and after those that started with it and were before it.                 *)
SortedByStart(items) ==
    LET Before(i, j) == \/ items[i].started < items[j].started
                        \/ items[i].started = items[j].started /\ i <= j
    IN  Arranged(items, DOMAIN items, [j \in DOMAIN items |-> Cardinality({i \in DOMAIN items : Before(i, j)})])

Of(items, tenant) == Those(items, {n \in DOMAIN items : items[n].tenant = tenant})
Named(items, tenant, ids) ==
    Those(items, {n \in DOMAIN items : items[n].tenant = tenant /\ items[n].id \in ids})
Failed(items) == Those(items, {n \in DOMAIN items : items[n].failed})
Ids(items) == [n \in DOMAIN items |-> items[n].id]

(* filter_observations; retain by name and status is left out.  A page and  *)
(* its size are at least one, and a size is at most limit (1000).           *)
BugFilterObservations(items, tenant, page, page_size, limit) ==  \* mutant: pages begin at zero
    LET sorted == SortedByStart(Of(items, tenant))
        size == Largest(1, Smallest(page_size, limit))
        start == Largest(1, page) * size
    IN  SubSeq(sorted, start + 1, Smallest(start + size, Len(sorted)))

FilterObservations(items, tenant, page, page_size, limit) ==
    LET sorted == SortedByStart(Of(items, tenant))
        size == Largest(1, Smallest(page_size, limit))
        start == (Largest(1, page) - 1) * size
    IN  SubSeq(sorted, start + 1, Smallest(start + size, Len(sorted)))

-----------------------------------------------------------------------------
(* The IDs of the one finding there is, or none.                            *)
Diagnose(tenant, items) == Ids(Failed(Of(items, tenant)))

SafeTools == {"inspect_failure_context", "summarize_trace"}

BugPlanAgentRequest(tenant, ids, items) ==   \* mutant: evidence is not asked for its tenant
    LET evidence == Those(items, {n \in DOMAIN items : items[n].id \in ids})
    IN  [tool |-> IF Failed(evidence) # <<>> THEN "inspect_failure_context" ELSE "summarize_trace",
         evidence |-> Ids(evidence)]

PlanAgentRequest(tenant, ids, items) ==
    LET evidence == Named(items, tenant, ids)
    IN  [tool |-> IF Failed(evidence) # <<>> THEN "inspect_failure_context" ELSE "summarize_trace",
         evidence |-> Ids(evidence)]

ExecuteSafeTool(tenant, tool, ids, approved, items) ==
    LET Result(status, evidence) == [status |-> status, evidence |-> evidence]
    IN  IF tool \notin SafeTools THEN Result("rejected", <<>>)
        ELSE IF ~approved THEN Result("approval_required", <<>>)
        ELSE Result("completed", Ids(Named(items, tenant, ids)))
=============================================================================
