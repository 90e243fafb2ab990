------------------------------ MODULE Metering ------------------------------
(***************************************************************************)
(* What investigations promise to the tenant who pays for them, without    *)
(* handlers, transactions or a ledger in memory: an idempotency key of a   *)
(* tenant stands for one run, a run is charged in the one step in which it *)
(* gets its result, and usage grows by nothing else than charges and       *)
(* reports.  Investigation implements this contract; Console relies on it. *)
(***************************************************************************)
EXTENDS Naturals

CONSTANTS
    Tenant,
    Key,             \* Idempotency-Key values
    Requests,        \* what a run is asked to do
    RunId

VARIABLES
    bindings,        \* what each run was created for
    charged,         \* runs that have their result and were charged
    usage            \* AgentRun units of each tenant

vars == <<bindings, charged, usage>>

Free == [bound |-> FALSE]                 \* no run has this ID yet
Binding == [tenant : Tenant, key : Key, request : Requests]

TypeOK ==
    /\ bindings \in [RunId -> Binding \cup {Free}]
    /\ charged \subseteq {r \in RunId : bindings[r] # Free}
    /\ usage \in [Tenant -> Nat]

Init ==
    /\ bindings = [r \in RunId |-> Free]
    /\ charged = {}
    /\ usage = [tenant \in Tenant |-> 0]

RunOf(tenant, key) ==
    {r \in RunId : bindings[r] # Free /\ bindings[r].tenant = tenant /\ bindings[r].key = key}

(* The first creation with a key makes a run; any other finds it.           *)
Bind(r, tenant, key, request) ==
    /\ bindings[r] = Free
    /\ RunOf(tenant, key) = {}
    /\ bindings' = [bindings EXCEPT ![r] = [tenant |-> tenant, key |-> key, request |-> request]]
    /\ UNCHANGED <<charged, usage>>

Charge(r) ==
    /\ bindings[r] # Free
    /\ r \notin charged
    /\ charged' = charged \cup {r}
    /\ usage' = [usage EXCEPT ![bindings[r].tenant] = @ + 1]
    /\ UNCHANGED bindings

Report(tenant) ==
    /\ usage' = [usage EXCEPT ![tenant] = @ + 1]
    /\ UNCHANGED <<bindings, charged>>

Next ==
    \/ \E r \in RunId, tenant \in Tenant, key \in Key, request \in Requests :
          Bind(r, tenant, key, request)
    \/ \E r \in RunId : Charge(r)
    \/ \E tenant \in Tenant : Report(tenant)

Spec == Init /\ [][Next]_vars
=============================================================================
