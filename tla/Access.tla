------------------------------- MODULE Access -------------------------------
(***************************************************************************)
(* Who may do what: the middleware api_key_guard, the tenant checks of the *)
(* handlers, and what production reserves.  A deployment is what the       *)
(* environment of the process says; a request carries a key and a tenant   *)
(* in its headers and names a tenant in its body or its query.             *)
(***************************************************************************)
EXTENDS Integers

CONSTANTS
    Tenant,
    Secret,          \* values of X-API-Key and of the configured keys
    None,            \* a header or a variable that is not set
    Malformed        \* an OBSERVABILITY_TENANT_ID that is no UUID

ASSUME NoneAssumption ==
    /\ None \notin Tenant \cup Secret
    /\ Malformed \notin Tenant \cup {None}

(* The entries of OBSERVABILITY_API_KEYS that can be read: none of them may *)
(* be, and the variable is set nevertheless.                                *)
Deployment == [mapping : {None} \cup SUBSET (Tenant \X Secret),  \* OBSERVABILITY_API_KEYS
               global : Secret \cup {None},                \* OBSERVABILITY_API_KEY
               tenant : Tenant \cup {None, Malformed},     \* OBSERVABILITY_TENANT_ID
               production : BOOLEAN]                       \* OBSERVABILITY_ENV

Request == [key : Secret \cup {None}, header : Tenant \cup {None}, named : Tenant]

-----------------------------------------------------------------------------
(* The extension the handlers read: the tenant whose own key was sent with  *)
(* its own ID.                                                              *)
AuthorizedTenant(deployment, request) ==
    IF deployment.mapping # None /\ <<request.header, request.key>> \in deployment.mapping
    THEN request.header
    ELSE None

GlobalKeyMatches(deployment, request) ==
    deployment.global # None /\ request.key = deployment.global

KeysConfigured(deployment) == deployment.mapping # None \/ deployment.global # None

ApiKeyGuard(deployment, request) ==
    IF deployment.production /\ ~KeysConfigured(deployment) THEN 500
    ELSE IF /\ AuthorizedTenant(deployment, request) = None
            /\ ~GlobalKeyMatches(deployment, request)
            /\ KeysConfigured(deployment) THEN 401
    ELSE 200

BugEnforceTenantFor(deployment, request) ==  \* mutant: only OBSERVABILITY_TENANT_ID is compared
    deployment.tenant \in {None, request.named}

EnforceTenantFor(deployment, request) ==
    /\ deployment.tenant \in {None, request.named}
    /\ AuthorizedTenant(deployment, request) \in {None, request.named}

(* Every handler that names a tenant: ingestion, queries, plans, tools,     *)
(* models, usage, quotes and the queue.                                     *)
Admitted(deployment, request) ==
    ApiKeyGuard(deployment, request) = 200 /\ EnforceTenantFor(deployment, request)

(* record_usage: "usage events are service-managed".                        *)
MayRecordUsage(deployment, request) ==
    /\ Admitted(deployment, request)
    /\ ~(deployment.production /\ AuthorizedTenant(deployment, request) # None)

(* investigation_tenant: the tenant of an investigation, or none.           *)
InvestigationTenant(deployment, request) ==
    IF ApiKeyGuard(deployment, request) # 200 THEN None
    ELSE IF AuthorizedTenant(deployment, request) # None THEN AuthorizedTenant(deployment, request)
    ELSE IF deployment.production THEN None
    ELSE request.header
=============================================================================
