------------------------------- MODULE Tracing -------------------------------
(***************************************************************************)
(* OTLP exporters, a reader of pages and an agent at work together, under  *)
(* one configuration of keys: ingest_otlp_traces with Access and Otlp,     *)
(* append and list of the two stores, and list, diagnostics, agent_plan    *)
(* and agent_execute with Queries.  Ingestion is in direct mode: the       *)
(* observations of a request are appended one by one, and the store's lock *)
(* is free between two of them.  What DirectIngest tells of the same       *)
(* handler (slots, its counters, torn lines) is left out.                  *)
(*                                                                         *)
(* A collector that got no answer in time sends a trace again, perhaps     *)
(* while the handler of the first request still runs.                      *)
(***************************************************************************)
EXTENDS Access, Queries, Otlp, Functions

CONSTANTS
    Deployments,     \* configurations that are tried
    Exporter,        \* requests to /v1/traces that may run at the same time
    Batches,         \* traces that are exported: sequences of spans
    Limit,           \* largest page (1000)
    PageSizes,       \* sizes of page that a reader asks for
    MaxExports,      \* bound: requests to /v1/traces in a run
    MaxFaults        \* bound: errors of the store and deaths of the process

ASSUME BatchesAssumption == Batches \subseteq Seq(Span)

ASSUME DeploymentsAssumption == Deployments \subseteq Deployment

ASSUME TracingBoundAssumption ==
    /\ Limit \in Nat \ {0}
    /\ PageSizes \subseteq Nat
    /\ MaxExports \in Nat
    /\ MaxFaults \in Nat

VARIABLES
    deployment,      \* environment of the process
    store,           \* OBSERVABILITY_STORAGE
    rows,            \* observations in the order of their last writes
    exports,         \* what each exporter's handler does
    client,          \* a reader of pages or an agent
    agent_executions, \* counter of /metrics
    sent,            \* the exports so far: tenant, batch and outcome
    moved,           \* a row changed its place while the client read pages
    faults           \* bounded by MaxFaults

vars == <<deployment, store, rows, exports, client, agent_executions, sent, moved, faults>>

Spans == UNION {Range(batch) : batch \in Batches}
Observations == {MapSpan(span, tenant) : span \in Spans, tenant \in Tenant}
Identities == {observation.id : observation \in Observations}

-----------------------------------------------------------------------------
Idle == [state |-> "idle"]

Init ==
    /\ deployment \in Deployments
    /\ store \in {"sqlite", "jsonl"}
    /\ rows = <<>>
    /\ exports = [x \in Exporter |-> Idle]
    /\ client = Idle
    /\ agent_executions = 0
    /\ sent = <<>>
    /\ moved = FALSE
    /\ faults = 0

(* A request about a tenant that api_key_guard and enforce_tenant_for let   *)
(* pass; of /v1/traces the tenant is the one in its header.                 *)
Authorized(tenant) == \E request \in Request :
    request.named = tenant /\ Admitted(deployment, request)
ExportAuthorized(tenant) == \E request \in Request :
    request.named = tenant /\ request.header = tenant /\ Admitted(deployment, request)

-----------------------------------------------------------------------------
(* ingest_otlp_traces up to its first append.                               *)
BeginExport(x, tenant, batch) ==
    /\ exports[x] = Idle
    /\ Len(sent) < MaxExports
    /\ ExportAuthorized(tenant)
    /\ exports' = [exports EXCEPT ![x] = [state |-> "appending", export |-> Len(sent) + 1, next |-> 1]]
    /\ sent' = Append(sent, [tenant |-> tenant, batch |-> batch, outcome |-> "open"])
    /\ UNCHANGED <<deployment, store, rows, client, moved, agent_executions, faults>>

Mapping(x) == MapRequest(sent[exports[x].export].batch, sent[exports[x].export].tenant)

BugAnswer(x, outcome) ==     \* mutant: the loop goes on after the answer is known
    /\ exports' = [exports EXCEPT ![x].next = @ + 1]
    /\ sent' = [sent EXCEPT ![exports[x].export].outcome = outcome]

Answer(x, outcome) ==
    /\ exports' = [exports EXCEPT ![x] = Idle]
    /\ sent' = [sent EXCEPT ![exports[x].export].outcome = outcome]

(* INSERT OR REPLACE takes the row of the same ID away and adds one that    *)
(* comes last; a line of JSONL stays.                                       *)
Written(observation) ==
    Append(IF store = "sqlite" THEN Those(rows, {n \in DOMAIN rows : rows[n].id # observation.id}) ELSE rows,
           observation)

(* Its start, or the order of those that start together, is another.        *)
Moves(observation) == store = "sqlite" /\ \E row \in Range(rows) :
    /\ row.id = observation.id
    /\ \/ row.started # observation.started
       \/ \E other \in Range(rows) \ {row} :
             other.tenant = row.tenant /\ other.started = row.started

(* ObservationRepository::append; its own validation is an error like one   *)
(* of the store, and accept_observations stops at the first.                *)
AppendNext(x) ==
    /\ exports[x].state = "appending"
    /\ exports[x].next <= Len(Mapping(x).observations)
    /\ LET observation == Mapping(x).observations[exports[x].next]
       IN  IF Validate(observation)
           THEN /\ rows' = Written(observation)
                /\ moved' = (moved \/ (client.state = "reading" /\ Moves(observation)))
                /\ exports' = [exports EXCEPT ![x].next = @ + 1]
                /\ UNCHANGED sent
           ELSE Answer(x, "failed") /\ UNCHANGED <<rows, moved>>
    /\ UNCHANGED <<deployment, store, client, agent_executions, faults>>

(* 200, with the rejected spans in partial_success if there are any.        *)
AnswerExport(x) ==
    /\ exports[x].state = "appending"
    /\ exports[x].next > Len(Mapping(x).observations)
    /\ Answer(x, "accepted")
    /\ UNCHANGED <<deployment, store, rows, client, moved, agent_executions, faults>>

StoreError(x) ==
    /\ exports[x].state = "appending"
    /\ exports[x].next <= Len(Mapping(x).observations)
    /\ faults < MaxFaults
    /\ Answer(x, "failed")
    /\ faults' = faults + 1
    /\ UNCHANGED <<deployment, store, rows, client, moved, agent_executions>>

(* The process dies and starts again: no handler in progress answers.       *)
Crash ==
    /\ faults < MaxFaults
    /\ \E x \in Exporter : exports[x] # Idle
    /\ exports' = [x \in Exporter |-> Idle]
    /\ sent' = [n \in DOMAIN sent |->
                  [sent[n] EXCEPT !.outcome = IF @ = "open" THEN "failed" ELSE @]]
    /\ faults' = faults + 1
    /\ agent_executions' = 0
    /\ UNCHANGED <<deployment, store, rows, client, moved>>

-----------------------------------------------------------------------------
(* ObservationRepository::list.  SQLite leaves the order of rows that start *)
(* together open and takes them as its table has them, by rowid.            *)
Listed == IF store = "sqlite" THEN SortedByStart(rows) ELSE rows

Stored(tenant) == Range(Ids(Of(rows, tenant)))

(* A reader asks for page after page until one is empty.                    *)
BeginReading(tenant, page_size) ==
    /\ client = Idle
    /\ Authorized(tenant)
    /\ client' = [state |-> "reading", tenant |-> tenant, size |-> page_size, page |-> 1,
                  began |-> Stored(tenant), seen |-> {}]
    /\ UNCHANGED <<deployment, store, rows, exports, sent, moved, agent_executions, faults>>

ReadPage ==
    /\ client.state = "reading"
    /\ LET page == FilterObservations(Listed, client.tenant, client.page, client.size, Limit)
       IN  client' = IF page = <<>>
                     THEN [client EXCEPT !.state = "read"]
                     ELSE [client EXCEPT !.page = @ + 1, !.seen = @ \cup Range(Ids(page))]
    /\ UNCHANGED <<deployment, store, rows, exports, sent, moved, agent_executions, faults>>

(* An agent asks for a diagnosis, for a plan about its evidence (or about   *)
(* everything there is) and for the tool of the plan, approved.             *)
Diagnosis(tenant) ==
    /\ client = Idle
    /\ Authorized(tenant)
    /\ client' = [state |-> "diagnosed", tenant |-> tenant,
                  finding |-> Range(Diagnose(tenant, Listed))]
    /\ UNCHANGED <<deployment, store, rows, exports, sent, moved, agent_executions, faults>>

Plan ==
    /\ client.state = "diagnosed"
    /\ \E ids \in {client.finding, Identities} :
          client' = [state |-> "planned", tenant |-> client.tenant, finding |-> client.finding,
                     plan |-> PlanAgentRequest(client.tenant, ids, Listed)]
    /\ UNCHANGED <<deployment, store, rows, exports, sent, moved, agent_executions, faults>>

Execute ==
    /\ client.state = "planned"
    /\ client' = [state |-> "executed", tenant |-> client.tenant, finding |-> client.finding,
                  plan |-> client.plan,
                  result |-> ExecuteSafeTool(client.tenant, client.plan.tool,
                                Range(client.plan.evidence), TRUE, Listed)]
    /\ agent_executions' = agent_executions + 1
    /\ UNCHANGED <<deployment, store, rows, exports, sent, moved, faults>>

Next ==
    \/ \E x \in Exporter :
          \/ \E tenant \in Tenant, batch \in Batches : BeginExport(x, tenant, batch)
          \/ AppendNext(x)
          \/ AnswerExport(x)
          \/ StoreError(x)
    \/ Crash
    \/ \E tenant \in Tenant :
          \/ \E page_size \in PageSizes : BeginReading(tenant, page_size)
          \/ Diagnosis(tenant)
    \/ ReadPage
    \/ Plan
    \/ Execute

Spec == Init /\ [][Next]_vars

-----------------------------------------------------------------------------
Exports == [tenant : Tenant, batch : Batches, outcome : {"open", "accepted", "failed"}]
Plans == [tool : SafeTools, evidence : Seq(Identities)]
Results == [status : {"rejected", "approval_required", "completed"}, evidence : Seq(Identities)]
Readers == [state : {"reading", "read"}, tenant : Tenant, size : PageSizes, page : Nat \ {0},
            began : SUBSET Identities, seen : SUBSET Identities]
Diagnosed == [state : {"diagnosed"}, tenant : Tenant, finding : SUBSET Identities]
Planned == [state : {"planned"}, tenant : Tenant, finding : SUBSET Identities, plan : Plans]
Executed == [state : {"executed"}, tenant : Tenant, finding : SUBSET Identities, plan : Plans,
             result : Results]

(* The type of the state.  An observation is stored only as Observation::   *)
(* validate lets it (append of both stores), and a handler in progress has  *)
(* an export without an answer, at most past its last observation.          *)
TypeOK ==
    /\ deployment \in Deployments
    /\ store \in {"sqlite", "jsonl"}
    /\ rows \in Seq({observation \in Observations : Validate(observation)})
    /\ exports \in [Exporter -> {Idle} \cup [state : {"appending"}, export : Nat, next : Nat]]
    /\ sent \in Seq(Exports)
    /\ \A x \in Exporter : exports[x] # Idle =>
          /\ exports[x].export \in DOMAIN sent
          /\ sent[exports[x].export].outcome = "open"
          /\ exports[x].next \in 1 .. Len(Mapping(x).observations) + 1
    /\ client \in {Idle} \cup Readers \cup Diagnosed \cup Planned \cup Executed
    /\ agent_executions \in Nat
    /\ moved \in BOOLEAN
    /\ faults \in 0 .. MaxFaults

(* Whatever is asked, access follows the keys (api_key_guard, enforce_*,    *)
(* investigation_tenant, record_usage; README.md:80,84,86): a request gets  *)
(* through about a tenant only with the key that is mapped to it or with    *)
(* the global key, or with none where none is configured and it is not      *)
(* production; OBSERVABILITY_TENANT_ID leaves one tenant; in production an  *)
(* investigation takes its own tenant's key, and a usage report the global. *)
(* So the store holds observations of such tenants only.                    *)
AccessFollowsKeys ==
    LET HasGlobalKey(request) == request.key # None /\ request.key = deployment.global
        HasKeyOf(tenant, request) == /\ deployment.mapping # None
                                     /\ request.header = tenant
                                     /\ <<tenant, request.key>> \in deployment.mapping
        Open == ~deployment.production /\ deployment.mapping = None /\ deployment.global = None
    IN  /\ \A request \in Request :
              /\ Admitted(deployment, request) =>
                    /\ \/ HasKeyOf(request.named, request)
                       \/ HasGlobalKey(request)
                       \/ Open
                    /\ deployment.tenant \in {None, request.named}
              /\ deployment.production /\ MayRecordUsage(deployment, request) => HasGlobalKey(request)
              /\ deployment.production =>
                    \A tenant \in Tenant : InvestigationTenant(deployment, request) = tenant =>
                                              HasKeyOf(tenant, request)
        /\ \A row \in Range(rows) : ExportAuthorized(row.tenant)

(* A trace that was answered with 200 is stored, each of its good spans     *)
(* once on SQLite, whatever was sent again, failed halfway or ran at the    *)
(* same time, and nothing else is stored (map_span's IDs, INSERT OR REPLACE *)
(* and accept_observations).                                                *)
SpanStoredOnce ==
    /\ store = "sqlite" => \A i, j \in DOMAIN rows : rows[i].id = rows[j].id => i = j
    /\ \A n \in DOMAIN sent : sent[n].outcome = "accepted" =>
          \A span \in Range(sent[n].batch) : Rejection(span) = "none" =>
              \E row \in Range(rows) : row.tenant = sent[n].tenant /\ row.id = Identity(row.tenant, span)
    /\ \A row \in Range(rows) : \E n \in DOMAIN sent :
          \E span \in Range(sent[n].batch) : row = MapSpan(span, sent[n].tenant)

(* A bad span is reported and costs the good ones of its trace nothing: an  *)
(* export fails only by a fault of the store or the process, and what is    *)
(* rejected is what an observation cannot be (map_span against              *)
(* Observation::validate).                                                  *)
BadSpansSpareTheRest ==
    /\ faults = 0 => \A n \in DOMAIN sent : sent[n].outcome # "failed"
    /\ \A n \in DOMAIN sent : \A span \in Range(sent[n].batch) :
          Rejection(span) = "none" <=>
              /\ span.traced /\ span.identified /\ span.named
              /\ 0 <= span.end - span.start
              /\ span.end - span.start < (MaxDuration + 1) * Nanos

(* A reader of all pages has seen every observation there was when it       *)
(* began, though others arrived between two pages; only one that took       *)
(* another place meanwhile may be missed (filter_observations, list).       *)
PagesMissNothing == client.state = "read" /\ ~moved => client.began \subseteq client.seen

(* What a diagnosis names is still there when the plan about it is made and *)
(* when its tool runs, though writes came between the three requests: a     *)
(* plan is about evidence of its tenant alone, and the tool finds all of it *)
(* (diagnose, plan_agent_request, execute_safe_tool).                       *)
EvidenceOutlastsWrites ==
    /\ client.state \in {"planned", "executed"} =>
          /\ client.finding \subseteq Range(client.plan.evidence)
          /\ Range(client.plan.evidence) \subseteq Stored(client.tenant)
    /\ client.state = "executed" =>
          /\ client.result.status = "completed"
          /\ Range(client.result.evidence) = Range(client.plan.evidence)
=============================================================================
