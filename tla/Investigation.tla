---------------------------- MODULE Investigation ---------------------------
(***************************************************************************)
(* Investigations and their metering: the investigation_runs,              *)
(* usage_events and usage_entries tables of SqliteStore, and the handlers  *)
(* create_investigation, execute_investigation, record_usage and usage.    *)
(*                                                                         *)
(* A handler makes several repository calls and other requests run between *)
(* them; it has no await after its body was read, so only the death of the *)
(* process stops it half way.  Each repository call is one transaction,    *)
(* and what a transaction committed survives the process.                  *)
(*                                                                         *)
(* A request's objective and evidence IDs are compared after trimming and  *)
(* sorting, so a request is an objective and a set of IDs here.            *)
(***************************************************************************)
EXTENDS Integers, FiniteSets

CONSTANTS
    Tenant,          \* tenants
    Key,             \* Idempotency-Key values
    EvidenceId,      \* IDs of the observations chosen as evidence
    Requests,        \* bodies of POST /v1/investigations
    RunId,           \* investigation IDs (fresh UUIDs)
    Handler,         \* requests that may be in progress at the same time
    NoTenant,        \* the observation store has no row for the ID
    MaxReports,      \* bound: usage reported by POST /v1/usage
    MaxIngests,      \* bound: evidence observations written
    MaxFaults        \* bound: storage errors and restarts

ASSUME RequestAssumption ==
    \A request \in Requests : /\ request.evidence \subseteq EvidenceId
                              /\ request.evidence # {}

ASSUME RunIdAssumption == IsFiniteSet(RunId)

ASSUME TenantAssumption == NoTenant \notin Tenant

ASSUME BoundAssumption == MaxReports \in Nat /\ MaxIngests \in Nat /\ MaxFaults \in Nat

VARIABLES
    runs,              \* table investigation_runs: ID -> run
    results,           \* runs whose result observation is stored
    owner,             \* table observations: evidence ID -> its tenant
    usage_events,      \* table usage_events: runs an AgentRun unit was charged for
    usage_entries,     \* table usage_entries: AgentRun units of each tenant
    ledger,            \* state.usage: the copy of usage_entries in memory
    pc,                \* where each handler is
    job,               \* what it works on
    loaded,            \* the ledger it has loaded and not yet published
    agent_executions,  \* counter of /metrics
    answers,           \* history: creations answered 200 or 201
    reported,          \* history: units accepted by POST /v1/usage
    completedBefore,   \* history: runs completed when the process started
    ingests,           \* bounded by MaxIngests
    faults             \* bounded by MaxFaults

tables == <<runs, results, owner, usage_events, usage_entries>>
history == <<answers, reported, completedBefore>>
vars == <<tables, ledger, pc, job, loaded, agent_executions, history, ingests, faults>>

-----------------------------------------------------------------------------
NoRun == [status |-> "absent"]
NoJob == [kind |-> "none"]
NoLedger == [tenant \in Tenant |-> 0]

Run == [tenant : Tenant, key : Key, request : Requests,
        status : {"planned", "completed"}, version : Nat]

CreateJob == [kind : {"create"}, tenant : Tenant, key : Key, request : Requests]
ExecuteJob == [kind : {"execute"}, tenant : Tenant, run : RunId]
ReportJob == [kind : {"report"}, tenant : Tenant]
Ledger == [Tenant -> Nat]

Completed == {r \in RunId : runs[r].status = "completed"}
CompletedOf(tenant) == {r \in Completed : runs[r].tenant = tenant}

TypeOK ==
    /\ runs \in [RunId -> Run \cup {NoRun}]
    /\ results \subseteq RunId
    /\ owner \in [EvidenceId -> Tenant \cup {NoTenant}]
    /\ usage_events \subseteq RunId
    /\ usage_entries \in Ledger
    /\ ledger \in Ledger
    /\ pc \in [Handler -> {"idle", "creating", "executing", "inspected",
                           "metered", "reloaded", "reported"}]
    /\ job \in [Handler -> CreateJob \cup ExecuteJob \cup ReportJob \cup {NoJob}]
    /\ \A h \in Handler :
          /\ pc[h] = "idle" => job[h] = NoJob
          /\ pc[h] = "creating" => job[h] \in CreateJob
          /\ pc[h] \in {"executing", "inspected", "metered", "reloaded"} =>
                job[h] \in ExecuteJob /\ runs[job[h].run] # NoRun
          /\ pc[h] = "reported" => job[h] \in ReportJob
    /\ loaded \in [Handler -> Ledger]
    /\ agent_executions \in Nat
    /\ answers \subseteq [tenant : Tenant, key : Key, request : Requests, run : RunId]
    /\ reported \in Ledger
    /\ completedBefore \in Nat
    /\ ingests \in Nat
    /\ faults \in Nat

Init ==
    /\ runs = [r \in RunId |-> NoRun]
    /\ results = {}
    /\ owner = [e \in EvidenceId |-> NoTenant]
    /\ usage_events = {}
    /\ usage_entries = NoLedger
    /\ ledger = NoLedger
    /\ pc = [h \in Handler |-> "idle"]
    /\ job = [h \in Handler |-> NoJob]
    /\ loaded = [h \in Handler |-> NoLedger]
    /\ agent_executions = 0
    /\ answers = {}
    /\ reported = NoLedger
    /\ completedBefore = 0
    /\ ingests = 0
    /\ faults = 0

(* get_many with the tenant's ID, compared by number with what was asked.   *)
EvidenceAvailable(tenant, ids) == \A e \in ids : owner[e] = tenant

Start(h, state, work) ==
    /\ pc[h] = "idle"
    /\ pc' = [pc EXCEPT ![h] = state]
    /\ job' = [job EXCEPT ![h] = work]
    /\ UNCHANGED loaded

BugAnswerKeepsJob(h) ==           \* mutant: the job outlives its answer
    /\ pc' = [pc EXCEPT ![h] = "idle"]
    /\ loaded' = [loaded EXCEPT ![h] = NoLedger]
    /\ UNCHANGED job

Answer(h) ==
    /\ pc' = [pc EXCEPT ![h] = "idle"]
    /\ job' = [job EXCEPT ![h] = NoJob]
    /\ loaded' = [loaded EXCEPT ![h] = NoLedger]

(* Evidence arrives, and an ID sent again replaces the row with its tenant  *)
(* (append is INSERT OR REPLACE on the ID alone).                           *)
Ingest(tenant, e) ==
    /\ ingests < MaxIngests
    /\ ingests' = ingests + 1
    /\ owner' = [owner EXCEPT ![e] = tenant]
    /\ UNCHANGED <<runs, results, usage_events, usage_entries, ledger, pc, job, loaded,
                   agent_executions, history, faults>>

-----------------------------------------------------------------------------
(* create_investigation.  A request whose evidence is not available is      *)
(* answered 400 and changes nothing.                                        *)
CreateStart(h, tenant, key, request) ==
    /\ EvidenceAvailable(tenant, request.evidence)
    /\ Start(h, "creating", [kind |-> "create", tenant |-> tenant, key |-> key,
                             request |-> request])
    /\ UNCHANGED <<tables, ledger, agent_executions, history, ingests, faults>>

BugKeyNotUnique(tenant, key) == {}      \* mutant: no unique index on tenant and key
Bound(tenant, key) ==
    {r \in RunId : runs[r] # NoRun /\ runs[r].tenant = tenant /\ runs[r].key = key}

(* create_or_get inserted the run: 201.                                     *)
CreateNew(h, r) ==
    LET new == job[h]
    IN  /\ pc[h] = "creating"
        /\ Bound(new.tenant, new.key) = {}
        /\ runs[r] = NoRun
        /\ runs' = [runs EXCEPT ![r] = [tenant |-> new.tenant, key |-> new.key,
                                        request |-> new.request,
                                        status |-> "planned", version |-> 1]]
        /\ answers' = answers \cup {[tenant |-> new.tenant, key |-> new.key,
                                     request |-> new.request, run |-> r]}
        /\ Answer(h)
        /\ UNCHANGED <<results, owner, usage_events, usage_entries, ledger,
                       agent_executions, reported, completedBefore, ingests, faults>>

(* The key is taken (ON CONFLICT DO NOTHING): 200 with the run it is bound  *)
(* to if that run answers the same request, 409 otherwise.                  *)
BugAnyRequest(run, request) == TRUE     \* mutant: the requests are not compared
SameRequest(run, request) == run.request = request

CreateExisting(h, r) ==
    LET new == job[h]
    IN  /\ pc[h] = "creating"
        /\ r \in Bound(new.tenant, new.key)
        /\ answers' = IF SameRequest(runs[r], new.request)
                      THEN answers \cup {[tenant |-> new.tenant, key |-> new.key,
                                          request |-> new.request, run |-> r]}
                      ELSE answers
        /\ Answer(h)
        /\ UNCHANGED <<tables, ledger, agent_executions, reported, completedBefore,
                       ingests, faults>>

-----------------------------------------------------------------------------
(* execute_investigation.  A run that is completed when it is read is       *)
(* answered as it is; a run of another tenant is not found.                 *)
ExecuteStart(h, tenant, r) ==
    /\ runs[r] # NoRun
    /\ runs[r].tenant = tenant
    /\ runs[r].status # "completed"
    /\ Start(h, "executing", [kind |-> "execute", tenant |-> tenant, run |-> r])
    /\ UNCHANGED <<tables, ledger, agent_executions, history, ingests, faults>>

(* The evidence is read again, and inspected.                               *)
Inspect(h) ==
    /\ pc[h] = "executing"
    /\ EvidenceAvailable(job[h].tenant, runs[job[h].run].request.evidence)
    /\ pc' = [pc EXCEPT ![h] = "inspected"]
    /\ UNCHANGED <<tables, ledger, job, loaded, agent_executions, history, ingests, faults>>

(* "one or more evidence IDs are unavailable": 400.                         *)
EvidenceGone(h) ==
    /\ pc[h] = "executing"
    /\ ~EvidenceAvailable(job[h].tenant, runs[job[h].run].request.evidence)
    /\ Answer(h)
    /\ UNCHANGED <<tables, ledger, agent_executions, history, ingests, faults>>

(* complete, in one transaction: the result observation, the usage event    *)
(* and its entry unless the run was charged before, and the run, whose      *)
(* version counts the passage through running too.  A run is planned or     *)
(* completed in every committed state, so "investigation is not executable" *)
(* is never answered.                                                       *)
BugCompleteUnchecked(h) ==        \* mutant: the status is not read again in the transaction
    LET r == job[h].run
        tenant == job[h].tenant
    IN  /\ pc[h] = "inspected"
        /\ results' = results \cup {r}
        /\ usage_events' = usage_events \cup {r}
        /\ usage_entries' = IF r \in usage_events THEN usage_entries
                            ELSE [usage_entries EXCEPT ![tenant] = @ + 1]
        /\ runs' = [runs EXCEPT ![r].status = "completed", ![r].version = @ + 2]
        /\ agent_executions' = agent_executions + 1
        /\ pc' = [pc EXCEPT ![h] = "metered"]
        /\ UNCHANGED <<owner, ledger, job, loaded, history, ingests, faults>>

CompleteNow(h) ==
    LET r == job[h].run
        tenant == job[h].tenant
    IN  /\ pc[h] = "inspected"
        /\ runs[r].status = "planned"
        /\ results' = results \cup {r}
        /\ usage_events' = usage_events \cup {r}
        /\ usage_entries' = IF r \in usage_events THEN usage_entries
                            ELSE [usage_entries EXCEPT ![tenant] = @ + 1]
        /\ runs' = [runs EXCEPT ![r].status = "completed", ![r].version = @ + 2]
        /\ agent_executions' = agent_executions + 1
        /\ pc' = [pc EXCEPT ![h] = "metered"]
        /\ UNCHANGED <<owner, ledger, job, loaded, history, ingests, faults>>

(* complete finds the run completed by another request: completed_now is    *)
(* false and the run is answered as it is.                                  *)
BugCompleteAgainCounts(h) ==      \* mutant: completed_now is not looked at
    /\ pc[h] = "inspected"
    /\ runs[job[h].run].status = "completed"
    /\ agent_executions' = agent_executions + 1
    /\ pc' = [pc EXCEPT ![h] = "metered"]
    /\ UNCHANGED <<tables, ledger, job, loaded, history, ingests, faults>>

CompleteAgain(h) ==
    /\ pc[h] = "inspected"
    /\ runs[job[h].run].status = "completed"
    /\ Answer(h)
    /\ UNCHANGED <<tables, ledger, agent_executions, history, ingests, faults>>

(* completed_now: load the ledger, then put it in memory.                   *)
Reload(h) ==
    /\ pc[h] = "metered"
    /\ loaded' = [loaded EXCEPT ![h] = usage_entries]
    /\ pc' = [pc EXCEPT ![h] = "reloaded"]
    /\ UNCHANGED <<tables, ledger, job, agent_executions, history, ingests, faults>>

Publish(h) ==
    /\ pc[h] = "reloaded"
    /\ ledger' = loaded[h]
    /\ Answer(h)
    /\ UNCHANGED <<tables, agent_executions, history, ingests, faults>>

-----------------------------------------------------------------------------
(* record_usage, for one AgentRun unit: append, then record in memory.      *)
ReportStart(h, tenant) ==
    /\ reported[tenant] < MaxReports
    /\ Start(h, "reported", [kind |-> "report", tenant |-> tenant])
    /\ usage_entries' = [usage_entries EXCEPT ![tenant] = @ + 1]
    /\ reported' = [reported EXCEPT ![tenant] = @ + 1]
    /\ UNCHANGED <<runs, results, owner, usage_events, ledger, agent_executions,
                   answers, completedBefore, ingests, faults>>

ReportRecord(h) ==
    /\ pc[h] = "reported"
    /\ ledger' = [ledger EXCEPT ![job[h].tenant] = @ + 1]
    /\ Answer(h)
    /\ UNCHANGED <<tables, agent_executions, history, ingests, faults>>

(* usage and billing_quote answer from the store.                           *)
BugUsageFromMemory(tenant) == ledger[tenant]   \* mutant: answers from state.usage
Usage(tenant) == usage_entries[tenant]

-----------------------------------------------------------------------------
(* Faults.                                                                  *)

Fault == faults < MaxFaults /\ faults' = faults + 1

(* A repository call fails; its transaction has no effect and the handler   *)
(* answers 409 or 500.                                                      *)
BugErrorLeavesRunning(h) ==       \* mutant: running is committed before the rest
    /\ Fault
    /\ pc[h] \in {"inspected"}
    /\ runs[job[h].run].status = "planned"
    /\ runs' = [runs EXCEPT ![job[h].run].status = "running"]
    /\ Answer(h)
    /\ UNCHANGED <<results, owner, usage_events, usage_entries, ledger, agent_executions,
                   history, ingests>>

StorageError(h) ==
    /\ Fault
    /\ pc[h] \in {"creating", "executing", "inspected", "metered"}
    /\ Answer(h)
    /\ UNCHANGED <<tables, ledger, agent_executions, history, ingests>>

(* The process dies; main loads the ledger from the store.                  *)
Restart ==
    /\ Fault
    /\ pc' = [h \in Handler |-> "idle"]
    /\ job' = [h \in Handler |-> NoJob]
    /\ loaded' = [h \in Handler |-> NoLedger]
    /\ ledger' = usage_entries
    /\ agent_executions' = 0
    /\ completedBefore' = Cardinality(Completed)
    /\ UNCHANGED <<tables, answers, reported, ingests>>

HandlerStep(h) ==
    \/ \E r \in RunId : CreateNew(h, r) \/ CreateExisting(h, r)
    \/ Inspect(h)
    \/ EvidenceGone(h)
    \/ CompleteNow(h)
    \/ CompleteAgain(h)
    \/ Reload(h)
    \/ Publish(h)
    \/ ReportRecord(h)

Next ==
    \/ \E tenant \in Tenant, e \in EvidenceId : Ingest(tenant, e)
    \/ \E h \in Handler :
          \/ \E tenant \in Tenant, key \in Key, request \in Requests :
                CreateStart(h, tenant, key, request)
          \/ \E tenant \in Tenant, r \in RunId : ExecuteStart(h, tenant, r)
          \/ \E tenant \in Tenant : ReportStart(h, tenant)
          \/ HandlerStep(h)
          \/ StorageError(h)
    \/ Restart

Spec == Init /\ [][Next]_vars

(* Handlers that were started go on, and the client of a planned run asks   *)
(* for its execution again and again, each time with some handler.          *)
FairSpec ==
    /\ Spec
    /\ \A h \in Handler : WF_vars(HandlerStep(h))
    /\ \A r \in RunId : SF_vars(\E h \in Handler, tenant \in Tenant : ExecuteStart(h, tenant, r))

-----------------------------------------------------------------------------
(* Properties.                                                              *)

(* What the API answers as a tenant's usage is one unit for each of its     *)
(* completed runs and each unit reported, whatever was executed at the same *)
(* time, executed again, interrupted or restarted; and a run is charged,    *)
(* and has its result observation, exactly when it is completed.            *)
MeteredOnce ==
    /\ \A tenant \in Tenant :
          Usage(tenant) = Cardinality(CompletedOf(tenant)) + reported[tenant]
    /\ usage_events = Completed
    /\ results = Completed

(* Whoever creates with a key of a tenant and is answered with a run, first *)
(* or later, at the same time or after a restart, gets the same run, and    *)
(* that run is for the request they sent.                                   *)
KeyBindsOneRun ==
    \A a, b \in answers :
        a.tenant = b.tenant /\ a.key = b.key => a.run = b.run /\ a.request = b.request

(* The counter of executions counts each run completed since the process    *)
(* started once, and no repeated execution.                                 *)
ExecutionsCountedOnce == agent_executions + completedBefore = Cardinality(Completed)

(* A run that was answered as completed is never changed again.             *)
CompletedIsFinal == [][\A r \in Completed : runs'[r] = runs[r]]_vars

BindingOf(run) ==
    IF run = NoRun THEN [bound |-> FALSE]
    ELSE [tenant |-> run.tenant, key |-> run.key, request |-> run.request]

(* The runs and the usage the API answers, as the Metering contract sees    *)
(* them.                                                                    *)
Metering == INSTANCE Metering WITH
    bindings <- [r \in RunId |-> BindingOf(runs[r])],
    charged <- Completed,
    usage <- [tenant \in Tenant |-> Usage(tenant)]

(* Every step, with any number of handlers, errors and restarts, binds one  *)
(* key, charges one run together with its result, takes one report, or      *)
(* changes nothing of what a tenant pays for.                               *)
ImplementsMetering == Metering!Spec

(* While its evidence stays available to the tenant, a planned run whose    *)
(* execution is asked for again after failures gets completed.              *)
RunCompletes ==
    \A r \in RunId :
        runs[r].status = "planned"
           ~> \/ runs[r].status = "completed"
              \/ /\ runs[r].status = "planned"
                 /\ ~EvidenceAvailable(runs[r].tenant, runs[r].request.evidence)
=============================================================================
