------------------------- MODULE InvestigationProofs ------------------------
(***************************************************************************)
(* Proofs about Investigation for every set of tenants, keys, evidence,    *)
(* requests, run IDs and handlers, and every bound.                        *)
(***************************************************************************)
EXTENDS Investigation, FiniteSetTheorems, TLAPS

(* A run is not the absence of a run.                                       *)
LEMMA RunIsPresent ==
    ASSUME NEW run \in Run \cup {NoRun}
    PROVE  /\ run \in Run <=> run # NoRun
           /\ run \in Run <=> run.status # "absent"
BY DEF Run, NoRun

(* The kinds of jobs are told apart by their kind.                          *)
LEMMA JobKinds ==
    /\ \A j \in CreateJob : j.kind = "create"
    /\ \A j \in ExecuteJob : j.kind = "execute"
    /\ \A j \in ReportJob : j.kind = "report"
    /\ NoJob.kind = "none"
BY DEF CreateJob, ExecuteJob, ReportJob, NoJob

(* Creating a run, with the run it makes.                                   *)
LEMMA CreateNewEffect ==
    ASSUME TypeOK, NEW h \in Handler, NEW r \in RunId, CreateNew(h, r)
    PROVE  /\ job[h] \in CreateJob
           /\ runs[r] = NoRun
           /\ runs' \in [RunId -> Run \cup {NoRun}]
           /\ runs'[r] \in Run
           /\ runs'[r].status = "planned"
           /\ runs'[r].tenant = job[h].tenant
           /\ runs'[r].key = job[h].key
           /\ runs'[r].request = job[h].request
           /\ \A other \in RunId \ {r} : runs'[other] = runs[other]
<1>1. job[h] \in CreateJob
  BY DEF TypeOK, CreateNew
<1> DEFINE new == [tenant |-> job[h].tenant, key |-> job[h].key,
                   request |-> job[h].request, status |-> "planned", version |-> 1]
<1>2. new \in Run
  BY <1>1 DEF CreateJob, Run
<1>3. runs' = [runs EXCEPT ![r] = new]
  BY DEF CreateNew
<1>4. runs'[r] = new /\ \A other \in RunId \ {r} : runs'[other] = runs[other]
  BY <1>3 DEF TypeOK
<1>5. runs' \in [RunId -> Run \cup {NoRun}]
  BY <1>2, <1>3 DEF TypeOK
<1> QED
  BY <1>1, <1>2, <1>4, <1>5 DEF CreateNew

(* A completed run is a run, and only its status and version are new.       *)
LEMMA CompletedRunType ==
    ASSUME NEW run \in Run
    PROVE  LET new == [run EXCEPT !.status = "completed", !.version = @ + 2]
           IN  /\ new \in Run
               /\ new.status = "completed"
               /\ new.tenant = run.tenant /\ new.key = run.key /\ new.request = run.request
<1>1. run.version + 2 \in Nat
  BY DEF Run
<1> QED
  BY <1>1 DEF Run

(* Completing a run, with what becomes of it.                               *)
LEMMA CompleteNowEffect ==
    ASSUME TypeOK, NEW h \in Handler, CompleteNow(h)
    PROVE  LET r == job[h].run
           IN  /\ job[h] \in ExecuteJob
               /\ r \in RunId
               /\ runs[r] \in Run
               /\ runs[r].status = "planned"
               /\ runs' \in [RunId -> Run \cup {NoRun}]
               /\ runs'[r] \in Run
               /\ runs'[r].status = "completed"
               /\ runs'[r].tenant = runs[r].tenant
               /\ runs'[r].key = runs[r].key
               /\ runs'[r].request = runs[r].request
               /\ \A other \in RunId \ {r} : runs'[other] = runs[other]
<1> DEFINE r == job[h].run
           new == [runs[r] EXCEPT !.status = "completed", !.version = @ + 2]
<1>1. job[h] \in ExecuteJob /\ runs[r] # NoRun
  BY DEF TypeOK, CompleteNow
<1>2. r \in RunId
  BY <1>1 DEF ExecuteJob
<1>3. runs[r] \in Run
  BY <1>1, <1>2 DEF TypeOK
<1>4. /\ new \in Run
      /\ new.status = "completed"
      /\ new.tenant = runs[r].tenant /\ new.key = runs[r].key
      /\ new.request = runs[r].request
  BY <1>3, CompletedRunType
<1>5. runs' = [runs EXCEPT ![r] = new]
  <2>1. runs' = [runs EXCEPT ![r].status = "completed", ![r].version = @ + 2]
    BY DEF CompleteNow
  <2>2. runs = [other \in RunId |-> runs[other]]
    BY DEF TypeOK
  <2> QED
    BY <1>2, <2>1, <2>2
<1>6. runs'[r] = new /\ \A other \in RunId \ {r} : runs'[other] = runs[other]
  BY <1>2, <1>5 DEF TypeOK
<1>7. runs' \in [RunId -> Run \cup {NoRun}]
  BY <1>2, <1>4, <1>5 DEF TypeOK
<1> HIDE DEF new
<1> QED
  BY <1>1, <1>2, <1>3, <1>4, <1>6, <1>7 DEF CompleteNow

(* Completed runs are finitely many, a tenant's too.                        *)
LEMMA CompletedType ==
    /\ IsFiniteSet(Completed) /\ Cardinality(Completed) \in Nat
    /\ \A tenant \in Tenant : /\ IsFiniteSet(CompletedOf(tenant))
                              /\ Cardinality(CompletedOf(tenant)) \in Nat
<1>1. Completed \subseteq RunId /\ \A tenant \in Tenant : CompletedOf(tenant) \subseteq RunId
  BY DEF Completed, CompletedOf
<1> QED
  BY <1>1, RunIdAssumption, FS_Subset, FS_CardinalityType

(* Which steps change what the invariants below speak of.                   *)
LEMMA OtherSteps ==
    ASSUME TypeOK, [Next]_vars
    PROVE  \/ \E h \in Handler, r \in RunId : CreateNew(h, r) \/ CreateExisting(h, r)
           \/ \E h \in Handler : CompleteNow(h)
           \/ \E h \in Handler, tenant \in Tenant : ReportStart(h, tenant)
           \/ \E h \in Handler, tenant \in Tenant, r \in RunId : ExecuteStart(h, tenant, r)
           \/ /\ UNCHANGED <<runs, results, usage_events, usage_entries, answers, reported>>
              /\ \A h \in Handler : pc'[h] \in {"executing", "inspected", "metered", "reloaded"}
                    => /\ job'[h] = job[h]
                       /\ pc[h] \in {"executing", "inspected", "metered", "reloaded"}
<1> DEFINE Executing(h) == pc[h] \in {"executing", "inspected", "metered", "reloaded"}
           Kept == /\ UNCHANGED <<runs, results, usage_events, usage_entries, answers, reported>>
                   /\ \A h \in Handler : Executing(h)' => job'[h] = job[h] /\ Executing(h)
<1>1. ASSUME NEW tenant \in Tenant, NEW e \in EvidenceId, Ingest(tenant, e) PROVE Kept
  BY <1>1 DEF Ingest, history
<1>2. ASSUME NEW h \in Handler, NEW tenant \in Tenant, NEW key \in Key, NEW request \in Requests,
             CreateStart(h, tenant, key, request)
      PROVE  Kept
  BY <1>2 DEF CreateStart, Start, TypeOK, tables, history
<1>3. ASSUME NEW h \in Handler, Inspect(h) \/ Reload(h) PROVE Kept
  BY <1>3 DEF Inspect, Reload, TypeOK, tables, history
<1>4. ASSUME NEW h \in Handler, EvidenceGone(h) \/ CompleteAgain(h) \/ Publish(h)
                                \/ ReportRecord(h) \/ StorageError(h)
      PROVE  Kept
  <2>1. Answer(h) /\ UNCHANGED <<tables, history>>
    BY <1>4 DEF EvidenceGone, CompleteAgain, Publish, ReportRecord, StorageError
  <2> QED
    BY <2>1 DEF Answer, TypeOK, tables, history
<1>5. CASE Restart
  BY <1>5 DEF Restart, TypeOK, tables
<1>6. CASE UNCHANGED vars
  BY <1>6 DEF vars, tables, history
<1> QED
  BY <1>1, <1>2, <1>3, <1>4, <1>5, <1>6 DEF Next, HandlerStep

-----------------------------------------------------------------------------
(* Every reachable state is well typed; in particular a handler that        *)
(* executes a run has one that exists (execute_investigation).              *)
THEOREM TypeCorrect == Spec => []TypeOK
<1>1. Init => TypeOK
  BY DEF Init, TypeOK, NoLedger, Ledger
<1>2. TypeOK /\ [Next]_vars => TypeOK'
  <2> SUFFICES ASSUME TypeOK, [Next]_vars PROVE TypeOK'
    OBVIOUS
  <2> USE DEF TypeOK
  <2>1. ASSUME NEW tenant \in Tenant, NEW e \in EvidenceId, Ingest(tenant, e) PROVE TypeOK'
    BY <2>1 DEF Ingest, history
  <2>2. ASSUME NEW h \in Handler, NEW tenant \in Tenant, NEW key \in Key,
               NEW request \in Requests, CreateStart(h, tenant, key, request)
        PROVE  TypeOK'
    <3>1. job'[h] \in CreateJob /\ pc'[h] = "creating"
      BY <2>2 DEF CreateStart, Start, CreateJob
    <3> QED
      BY <2>2, <3>1 DEF CreateStart, Start, tables, history
  <2>3. ASSUME NEW h \in Handler, NEW tenant \in Tenant, NEW r \in RunId,
               ExecuteStart(h, tenant, r)
        PROVE  TypeOK'
    <3>1. /\ job'[h] \in ExecuteJob /\ job'[h].run = r
          /\ pc'[h] = "executing" /\ runs[r] # NoRun
      BY <2>3 DEF ExecuteStart, Start, ExecuteJob
    <3> QED
      BY <2>3, <3>1 DEF ExecuteStart, Start, tables, history
  <2>4. ASSUME NEW h \in Handler, NEW tenant \in Tenant, ReportStart(h, tenant) PROVE TypeOK'
    <3>1. job'[h] \in ReportJob /\ pc'[h] = "reported"
      BY <2>4 DEF ReportStart, Start, ReportJob
    <3>2. usage_entries' \in Ledger /\ reported' \in Ledger
      BY <2>4 DEF ReportStart, Ledger
    <3> QED
      BY <2>4, <3>1, <3>2 DEF ReportStart, Start
  <2>5. ASSUME NEW h \in Handler, NEW r \in RunId, CreateNew(h, r) PROVE TypeOK'
    <3>1. /\ job[h] \in CreateJob
          /\ runs' \in [RunId -> Run \cup {NoRun}]
          /\ runs'[r] # NoRun
          /\ \A other \in RunId \ {r} : runs'[other] = runs[other]
      BY <2>5, CreateNewEffect, RunIsPresent
    <3>2. answers' \subseteq [tenant : Tenant, key : Key, request : Requests, run : RunId]
      BY <2>5, <3>1 DEF CreateNew, CreateJob
    <3>3. \A other \in Handler : job[other] \in ExecuteJob => job[other].run \in RunId
      BY DEF ExecuteJob
    <3> QED
      BY <2>5, <3>1, <3>2, <3>3 DEF CreateNew, Answer, NoLedger, Ledger
  <2>6. ASSUME NEW h \in Handler, NEW r \in RunId, CreateExisting(h, r) PROVE TypeOK'
    <3>1. answers' \subseteq [tenant : Tenant, key : Key, request : Requests, run : RunId]
      BY <2>6 DEF CreateExisting, CreateJob
    <3> QED
      BY <2>6, <3>1 DEF CreateExisting, Answer, NoLedger, Ledger, tables
  <2>7. ASSUME NEW h \in Handler, Inspect(h) PROVE TypeOK'
    BY <2>7 DEF Inspect, tables, history
  <2>8. ASSUME NEW h \in Handler, EvidenceGone(h) \/ CompleteAgain(h) PROVE TypeOK'
    <3>1. /\ Answer(h)
          /\ UNCHANGED <<tables, ledger, agent_executions, history, ingests, faults>>
      BY <2>8 DEF EvidenceGone, CompleteAgain
    <3> QED
      BY <3>1 DEF Answer, NoLedger, Ledger, tables, history
  <2>9. ASSUME NEW h \in Handler, CompleteNow(h) PROVE TypeOK'
    <3>1. /\ job[h] \in ExecuteJob
          /\ job[h].run \in RunId
          /\ runs' \in [RunId -> Run \cup {NoRun}]
          /\ runs'[job[h].run] # NoRun
          /\ \A other \in RunId \ {job[h].run} : runs'[other] = runs[other]
      BY <2>9, CompleteNowEffect, RunIsPresent
    <3>2. job[h].tenant \in Tenant
      BY <3>1 DEF ExecuteJob
    <3>3. usage_entries' \in Ledger
      BY <2>9, <3>2 DEF CompleteNow, Ledger
    <3>4. \A other \in Handler : job[other] \in ExecuteJob => job[other].run \in RunId
      BY DEF ExecuteJob
    <3>5. /\ results' \subseteq RunId /\ usage_events' \subseteq RunId
          /\ agent_executions' \in Nat
          /\ pc' = [pc EXCEPT ![h] = "metered"] /\ pc[h] = "inspected"
          /\ UNCHANGED <<owner, ledger, job, loaded, answers, reported, completedBefore,
                         ingests, faults>>
      BY <2>9, <3>1 DEF CompleteNow, history
    <3>6. \A other \in RunId : runs[other] # NoRun => runs'[other] # NoRun
      BY <3>1
    <3> QED
      BY <3>1, <3>3, <3>4, <3>5, <3>6
  <2>10. ASSUME NEW h \in Handler, Reload(h) PROVE TypeOK'
    BY <2>10 DEF Reload, tables, history
  <2>11. ASSUME NEW h \in Handler, Publish(h) PROVE TypeOK'
    BY <2>11 DEF Publish, Answer, NoLedger, Ledger, tables, history
  <2>12. ASSUME NEW h \in Handler, ReportRecord(h) PROVE TypeOK'
    <3>1. job[h].tenant \in Tenant
      BY <2>12 DEF ReportRecord, ReportJob
    <3>2. ledger' \in Ledger
      BY <2>12, <3>1 DEF ReportRecord, Ledger
    <3> QED
      BY <2>12, <3>2 DEF ReportRecord, Answer, NoLedger, Ledger, tables, history
  <2>13. ASSUME NEW h \in Handler, StorageError(h) PROVE TypeOK'
    BY <2>13 DEF StorageError, Fault, Answer, NoLedger, Ledger, tables, history
  <2>14. CASE Restart
    <3>1. Cardinality(Completed) \in Nat
      BY CompletedType
    <3> QED
      BY <2>14, <3>1 DEF Restart, Fault, NoLedger, Ledger, tables
  <2>15. CASE UNCHANGED vars
    BY <2>15 DEF vars, tables, history
  <2> QED
    BY <2>1, <2>2, <2>3, <2>4, <2>5, <2>6, <2>7, <2>8, <2>9, <2>10, <2>11, <2>12,
       <2>13, <2>14, <2>15 DEF Next, HandlerStep
<1> QED
  BY <1>1, <1>2, PTL DEF Spec

-----------------------------------------------------------------------------
(* Idempotent creation.  KeyBindsOneRun speaks of answers only; the         *)
(* invariant ties each answer to the run it gave, whose tenant, key and     *)
(* request never change, and says what UNIQUE(tenant_id, idempotency_key)   *)
(* says of the table: one run for a tenant and key.                         *)
AnswersMatch ==
    \A a \in answers : /\ runs[a.run] # NoRun
                       /\ runs[a.run].tenant = a.tenant
                       /\ runs[a.run].key = a.key
                       /\ runs[a.run].request = a.request

KeysUnique ==
    \A r, s \in RunId :
        /\ runs[r] # NoRun /\ runs[s] # NoRun
        /\ runs[r].tenant = runs[s].tenant /\ runs[r].key = runs[s].key
        => r = s

KeyInv == AnswersMatch /\ KeysUnique

(* A key of a tenant answers with one run, for the request that was sent    *)
(* (create_or_get, create_investigation).                                   *)
THEOREM KeyBindsOneRunHolds == Spec => []KeyBindsOneRun
<1>1. Init => KeyInv
  BY DEF Init, KeyInv, AnswersMatch, KeysUnique
<1>2. TypeOK /\ KeyInv /\ [Next]_vars => KeyInv'
  <2> SUFFICES ASSUME TypeOK, KeyInv, [Next]_vars PROVE KeyInv'
    OBVIOUS
  <2>1. \A a \in answers : a.run \in RunId
    BY DEF TypeOK
  <2>2. ASSUME NEW h \in Handler, NEW r \in RunId, CreateNew(h, r) PROVE KeyInv'
    <3>1. /\ runs[r] = NoRun
          /\ runs'[r] # NoRun
          /\ runs'[r].tenant = job[h].tenant /\ runs'[r].key = job[h].key
          /\ runs'[r].request = job[h].request
          /\ \A other \in RunId \ {r} : runs'[other] = runs[other]
      BY <2>2, CreateNewEffect, RunIsPresent
    <3>2. AnswersMatch'
      <4>1. answers' = answers \cup {[tenant |-> job[h].tenant, key |-> job[h].key,
                                      request |-> job[h].request, run |-> r]}
        BY <2>2 DEF CreateNew
      <4>2. \A a \in answers : a.run # r
        BY <3>1 DEF KeyInv, AnswersMatch
      <4> QED
        BY <2>1, <3>1, <4>1, <4>2 DEF KeyInv, AnswersMatch
    <3>3. KeysUnique'
      <4>1. \A other \in RunId : ~ /\ runs[other] # NoRun
                                   /\ runs[other].tenant = job[h].tenant
                                   /\ runs[other].key = job[h].key
        BY <2>2 DEF CreateNew, Bound
      <4> QED
        BY <3>1, <4>1 DEF KeyInv, KeysUnique
    <3> QED
      BY <3>2, <3>3 DEF KeyInv
  <2>3. ASSUME NEW h \in Handler, NEW r \in RunId, CreateExisting(h, r) PROVE KeyInv'
    <3>1. UNCHANGED runs
      BY <2>3 DEF CreateExisting, tables
    <3>2. ASSUME NEW a \in answers', a \notin answers
          PROVE  /\ a.run = r /\ a.tenant = job[h].tenant /\ a.key = job[h].key
                 /\ a.request = job[h].request
                 /\ runs[r].request = job[h].request
      BY <2>3, <3>2 DEF CreateExisting, SameRequest
    <3>3. runs[r] # NoRun /\ runs[r].tenant = job[h].tenant /\ runs[r].key = job[h].key
      BY <2>3 DEF CreateExisting, Bound
    <3> QED
      BY <3>1, <3>2, <3>3 DEF KeyInv, AnswersMatch, KeysUnique
  <2>4. ASSUME NEW h \in Handler, CompleteNow(h) PROVE KeyInv'
    <3>1. UNCHANGED answers
      BY <2>4 DEF CompleteNow, history
    <3>2. \A r \in RunId : /\ runs'[r] # NoRun <=> runs[r] # NoRun
                           /\ runs'[r].tenant = runs[r].tenant
                           /\ runs'[r].key = runs[r].key
                           /\ runs'[r].request = runs[r].request
      BY <2>4, CompleteNowEffect, RunIsPresent
    <3> QED
      BY <2>1, <3>1, <3>2 DEF KeyInv, AnswersMatch, KeysUnique
  <2>5. CASE UNCHANGED <<runs, answers>>
    BY <2>5 DEF KeyInv, AnswersMatch, KeysUnique
  <2> QED
    BY <2>2, <2>3, <2>4, <2>5, OtherSteps DEF ReportStart, ExecuteStart, tables, history
<1>3. TypeOK /\ KeyInv => KeyBindsOneRun
  <2> SUFFICES ASSUME TypeOK, KeyInv PROVE KeyBindsOneRun
    OBVIOUS
  <2>1. \A a \in answers : a.run \in RunId
    BY DEF TypeOK
  <2> QED
    BY <2>1 DEF KeyInv, AnswersMatch, KeysUnique, KeyBindsOneRun
<1> QED
  BY <1>1, <1>2, <1>3, TypeCorrect, PTL DEF Spec

-----------------------------------------------------------------------------
(* Metering.  The charge of a completed run goes to the tenant of the       *)
(* handler that completes it; the invariant adds that this is the run's     *)
(* tenant, which was checked when the run was read and not since.           *)
JobsOwnRuns ==
    \A h \in Handler : pc[h] \in {"executing", "inspected", "metered", "reloaded"}
        => runs[job[h].run].tenant = job[h].tenant

MeterInv == MeteredOnce /\ JobsOwnRuns

(* What completing a run does to the sets of completed runs.                *)
LEMMA CompletedGrows ==
    ASSUME TypeOK, NEW h \in Handler, CompleteNow(h)
    PROVE  LET r == job[h].run
           IN  /\ r \notin Completed
               /\ Completed' = Completed \cup {r}
               /\ Cardinality(Completed') = Cardinality(Completed) + 1
               /\ \A tenant \in Tenant :
                     Cardinality(CompletedOf(tenant)') =
                        IF tenant = runs[r].tenant THEN Cardinality(CompletedOf(tenant)) + 1
                        ELSE Cardinality(CompletedOf(tenant))
<1> DEFINE r == job[h].run
<1>1. /\ r \in RunId /\ runs[r].status = "planned" /\ runs'[r].status = "completed"
      /\ runs'[r].tenant = runs[r].tenant
      /\ \A other \in RunId \ {r} : runs'[other] = runs[other]
  BY CompleteNowEffect
<1>2. r \notin Completed /\ Completed' = Completed \cup {r}
  BY <1>1 DEF Completed
<1>3. ASSUME NEW tenant \in Tenant
      PROVE  /\ r \notin CompletedOf(tenant)
             /\ CompletedOf(tenant)' = IF tenant = runs[r].tenant
                                       THEN CompletedOf(tenant) \cup {r} ELSE CompletedOf(tenant)
  <2>1. \A other \in Completed : runs'[other] = runs[other]
    BY <1>1 DEF Completed
  <2> QED
    BY <1>1, <1>2, <2>1 DEF CompletedOf
<1> HIDE DEF r
<1>4. Cardinality(Completed') = Cardinality(Completed) + 1
  BY <1>2, CompletedType, FS_AddElement
<1>5. ASSUME NEW tenant \in Tenant
      PROVE  Cardinality(CompletedOf(tenant)') =
                IF tenant = runs[r].tenant THEN Cardinality(CompletedOf(tenant)) + 1
                ELSE Cardinality(CompletedOf(tenant))
  BY <1>3, CompletedType, FS_AddElement
<1> QED
  BY <1>2, <1>4, <1>5 DEF r

(* Every other step leaves them alone.                                      *)
LEMMA CompletedStays ==
    ASSUME \/ UNCHANGED runs
           \/ TypeOK /\ \E h \in Handler, r \in RunId : CreateNew(h, r)
    PROVE  /\ Completed' = Completed
           /\ \A tenant \in Tenant : CompletedOf(tenant)' = CompletedOf(tenant)
<1>1. CASE UNCHANGED runs
  BY <1>1 DEF Completed, CompletedOf
<1>2. ASSUME TypeOK, NEW h \in Handler, NEW r \in RunId, CreateNew(h, r)
      PROVE  /\ Completed' = Completed
             /\ \A tenant \in Tenant : CompletedOf(tenant)' = CompletedOf(tenant)
  <2>1. /\ runs[r] = NoRun /\ runs'[r].status = "planned"
        /\ \A other \in RunId \ {r} : runs'[other] = runs[other]
    BY <1>2, CreateNewEffect
  <2>2. Completed' = Completed /\ \A other \in Completed : runs'[other] = runs[other]
    BY <2>1 DEF Completed, NoRun
  <2> QED
    BY <2>2 DEF CompletedOf
<1> QED
  BY <1>1, <1>2

(* The invariant of metering, for the two theorems that rest on it.         *)
LEMMA MeterInvHolds == Spec => []MeterInv
<1>1. Init => MeterInv
  <2> SUFFICES ASSUME Init PROVE MeterInv
    OBVIOUS
  <2>1. Completed = {} /\ \A tenant \in Tenant : CompletedOf(tenant) = {}
    BY DEF Init, NoRun, Completed, CompletedOf
  <2> QED
    BY <2>1, FS_EmptySet, SMTT(30) DEF Init, MeterInv, MeteredOnce, JobsOwnRuns, Usage, NoLedger
<1>2. TypeOK /\ MeterInv /\ [Next]_vars => MeterInv'
  <2> SUFFICES ASSUME TypeOK, MeterInv, [Next]_vars PROVE MeterInv'
    OBVIOUS
  <2>1. ASSUME UNCHANGED <<results, usage_events, usage_entries, reported>>,
               Completed' = Completed,
               \A tenant \in Tenant : CompletedOf(tenant)' = CompletedOf(tenant)
        PROVE  MeteredOnce'
    BY <2>1 DEF MeterInv, MeteredOnce, Usage
  <2>2. ASSUME NEW h \in Handler, NEW r \in RunId, CreateNew(h, r) PROVE MeterInv'
    <3>1. UNCHANGED <<results, usage_events, usage_entries, reported>>
      BY <2>2 DEF CreateNew
    <3>2. JobsOwnRuns'
      <4>1. runs[r] = NoRun /\ \A other \in RunId \ {r} : runs'[other] = runs[other]
        BY <2>2, CreateNewEffect
      <4>2. /\ pc' = [pc EXCEPT ![h] = "idle"] /\ job' = [job EXCEPT ![h] = NoJob]
        BY <2>2 DEF CreateNew, Answer
      <4> QED
        BY <4>1, <4>2 DEF TypeOK, MeterInv, JobsOwnRuns, ExecuteJob
    <3> QED
      BY <2>1, <2>2, <3>1, <3>2, CompletedStays DEF MeterInv
  <2>3. ASSUME NEW h \in Handler, CompleteNow(h) PROVE MeterInv'
    <3> DEFINE r == job[h].run
    <3>1. /\ r \notin Completed
          /\ Completed' = Completed \cup {r}
          /\ \A tenant \in Tenant :
                Cardinality(CompletedOf(tenant)') =
                   IF tenant = runs[r].tenant THEN Cardinality(CompletedOf(tenant)) + 1
                   ELSE Cardinality(CompletedOf(tenant))
      BY <2>3, CompletedGrows
    <3>2. /\ results' = results \cup {r} /\ usage_events' = usage_events \cup {r}
          /\ usage_entries' = IF r \in usage_events THEN usage_entries
                              ELSE [usage_entries EXCEPT ![job[h].tenant] = @ + 1]
          /\ pc[h] = "inspected" /\ pc' = [pc EXCEPT ![h] = "metered"]
          /\ UNCHANGED <<job, reported>>
      BY <2>3 DEF CompleteNow, history
    <3>3. /\ job[h] \in ExecuteJob /\ r \in RunId /\ runs'[r].tenant = runs[r].tenant
          /\ \A other \in RunId \ {r} : runs'[other] = runs[other]
      BY <2>3, CompleteNowEffect
    <3>4. runs[r].tenant = job[h].tenant
      BY <3>2 DEF MeterInv, JobsOwnRuns
    <3>5. MeteredOnce'
      <4>1. usage_entries' = [usage_entries EXCEPT ![runs[r].tenant] = @ + 1]
        BY <3>1, <3>2, <3>4 DEF MeterInv, MeteredOnce
      <4>2. \A tenant \in Tenant : /\ Cardinality(CompletedOf(tenant)) \in Nat
                                   /\ reported[tenant] \in Nat
        BY CompletedType DEF TypeOK, Ledger
      <4> HIDE DEF r
      <4>3. \A tenant \in Tenant :
               usage_entries'[tenant] = Cardinality(CompletedOf(tenant)') + reported'[tenant]
        BY <3>1, <3>2, <4>1, <4>2 DEF MeterInv, MeteredOnce, Usage, TypeOK, Ledger
      <4> QED
        BY <3>1, <3>2, <4>3 DEF MeterInv, MeteredOnce, Usage
    <3>6. JobsOwnRuns'
      <4>1. \A other \in RunId : runs'[other].tenant = runs[other].tenant
        BY <3>3
      <4>2. \A g \in Handler :
               pc'[g] \in {"executing", "inspected", "metered", "reloaded"} =>
                  /\ pc[g] \in {"executing", "inspected", "metered", "reloaded"}
                  /\ job[g].run \in RunId
        BY <3>2 DEF TypeOK, ExecuteJob
      <4> QED
        BY <3>2, <4>1, <4>2 DEF MeterInv, JobsOwnRuns
    <3> QED
      BY <3>5, <3>6 DEF MeterInv
  <2>4. ASSUME NEW h \in Handler, NEW tenant \in Tenant, ReportStart(h, tenant) PROVE MeterInv'
    <3>1. /\ usage_entries' = [usage_entries EXCEPT ![tenant] = @ + 1]
          /\ reported' = [reported EXCEPT ![tenant] = @ + 1]
          /\ UNCHANGED <<runs, results, usage_events>>
      BY <2>4 DEF ReportStart
    <3>2. Completed' = Completed /\ \A t \in Tenant : CompletedOf(t)' = CompletedOf(t)
      BY <3>1, CompletedStays
    <3>3. \A t \in Tenant : /\ Cardinality(CompletedOf(t)) \in Nat
                            /\ reported[t] \in Nat /\ usage_entries[t] \in Nat
      BY CompletedType DEF TypeOK, Ledger
    <3>4. \A t \in Tenant : usage_entries'[t] = Cardinality(CompletedOf(t)) + reported'[t]
      BY <3>1, <3>3 DEF MeterInv, MeteredOnce, Usage, TypeOK, Ledger
    <3>5. MeteredOnce'
      BY <3>1, <3>2, <3>4 DEF MeterInv, MeteredOnce, Usage
    <3>6. JobsOwnRuns'
      BY <2>4, <3>1 DEF ReportStart, Start, MeterInv, JobsOwnRuns, TypeOK
    <3> QED
      BY <3>5, <3>6 DEF MeterInv
  <2>5. ASSUME NEW h \in Handler, NEW tenant \in Tenant, NEW r \in RunId, ExecuteStart(h, tenant, r)
        PROVE  MeterInv'
    <3>1. UNCHANGED <<runs, results, usage_events, usage_entries, reported>>
      BY <2>5 DEF ExecuteStart, tables, history
    <3>2. JobsOwnRuns'
      BY <2>5, <3>1 DEF ExecuteStart, Start, MeterInv, JobsOwnRuns, TypeOK
    <3> QED
      BY <2>1, <3>1, <3>2, CompletedStays DEF MeterInv
  <2>6. ASSUME UNCHANGED <<runs, results, usage_events, usage_entries, reported>>,
               \A h \in Handler : pc'[h] \in {"executing", "inspected", "metered", "reloaded"}
                  => /\ job'[h] = job[h]
                     /\ pc[h] \in {"executing", "inspected", "metered", "reloaded"}
        PROVE  MeterInv'
    <3>1. JobsOwnRuns'
      BY <2>6 DEF MeterInv, JobsOwnRuns
    <3> QED
      BY <2>1, <2>6, <3>1, CompletedStays DEF MeterInv
  <2>7. ASSUME NEW h \in Handler, NEW r \in RunId, CreateExisting(h, r) PROVE MeterInv'
    BY <2>6, <2>7 DEF CreateExisting, Answer, tables, TypeOK
  <2> QED
    BY <2>2, <2>3, <2>4, <2>5, <2>6, <2>7, OtherSteps
<1> QED
  BY <1>1, <1>2, TypeCorrect, PTL DEF Spec

(* A tenant's usage is one unit for each of its completed runs and each     *)
(* unit reported; a run is charged and has its result exactly when it is    *)
(* completed (complete, execute_investigation, record_usage).               *)
THEOREM MeteredOnceHolds == Spec => []MeteredOnce
<1>1. MeterInv => MeteredOnce
  BY DEF MeterInv
<1> QED
  BY <1>1, MeterInvHolds, PTL

-----------------------------------------------------------------------------
(* The Metering contract: a run's binding is its tenant, key and request,   *)
(* and only two steps change what the contract sees of the runs.            *)
LEMMA BindingChanges ==
    ASSUME TypeOK, [Next]_vars
    PROVE  \/ \E h \in Handler, r \in RunId : CreateNew(h, r)
           \/ \E h \in Handler : CompleteNow(h)
           \/ \E h \in Handler, tenant \in Tenant : ReportStart(h, tenant)
           \/ UNCHANGED <<runs, usage_entries>>
BY OtherSteps DEF CreateExisting, ExecuteStart, tables

(* The initial states are initial states of the contract.                   *)
LEMMA MeteringInitial == Init => Metering!Init
<1> SUFFICES ASSUME Init PROVE Metering!Init
  OBVIOUS
<1>1. \A r \in RunId : BindingOf(runs[r]) = Metering!Free
  BY DEF Init, BindingOf, Metering!Free
<1>2. Completed = {}
  BY DEF Init, Completed, NoRun
<1>3. \A tenant \in Tenant : Usage(tenant) = 0
  BY DEF Init, Usage, NoLedger
<1> QED
  BY <1>1, <1>2, <1>3 DEF Metering!Init

(* Every step of the handlers is a step of the contract or changes nothing  *)
(* it speaks of.                                                            *)
LEMMA MeteringStep ==
    TypeOK /\ MeterInv /\ [Next]_vars => [Metering!Next]_(Metering!vars)
<1> SUFFICES ASSUME TypeOK, MeterInv, [Next]_vars
             PROVE  [Metering!Next]_(Metering!vars)
  OBVIOUS
<1>1. ASSUME NEW h \in Handler, NEW r \in RunId, CreateNew(h, r) PROVE Metering!Next
  <2> DEFINE new == job[h]
  <2>1. /\ new \in CreateJob
        /\ runs[r] = NoRun
        /\ runs'[r] # NoRun
        /\ runs'[r].tenant = new.tenant /\ runs'[r].key = new.key
        /\ runs'[r].request = new.request
        /\ \A other \in RunId \ {r} : runs'[other] = runs[other]
    BY <1>1, CreateNewEffect, RunIsPresent
  <2>2. new.tenant \in Tenant /\ new.key \in Key /\ new.request \in Requests
    BY <2>1 DEF CreateJob
  <2>3. BindingOf(runs[r]) = Metering!Free
    BY <2>1 DEF BindingOf, Metering!Free
  <2>4. \A other \in RunId : BindingOf(runs[other]) # Metering!Free => runs[other] # NoRun
    BY DEF BindingOf, Metering!Free
  <2>5. Metering!RunOf(new.tenant, new.key) = {}
    BY <1>1, <2>4 DEF CreateNew, Bound, BindingOf, Metering!RunOf
  <2>6. BindingOf(runs'[r]) = [tenant |-> new.tenant, key |-> new.key, request |-> new.request]
    BY <2>1 DEF BindingOf
  <2>7. Completed' = Completed
    BY <1>1, CompletedStays
  <2>8. UNCHANGED usage_entries
    BY <1>1 DEF CreateNew
  <2> HIDE DEF new
  <2>9. Metering!Bind(r, new.tenant, new.key, new.request)
    BY <2>1, <2>3, <2>5, <2>6, <2>7, <2>8 DEF Metering!Bind, Usage
  <2> QED
    BY <2>2, <2>9 DEF Metering!Next
<1>2. ASSUME NEW h \in Handler, CompleteNow(h) PROVE Metering!Next
  <2> DEFINE r == job[h].run
  <2>1. /\ r \in RunId /\ runs[r] \in Run /\ runs'[r] \in Run
        /\ runs'[r].tenant = runs[r].tenant /\ runs'[r].key = runs[r].key
        /\ runs'[r].request = runs[r].request
        /\ \A other \in RunId \ {r} : runs'[other] = runs[other]
    BY <1>2, CompleteNowEffect
  <2>2. r \notin Completed /\ Completed' = Completed \cup {r}
    BY <1>2, CompletedGrows
  <2>3. usage_entries' = [usage_entries EXCEPT ![runs[r].tenant] = @ + 1]
    <3>1. job[h].tenant = runs[r].tenant
      BY <1>2 DEF CompleteNow, MeterInv, JobsOwnRuns
    <3> QED
      BY <1>2, <2>2, <3>1 DEF CompleteNow, MeterInv, MeteredOnce
  <2> HIDE DEF r
  <2>4. runs[r] # NoRun /\ runs'[r] # NoRun
    BY <2>1, RunIsPresent
  <2>5. \A other \in RunId : BindingOf(runs'[other]) = BindingOf(runs[other])
    BY <2>1, <2>4 DEF BindingOf
  <2>6. BindingOf(runs[r]) # Metering!Free /\ BindingOf(runs[r]).tenant = runs[r].tenant
    BY <2>4 DEF BindingOf, Metering!Free
  <2>7. [tenant \in Tenant |-> usage_entries'[tenant]]
           = [[tenant \in Tenant |-> usage_entries[tenant]]
                EXCEPT ![BindingOf(runs[r]).tenant] = @ + 1]
    BY <2>1, <2>3, <2>6 DEF TypeOK, Ledger, Run
  <2>8. Metering!Charge(r)
    BY <2>1, <2>2, <2>5, <2>6, <2>7 DEF Metering!Charge, Usage
  <2> QED
    BY <2>1, <2>8 DEF Metering!Next
<1>3. ASSUME NEW h \in Handler, NEW tenant \in Tenant, ReportStart(h, tenant)
      PROVE  Metering!Next
  <2>1. UNCHANGED runs /\ usage_entries' = [usage_entries EXCEPT ![tenant] = @ + 1]
    BY <1>3 DEF ReportStart
  <2>2. Completed' = Completed
    BY <2>1, CompletedStays
  <2>3. Metering!Report(tenant)
    BY <2>1, <2>2 DEF Metering!Report, Usage, TypeOK, Ledger
  <2> QED
    BY <2>3 DEF Metering!Next
<1>4. CASE UNCHANGED <<runs, usage_entries>>
  BY <1>4, CompletedStays DEF Metering!vars, Usage
<1> QED
  BY <1>1, <1>2, <1>3, <1>4, BindingChanges

(* The handlers implement the Metering contract (create_investigation,      *)
(* execute_investigation, record_usage, usage).                             *)
THEOREM InvestigationImplementsMetering == Spec => ImplementsMetering
BY MeteringInitial, MeteringStep, TypeCorrect, MeterInvHolds, PTL
   DEF Spec, ImplementsMetering, Metering!Spec

-----------------------------------------------------------------------------
(* The counter of executions counts each run completed since the process    *)
(* started once (the completed_now branch of execute_investigation).        *)
THEOREM ExecutionsCountedOnceHolds == Spec => []ExecutionsCountedOnce
<1>1. Init => ExecutionsCountedOnce
  <2> SUFFICES ASSUME Init PROVE ExecutionsCountedOnce
    OBVIOUS
  <2>1. Completed = {}
    BY DEF Init, NoRun, Completed
  <2> QED
    BY <2>1, FS_EmptySet DEF Init, ExecutionsCountedOnce
<1>2. TypeOK /\ ExecutionsCountedOnce /\ [Next]_vars => ExecutionsCountedOnce'
  <2> SUFFICES ASSUME TypeOK, ExecutionsCountedOnce, [Next]_vars PROVE ExecutionsCountedOnce'
    OBVIOUS
  <2>1. /\ agent_executions \in Nat /\ completedBefore \in Nat
        /\ Cardinality(Completed) \in Nat
    BY CompletedType DEF TypeOK
  <2>2. ASSUME NEW h \in Handler, CompleteNow(h) PROVE ExecutionsCountedOnce'
    <3>1. agent_executions' = agent_executions + 1 /\ UNCHANGED completedBefore
      BY <2>2 DEF CompleteNow, history
    <3>2. Cardinality(Completed') = Cardinality(Completed) + 1
      BY <2>2, CompletedGrows
    <3> QED
      BY <2>1, <3>1, <3>2 DEF ExecutionsCountedOnce
  <2>3. CASE Restart
    <3>1. /\ agent_executions' = 0 /\ completedBefore' = Cardinality(Completed)
          /\ UNCHANGED runs
      BY <2>3 DEF Restart, tables
    <3> QED
      BY <2>1, <3>1, CompletedStays DEF ExecutionsCountedOnce
  <2>4. ASSUME UNCHANGED <<agent_executions, completedBefore>>,
               Completed' = Completed
        PROVE  ExecutionsCountedOnce'
    BY <2>4 DEF ExecutionsCountedOnce
  <2>5. ASSUME NEW h \in Handler, NEW r \in RunId, CreateNew(h, r)
        PROVE  ExecutionsCountedOnce'
    BY <2>4, <2>5, CompletedStays DEF CreateNew
  <2>6. CASE UNCHANGED <<runs, agent_executions, completedBefore>>
    BY <2>4, <2>6, CompletedStays
  <2> QED
    BY <2>2, <2>3, <2>5, <2>6
       DEF Next, HandlerStep, Ingest, CreateStart, CreateExisting, ExecuteStart, Inspect,
           EvidenceGone, CompleteAgain, Reload, Publish, ReportStart, ReportRecord,
           StorageError, vars, tables, history
<1> QED
  BY <1>1, <1>2, TypeCorrect, PTL DEF Spec

-----------------------------------------------------------------------------
(* A run that was answered as completed is never changed again (complete).  *)
THEOREM CompletedIsFinalHolds == Spec => CompletedIsFinal
<1> DEFINE Final == \A r \in Completed : runs'[r] = runs[r]
<1>1. TypeOK /\ [Next]_vars => [Final]_vars
  <2> SUFFICES ASSUME TypeOK, [Next]_vars PROVE Final
    OBVIOUS
  <2>1. ASSUME NEW h \in Handler, NEW r \in RunId, CreateNew(h, r) PROVE Final
    BY <2>1, CreateNewEffect DEF Completed, NoRun
  <2>2. ASSUME NEW h \in Handler, CompleteNow(h) PROVE Final
    BY <2>2, CompleteNowEffect DEF Completed
  <2>3. CASE UNCHANGED runs
    BY <2>3 DEF Completed
  <2> QED
    BY <2>1, <2>2, <2>3, OtherSteps DEF CreateExisting, ReportStart, ExecuteStart, tables
<1> QED
  BY <1>1, TypeCorrect, PTL DEF Spec, CompletedIsFinal

=============================================================================
