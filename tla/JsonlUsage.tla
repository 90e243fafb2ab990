----------------------------- MODULE JsonlUsage -----------------------------
(***************************************************************************)
(* The usage ledger of the API with its default storage: record_usage      *)
(* appends to the JSONL file and then records in memory, usage and         *)
(* billing_quote load the file, and main loads it before it serves.        *)
(*                                                                         *)
(* Handlers run on several threads and share no lock while they append.    *)
(* Writes that reached the file survive the process.                       *)
(***************************************************************************)
EXTENDS Jsonl, FiniteSets

CONSTANTS
    Tenant,          \* tenants; every entry is one unit of one kind and period
    NoTenant,        \* the handler reports nothing
    Handler,         \* requests that may be in progress at the same time
    MaxReports,      \* bound: POST /v1/usage requests
    MaxFaults        \* bound: failed writes and deaths of the process

ASSUME TenantAssumption == NoTenant \notin Tenant

ASSUME HandlerAssumption == IsFiniteSet(Handler)

ASSUME BoundAssumption == MaxReports \in Nat /\ MaxFaults \in Nat

VARIABLES
    file,            \* OBSERVABILITY_USAGE_DATA
    up,              \* the process serves; FALSE once main has panicked
    ledger,          \* state.usage
    pc,              \* what each handler does next
    tenant,          \* whose usage it reports
    reported,        \* history: units sent by clients
    acknowledged,    \* history: units answered 201
    answered,        \* history: the last total answered to each tenant
    overlapped,      \* history: two appends were under way at once
    torn,            \* history: an append stopped half way
    faults           \* bounded by MaxFaults

history == <<reported, acknowledged, answered, overlapped, torn>>
vars == <<file, up, ledger, pc, tenant, history, faults>>

-----------------------------------------------------------------------------
NoUnits == [t \in Tenant |-> 0]

TypeOK ==
    /\ file \in File(Tenant)
    /\ up \in BOOLEAN
    /\ pc \in [Handler -> {"idle", "head", "tail", "newline", "record"}]
    /\ tenant \in [Handler -> Tenant \cup {NoTenant}]
    /\ \A h \in Handler : tenant[h] = NoTenant <=> pc[h] = "idle"
    /\ ~up => \A h \in Handler : pc[h] = "idle"
    /\ ledger \in [Tenant -> Nat] /\ reported \in [Tenant -> Nat]
    /\ acknowledged \in [Tenant -> Nat] /\ answered \in [Tenant -> Nat]
    /\ overlapped \in BOOLEAN
    /\ torn \in BOOLEAN
    /\ faults \in Nat

Init ==
    /\ file = EmptyFile
    /\ up = TRUE
    /\ ledger = NoUnits
    /\ pc = [h \in Handler |-> "idle"]
    /\ tenant = [h \in Handler |-> NoTenant]
    /\ reported = NoUnits
    /\ acknowledged = NoUnits
    /\ answered = NoUnits
    /\ overlapped = FALSE
    /\ torn = FALSE
    /\ faults = 0

(* load: the entries of a file that can be read, per tenant.                *)
Load == [t \in Tenant |-> Cardinality({i \in DOMAIN Documents(file) : Documents(file)[i] = t})]

Appending(h) == pc[h] \in {"head", "tail", "newline"}
HalfWritten(h) == pc[h] \in {"tail", "newline"}

BugDoneKeepsTenant(h) ==          \* mutant: what was reported outlives the answer
    /\ pc' = [pc EXCEPT ![h] = "idle"]
    /\ UNCHANGED tenant

Done(h) ==
    /\ pc' = [pc EXCEPT ![h] = "idle"]
    /\ tenant' = [tenant EXCEPT ![h] = NoTenant]

-----------------------------------------------------------------------------
(* record_usage.                                                            *)
Report(h, t) ==
    /\ up
    /\ pc[h] = "idle"
    /\ FoldFunction(LAMBDA m, n : m + n, 0, reported) < MaxReports
    /\ reported' = [reported EXCEPT ![t] = @ + 1]
    /\ tenant' = [tenant EXCEPT ![h] = t]
    /\ file' = Opened(file)
    /\ pc' = [pc EXCEPT ![h] = "head"]
    /\ overlapped' = (overlapped \/ \E other \in Handler : Appending(other))
    /\ UNCHANGED <<up, ledger, acknowledged, answered, torn, faults>>

WriteHead(h) ==
    /\ pc[h] = "head"
    /\ file' = Written(file, FirstPart(tenant[h]))
    /\ pc' = [pc EXCEPT ![h] = "tail"]
    /\ UNCHANGED <<up, ledger, tenant, history, faults>>

WriteTail(h) ==
    /\ pc[h] = "tail"
    /\ file' = Written(file, SecondPart(tenant[h]))
    /\ pc' = [pc EXCEPT ![h] = "newline"]
    /\ UNCHANGED <<up, ledger, tenant, history, faults>>

BugWriteNoNewline(h) ==           \* mutant: the newline is not written
    /\ pc[h] = "newline"
    /\ pc' = [pc EXCEPT ![h] = "record"]
    /\ UNCHANGED <<file, up, ledger, tenant, history, faults>>

WriteNewline(h) ==
    /\ pc[h] = "newline"
    /\ file' = Terminated(file)
    /\ pc' = [pc EXCEPT ![h] = "record"]
    /\ UNCHANGED <<up, ledger, tenant, history, faults>>

(* The ledger in memory, then 201.                                          *)
Record(h) ==
    /\ pc[h] = "record"
    /\ ledger' = [ledger EXCEPT ![tenant[h]] = @ + 1]
    /\ acknowledged' = [acknowledged EXCEPT ![tenant[h]] = @ + 1]
    /\ Done(h)
    /\ UNCHANGED <<file, up, reported, answered, overlapped, torn, faults>>

(* usage, billing_quote: the total of the file, or 500 if it does not load. *)
Usage(t) ==
    /\ up
    /\ Readable(file)
    /\ answered' = [answered EXCEPT ![t] = Load[t]]
    /\ UNCHANGED <<file, up, ledger, pc, tenant, reported, acknowledged, overlapped,
                   torn, faults>>

-----------------------------------------------------------------------------
Fault == faults < MaxFaults /\ faults' = faults + 1

BugWriteErrorIgnored(h) ==        \* mutant: append's error is dropped and the unit recorded
    /\ Fault
    /\ Appending(h)
    /\ torn' = (torn \/ HalfWritten(h))
    /\ pc' = [pc EXCEPT ![h] = "record"]
    /\ UNCHANGED <<file, up, ledger, tenant, reported, acknowledged, answered, overlapped>>

(* A write fails: append returns the error and the handler answers 500.     *)
(* What was written before stays in the file.                               *)
WriteError(h) ==
    /\ Fault
    /\ Appending(h)
    /\ torn' = (torn \/ HalfWritten(h))
    /\ Done(h)
    /\ UNCHANGED <<file, up, ledger, reported, acknowledged, answered, overlapped>>

(* The process dies and main starts again: load(...).expect(...) panics if  *)
(* the file does not load.                                                  *)
Restart ==
    /\ Fault
    /\ up
    /\ torn' = (torn \/ \E h \in Handler : HalfWritten(h))
    /\ pc' = [h \in Handler |-> "idle"]
    /\ tenant' = [h \in Handler |-> NoTenant]
    /\ up' = Readable(file)
    /\ ledger' = IF Readable(file) THEN Load ELSE NoUnits
    /\ UNCHANGED <<file, reported, acknowledged, answered, overlapped>>

Next ==
    \/ \E h \in Handler :
          \/ \E t \in Tenant : Report(h, t)
          \/ WriteHead(h) \/ WriteTail(h) \/ WriteNewline(h) \/ Record(h)
          \/ WriteError(h)
    \/ \E t \in Tenant : Usage(t)
    \/ Restart

Spec == Init /\ [][Next]_vars

-----------------------------------------------------------------------------
(* Properties.                                                              *)

(* However appends interleave, fail or are cut off: as long as the file     *)
(* loads, no acknowledged unit is missing from the ledger in memory, none   *)
(* of memory's from the file, and the file holds no unit nobody sent.       *)
LedgerWithinFile ==
    up /\ Readable(file) =>
        \A t \in Tenant : /\ acknowledged[t] <= ledger[t]
                          /\ ledger[t] <= Load[t]
                          /\ Load[t] <= reported[t]

(* Only two appends at once, or one that stopped half way, can leave a file *)
(* that does not load.                                                      *)
LoadsUnlessDisturbed ==
    ~overlapped /\ ~torn /\ (\A h \in Handler : ~Appending(h)) => Readable(file)

(* The usage a tenant is told, and charged for, never goes down: not even   *)
(* across restarts.                                                         *)
UsageNeverShrinks == [][\A t \in Tenant : answered'[t] >= answered[t]]_vars

(* docs/production-readiness.md:8 and README.md:76: the ledger is restored  *)
(* when the API starts again.                                               *)
RestartRestoresLedger == up
=============================================================================
