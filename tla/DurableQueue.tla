---------------------------- MODULE DurableQueue ----------------------------
(***************************************************************************)
(* The durable ingestion queue of the API: the observation_queue and       *)
(* observations tables of SqliteStore, the ingestion handlers that fill    *)
(* the queue, the worker that drains it and the operator's dead-letter     *)
(* replay.                                                                 *)
(*                                                                         *)
(* Each repository call takes the connection's mutex once and is one       *)
(* transaction, so it is one step here.  The worker makes three calls per  *)
(* item and releases the mutex between them: claim_next, append, then      *)
(* complete or fail.  It reads the wall clock before the first and before  *)
(* fail.  What survives a crash is what a transaction has committed.       *)
(*                                                                         *)
(* Time is counted in quarter-seconds, the unit of retry_delay_ms.         *)
(***************************************************************************)
EXTENDS Integers, FiniteSets

CONSTANTS
    Id,              \* observation IDs
    Tenant,          \* tenants
    Observations,    \* the valid observations clients may send
    NoObservation,   \* "no row", for the observation store
    Batches,         \* the batches clients may send: sets of observations
    Process,         \* API processes that share the database file
    MaxAttempts,     \* OBSERVABILITY_QUEUE_MAX_ATTEMPTS
    LeaseUnits,      \* OBSERVABILITY_QUEUE_LEASE_MS, in quarter-seconds
    ClockSkew,       \* how far the wall clock may step back (0: monotonic)
    MaxNow,          \* bound: last instant of a run
    Horizon,         \* bound: last instant at which clients act or faults occur
    MaxRequests,     \* bound: batches and replays in a run
    MaxFaults        \* bound: storage errors, crashes and clock steps in a run

ASSUME IdAssumption == IsFiniteSet(Id)     \* UUIDs

ASSUME ObservationAssumption ==
    /\ \A o \in Observations : o.id \in Id /\ o.tenant \in Tenant
    /\ NoObservation \notin Observations

ASSUME BatchAssumption ==
    \A batch \in Batches : batch \subseteq Observations /\ IsFiniteSet(batch)

(* main clamps both settings: max_attempts.max(1), lease_ms.max(1_000).     *)
ASSUME ConfigAssumption ==
    /\ MaxAttempts \in Nat \ {0}
    /\ LeaseUnits \in Nat /\ LeaseUnits >= 4

ASSUME BoundAssumption ==
    /\ ClockSkew \in Nat /\ MaxNow \in Nat /\ Horizon \in Nat
    /\ MaxRequests \in Nat /\ MaxFaults \in Nat

VARIABLES
    queue,           \* table observation_queue: ID -> row
    observations,    \* table observations: ID -> observation
    pc,              \* where each process's worker is in process_queue_once
    item,            \* the item each worker holds between its calls
    stamp,           \* the worker's local timestamp: claimed_at, then retry_at_ms
    metrics,         \* the counters of each process, lost on restart
    now,             \* the wall clock
    accepted,        \* history: observations answered 202
    expiries,        \* history: leases of each row that ran out
    recovered,       \* history: rows found in the queue at the last start
    requests,        \* bounded by MaxRequests
    faults           \* bounded by MaxFaults

worker == <<pc, item, stamp>>
history == <<accepted, expiries, recovered>>
vars == <<queue, observations, worker, metrics, now, history, requests, faults>>

-----------------------------------------------------------------------------
NoLease == -1                     \* lease_until_ms IS NULL
NoRow == [state |-> "absent"]     \* the table has no row for the ID
NoItem == [attempts |-> 0]        \* the worker holds nothing

Row == [state : {"pending", "processing", "dead_letter"},
        attempts : Nat,
        enqueued_at : Nat,
        available_at : Nat,
        lease_until : Nat \cup {NoLease},
        payload : Observations]

Item == [observation : Observations, attempts : Nat]

ZeroMetrics == [ingested |-> 0, processed |-> 0, retries |-> 0, dead_letters |-> 0]

TypeOK ==
    /\ queue \in [Id -> Row \cup {NoRow}]
    /\ \A id \in Id : queue[id] # NoRow => queue[id].payload.id = id
    /\ observations \in [Id -> Observations \cup {NoObservation}]
    /\ pc \in [Process -> {"idle", "clocked", "claimed", "appended", "failed"}]
    /\ item \in [Process -> Item \cup {NoItem}]
    /\ \A p \in Process : item[p] = NoItem <=> pc[p] \in {"idle", "clocked"}
    /\ stamp \in [Process -> Nat]
    /\ metrics \in [Process -> [ingested : Nat, processed : Nat,
                                retries : Nat, dead_letters : Nat]]
    /\ now \in Nat
    /\ accepted \subseteq Observations
    /\ expiries \in [Id -> Nat]
    /\ recovered \in Nat
    /\ requests \in Nat
    /\ faults \in Nat

Init ==
    /\ queue = [id \in Id |-> NoRow]
    /\ observations = [id \in Id |-> NoObservation]
    /\ pc = [p \in Process |-> "idle"]
    /\ item = [p \in Process |-> NoItem]
    /\ stamp = [p \in Process |-> 0]
    /\ metrics = [p \in Process |-> ZeroMetrics]
    /\ now = 0
    /\ accepted = {}
    /\ expiries = [id \in Id |-> 0]
    /\ recovered = 0
    /\ requests = 0
    /\ faults = 0

Rows(state) == {id \in Id : queue[id].state = state}

(* 250 * 2^min(attempts - 1, 8) ms, at most 60 s: 240 quarter-seconds.      *)
RetryDelay(attempts) ==
    CASE attempts <= 1 -> 1
      [] attempts = 2  -> 2
      [] attempts = 3  -> 4
      [] attempts = 4  -> 8
      [] attempts = 5  -> 16
      [] attempts = 6  -> 32
      [] attempts = 7  -> 64
      [] attempts = 8  -> 128
      [] OTHER         -> 240

-----------------------------------------------------------------------------
(* Requests.  The history variable accepted grows when the transaction      *)
(* commits, so it includes requests whose answer the client never saw and   *)
(* may send again.                                                          *)

Request ==
    /\ now <= Horizon
    /\ requests < MaxRequests
    /\ requests' = requests + 1
    /\ UNCHANGED faults

FreshIds(batch) == {o.id : o \in batch} \cap Rows("absent")

NewRow(o) == [state |-> "pending", attempts |-> 0, enqueued_at |-> now,
              available_at |-> now, lease_until |-> NoLease, payload |-> o]

(* enqueue_batch returns the number of rows it inserted.                    *)
BugInsertedCountsAll(batch) == Cardinality(batch)   \* mutant: the batch's length
Inserted(batch) == Cardinality(FreshIds(batch))

(* accept_observations over enqueue_batch.  An ID already in the queue is   *)
(* left as it is (ON CONFLICT DO NOTHING); of two observations of a batch   *)
(* with the same ID the first in request order is inserted.                 *)
Enqueue(p, batch) ==
    /\ Request
    /\ \E first \in [FreshIds(batch) -> batch] :
          /\ \A id \in FreshIds(batch) : first[id].id = id
          /\ queue' = [id \in Id |-> IF id \in FreshIds(batch)
                                     THEN NewRow(first[id]) ELSE queue[id]]
    /\ metrics' = [metrics EXCEPT ![p].ingested = @ + Inserted(batch)]
    /\ accepted' = accepted \cup batch
    /\ expiries' = [id \in Id |-> IF id \in FreshIds(batch) THEN 0 ELSE expiries[id]]
    /\ UNCHANGED <<observations, worker, now, recovered>>

(* replay_dead_letter over requeue_dead_letter, for one's own tenant.       *)
Replay(tenant, id) ==
    /\ Request
    /\ queue[id].state = "dead_letter"
    /\ queue[id].payload.tenant = tenant
    /\ queue' = [queue EXCEPT ![id].state = "pending", ![id].attempts = 0,
                              ![id].enqueued_at = now, ![id].available_at = now,
                              ![id].lease_until = NoLease]
    /\ expiries' = [expiries EXCEPT ![id] = 0]
    /\ UNCHANGED <<observations, worker, metrics, now, accepted, recovered>>

-----------------------------------------------------------------------------
(* The worker: process_queue_once.                                          *)

Holding(p) == item[p].observation.id

BugBackToIdleKeepsItem(p) ==      \* mutant: the item outlives its processing
    /\ pc' = [pc EXCEPT ![p] = "idle"]
    /\ stamp' = [stamp EXCEPT ![p] = 0]
    /\ UNCHANGED item

BackToIdle(p) ==
    /\ pc' = [pc EXCEPT ![p] = "idle"]
    /\ item' = [item EXCEPT ![p] = NoItem]
    /\ stamp' = [stamp EXCEPT ![p] = 0]

(* let claimed_at = now_ms();                                               *)
ReadClock(p) ==
    /\ pc[p] = "idle"
    /\ pc' = [pc EXCEPT ![p] = "clocked"]
    /\ stamp' = [stamp EXCEPT ![p] = now]
    /\ UNCHANGED <<queue, observations, item, metrics, now, history, requests, faults>>

(* claim_next first returns the rows whose lease has run out to pending.    *)
BugNeverExpired(claimed_at) == {}  \* mutant: the recovery UPDATE is missing
Expired(claimed_at) == {id \in Rows("processing") : queue[id].lease_until <= claimed_at}

AfterExpiry(claimed_at) ==
    [id \in Id |-> IF id \in Expired(claimed_at)
                   THEN [queue[id] EXCEPT !.state = "pending", !.lease_until = NoLease]
                   ELSE queue[id]]

CountExpiries(claimed_at) ==
    expiries' = [id \in Id |-> IF id \in Expired(claimed_at)
                               THEN expiries[id] + 1 ELSE expiries[id]]

Available(rows, claimed_at) ==
    {id \in Id : rows[id].state = "pending" /\ rows[id].available_at <= claimed_at}

(* ORDER BY available_at_ms ASC, enqueued_at_ms ASC; ties in any order.     *)
NotAfter(row, other) ==
    \/ row.available_at < other.available_at
    \/ row.available_at = other.available_at /\ row.enqueued_at <= other.enqueued_at

Claim(p, id) ==
    LET claimed_at == stamp[p]
        rows == AfterExpiry(claimed_at)
    IN  /\ pc[p] = "clocked"
        /\ id \in Available(rows, claimed_at)
        /\ \A other \in Available(rows, claimed_at) : NotAfter(rows[id], rows[other])
        /\ queue' = [rows EXCEPT ![id].state = "processing",
                                 ![id].attempts = @ + 1,
                                 ![id].lease_until = claimed_at + LeaseUnits]
        /\ item' = [item EXCEPT ![p] = [observation |-> rows[id].payload,
                                        attempts |-> rows[id].attempts + 1]]
        /\ pc' = [pc EXCEPT ![p] = "claimed"]
        /\ stamp' = [stamp EXCEPT ![p] = 0]
        /\ CountExpiries(claimed_at)
        /\ UNCHANGED <<observations, metrics, now, accepted, recovered, requests, faults>>

ClaimNothing(p) ==
    /\ pc[p] = "clocked"
    /\ Available(AfterExpiry(stamp[p]), stamp[p]) = {}
    /\ queue' = AfterExpiry(stamp[p])
    /\ CountExpiries(stamp[p])
    /\ BackToIdle(p)
    /\ UNCHANGED <<observations, metrics, now, accepted, recovered, requests, faults>>

(* append: INSERT OR REPLACE INTO observations.                             *)
Append(p) ==
    /\ pc[p] = "claimed"
    /\ observations' = [observations EXCEPT ![Holding(p)] = item[p].observation]
    /\ pc' = [pc EXCEPT ![p] = "appended"]
    /\ UNCHANGED <<queue, item, stamp, metrics, now, history, requests, faults>>

(* complete: DELETE ... WHERE id = ? AND state = 'processing'.  The counter *)
(* is incremented whether or not a row was deleted.                         *)
BugCompleteAfterError(p) ==       \* mutant: acknowledges a failed append too
    /\ pc[p] \in {"appended", "failed"}
    /\ queue' = IF queue[Holding(p)].state = "processing"
                THEN [queue EXCEPT ![Holding(p)] = NoRow] ELSE queue
    /\ metrics' = [metrics EXCEPT ![p].processed = @ + 1]
    /\ BackToIdle(p)
    /\ UNCHANGED <<observations, now, history, requests, faults>>

BugCompleteAnyState(p) ==         \* mutant: AND state = 'processing' is missing
    /\ pc[p] = "appended"
    /\ queue' = [queue EXCEPT ![Holding(p)] = NoRow]
    /\ metrics' = [metrics EXCEPT ![p].processed = @ + 1]
    /\ BackToIdle(p)
    /\ UNCHANGED <<observations, now, history, requests, faults>>

Complete(p) ==
    /\ pc[p] = "appended"
    /\ queue' = IF queue[Holding(p)].state = "processing"
                THEN [queue EXCEPT ![Holding(p)] = NoRow] ELSE queue
    /\ metrics' = [metrics EXCEPT ![p].processed = @ + 1]
    /\ BackToIdle(p)
    /\ UNCHANGED <<observations, now, history, requests, faults>>

(* fail: back to pending until retry_at_ms, or dead letter once the row's   *)
(* attempts have reached the maximum.                                       *)
BugFailRetryOnceMore(p) ==        \* mutant: > for >= in the comparison with max_attempts
    /\ pc[p] = "failed"
    /\ queue[Holding(p)].state = "processing"
    /\ queue[Holding(p)].attempts <= MaxAttempts
    /\ queue' = [queue EXCEPT ![Holding(p)].state = "pending",
                              ![Holding(p)].available_at = stamp[p],
                              ![Holding(p)].lease_until = NoLease]
    /\ metrics' = [metrics EXCEPT ![p].retries = @ + 1]
    /\ BackToIdle(p)
    /\ UNCHANGED <<observations, now, history, requests, faults>>

FailRetry(p) ==
    /\ pc[p] = "failed"
    /\ queue[Holding(p)].state = "processing"
    /\ queue[Holding(p)].attempts < MaxAttempts
    /\ queue' = [queue EXCEPT ![Holding(p)].state = "pending",
                              ![Holding(p)].available_at = stamp[p],
                              ![Holding(p)].lease_until = NoLease]
    /\ metrics' = [metrics EXCEPT ![p].retries = @ + 1]
    /\ BackToIdle(p)
    /\ UNCHANGED <<observations, now, history, requests, faults>>

BugFailDeadDrops(p) ==            \* mutant: the row is deleted, not set aside
    /\ pc[p] = "failed"
    /\ queue[Holding(p)].state = "processing"
    /\ queue[Holding(p)].attempts >= MaxAttempts
    /\ queue' = [queue EXCEPT ![Holding(p)] = NoRow]
    /\ metrics' = [metrics EXCEPT ![p].dead_letters = @ + 1]
    /\ BackToIdle(p)
    /\ UNCHANGED <<observations, now, history, requests, faults>>

FailDead(p) ==
    /\ pc[p] = "failed"
    /\ queue[Holding(p)].state = "processing"
    /\ queue[Holding(p)].attempts >= MaxAttempts
    /\ queue' = [queue EXCEPT ![Holding(p)].state = "dead_letter",
                              ![Holding(p)].available_at = stamp[p],
                              ![Holding(p)].lease_until = NoLease]
    /\ metrics' = [metrics EXCEPT ![p].dead_letters = @ + 1]
    /\ BackToIdle(p)
    /\ UNCHANGED <<observations, now, history, requests, faults>>

(* "queue item is not processing": another process has settled the row.     *)
FailNotProcessing(p) ==
    /\ pc[p] = "failed"
    /\ queue[Holding(p)].state # "processing"
    /\ BackToIdle(p)
    /\ UNCHANGED <<queue, observations, metrics, now, history, requests, faults>>

WorkerStep(p) ==
    \/ ReadClock(p)
    \/ \E id \in Id : Claim(p, id)
    \/ ClaimNothing(p)
    \/ Append(p)
    \/ Complete(p)
    \/ FailRetry(p)
    \/ FailDead(p)
    \/ FailNotProcessing(p)

-----------------------------------------------------------------------------
(* Faults and the clock.                                                    *)

Fault ==
    /\ now <= Horizon
    /\ faults < MaxFaults
    /\ faults' = faults + 1
    /\ UNCHANGED requests

(* append fails: the worker reads the clock again for retry_at_ms.          *)
AppendError(p) ==
    /\ Fault
    /\ pc[p] = "claimed"
    /\ pc' = [pc EXCEPT ![p] = "failed"]
    /\ stamp' = [stamp EXCEPT ![p] = now + RetryDelay(item[p].attempts)]
    /\ UNCHANGED <<queue, observations, item, metrics, now, history>>

(* claim_next, complete or fail return a storage error: their transaction   *)
(* has no effect, and `?` sends the worker back to its poll.                *)
SettleError(p) ==
    /\ Fault
    /\ pc[p] \in {"clocked", "appended", "failed"}
    /\ BackToIdle(p)
    /\ UNCHANGED <<queue, observations, metrics, now, history>>

(* The process dies at any point and main starts again on the same file.    *)
Restart(p) ==
    /\ Fault
    /\ BackToIdle(p)
    /\ metrics' = [metrics EXCEPT ![p] = ZeroMetrics]
    /\ recovered' = Cardinality({id \in Id : queue[id].state # "absent"})
    /\ UNCHANGED <<queue, observations, now, accepted, expiries>>

(* now_ms reads SystemTime, which is not monotonic.                         *)
ClockStepBack ==
    /\ Fault
    /\ \E back \in 1 .. ClockSkew : back <= now /\ now' = now - back
    /\ UNCHANGED <<queue, observations, worker, metrics, history>>

Tick ==
    /\ now < MaxNow
    /\ now' = now + 1
    /\ UNCHANGED <<queue, observations, worker, metrics, history, requests, faults>>

Next ==
    \/ \E p \in Process, batch \in Batches : Enqueue(p, batch)
    \/ \E tenant \in Tenant, id \in Id : Replay(tenant, id)
    \/ \E p \in Process : WorkerStep(p) \/ AppendError(p) \/ SettleError(p) \/ Restart(p)
    \/ ClockStepBack
    \/ Tick

Spec == Init /\ [][Next]_vars

(* The worker task loops for as long as its process lives, and time passes. *)
FairSpec == Spec /\ (\A p \in Process : WF_vars(WorkerStep(p))) /\ WF_vars(Tick)

-----------------------------------------------------------------------------
(* Properties.                                                              *)

(* The queue as the Delivery contract sees it: rows that are pending or     *)
(* processing are queued.                                                   *)
StatusOf(row) ==
    CASE row.state = "absent" -> "absent"
      [] row.state = "dead_letter" -> "dead"
      [] OTHER -> "queued"

Delivery == INSTANCE Delivery WITH
    acceptedIds <- {o.id : o \in accepted},
    storedIds <- {id \in Id : observations[id] # NoObservation},
    status <- [id \in Id |-> StatusOf(queue[id])]

(* Every step of the queue, with any number of workers, leases that run     *)
(* out, crashes and clock steps, is a step of at-least-once delivery.       *)
ImplementsDelivery == Delivery!Spec

(* An observation the API answered 202 for is in the queue, among the dead  *)
(* letters or in the store, under its ID, at every moment afterwards.       *)
AcceptedIsDurable ==
    \A o \in accepted : \/ queue[o.id].state # "absent"
                        \/ observations[o.id] # NoObservation

(* With the single process the documents promise, complete removes a row    *)
(* only when the store holds the very observation of that row: no settled   *)
(* item was overwritten, skipped or exchanged for another under its ID.     *)
AckOnlyStored ==
    [][\A id \in Id :
          queue[id].state # "absent" /\ queue'[id].state = "absent"
             => observations'[id] = queue[id].payload]_vars

(* A row is dead-lettered only after MaxAttempts claims since it was queued *)
(* or replayed, and the claims beyond that number are claims whose lease    *)
(* ran out before anything was recorded about them.                         *)
RetryBudget ==
    \A id \in Id :
        queue[id] # NoRow =>
            /\ queue[id].attempts <= MaxAttempts + expiries[id]
            /\ queue[id].state = "dead_letter" => queue[id].attempts >= MaxAttempts

(* stats: the rows of a tenant in each state.                               *)
Stats(tenant) ==
    LET Count(state) == Cardinality({id \in Rows(state) : queue[id].payload.tenant = tenant})
    IN  [pending |-> Count("pending"), processing |-> Count("processing"),
         dead_letter |-> Count("dead_letter")]

(* The sum of all counts in the statistics of all tenants, as the number of *)
(* what each of them counts.                                                *)
InStats ==
    Cardinality({unit \in Tenant \X {"pending", "processing", "dead_letter"} \X (1 .. Cardinality(Id)) :
                    unit[3] <= Stats(unit[1])[unit[2]]})

(* With one process, /metrics and the queue statistics agree: what was      *)
(* ingested, plus what the process found in the queue when it started, is   *)
(* what it has processed plus what the tenants' statistics still show.      *)
CountersBalance ==
    \A p \in Process : metrics[p].ingested + recovered = metrics[p].processed + InStats

(* Once clients and faults are quiet, an accepted row does not wait in the  *)
(* queue for ever: it is stored and removed, or becomes a dead letter.      *)
EventuallySettled ==
    \A id \in Id : queue[id].state \in {"pending", "processing"}
                     ~> queue[id].state \in {"absent", "dead_letter"}
=============================================================================
