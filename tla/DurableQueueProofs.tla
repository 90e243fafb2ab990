------------------------- MODULE DurableQueueProofs -------------------------
(***************************************************************************)
(* Proofs about DurableQueue for every set of IDs, observations, batches   *)
(* and processes, every maximum of attempts, lease and clock skew, and     *)
(* every bound.                                                            *)
(***************************************************************************)
EXTENDS DurableQueue, FiniteSetTheorems, TLAPS

(* retry_delay_ms is a positive number of quarter-seconds.                  *)
LEMMA RetryDelayType == \A n \in Nat : RetryDelay(n) \in Nat \ {0}
BY DEF RetryDelay

(* The fresh IDs of a batch are finitely many, so they can be counted.      *)
LEMMA FreshIdsType ==
    ASSUME NEW batch \in Batches
    PROVE  /\ FreshIds(batch) \subseteq Id
           /\ Cardinality(FreshIds(batch)) \in Nat
<1>1. FreshIds(batch) \subseteq Id
  BY DEF FreshIds, Rows
<1>2. IsFiniteSet(FreshIds(batch))
  BY <1>1, IdAssumption, FS_Subset
<1> QED
  BY <1>1, <1>2, FS_CardinalityType

(* A row is not the absence of a row.                                       *)
LEMMA NoRowNotRow == NoRow \notin Row
BY DEF NoRow, Row

(* Claiming a row counts the attempt and sets the lease.                    *)
LEMMA ClaimedRowType ==
    ASSUME NEW row \in Row, NEW t \in Nat
    PROVE  LET new == [row EXCEPT !.state = "processing", !.attempts = @ + 1,
                                  !.lease_until = t + LeaseUnits]
           IN  new \in Row /\ new.payload = row.payload
<1>1. row.attempts + 1 \in Nat /\ t + LeaseUnits \in Nat
  BY ConfigAssumption DEF Row
<1> QED
  BY <1>1 DEF Row

(* A worker that is between claim_next and its outcome holds an item.       *)
LEMMA HeldItem ==
    ASSUME TypeOK, NEW p \in Process, pc[p] \in {"claimed", "appended", "failed"}
    PROVE  item[p] \in Item /\ Holding(p) \in Id
<1>1. item[p] # NoItem /\ item[p] \in Item \cup {NoItem}
  BY DEF TypeOK
<1>2. item[p] \in Item
  BY <1>1
<1>3. item[p].observation \in Observations
  BY <1>2 DEF Item
<1> QED
  BY <1>2, <1>3, ObservationAssumption DEF Holding

(* Letting leases run out keeps the queue's type.                           *)
LEMMA AfterExpiryType ==
    ASSUME TypeOK, NEW t \in Nat
    PROVE  /\ AfterExpiry(t) \in [Id -> Row \cup {NoRow}]
           /\ \A id \in Id : AfterExpiry(t)[id] # NoRow => AfterExpiry(t)[id].payload.id = id
           /\ \A id \in Id : AfterExpiry(t)[id].state = "pending" => AfterExpiry(t)[id] \in Row
<1> DEFINE Freed(id) == [queue[id] EXCEPT !.state = "pending", !.lease_until = NoLease]
<1>1. \A id \in Expired(t) : id \in Id /\ queue[id] \in Row /\ queue[id].payload.id = id
  BY DEF TypeOK, Expired, Rows, NoRow
<1>2. \A id \in Expired(t) : Freed(id) \in Row /\ Freed(id).payload.id = id
  <2>1. ASSUME NEW row \in Row
        PROVE  LET new == [row EXCEPT !.state = "pending", !.lease_until = NoLease]
               IN  new \in Row /\ new.payload = row.payload
    BY DEF Row, NoLease
  <2> QED
    BY <1>1, <2>1
<1>3. \A id \in Id : AfterExpiry(t)[id] = IF id \in Expired(t) THEN Freed(id) ELSE queue[id]
  BY DEF AfterExpiry
<1>a. \A id \in Id : queue[id] \in Row \cup {NoRow} /\ (queue[id] # NoRow => queue[id].payload.id = id)
  BY DEF TypeOK
<1> HIDE DEF Freed
<1>4. \A id \in Id : AfterExpiry(t)[id] \in Row \cup {NoRow}
  BY <1>2, <1>3, <1>a, Zenon
<1>5. AfterExpiry(t) \in [Id -> Row \cup {NoRow}]
  BY <1>4 DEF AfterExpiry
<1>6. \A id \in Id : AfterExpiry(t)[id] # NoRow => AfterExpiry(t)[id].payload.id = id
  BY <1>2, <1>3, <1>a
<1>7. \A id \in Id : AfterExpiry(t)[id].state = "pending" => AfterExpiry(t)[id] \in Row
  BY <1>4 DEF NoRow
<1> QED
  BY <1>5, <1>6, <1>7

(* Every variable of the queue keeps its type.                              *)
THEOREM TypeCorrect == Spec => []TypeOK
<1>1. Init => TypeOK
  BY DEF Init, TypeOK, ZeroMetrics, NoItem, NoRow
<1>2. TypeOK /\ [Next]_vars => TypeOK'
  <2> SUFFICES ASSUME TypeOK, [Next]_vars PROVE TypeOK'
    OBVIOUS
  <2> USE DEF TypeOK
  <2>1. ASSUME NEW p \in Process, NEW batch \in Batches, Enqueue(p, batch) PROVE TypeOK'
    <3>1. PICK first \in [FreshIds(batch) -> batch] :
             /\ \A id \in FreshIds(batch) : first[id].id = id
             /\ queue' = [id \in Id |-> IF id \in FreshIds(batch)
                                        THEN NewRow(first[id]) ELSE queue[id]]
      BY <2>1 DEF Enqueue
    <3>2. batch \subseteq Observations
      BY BatchAssumption
    <3>3. \A id \in FreshIds(batch) : NewRow(first[id]) \in Row /\ NewRow(first[id]).payload.id = id
      BY <3>1, <3>2 DEF NewRow, Row, NoLease
    <3>4. /\ queue' \in [Id -> Row \cup {NoRow}]
          /\ \A id \in Id : queue'[id] # NoRow => queue'[id].payload.id = id
      BY <3>1, <3>3
    <3>5. metrics' \in [Process -> [ingested : Nat, processed : Nat,
                                    retries : Nat, dead_letters : Nat]]
      BY <2>1, FreshIdsType DEF Enqueue, Inserted
    <3> QED
      BY <2>1, <3>2, <3>4, <3>5 DEF Enqueue, Request, worker
  <2>2. ASSUME NEW tenant \in Tenant, NEW id \in Id, Replay(tenant, id) PROVE TypeOK'
    <3>1. queue[id] \in Row
      BY <2>2 DEF Replay, NoRow
    <3> DEFINE new == [queue[id] EXCEPT !.state = "pending", !.attempts = 0,
                            !.enqueued_at = now, !.available_at = now, !.lease_until = NoLease]
    <3>2. new \in Row /\ new.payload = queue[id].payload
      BY <3>1 DEF Row, NoLease
    <3>3. queue' = [queue EXCEPT ![id] = new]
      BY <2>2 DEF Replay
    <3> HIDE DEF new
    <3>4. /\ queue' \in [Id -> Row \cup {NoRow}]
          /\ \A i \in Id : queue'[i] # NoRow => queue'[i].payload.id = i
      BY <3>1, <3>2, <3>3, NoRowNotRow
    <3> QED
      BY <2>2, <3>4 DEF Replay, Request, worker
  <2>3. ASSUME NEW p \in Process, ReadClock(p) PROVE TypeOK'
    BY <2>3 DEF ReadClock, history
  <2>4. ASSUME NEW p \in Process, NEW id \in Id, Claim(p, id) PROVE TypeOK'
    <3> DEFINE t == stamp[p]  rows == AfterExpiry(t)
    <3>1. t \in Nat /\ rows[id] \in Row /\ rows[id].payload.id = id
      BY <2>4, AfterExpiryType DEF Claim, Available, NoRow, Row
    <3> DEFINE new == [rows[id] EXCEPT !.state = "processing", !.attempts = @ + 1,
                            !.lease_until = t + LeaseUnits]
    <3>2. new \in Row /\ new.payload = rows[id].payload
      BY <3>1, ClaimedRowType
    <3>3. queue' = [rows EXCEPT ![id] = new]
      BY <2>4 DEF Claim
    <3> HIDE DEF new
    <3>6. /\ queue' \in [Id -> Row \cup {NoRow}]
          /\ \A i \in Id : queue'[i] # NoRow => queue'[i].payload.id = i
      BY <3>1, <3>2, <3>3, AfterExpiryType
    <3>4. item' \in [Process -> Item \cup {NoItem}] /\ item'[p] # NoItem
      BY <2>4, <3>1 DEF Claim, Item, NoItem, Row
    <3>5. expiries' \in [Id -> Nat]
      BY <2>4 DEF Claim, CountExpiries
    <3> QED
      BY <2>4, <3>4, <3>5, <3>6 DEF Claim
  <2>5. ASSUME NEW p \in Process, ClaimNothing(p) PROVE TypeOK'
    BY <2>5, AfterExpiryType DEF ClaimNothing, CountExpiries, BackToIdle
  <2>6. ASSUME NEW p \in Process, Append(p) PROVE TypeOK'
    <3>1. item[p].observation \in Observations
      BY <2>6 DEF Append, Item, NoItem
    <3> QED
      BY <2>6, <3>1 DEF Append, history
  <2>7. ASSUME NEW p \in Process, Complete(p) PROVE TypeOK'
    <3>1. Holding(p) \in Id
      BY <2>7, HeldItem DEF Complete
    <3>2. /\ queue' \in [Id -> Row \cup {NoRow}]
          /\ \A i \in Id : queue'[i] # NoRow => queue'[i].payload.id = i
      BY <2>7, <3>1 DEF Complete
    <3> QED
      BY <2>7, <3>2 DEF Complete, BackToIdle, history
  <2>8. ASSUME NEW p \in Process, FailRetry(p) \/ FailDead(p) PROVE TypeOK'
    <3>1. Holding(p) \in Id
      BY <2>8, HeldItem DEF FailRetry, FailDead
    <3>2. queue[Holding(p)] \in Row
      BY <2>8, <3>1 DEF FailRetry, FailDead, NoRow
    <3>3. PICK state \in {"pending", "dead_letter"} :
             queue' = [queue EXCEPT ![Holding(p)].state = state,
                                    ![Holding(p)].available_at = stamp[p],
                                    ![Holding(p)].lease_until = NoLease]
      BY <2>8 DEF FailRetry, FailDead
    <3> DEFINE new == [queue[Holding(p)] EXCEPT !.state = state,
                            !.available_at = stamp[p], !.lease_until = NoLease]
    <3>4. new \in Row /\ new.payload = queue[Holding(p)].payload
      BY <3>2 DEF Row, NoLease
    <3>5. queue' = [queue EXCEPT ![Holding(p)] = new]
      BY <3>3
    <3> HIDE DEF new
    <3>6. /\ queue' \in [Id -> Row \cup {NoRow}]
          /\ \A i \in Id : queue'[i] # NoRow => queue'[i].payload.id = i
      BY <3>1, <3>2, <3>4, <3>5, NoRowNotRow
    <3>7. metrics' \in [Process -> [ingested : Nat, processed : Nat,
                                    retries : Nat, dead_letters : Nat]]
      <4>1. \/ metrics' = [metrics EXCEPT ![p].retries = @ + 1]
            \/ metrics' = [metrics EXCEPT ![p].dead_letters = @ + 1]
        BY <2>8 DEF FailRetry, FailDead
      <4>2. metrics \in [Process -> [ingested : Nat, processed : Nat, retries : Nat, dead_letters : Nat]]
        BY DEF TypeOK
      <4>3. CASE metrics' = [metrics EXCEPT ![p].retries = @ + 1]
        BY <4>2, <4>3, SMTT(30)
      <4>4. CASE metrics' = [metrics EXCEPT ![p].dead_letters = @ + 1]
        BY <4>2, <4>4, SMTT(30)
      <4> QED
        BY <4>1, <4>3, <4>4
    <3>8. /\ BackToIdle(p)
          /\ UNCHANGED <<observations, now, accepted, expiries, recovered, requests, faults>>
      BY <2>8 DEF FailRetry, FailDead, history
    <3> QED
      BY <3>6, <3>7, <3>8 DEF BackToIdle
  <2>9. ASSUME NEW p \in Process, FailNotProcessing(p) PROVE TypeOK'
    BY <2>9 DEF FailNotProcessing, BackToIdle, history
  <2>10. ASSUME NEW p \in Process, AppendError(p) PROVE TypeOK'
    <3>1. item[p].attempts \in Nat
      BY <2>10 DEF AppendError, Item, NoItem
    <3> QED
      BY <2>10, <3>1, RetryDelayType DEF AppendError, Fault, history
  <2>11. ASSUME NEW p \in Process, SettleError(p) PROVE TypeOK'
    BY <2>11 DEF SettleError, Fault, BackToIdle, history
  <2>12. ASSUME NEW p \in Process, Restart(p) PROVE TypeOK'
    <3>1. Cardinality({id \in Id : queue[id].state # "absent"}) \in Nat
      BY IdAssumption, FS_Subset, FS_CardinalityType
    <3> QED
      BY <2>12, <3>1 DEF Restart, Fault, BackToIdle, ZeroMetrics
  <2>13. CASE ClockStepBack
    BY <2>13, BoundAssumption DEF ClockStepBack, Fault, worker, history
  <2>14. CASE Tick
    BY <2>14 DEF Tick, worker, history
  <2>15. CASE UNCHANGED vars
    BY <2>15 DEF vars, worker, history
  <2> QED
    BY <2>1, <2>2, <2>3, <2>4, <2>5, <2>6, <2>7, <2>8, <2>9, <2>10, <2>11, <2>12,
       <2>13, <2>14, <2>15 DEF Next, WorkerStep
<1> QED
  BY <1>1, <1>2, PTL DEF Spec

-----------------------------------------------------------------------------
(* The retry budget.  The invariant is RetryBudget with what it leaves out: *)
(* a pending row always has an attempt left that no expired lease accounts  *)
(* for, which is what the next claim uses up.                               *)
Budget(row, expired) ==
    /\ row.attempts <= MaxAttempts + expired
    /\ row.state = "pending" => row.attempts < MaxAttempts + expired
    /\ row.state = "dead_letter" => row.attempts >= MaxAttempts

BudgetInv == \A id \in Id : queue[id] # NoRow => Budget(queue[id], expiries[id])

(* Letting leases run out keeps the budget, with the expiries counted.      *)
LEMMA AfterExpiryBudget ==
    ASSUME TypeOK, BudgetInv, NEW t \in Nat, CountExpiries(t), NEW id \in Id,
           AfterExpiry(t)[id] # NoRow
    PROVE  Budget(AfterExpiry(t)[id], expiries'[id])
<1>1. CASE id \in Expired(t)
  <2>1. queue[id] \in Row /\ queue[id] # NoRow
    BY <1>1, NoRowNotRow DEF TypeOK, Expired, Rows, NoRow
  <2>2. Budget(queue[id], expiries[id])
    BY <2>1 DEF BudgetInv
  <2>3. expiries'[id] = expiries[id] + 1 /\ expiries[id] \in Nat
    BY <1>1 DEF TypeOK, CountExpiries
  <2>4. /\ AfterExpiry(t)[id].attempts = queue[id].attempts
        /\ AfterExpiry(t)[id].state = "pending"
    BY <1>1, <2>1 DEF AfterExpiry, Row
  <2>5. queue[id].attempts \in Nat
    BY <2>1 DEF Row
  <2> QED
    BY <2>2, <2>3, <2>4, <2>5, ConfigAssumption DEF Budget
<1>2. CASE id \notin Expired(t)
  <2>1. AfterExpiry(t)[id] = queue[id] /\ expiries'[id] = expiries[id]
    BY <1>2 DEF AfterExpiry, CountExpiries
  <2> QED
    BY <2>1 DEF BudgetInv
<1> QED
  BY <1>1, <1>2

(* The dead-letter threshold: attempts beyond MaxAttempts are claims whose  *)
(* lease ran out, and no row is set aside before MaxAttempts claims.        *)
THEOREM RetryBudgetHolds == Spec => []RetryBudget
<1>1. Init => BudgetInv
  BY DEF Init, BudgetInv
<1>2. TypeOK /\ BudgetInv /\ [Next]_vars => BudgetInv'
  <2> SUFFICES ASSUME TypeOK, BudgetInv, [Next]_vars PROVE BudgetInv'
    OBVIOUS
  <2>1. ASSUME NEW p \in Process, NEW batch \in Batches, Enqueue(p, batch) PROVE BudgetInv'
    <3>1. \A id \in FreshIds(batch) : /\ queue'[id].attempts = 0
                                      /\ queue'[id].state = "pending"
                                      /\ expiries'[id] = 0
      BY <2>1 DEF Enqueue, NewRow, FreshIds, Rows
    <3>2. \A id \in Id \ FreshIds(batch) : /\ queue'[id] = queue[id]
                                           /\ expiries'[id] = expiries[id]
      BY <2>1 DEF Enqueue
    <3> QED
      BY <3>1, <3>2, ConfigAssumption DEF BudgetInv, Budget
  <2>2. ASSUME NEW tenant \in Tenant, NEW id \in Id, Replay(tenant, id) PROVE BudgetInv'
    <3>1. /\ queue'[id].attempts = 0
          /\ queue'[id].state = "pending"
          /\ expiries'[id] = 0
      <4>1. queue[id] \in Row
        BY <2>2 DEF Replay, NoRow, TypeOK
      <4> QED
        BY <2>2, <4>1 DEF Replay, TypeOK, Row
    <3>2. \A i \in Id \ {id} : queue'[i] = queue[i] /\ expiries'[i] = expiries[i]
      BY <2>2 DEF Replay, TypeOK
    <3> QED
      BY <3>1, <3>2, ConfigAssumption DEF BudgetInv, Budget
  <2>3. ASSUME NEW p \in Process, NEW id \in Id, Claim(p, id) PROVE BudgetInv'
    <3> DEFINE t == stamp[p]  rows == AfterExpiry(t)
    <3>1. t \in Nat /\ rows[id] \in Row /\ rows \in [Id -> Row \cup {NoRow}] /\ rows[id] # NoRow
      BY <2>3, AfterExpiryType, NoRowNotRow DEF Claim, Available, TypeOK
    <3>2. CountExpiries(t) /\ rows[id].state = "pending"
      BY <2>3 DEF Claim, Available
    <3>3. Budget(rows[id], expiries'[id]) /\ expiries'[id] \in Nat
      BY <3>1, <3>2, AfterExpiryBudget DEF CountExpiries, TypeOK
    <3>4. /\ queue'[id].attempts = rows[id].attempts + 1
          /\ queue'[id].state = "processing"
      BY <2>3, <3>1 DEF Claim, Row
    <3>5. \A i \in Id \ {id} : queue'[i] = rows[i]
      BY <2>3, <3>1 DEF Claim
    <3>6. Budget(queue'[id], expiries'[id])
      <4>1. rows[id].attempts \in Nat
        BY <3>1 DEF Row
      <4> QED
        BY <3>2, <3>3, <3>4, <4>1, ConfigAssumption DEF Budget
    <3> HIDE DEF rows
    <3>7. \A i \in Id \ {id} : queue'[i] # NoRow => Budget(queue'[i], expiries'[i])
      BY <3>1, <3>2, <3>5, AfterExpiryBudget DEF rows
    <3> QED
      BY <3>6, <3>7 DEF BudgetInv
  <2>4. ASSUME NEW p \in Process, ClaimNothing(p) PROVE BudgetInv'
    <3>1. stamp[p] \in Nat /\ CountExpiries(stamp[p]) /\ queue' = AfterExpiry(stamp[p])
      BY <2>4 DEF ClaimNothing, TypeOK
    <3> QED
      BY <3>1, AfterExpiryBudget DEF BudgetInv
  <2>5. ASSUME NEW p \in Process, Complete(p) PROVE BudgetInv'
    <3>1. expiries' = expiries /\ \A id \in Id : queue'[id] \in {queue[id], NoRow}
      BY <2>5 DEF Complete, TypeOK, history
    <3> QED
      BY <3>1 DEF BudgetInv
  <2>6. ASSUME NEW p \in Process, FailRetry(p) \/ FailDead(p) PROVE BudgetInv'
    <3> DEFINE id == Holding(p)
    <3>a. id \in Id
      BY <2>6, HeldItem DEF FailRetry, FailDead
    <3>1. id \in Id /\ queue[id] \in Row /\ expiries' = expiries /\ expiries[id] \in Nat
      BY <2>6, <3>a DEF FailRetry, FailDead, NoRow, TypeOK, history
    <3>2. queue'[id].attempts = queue[id].attempts /\ queue[id].attempts \in Nat
      BY <2>6, <3>1 DEF FailRetry, FailDead, TypeOK, Row
    <3>3. \/ queue'[id].state = "pending" /\ queue[id].attempts < MaxAttempts
          \/ queue'[id].state = "dead_letter" /\ queue[id].attempts >= MaxAttempts
      BY <2>6, <3>1 DEF FailRetry, FailDead, TypeOK, Row
    <3>4. \A i \in Id \ {id} : queue'[i] = queue[i]
      BY <2>6 DEF FailRetry, FailDead, TypeOK
    <3>5. Budget(queue[id], expiries[id])
      BY <3>1, NoRowNotRow DEF BudgetInv
    <3>6. Budget(queue'[id], expiries'[id])
      BY <3>1, <3>2, <3>3, <3>5, ConfigAssumption DEF Budget
    <3> QED
      BY <3>1, <3>4, <3>6 DEF BudgetInv
  <2>7. ASSUME UNCHANGED <<queue, expiries>> PROVE BudgetInv'
    BY <2>7 DEF BudgetInv
  <2> QED
    BY <2>1, <2>2, <2>3, <2>4, <2>5, <2>6, <2>7
       DEF Next, WorkerStep, ReadClock, Append, FailNotProcessing, AppendError, SettleError,
           Restart, ClockStepBack, Tick, vars, history
<1>3. TypeOK /\ BudgetInv => RetryBudget
  BY DEF BudgetInv, Budget, RetryBudget
<1> QED
  BY <1>1, <1>2, <1>3, TypeCorrect, PTL DEF Spec

-----------------------------------------------------------------------------
(* Refinement of the delivery contract.  What a worker holds has been       *)
(* accepted, and a worker that is about to acknowledge has stored an        *)
(* observation under the ID it holds; both survive everything the other     *)
(* processes, the clients and the clock do in between.                      *)
DeliveryInv ==
    /\ \A id \in Id : queue[id] # NoRow => queue[id].payload \in accepted
    /\ \A p \in Process : item[p] # NoItem => item[p].observation \in accepted
    /\ \A p \in Process : pc[p] = "appended" => observations[Holding(p)] # NoObservation

(* Letting leases run out changes neither the payload nor the contract's    *)
(* view of any row.                                                         *)
LEMMA AfterExpirySameStatus ==
    ASSUME TypeOK, NEW t, NEW id \in Id
    PROVE  /\ StatusOf(AfterExpiry(t)[id]) = StatusOf(queue[id])
           /\ AfterExpiry(t)[id] # NoRow => /\ queue[id] # NoRow
                                            /\ AfterExpiry(t)[id].payload = queue[id].payload
<1>1. CASE id \in Expired(t)
  <2>1. queue[id] \in Row /\ queue[id] # NoRow /\ queue[id].state = "processing"
    BY <1>1, NoRowNotRow DEF TypeOK, Expired, Rows, NoRow
  <2>2. /\ AfterExpiry(t)[id].payload = queue[id].payload
        /\ AfterExpiry(t)[id].state = "pending"
    BY <1>1, <2>1 DEF AfterExpiry, Row
  <2> QED
    BY <2>1, <2>2 DEF StatusOf
<1>2. CASE id \notin Expired(t)
  BY <1>2 DEF AfterExpiry
<1> QED
  BY <1>1, <1>2

(* The strengthening holds initially and every step keeps it.               *)
LEMMA DeliveryInvHolds == Spec => []DeliveryInv
<1>1. Init => DeliveryInv
  BY DEF Init, DeliveryInv
<1>2. TypeOK /\ DeliveryInv /\ [Next]_vars => DeliveryInv'
  <2> SUFFICES ASSUME TypeOK, DeliveryInv, [Next]_vars PROVE DeliveryInv'
    OBVIOUS
  <2> USE DEF DeliveryInv, Holding
  <2>1. ASSUME NEW p \in Process, NEW batch \in Batches, Enqueue(p, batch) PROVE DeliveryInv'
    <3>1. PICK first \in [FreshIds(batch) -> batch] :
             queue' = [id \in Id |-> IF id \in FreshIds(batch)
                                     THEN NewRow(first[id]) ELSE queue[id]]
      BY <2>1 DEF Enqueue
    <3>2. accepted' = accepted \cup batch
      BY <2>1 DEF Enqueue
    <3>3. \A id \in Id : queue'[id] # NoRow => queue'[id].payload \in accepted'
      BY <3>1, <3>2 DEF NewRow
    <3> QED
      BY <2>1, <3>2, <3>3 DEF Enqueue, worker
  <2>2. ASSUME NEW tenant \in Tenant, NEW id \in Id, Replay(tenant, id) PROVE DeliveryInv'
    <3>1. queue[id] \in Row
      BY <2>2 DEF Replay, NoRow, TypeOK
    <3>2. queue'[id].payload = queue[id].payload
      BY <2>2, <3>1 DEF Replay, TypeOK, Row
    <3>3. \A i \in Id \ {id} : queue'[i] = queue[i]
      BY <2>2 DEF Replay, TypeOK
    <3> QED
      <4>1. UNCHANGED <<observations, item, pc, accepted>>
        BY <2>2 DEF Replay, worker
      <4> QED
        BY <3>1, <3>2, <3>3, <4>1, NoRowNotRow
  <2>3. ASSUME NEW p \in Process, NEW id \in Id, Claim(p, id) PROVE DeliveryInv'
    <3> DEFINE t == stamp[p]  rows == AfterExpiry(t)
    <3>1. t \in Nat /\ rows[id] \in Row /\ rows[id] # NoRow /\ rows \in [Id -> Row \cup {NoRow}]
      BY <2>3, AfterExpiryType, NoRowNotRow DEF Claim, Available, TypeOK
    <3>2. \A i \in Id : rows[i] # NoRow => rows[i].payload \in accepted
      BY AfterExpirySameStatus
    <3>3. queue'[id].payload = rows[id].payload /\ \A i \in Id \ {id} : queue'[i] = rows[i]
      BY <2>3, <3>1 DEF Claim, Row
    <3>4. item' = [item EXCEPT ![p] = [observation |-> rows[id].payload,
                                       attempts |-> rows[id].attempts + 1]]
      BY <2>3 DEF Claim
    <3>5. pc' = [pc EXCEPT ![p] = "claimed"] /\ UNCHANGED <<accepted, observations>>
      BY <2>3 DEF Claim
    <3> HIDE DEF rows
    <3>6. \A i \in Id : queue'[i] # NoRow => queue'[i].payload \in accepted'
      BY <3>1, <3>2, <3>3, <3>5
    <3>7. \A q \in Process : item'[q] # NoItem => item'[q].observation \in accepted'
      BY <3>1, <3>2, <3>4, <3>5 DEF TypeOK
    <3>8. \A q \in Process : pc'[q] = "appended" =>
             observations'[item'[q].observation.id] # NoObservation
      BY <3>4, <3>5 DEF TypeOK
    <3> QED
      BY <3>6, <3>7, <3>8
  <2>4. ASSUME NEW p \in Process, ClaimNothing(p) PROVE DeliveryInv'
    BY <2>4, AfterExpirySameStatus DEF ClaimNothing, BackToIdle, TypeOK
  <2>5. ASSUME NEW p \in Process, Append(p) PROVE DeliveryInv'
    <3>1. item[p].observation \in Observations /\ item[p].observation.id \in Id
      BY <2>5, ObservationAssumption DEF Append, TypeOK, Item, NoItem
    <3>2. \A id \in Id : observations[id] # NoObservation => observations'[id] # NoObservation
      BY <2>5, <3>1, ObservationAssumption DEF Append, TypeOK
    <3>3. observations'[item[p].observation.id] # NoObservation
      BY <2>5, <3>1, ObservationAssumption DEF Append, TypeOK
    <3>4. \A q \in Process : pc[q] = "appended" => item[q].observation.id \in Id
      BY ObservationAssumption DEF TypeOK, Item, NoItem
    <3>5. \A q \in Process : pc'[q] = "appended" => q = p \/ pc[q] = "appended"
      BY <2>5 DEF Append, TypeOK
    <3>6. UNCHANGED <<queue, item, accepted>>
      BY <2>5 DEF Append, history
    <3> QED
      BY <3>2, <3>3, <3>4, <3>5, <3>6
  <2>6. ASSUME NEW p \in Process, Complete(p) PROVE DeliveryInv'
    <3>1. \A id \in Id : queue'[id] \in {queue[id], NoRow}
      BY <2>6 DEF Complete, TypeOK
    <3> QED
      BY <2>6, <3>1 DEF Complete, BackToIdle, TypeOK, history
  <2>7. ASSUME NEW p \in Process, FailRetry(p) \/ FailDead(p) PROVE DeliveryInv'
    <3> DEFINE id == item[p].observation.id
    <3>1. id \in Id /\ queue[id] \in Row /\ queue[id] # NoRow
      <4>1. id \in Id
        BY <2>7, ObservationAssumption DEF FailRetry, FailDead, Item, NoItem, TypeOK
      <4>2. queue[id].state = "processing"
        BY <2>7 DEF FailRetry, FailDead
      <4> QED
        BY <4>1, <4>2, NoRowNotRow DEF TypeOK, NoRow
    <3>2. queue'[id].payload = queue[id].payload /\ \A i \in Id \ {id} : queue'[i] = queue[i]
      <4>1. PICK state \in {"pending", "dead_letter"} :
               queue' = [queue EXCEPT ![id].state = state, ![id].available_at = stamp[p],
                                      ![id].lease_until = NoLease]
        BY <2>7 DEF FailRetry, FailDead
      <4> QED
        BY <3>1, <4>1 DEF TypeOK, Row
    <3>3. BackToIdle(p) /\ UNCHANGED <<accepted, observations>>
      BY <2>7 DEF FailRetry, FailDead, history
    <3> QED
      BY <3>1, <3>2, <3>3 DEF BackToIdle, TypeOK
  <2>8. ASSUME NEW p \in Process, BackToIdle(p), UNCHANGED <<queue, observations, accepted>>
        PROVE DeliveryInv'
    BY <2>8 DEF BackToIdle, TypeOK
  <2>9. ASSUME NEW p \in Process, ReadClock(p) \/ AppendError(p) PROVE DeliveryInv'
    BY <2>9 DEF ReadClock, AppendError, TypeOK, history
  <2>10. ASSUME UNCHANGED <<queue, observations, accepted, worker>> PROVE DeliveryInv'
    BY <2>10 DEF worker
  <2> QED
    BY <2>1, <2>2, <2>3, <2>4, <2>5, <2>6, <2>7, <2>8, <2>9, <2>10
       DEF Next, WorkerStep, FailNotProcessing, SettleError, Restart, ClockStepBack, Tick,
           vars, history
<1> QED
  BY <1>1, <1>2, TypeCorrect, PTL DEF Spec

(* The contract's initial state.                                            *)
LEMMA DeliveryInitial == Init => Delivery!Init
<1> SUFFICES ASSUME Init PROVE Delivery!Init
  OBVIOUS
<1>1. {o.id : o \in accepted} = {}
  BY DEF Init
<1>2. {id \in Id : observations[id] # NoObservation} = {}
  BY DEF Init
<1>3. \A id \in Id : StatusOf(queue[id]) = "absent"
  BY DEF Init, StatusOf, NoRow
<1> QED
  BY <1>1, <1>2, <1>3 DEF Delivery!Init

(* Every step of the queue is a step of the contract or leaves the          *)
(* contract's state alone: a committed batch is Accept, an append Deliver,  *)
(* a deletion Acknowledge, a dead-lettering SetAside, a replay Replay.      *)
LEMMA DeliveryStep ==
    TypeOK /\ DeliveryInv /\ [Next]_vars => [Delivery!Next]_(Delivery!vars)
<1> SUFFICES ASSUME TypeOK, DeliveryInv, [Next]_vars
             PROVE  [Delivery!Next]_(Delivery!vars)
  OBVIOUS
<1> DEFINE status == [id \in Id |-> StatusOf(queue[id])]
           acceptedIds == {o.id : o \in accepted}
           storedIds == {id \in Id : observations[id] # NoObservation}
<1>1. ASSUME NEW p \in Process, NEW batch \in Batches, Enqueue(p, batch)
      PROVE  Delivery!Next
  <2> DEFINE ids == {o.id : o \in batch}
  <2>1. ids \in SUBSET Id
    BY BatchAssumption, ObservationAssumption
  <2>2. acceptedIds' = acceptedIds \cup ids
    BY <1>1 DEF Enqueue
  <2>3. storedIds' = storedIds
    BY <1>1 DEF Enqueue
  <2>4. ASSUME NEW id \in Id
        PROVE  StatusOf(queue'[id]) = IF id \in ids /\ StatusOf(queue[id]) = "absent"
                                      THEN "queued" ELSE StatusOf(queue[id])
    <3>1. id \in FreshIds(batch) <=> id \in ids /\ StatusOf(queue[id]) = "absent"
      BY DEF FreshIds, Rows, StatusOf
    <3>2. CASE id \in FreshIds(batch)
      <4>1. queue'[id].state = "pending"
        BY <1>1, <3>2 DEF Enqueue, NewRow
      <4> QED
        BY <3>1, <3>2, <4>1 DEF StatusOf
    <3>3. CASE id \notin FreshIds(batch)
      <4>1. queue'[id] = queue[id]
        BY <1>1, <3>3 DEF Enqueue
      <4> QED
        BY <3>1, <3>3, <4>1
    <3> QED
      BY <3>2, <3>3
  <2>5. Delivery!Accept(ids)
    BY <2>1, <2>2, <2>3, <2>4 DEF Delivery!Accept
  <2> QED
    BY <2>1, <2>5 DEF Delivery!Next
<1>2. ASSUME NEW tenant \in Tenant, NEW id \in Id, Replay(tenant, id)
      PROVE  Delivery!Next
  <2>1. queue[id] \in Row /\ queue[id].state = "dead_letter"
    BY <1>2 DEF Replay, NoRow, TypeOK
  <2>2. queue'[id].state = "pending" /\ \A i \in Id \ {id} : queue'[i] = queue[i]
    BY <1>2, <2>1 DEF Replay, TypeOK, Row
  <2>3. status[id] = "dead" /\ status' = [status EXCEPT ![id] = "queued"]
    BY <2>1, <2>2 DEF StatusOf
  <2>4. acceptedIds' = acceptedIds /\ storedIds' = storedIds
    BY <1>2 DEF Replay
  <2> QED
    BY <2>3, <2>4 DEF Delivery!Next, Delivery!Replay
<1>3. ASSUME UNCHANGED <<accepted, observations>>,
             \A id \in Id : StatusOf(queue'[id]) = StatusOf(queue[id])
      PROVE  UNCHANGED Delivery!vars
  <2>1. acceptedIds' = acceptedIds /\ storedIds' = storedIds
    BY <1>3
  <2>2. status' = status
    BY <1>3
  <2> QED
    BY <2>1, <2>2 DEF Delivery!vars
<1>4. ASSUME NEW p \in Process, NEW id \in Id, Claim(p, id)
      PROVE  UNCHANGED Delivery!vars
  <2> DEFINE rows == AfterExpiry(stamp[p])
  <2>1. /\ rows \in [Id -> Row \cup {NoRow}] /\ rows[id] \in Row
        /\ rows[id].state = "pending"
    BY <1>4, AfterExpiryType DEF Claim, Available, TypeOK
  <2>2. queue'[id].state = "processing" /\ \A i \in Id \ {id} : queue'[i] = rows[i]
    BY <1>4, <2>1 DEF Claim, Row
  <2>3. StatusOf(queue'[id]) = StatusOf(rows[id])
    BY <2>1, <2>2 DEF StatusOf
  <2> HIDE DEF rows
  <2>4. \A i \in Id : StatusOf(queue'[i]) = StatusOf(rows[i])
    BY <2>2, <2>3
  <2>5. \A i \in Id : StatusOf(queue'[i]) = StatusOf(queue[i])
    BY <2>4, AfterExpirySameStatus DEF rows
  <2>6. UNCHANGED <<accepted, observations>>
    BY <1>4 DEF Claim
  <2> QED
    BY <1>3, <2>5, <2>6
<1>5. ASSUME NEW p \in Process, ClaimNothing(p) PROVE UNCHANGED Delivery!vars
  BY <1>3, <1>5, AfterExpirySameStatus DEF ClaimNothing
<1>6. ASSUME NEW p \in Process, Append(p) PROVE Delivery!Next
  <2> DEFINE o == item[p].observation  id == Holding(p)
  <2>1. item[p] # NoItem /\ o \in accepted /\ o \in Observations
    BY <1>6 DEF Append, TypeOK, DeliveryInv, Item, NoItem
  <2>2. id = o.id /\ id \in Id /\ id \in acceptedIds
    BY <2>1, ObservationAssumption DEF Holding
  <2>3. observations' = [observations EXCEPT ![id] = o] /\ o # NoObservation
    BY <1>6, <2>1, ObservationAssumption DEF Append
  <2>4. storedIds' = storedIds \cup {id}
    BY <2>2, <2>3 DEF TypeOK
  <2>5. acceptedIds' = acceptedIds /\ status' = status
    BY <1>6 DEF Append, history
  <2> QED
    BY <2>2, <2>4, <2>5 DEF Delivery!Next, Delivery!Deliver
<1>7. ASSUME NEW p \in Process, Complete(p) PROVE [Delivery!Next]_(Delivery!vars)
  <2> DEFINE id == Holding(p)
  <2>1. id \in Id
    BY <1>7, HeldItem DEF Complete
  <2>2. UNCHANGED <<accepted, observations>>
    BY <1>7 DEF Complete, history
  <2>3. CASE queue[id].state = "processing"
    <3>1. queue' = [queue EXCEPT ![id] = NoRow]
      BY <1>7, <2>3 DEF Complete
    <3>2. status[id] = "queued" /\ status' = [status EXCEPT ![id] = "absent"]
      BY <2>1, <2>3, <3>1 DEF TypeOK, StatusOf, NoRow
    <3>3. id \in storedIds
      BY <1>7, <2>1 DEF DeliveryInv, Complete
    <3>4. acceptedIds' = acceptedIds /\ storedIds' = storedIds
      BY <2>2
    <3> QED
      BY <2>1, <3>2, <3>3, <3>4 DEF Delivery!Next, Delivery!Acknowledge
  <2>4. CASE queue[id].state # "processing"
    <3>1. queue' = queue
      BY <1>7, <2>4 DEF Complete
    <3> QED
      BY <1>3, <2>2, <3>1
  <2> QED
    BY <2>3, <2>4
<1>8. ASSUME NEW p \in Process, FailRetry(p) \/ FailDead(p)
      PROVE  [Delivery!Next]_(Delivery!vars)
  <2> DEFINE id == Holding(p)
  <2>1. id \in Id
    BY <1>8, HeldItem DEF FailRetry, FailDead
  <2>2. queue[id] \in Row /\ queue[id].state = "processing"
    BY <1>8, <2>1 DEF FailRetry, FailDead, TypeOK, NoRow
  <2>3. UNCHANGED <<accepted, observations>>
    BY <1>8 DEF FailRetry, FailDead, history
  <2>4. CASE FailRetry(p)
    <3>1. queue'[id].state = "pending" /\ \A i \in Id \ {id} : queue'[i] = queue[i]
      BY <2>1, <2>2, <2>4 DEF FailRetry, TypeOK, Row
    <3>2. \A i \in Id : StatusOf(queue'[i]) = StatusOf(queue[i])
      BY <2>2, <3>1 DEF StatusOf
    <3> QED
      BY <1>3, <2>3, <3>2
  <2>5. CASE FailDead(p)
    <3>1. queue'[id].state = "dead_letter" /\ \A i \in Id \ {id} : queue'[i] = queue[i]
      BY <2>1, <2>2, <2>5 DEF FailDead, TypeOK, Row
    <3>2. status[id] = "queued" /\ status' = [status EXCEPT ![id] = "dead"]
      BY <2>1, <2>2, <3>1 DEF StatusOf
    <3>3. acceptedIds' = acceptedIds /\ storedIds' = storedIds
      BY <2>3
    <3> QED
      BY <2>1, <3>2, <3>3 DEF Delivery!Next, Delivery!SetAside
  <2> QED
    BY <1>8, <2>4, <2>5
<1>9. ASSUME UNCHANGED <<queue, accepted, observations>> PROVE UNCHANGED Delivery!vars
  BY <1>3, <1>9
<1> QED
  BY <1>1, <1>2, <1>4, <1>5, <1>6, <1>7, <1>8, <1>9
     DEF Next, WorkerStep, ReadClock, FailNotProcessing, AppendError, SettleError, Restart,
         ClockStepBack, Tick, vars, history

(* The durable queue, whatever the number of API processes, implements      *)
(* at-least-once delivery per observation ID.                               *)
THEOREM QueueImplementsDelivery == Spec => ImplementsDelivery
BY DeliveryInitial, DeliveryStep, TypeCorrect, DeliveryInvHolds, PTL
   DEF Spec, ImplementsDelivery, Delivery!Spec

(* Nothing the API has answered 202 for is lost, under its ID, whatever the *)
(* number of processes, crashes, storage errors, expired leases and clock   *)
(* steps.                                                                   *)
THEOREM AcceptedIsDurableHolds == Spec => []AcceptedIsDurable
<1>1. Init => AcceptedIsDurable
  BY DEF Init, AcceptedIsDurable
<1>2. TypeOK /\ DeliveryInv /\ AcceptedIsDurable /\ [Next]_vars => AcceptedIsDurable'
  <2> SUFFICES ASSUME TypeOK, DeliveryInv, AcceptedIsDurable, [Next]_vars
               PROVE  AcceptedIsDurable'
    OBVIOUS
  <2>1. ASSUME UNCHANGED accepted,
               \A id \in Id : observations[id] # NoObservation => observations'[id] # NoObservation,
               \A id \in Id : \/ StatusOf(queue[id]) = "absent"
                              \/ StatusOf(queue'[id]) # "absent"
                              \/ observations'[id] # NoObservation
        PROVE  AcceptedIsDurable'
    <3>1. \A o \in accepted : o.id \in Id
      BY ObservationAssumption DEF TypeOK
    <3> QED
      BY <2>1, <3>1 DEF AcceptedIsDurable, StatusOf
  <2>2. ASSUME NEW p \in Process, NEW batch \in Batches, Enqueue(p, batch)
        PROVE  AcceptedIsDurable'
    <3>1. accepted' = accepted \cup batch /\ UNCHANGED observations
      BY <2>2 DEF Enqueue
    <3>2. \A id \in FreshIds(batch) : queue'[id].state = "pending"
      BY <2>2 DEF Enqueue, NewRow, FreshIds, Rows
    <3>3. \A id \in Id \ FreshIds(batch) : queue'[id] = queue[id]
      BY <2>2 DEF Enqueue
    <3>4. \A o \in accepted \cup batch : o.id \in Id
      BY BatchAssumption, ObservationAssumption DEF TypeOK
    <3>5. \A o \in batch : o.id \in FreshIds(batch) \/ queue[o.id].state # "absent"
      BY <3>4 DEF FreshIds, Rows
    <3> QED
      BY <3>1, <3>2, <3>3, <3>4, <3>5 DEF AcceptedIsDurable
  <2>3. ASSUME NEW tenant \in Tenant, NEW id \in Id, Replay(tenant, id)
        PROVE  AcceptedIsDurable'
    <3>1. queue[id] \in Row
      BY <2>3 DEF Replay, NoRow, TypeOK
    <3>2. queue'[id].state = "pending" /\ \A i \in Id \ {id} : queue'[i] = queue[i]
      BY <2>3, <3>1 DEF Replay, TypeOK, Row
    <3> QED
      BY <2>1, <2>3, <3>2 DEF Replay, StatusOf
  <2>4. ASSUME NEW p \in Process, NEW id \in Id, Claim(p, id) PROVE AcceptedIsDurable'
    <3> DEFINE rows == AfterExpiry(stamp[p])
    <3>1. rows \in [Id -> Row \cup {NoRow}] /\ rows[id] \in Row
      BY <2>4, AfterExpiryType DEF Claim, Available, TypeOK
    <3>2. queue'[id].state = "processing" /\ \A i \in Id \ {id} : queue'[i] = rows[i]
      BY <2>4, <3>1 DEF Claim, Row
    <3>3. \A i \in Id : StatusOf(rows[i]) = StatusOf(queue[i])
      BY AfterExpirySameStatus
    <3> HIDE DEF rows
    <3> QED
      BY <2>1, <2>4, <3>2, <3>3 DEF Claim, StatusOf
  <2>5. ASSUME NEW p \in Process, ClaimNothing(p) PROVE AcceptedIsDurable'
    BY <2>1, <2>5, AfterExpirySameStatus DEF ClaimNothing
  <2>6. ASSUME NEW p \in Process, Append(p) PROVE AcceptedIsDurable'
    <3>1. item[p].observation # NoObservation
      BY <2>6, ObservationAssumption DEF Append, TypeOK, Item, NoItem
    <3> QED
      BY <2>1, <2>6, <3>1 DEF Append, TypeOK, history
  <2>7. ASSUME NEW p \in Process, Complete(p) PROVE AcceptedIsDurable'
    <3>1. observations[Holding(p)] # NoObservation
      BY <2>7 DEF Complete, DeliveryInv
    <3>2. \A i \in Id : i = Holding(p) \/ queue'[i] = queue[i]
      BY <2>7 DEF Complete, TypeOK
    <3> QED
      BY <2>1, <2>7, <3>1, <3>2 DEF Complete, history
  <2>8. ASSUME NEW p \in Process, FailRetry(p) \/ FailDead(p) PROVE AcceptedIsDurable'
    <3> DEFINE id == Holding(p)
    <3>1. id \in Id
      BY <2>8, HeldItem DEF FailRetry, FailDead
    <3>2. queue[id] \in Row
      BY <2>8, <3>1 DEF FailRetry, FailDead, TypeOK, NoRow
    <3>3. /\ queue'[id].state \in {"pending", "dead_letter"}
          /\ \A i \in Id \ {id} : queue'[i] = queue[i]
      BY <2>8, <3>1, <3>2 DEF FailRetry, FailDead, TypeOK, Row
    <3> QED
      BY <2>1, <2>8, <3>3 DEF FailRetry, FailDead, StatusOf, history
  <2>9. ASSUME UNCHANGED <<queue, accepted, observations>> PROVE AcceptedIsDurable'
    BY <2>9 DEF AcceptedIsDurable
  <2> QED
    BY <2>2, <2>3, <2>4, <2>5, <2>6, <2>7, <2>8, <2>9
       DEF Next, WorkerStep, ReadClock, FailNotProcessing, AppendError, SettleError, Restart,
           ClockStepBack, Tick, vars, history
<1> QED
  BY <1>1, <1>2, TypeCorrect, DeliveryInvHolds, PTL DEF Spec

-----------------------------------------------------------------------------
(* With a single process, the row of the item the worker holds cannot       *)
(* change under it: it stays processing, with the payload the worker has,   *)
(* until the worker itself settles it; and once appended, the store holds   *)
(* that payload.                                                            *)
SingleInv(p) ==
    /\ pc[p] \in {"claimed", "appended", "failed"} =>
          /\ queue[Holding(p)].state = "processing"
          /\ queue[Holding(p)].payload = item[p].observation
    /\ pc[p] = "appended" => observations[Holding(p)] = item[p].observation

(* A row that is removed has its payload in the store.                      *)
Removal ==
    \A id \in Id :
       queue[id].state # "absent" /\ queue'[id].state = "absent"
          => observations'[id] = queue[id].payload

LEMMA SingleInvKept ==
    ASSUME NEW p, Process = {p}
    PROVE  TypeOK /\ SingleInv(p) /\ [Next]_vars => SingleInv(p)' /\ [Removal]_vars
<1>1. TypeOK /\ SingleInv(p) /\ [Next]_vars => SingleInv(p)' /\ [Removal]_vars
  <2> SUFFICES ASSUME TypeOK, SingleInv(p), [Next]_vars PROVE SingleInv(p)' /\ [Removal]_vars
    OBVIOUS
  <2> USE DEF Removal
  <2> DEFINE busy == pc[p] \in {"claimed", "appended", "failed"}
             held == Holding(p)
  <2>1. busy => held \in Id /\ queue[held] \in Row
    <3>1. busy => held \in Id /\ queue[held].state = "processing"
      BY HeldItem DEF SingleInv
    <3> QED
      BY <3>1 DEF TypeOK, NoRow
  <2>2. ASSUME NEW batch \in Batches, Enqueue(p, batch) PROVE SingleInv(p)' /\ Removal
    <3>1. \A id \in Id : queue[id].state # "absent" => queue'[id] = queue[id]
      BY <2>2 DEF Enqueue, FreshIds, Rows
    <3>2. UNCHANGED <<observations, pc, item>>
      BY <2>2 DEF Enqueue, worker
    <3> QED
      BY <2>1, <3>1, <3>2 DEF SingleInv, Holding
  <2>3. ASSUME NEW tenant \in Tenant, NEW id \in Id, Replay(tenant, id)
        PROVE  SingleInv(p)' /\ Removal
    <3>1. queue[id] \in Row /\ queue[id].state = "dead_letter"
      BY <2>3 DEF Replay, NoRow, TypeOK
    <3>2. queue'[id].state = "pending" /\ \A i \in Id \ {id} : queue'[i] = queue[i]
      BY <2>3, <3>1 DEF Replay, TypeOK, Row
    <3>3. UNCHANGED <<observations, pc, item>>
      BY <2>3 DEF Replay, worker
    <3> QED
      BY <2>1, <3>1, <3>2, <3>3 DEF SingleInv, Holding
  <2>4. ASSUME NEW id \in Id, Claim(p, id) PROVE SingleInv(p)' /\ Removal
    <3> DEFINE rows == AfterExpiry(stamp[p])
    <3>1. /\ rows \in [Id -> Row \cup {NoRow}] /\ rows[id] \in Row
          /\ rows[id].payload.id = id
      BY <2>4, AfterExpiryType, NoRowNotRow DEF Claim, Available, TypeOK
    <3>2. /\ queue'[id].state = "processing" /\ queue'[id].payload = rows[id].payload
          /\ \A i \in Id \ {id} : queue'[i] = rows[i]
      BY <2>4, <3>1 DEF Claim, Row
    <3>3. pc'[p] = "claimed" /\ item'[p].observation = rows[id].payload
      BY <2>4 DEF Claim, TypeOK
    <3>4. \A i \in Id : StatusOf(rows[i]) = StatusOf(queue[i])
      BY AfterExpirySameStatus
    <3> HIDE DEF rows
    <3>5. SingleInv(p)'
      BY <3>1, <3>2, <3>3 DEF SingleInv, Holding
    <3>6. Removal
      BY <3>2, <3>4 DEF StatusOf
    <3> QED
      BY <3>5, <3>6
  <2>5. ASSUME ClaimNothing(p) PROVE SingleInv(p)' /\ Removal
    <3>1. pc'[p] = "idle"
      BY <2>5 DEF ClaimNothing, BackToIdle, TypeOK
    <3>2. \A i \in Id : StatusOf(queue'[i]) = StatusOf(queue[i])
      BY <2>5, AfterExpirySameStatus DEF ClaimNothing
    <3> QED
      BY <3>1, <3>2 DEF SingleInv, StatusOf
  <2>6. ASSUME Append(p) PROVE SingleInv(p)' /\ Removal
    BY <2>1, <2>6 DEF Append, SingleInv, Holding, TypeOK
  <2>7. ASSUME Complete(p) PROVE SingleInv(p)' /\ Removal
    <3>1. pc'[p] = "idle"
      BY <2>7 DEF Complete, BackToIdle, TypeOK
    <3>2. \A i \in Id : i = held \/ queue'[i] = queue[i]
      BY <2>7 DEF Complete, TypeOK
    <3>3. observations'[held] = queue[held].payload
      BY <2>7 DEF Complete, SingleInv
    <3> QED
      BY <3>1, <3>2, <3>3 DEF SingleInv
  <2>8. ASSUME FailRetry(p) \/ FailDead(p) PROVE SingleInv(p)' /\ Removal
    <3>1. pc'[p] = "idle"
      BY <2>8 DEF FailRetry, FailDead, BackToIdle, TypeOK
    <3>2. busy
      BY <2>8 DEF FailRetry, FailDead
    <3>3. /\ queue'[held].state \in {"pending", "dead_letter"}
          /\ \A i \in Id \ {held} : queue'[i] = queue[i]
      BY <2>1, <2>8, <3>2 DEF FailRetry, FailDead, TypeOK, Row
    <3> QED
      BY <3>1, <3>3 DEF SingleInv
  <2>9. ASSUME BackToIdle(p), UNCHANGED queue PROVE SingleInv(p)' /\ Removal
    BY <2>9 DEF BackToIdle, SingleInv, TypeOK
  <2>10. ASSUME ReadClock(p) PROVE SingleInv(p)' /\ Removal
    BY <2>10 DEF ReadClock, SingleInv, TypeOK
  <2>11. ASSUME AppendError(p) PROVE SingleInv(p)' /\ Removal
    BY <2>11 DEF AppendError, SingleInv, Holding, TypeOK
  <2>12. ASSUME UNCHANGED <<queue, observations, worker>> PROVE SingleInv(p)' /\ Removal
    BY <2>12 DEF worker, SingleInv, Holding
  <2> HIDE DEF Removal
  <2> QED
    BY <2>2, <2>3, <2>4, <2>5, <2>6, <2>7, <2>8, <2>9, <2>10, <2>11, <2>12
       DEF Next, WorkerStep, FailNotProcessing, SettleError, Restart, ClockStepBack, Tick, vars
<1> QED
  BY <1>1

(* One worker only: the invariant above holds and each removal of a row     *)
(* finds its payload in the store.                                          *)
THEOREM AckOnlyStoredHolds ==
    ASSUME NEW p, Process = {p}
    PROVE  Spec => AckOnlyStored
<1>1. Init => SingleInv(p)
  BY DEF Init, SingleInv
<1>2. TypeOK /\ SingleInv(p) /\ [Next]_vars => SingleInv(p)' /\ [Removal]_vars
  BY SingleInvKept
<1> QED
  BY <1>1, <1>2, TypeCorrect, PTL DEF Spec, AckOnlyStored, Removal

-----------------------------------------------------------------------------
(* The counters.                                                            *)

Present == {id \in Id : queue[id].state # "absent"}
States == {"pending", "processing", "dead_letter"}
Shown(tenant, state) == {id \in Rows(state) : queue[id].payload.tenant = tenant}
Units == {unit \in Tenant \X States \X (1 .. Cardinality(Id)) :
             unit[3] <= Stats(unit[1])[unit[2]]}

LEMMA PresentFinite == IsFiniteSet(Present) /\ Cardinality(Present) \in Nat
<1>1. Present \in SUBSET Id
  BY DEF Present
<1> QED
  BY <1>1, IdAssumption, FS_Subset, FS_CardinalityType

(* Every row is in the statistics of its tenant, once.                      *)
LEMMA StatsCountRows == TypeOK => InStats = Cardinality(Present)
<1> SUFFICES ASSUME TypeOK PROVE InStats = Cardinality(Present)
  OBVIOUS
<1> DEFINE Count(t, s) == Cardinality(Shown(t, s))
           Numbered(t, s, f) == /\ f \in [1 .. Count(t, s) -> Shown(t, s)]
                                /\ \A n, m \in 1 .. Count(t, s) : f[n] = f[m] => n = m
                                /\ \A id \in Shown(t, s) : \E n \in 1 .. Count(t, s) : f[n] = id
           number(t, s) == CHOOSE f : Numbered(t, s, f)
           row == [unit \in Units |-> number(unit[1], unit[2])[unit[3]]]
<1>1. ASSUME NEW t \in Tenant, NEW s \in States
      PROVE  /\ Stats(t)[s] = Count(t, s)
             /\ Count(t, s) \in 0 .. Cardinality(Id)
             /\ Numbered(t, s, number(t, s))
  <2>1. Stats(t)[s] = Count(t, s)
    <3>1. Stats(t) = [pending |-> Count(t, "pending"), processing |-> Count(t, "processing"),
                      dead_letter |-> Count(t, "dead_letter")]
      BY DEF Stats, Shown
    <3> HIDE DEF Count
    <3>2. s = "pending" \/ s = "processing" \/ s = "dead_letter"
      BY DEF States
    <3> QED
      BY <3>1, <3>2
  <2>2. Shown(t, s) \in SUBSET Id
    BY DEF Shown, Rows
  <2>3. IsFiniteSet(Shown(t, s)) /\ Cardinality(Shown(t, s)) <= Cardinality(Id)
    BY <2>2, IdAssumption, FS_Subset
  <2>4. Count(t, s) \in Nat /\ Cardinality(Id) \in Nat /\ ExistsBijection(1 .. Count(t, s), Shown(t, s))
    BY <2>3, IdAssumption, FS_CardinalityType
  <2>5. PICK f : f \in Bijection(1 .. Count(t, s), Shown(t, s))
    BY <2>4 DEF ExistsBijection
  <2>6. Numbered(t, s, f)
    BY <2>5 DEF Bijection, Injection, Surjection, IsInjective
  <2> HIDE DEF Numbered
  <2> QED
    BY <2>1, <2>3, <2>4, <2>6
<1>2. InStats = Cardinality(Units)
  BY DEF InStats, Units, States
<1> HIDE DEF Count, number
<1>3. \A unit \in Units : /\ unit[1] \in Tenant /\ unit[2] \in States
                           /\ unit[3] \in 1 .. Count(unit[1], unit[2])
                           /\ unit = <<unit[1], unit[2], unit[3]>>
  <2>1. ASSUME NEW unit \in Units PROVE /\ unit[1] \in Tenant /\ unit[2] \in States
                                        /\ unit[3] \in 1 .. Count(unit[1], unit[2])
                                        /\ unit = <<unit[1], unit[2], unit[3]>>
    <3>1. PICK t \in Tenant, s \in States, n \in 1 .. Cardinality(Id) :
             unit = <<t, s, n>> /\ n <= Stats(t)[s]
      BY DEF Units
    <3>2. Stats(t)[s] = Count(t, s) /\ Count(t, s) \in 0 .. Cardinality(Id)
      BY <1>1
    <3> QED
      BY <3>1, <3>2
  <2> QED
    BY <2>1
<1>4. \A unit \in Units : row[unit] \in Shown(unit[1], unit[2])
  BY <1>1, <1>3
<1>5. \A t \in Tenant, s \in States : Shown(t, s) \subseteq Present
  BY DEF Shown, Rows, Present, States
<1>6. row \in [Units -> Present]
  BY <1>3, <1>4, <1>5
<1>7. ASSUME NEW u \in Units, NEW v \in Units, row[u] = row[v] PROVE u = v
  <2> DEFINE id == row[u]
  <2>a. id \in Shown(u[1], u[2]) /\ id \in Shown(v[1], v[2])
    BY <1>4, <1>7
  <2> HIDE DEF id
  <2>1. u[1] = v[1] /\ u[2] = v[2]
    BY <2>a DEF Shown, Rows
  <2>2. Numbered(u[1], u[2], number(u[1], u[2]))
    <3>1. u[1] \in Tenant /\ u[2] \in States
      BY <1>3
    <3>2. \A t \in Tenant, s \in States : Numbered(t, s, number(t, s))
      BY <1>1
    <3> HIDE DEF Numbered
    <3> QED
      BY <3>1, <3>2
  <2> DEFINE f == number(u[1], u[2])
  <2>b. f[u[3]] = f[v[3]] /\ u[3] \in 1 .. Count(u[1], u[2]) /\ v[3] \in 1 .. Count(u[1], u[2])
    <3>1. u[3] \in 1 .. Count(u[1], u[2]) /\ v[3] \in 1 .. Count(v[1], v[2])
      BY <1>3
    <3>2. row[u] = number(u[1], u[2])[u[3]] /\ row[v] = number(v[1], v[2])[v[3]]
      OBVIOUS
    <3> QED
      BY <1>7, <2>1, <3>1, <3>2
  <2> HIDE DEF f
  <2>c. \A n, m \in 1 .. Count(u[1], u[2]) : f[n] = f[m] => n = m
    BY <2>2 DEF f
  <2>3. u[3] = v[3]
    BY <2>b, <2>c, Zenon
  <2> QED
    BY <1>3, <2>1, <2>3
<1>8. ASSUME NEW id \in Present PROVE \E unit \in Units : row[unit] = id
  <2> DEFINE t == queue[id].payload.tenant
             s == queue[id].state
  <2>1. queue[id] \in Row
    BY DEF Present, TypeOK, NoRow
  <2>2. t \in Tenant /\ s \in States
    BY <2>1, ObservationAssumption DEF Row, States
  <2>3. id \in Shown(t, s)
    BY DEF Shown, Rows, Present
  <2> HIDE DEF t, s
  <2>4. Numbered(t, s, number(t, s)) /\ Stats(t)[s] = Count(t, s) /\ Count(t, s) \in 0 .. Cardinality(Id)
    BY <1>1, <2>2
  <2>5. PICK n \in 1 .. Count(t, s) : number(t, s)[n] = id
    BY <2>3, <2>4
  <2>6. <<t, s, n>> \in Units
    <3>1. Cardinality(Id) \in Nat /\ Count(t, s) \in 0 .. Cardinality(Id)
      BY <2>4, IdAssumption, FS_CardinalityType
    <3>2. n \in 1 .. Cardinality(Id) /\ n <= Count(t, s)
      BY <2>5, <3>1
    <3>3. n \in 1 .. Cardinality(Id) /\ n <= Stats(t)[s]
      BY <2>4, <3>2
    <3> QED
      BY <2>2, <3>3 DEF Units
  <2> QED
    BY <2>5, <2>6
<1> HIDE DEF row
<1>9. row \in Injection(Units, Present) /\ row \in Surjection(Units, Present)
  BY <1>6, <1>7, <1>8 DEF Injection, Surjection, IsInjective
<1>10. Cardinality(Units) = Cardinality(Present)
  BY <1>9, PresentFinite, FS_Injection
<1> QED
  BY <1>2, <1>10

(* The counters of the process and its rows agree.                          *)
Balance(p) == metrics[p].ingested + recovered = metrics[p].processed + Cardinality(Present)

(* With one process, the counters agree with the statistics, whatever was   *)
(* sent twice, failed, expired or restarted: enqueue_batch counts the rows  *)
(* it inserts, and complete finds the row of the item it counts             *)
(* (accept_observations, process_queue_once, main, stats).                  *)
THEOREM CountersBalanceHolds ==
    ASSUME NEW p, Process = {p}
    PROVE  Spec => []CountersBalance
<1>1. Init => SingleInv(p) /\ Balance(p)
  <2> SUFFICES ASSUME Init PROVE SingleInv(p) /\ Balance(p)
    OBVIOUS
  <2>1. Present = {}
    BY DEF Init, Present, NoRow
  <2>2. Cardinality(Present) = 0
    BY <2>1, FS_EmptySet
  <2> QED
    BY <2>2 DEF Init, SingleInv, Balance, ZeroMetrics
<1>2. TypeOK /\ SingleInv(p) /\ Balance(p) /\ [Next]_vars => SingleInv(p)' /\ Balance(p)'
  <2> SUFFICES ASSUME TypeOK, SingleInv(p), Balance(p), [Next]_vars PROVE Balance(p)'
    BY SingleInvKept
  <2>1. /\ metrics[p].ingested \in Nat /\ metrics[p].processed \in Nat /\ recovered \in Nat
        /\ Cardinality(Present) \in Nat
    BY PresentFinite DEF TypeOK
  <2>2. ASSUME Present' = Present, recovered' = recovered,
               metrics'[p].ingested = metrics[p].ingested, metrics'[p].processed = metrics[p].processed
        PROVE  Balance(p)'
    BY <2>2 DEF Balance
  <2>3. ASSUME NEW batch \in Batches, Enqueue(p, batch) PROVE Balance(p)'
    <3>1. /\ \A id \in FreshIds(batch) : id \in Id /\ queue[id].state = "absent" /\ queue'[id].state = "pending"
          /\ \A id \in Id \ FreshIds(batch) : queue'[id] = queue[id]
      BY <2>3 DEF Enqueue, NewRow, FreshIds, Rows
    <3>2. Present' = Present \cup FreshIds(batch) /\ Present \cap FreshIds(batch) = {}
      BY <3>1 DEF Present
    <3>3. IsFiniteSet(FreshIds(batch)) /\ Cardinality(FreshIds(batch)) \in Nat
      BY FreshIdsType, IdAssumption, FS_Subset
    <3>4. Cardinality(Present') = Cardinality(Present) + Cardinality(FreshIds(batch))
      <4>1. Cardinality(Present \cup FreshIds(batch))
               = Cardinality(Present) + Cardinality(FreshIds(batch)) - Cardinality(Present \cap FreshIds(batch))
        BY <3>3, PresentFinite, FS_Union
      <4>2. Cardinality(Present \cap FreshIds(batch)) = 0
        BY <3>2, FS_EmptySet
      <4> QED
        BY <2>1, <3>2, <3>3, <4>1, <4>2
    <3>5. /\ metrics'[p].ingested = metrics[p].ingested + Cardinality(FreshIds(batch))
          /\ metrics'[p].processed = metrics[p].processed /\ recovered' = recovered
      BY <2>3 DEF Enqueue, Inserted, TypeOK
    <3> QED
      BY <2>1, <3>3, <3>4, <3>5 DEF Balance
  <2>4. ASSUME NEW tenant \in Tenant, NEW id \in Id, Replay(tenant, id) PROVE Balance(p)'
    <3>1. queue[id] \in Row /\ queue[id].state = "dead_letter"
      BY <2>4 DEF Replay, NoRow, TypeOK
    <3>2. queue'[id].state = "pending" /\ \A i \in Id \ {id} : queue'[i] = queue[i]
      BY <2>4, <3>1 DEF Replay, TypeOK, Row
    <3>3. Present' = Present
      BY <3>1, <3>2 DEF Present
    <3> QED
      BY <2>2, <2>4, <3>3 DEF Replay
  <2>5. ASSUME NEW id \in Id, Claim(p, id) PROVE Balance(p)'
    <3> DEFINE rows == AfterExpiry(stamp[p])
    <3>1. rows \in [Id -> Row \cup {NoRow}] /\ rows[id] \in Row /\ rows[id].state = "pending"
      BY <2>5, AfterExpiryType DEF Claim, Available, TypeOK
    <3>2. queue'[id].state = "processing" /\ \A i \in Id \ {id} : queue'[i] = rows[i]
      BY <2>5, <3>1 DEF Claim, Row
    <3>3. \A i \in Id : StatusOf(rows[i]) = StatusOf(queue[i])
      BY AfterExpirySameStatus
    <3> HIDE DEF rows
    <3>4. Present' = Present
      BY <3>1, <3>2, <3>3 DEF StatusOf, Present
    <3> QED
      BY <2>2, <2>5, <3>4 DEF Claim
  <2>6. ASSUME ClaimNothing(p) PROVE Balance(p)'
    <3>1. \A i \in Id : StatusOf(queue'[i]) = StatusOf(queue[i])
      BY <2>6, AfterExpirySameStatus DEF ClaimNothing
    <3>2. Present' = Present
      BY <3>1 DEF StatusOf, Present
    <3> QED
      BY <2>2, <2>6, <3>2 DEF ClaimNothing
  <2>7. ASSUME Complete(p) PROVE Balance(p)'
    <3> DEFINE id == Holding(p)
    <3>1. id \in Id /\ queue[id].state = "processing"
      BY <2>7, HeldItem DEF Complete, SingleInv
    <3>2. queue'[id].state = "absent" /\ \A i \in Id \ {id} : queue'[i] = queue[i]
      BY <2>7, <3>1 DEF Complete, TypeOK, NoRow
    <3>3. metrics'[p].processed = metrics[p].processed + 1 /\ metrics'[p].ingested = metrics[p].ingested
          /\ recovered' = recovered
      BY <2>7 DEF Complete, TypeOK, history
    <3> HIDE DEF id
    <3>4. Present' = Present \ {id} /\ id \in Present
      BY <3>1, <3>2 DEF Present
    <3>5. Cardinality(Present') = Cardinality(Present) - 1
      BY <3>4, PresentFinite, FS_RemoveElement
    <3> QED
      BY <2>1, <3>3, <3>5 DEF Balance
  <2>8. ASSUME FailRetry(p) \/ FailDead(p) PROVE Balance(p)'
    <3> DEFINE id == Holding(p)
    <3>a. id \in Id /\ queue[id].state = "processing"
      BY <2>8, HeldItem DEF FailRetry, FailDead
    <3>1. id \in Id /\ queue[id] \in Row /\ queue[id].state = "processing"
      BY <3>a DEF TypeOK, NoRow
    <3>2. queue'[id].state \in {"pending", "dead_letter"} /\ \A i \in Id \ {id} : queue'[i] = queue[i]
      BY <2>8, <3>1 DEF FailRetry, FailDead, TypeOK, Row
    <3>3. metrics'[p].processed = metrics[p].processed /\ metrics'[p].ingested = metrics[p].ingested
          /\ recovered' = recovered
      BY <2>8 DEF FailRetry, FailDead, TypeOK, history
    <3> HIDE DEF id
    <3>4. Present' = Present
      BY <3>1, <3>2 DEF Present
    <3> QED
      BY <2>2, <3>3, <3>4
  <2>9. ASSUME Restart(p) PROVE Balance(p)'
    <3>1. recovered' = Cardinality(Present) /\ queue' = queue
          /\ metrics'[p].ingested = 0 /\ metrics'[p].processed = 0
      BY <2>9 DEF Restart, Present, ZeroMetrics, TypeOK
    <3>2. Present' = Present
      BY <3>1 DEF Present
    <3> QED
      BY <2>1, <3>1, <3>2 DEF Balance
  <2>10. ASSUME UNCHANGED <<queue, metrics, recovered>> PROVE Balance(p)'
    BY <2>10 DEF Balance, Present
  <2> QED
    BY <2>3, <2>4, <2>5, <2>6, <2>7, <2>8, <2>9, <2>10
       DEF Next, WorkerStep, ReadClock, Append, FailNotProcessing, AppendError, SettleError,
           ClockStepBack, Tick, vars, history
<1>3. TypeOK /\ Balance(p) => CountersBalance
  BY StatsCountRows DEF Balance, CountersBalance
<1> QED
  BY <1>1, <1>2, <1>3, TypeCorrect, PTL DEF Spec
=============================================================================
