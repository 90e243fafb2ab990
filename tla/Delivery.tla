------------------------------ MODULE Delivery ------------------------------
(***************************************************************************)
(* What durable ingestion promises, without leases, clocks or workers: an  *)
(* observation that was answered with 202 is kept until it has been stored *)
(* (at-least-once delivery), leaves the queue only once it is stored, and  *)
(* is set aside as a dead letter, never dropped, when it cannot be stored. *)
(* The promise is per observation ID, which docs/architecture.md makes the *)
(* idempotency key of delivery.                                            *)
(***************************************************************************)
CONSTANT Id          \* the IDs of observations

VARIABLES
    acceptedIds,     \* IDs for which the API has answered 202
    storedIds,       \* IDs that have a row in the observation store
    status           \* where the queue has each ID: absent, queued or dead

vars == <<acceptedIds, storedIds, status>>

Status == {"absent", "queued", "dead"}

TypeOK ==
    /\ acceptedIds \subseteq Id
    /\ storedIds \subseteq Id
    /\ status \in [Id -> Status]

Init ==
    /\ acceptedIds = {}
    /\ storedIds = {}
    /\ status = [id \in Id |-> "absent"]

(* A whole batch is accepted at once; an ID the queue already has stays     *)
(* where it is.                                                             *)
Accept(ids) ==
    /\ acceptedIds' = acceptedIds \cup ids
    /\ status' = [id \in Id |-> IF id \in ids /\ status[id] = "absent"
                                THEN "queued" ELSE status[id]]
    /\ UNCHANGED storedIds

(* Delivery may happen any number of times.                                 *)
Deliver(id) ==
    /\ id \in acceptedIds
    /\ storedIds' = storedIds \cup {id}
    /\ UNCHANGED <<acceptedIds, status>>

(* Only a stored ID leaves the queue.                                       *)
Acknowledge(id) ==
    /\ status[id] = "queued"
    /\ id \in storedIds
    /\ status' = [status EXCEPT ![id] = "absent"]
    /\ UNCHANGED <<acceptedIds, storedIds>>

SetAside(id) ==
    /\ status[id] = "queued"
    /\ status' = [status EXCEPT ![id] = "dead"]
    /\ UNCHANGED <<acceptedIds, storedIds>>

Replay(id) ==
    /\ status[id] = "dead"
    /\ status' = [status EXCEPT ![id] = "queued"]
    /\ UNCHANGED <<acceptedIds, storedIds>>

Next ==
    \/ \E ids \in SUBSET Id : Accept(ids)
    \/ \E id \in Id : Deliver(id) \/ Acknowledge(id) \/ SetAside(id) \/ Replay(id)

Spec == Init /\ [][Next]_vars

(* Nothing the API answered 202 for is lost: it is stored, queued or a dead *)
(* letter.                                                                  *)
NothingLost == \A id \in acceptedIds : id \in storedIds \/ status[id] # "absent"
=============================================================================
