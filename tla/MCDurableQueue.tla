--------------------------- MODULE MCDurableQueue ---------------------------
(* Instances of DurableQueue for TLC.                                       *)
EXTENDS DurableQueue, FiniteSetsExt, TLC

CONSTANTS
    Body,       \* contents an observation may have
    MaxBatch    \* bound: observations in a batch

(* Every observation, sent alone or with others.                            *)
AllObservations == [id : Id, tenant : Tenant, body : Body]
AllBatches == UNION {kSubset(k, Observations) : k \in 1 .. MaxBatch}

(* Each ID has a tenant of its own, and one ID may be sent with any body;   *)
(* batches are single observations, and pairs with a fixed one of that ID.  *)
ReusedId == CHOOSE id \in Id : TRUE
PlainBody == CHOOSE body \in Body : TRUE
TenantOf == CHOOSE f \in [Id -> Tenant] : \A tenant \in Tenant : \E id \in Id : f[id] = tenant
Plain(id) == [id |-> id, tenant |-> TenantOf[id], body |-> PlainBody]

SomeObservations ==
    {o \in AllObservations : o.tenant = TenantOf[o.id] /\ (o.id = ReusedId \/ o.body = PlainBody)}
SomeBatches == {{o, Plain(ReusedId)} : o \in Observations} \cup {{o} : o \in Observations}

(* The table of delays is retry_delay_ms: min(250 * 2^min(n - 1, 8), 60000). *)
ASSUME RetryDelayIsSourceFormula ==
    \A n \in 0 .. 40 :
        250 * RetryDelay(n) = Min({250 * 2 ^ Min({Max({n - 1, 0}), 8}), 60000})

ProcessSymmetry == Permutations(Process)

(* CONTEXT.md:8 calls an Observation an immutable runtime fact: once the    *)
(* store has it, its content does not change.                               *)
ObservationImmutable ==
    [][\A id \in Id : observations[id] # NoObservation
                          => observations'[id] = observations[id]]_vars
=============================================================================
