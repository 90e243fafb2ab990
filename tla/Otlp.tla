-------------------------------- MODULE Otlp --------------------------------
(***************************************************************************)
(* map_span and map_request: which spans of an OTLP trace become           *)
(* observations, and with which IDs.  A span has a name and identifiers    *)
(* that are good or not, two times in nanoseconds and a status; its        *)
(* attributes, and the kind and the text made from them, are left out.     *)
(***************************************************************************)
EXTENDS Lists

CONSTANTS
    SpanId,          \* bytes of a trace's and a span's ID
    Nanos,           \* nanoseconds in the unit of time of an observation (1_000_000)
    MaxDuration      \* longest observation there is, in that unit (86_400_000)

ASSUME DurationAssumption == Nanos \in Nat \ {0} /\ MaxDuration \in Nat

(* The times are u64 in the protocol; what is an error, a good ID and a     *)
(* name is told apart.                                                      *)
Span == [span : SpanId, start : Nat, end : Nat, error : BOOLEAN,
         traced : BOOLEAN, identified : BOOLEAN, named : BOOLEAN]

(* Observation::validate.                                                   *)
Validate(observation) == observation.named /\ observation.duration <= MaxDuration

(* The ID is a hash of the tenant's, the trace's and the span's bytes, of   *)
(* fixed lengths; here it is what is hashed.                                *)
BugIdentity(tenant, span) == <<span.span>>   \* mutant: the tenant is not hashed
Identity(tenant, span) == <<tenant, span.span>>

(* In the order of the code; that the start fits i64 after the division is  *)
(* certain, since 2^64 / 10^6 < 2^63.                                       *)
Duration(span) == (span.end - span.start) \div Nanos

BugRejection(span) ==   \* mutant: a duration is left to Observation::validate
    IF ~(span.traced /\ span.identified /\ span.named) THEN "invalid span"
    ELSE IF span.end < span.start THEN "end time precedes start time"
    ELSE "none"

Rejection(span) ==
    IF ~span.traced THEN "invalid trace_id"
    ELSE IF ~span.identified THEN "invalid span_id"
    ELSE IF ~span.named THEN "empty span name"
    ELSE IF span.end < span.start THEN "end time precedes start time"
    ELSE IF Duration(span) > MaxDuration THEN "duration exceeds ingestion limit"
    ELSE "none"

MapSpan(span, tenant) ==
    [id |-> Identity(tenant, span), tenant |-> tenant, named |-> span.named,
     started |-> span.start \div Nanos, duration |-> Duration(span), failed |-> span.error]

Mapped(spans) == Those(spans, {n \in DOMAIN spans : Rejection(spans[n]) = "none"})

MapRequest(spans, tenant) ==
    [observations |-> [n \in DOMAIN Mapped(spans) |-> MapSpan(Mapped(spans)[n], tenant)],
     rejected |-> Len(spans) - Len(Mapped(spans))]
=============================================================================
