---------------------------- MODULE DirectIngest ----------------------------
(***************************************************************************)
(* Ingestion with the API's default settings, direct mode on the JSONL     *)
(* store: ingest, ingest_batch and ingest_otlp_traces, the slots that the  *)
(* last two share, and accept_observations, which appends the observations *)
(* of a request one after another and stops at the first error.            *)
(*                                                                         *)
(* Handlers run on several threads and share no lock while they append.    *)
(* A request is known by its number, and its observations by the number    *)
(* and their position, so that the file tells who wrote what.  Requests    *)
(* that are refused before anything is appended (tenant, size, validation, *)
(* encoding) give their slot back in the same step and are left out.       *)
(***************************************************************************)
EXTENDS Jsonl, FiniteSets

CONSTANTS
    Handler,         \* requests that may be in progress at the same time
    Slots,           \* Semaphore::new(8)
    MaxBatch,        \* bound: observations in a batch, spans in a request
    MaxRequests,     \* bound: requests in a run
    MaxFaults        \* bound: failed writes and deaths of the process

ASSUME SlotsAssumption == Slots \in Nat \ {0}

ASSUME HandlerAssumption == IsFiniteSet(Handler)

ASSUME BoundAssumption ==
    MaxBatch \in Nat \ {0} /\ MaxRequests \in Nat /\ MaxFaults \in Nat

VARIABLES
    file,                   \* OBSERVABILITY_DATA
    slots,                  \* free permits of state.batch_slots
    observations_ingested,  \* counter of /metrics
    pc,                     \* what each handler does next
    otlp_spans_accepted,    \* counters of /metrics
    otlp_spans_rejected,
    job,                    \* the request it serves and how far it has come
    requests,               \* what each request asks and how it was answered
    faults                  \* bounded by MaxFaults

spans == <<otlp_spans_accepted, otlp_spans_rejected>>
vars == <<file, slots, observations_ingested, spans, pc, job, requests, faults>>

-----------------------------------------------------------------------------
NoJob == [next |-> 0]

Job == [request : 1 .. MaxRequests, next : 1 .. MaxBatch]

Requests == [kind : {"single", "batch", "otlp"},
             size : 0 .. MaxBatch,         \* observations, of a trace the spans mapped
             rejected : 0 .. MaxBatch,     \* spans that map_request rejects
             outcome : {"open", "accepted", "failed", "refused"}]

Observation == [request : 1 .. MaxRequests, position : 1 .. MaxBatch]

TypeOK ==
    /\ file \in File(Observation)
    /\ slots \in 0 .. Slots
    /\ observations_ingested \in Nat
    /\ otlp_spans_accepted \in Nat
    /\ otlp_spans_rejected \in Nat
    /\ pc \in [Handler -> {"idle", "head", "tail", "newline", "count", "spans"}]
    /\ job \in [Handler -> Job \cup {NoJob}]
    /\ \A h \in Handler : job[h] = NoJob <=> pc[h] = "idle"
    /\ requests \in Seq(Requests)
    /\ Len(requests) <= MaxRequests
    /\ \A h \in Handler : pc[h] # "idle" => /\ job[h].request <= Len(requests)
                                           /\ requests[job[h].request].outcome = "open"
    /\ faults \in Nat

Init ==
    /\ file = EmptyFile
    /\ slots = Slots
    /\ observations_ingested = 0
    /\ otlp_spans_accepted = 0
    /\ otlp_spans_rejected = 0
    /\ pc = [h \in Handler |-> "idle"]
    /\ job = [h \in Handler |-> NoJob]
    /\ requests = <<>>
    /\ faults = 0

Asked(h) == requests[job[h].request]
Current(h) == [request |-> job[h].request, position |-> job[h].next]
Appending(h) == pc[h] \in {"head", "tail", "newline"}

-----------------------------------------------------------------------------
(* A request arrives; the handler takes it up.                              *)
Arrives(request) ==
    /\ Len(requests) < MaxRequests
    /\ requests' = Append(requests, request)

Accept(h, request) ==
    /\ pc[h] = "idle"
    /\ Arrives(request)
    /\ job' = [job EXCEPT ![h] = [request |-> Len(requests) + 1, next |-> 1]]
    /\ pc' = [pc EXCEPT ![h] = IF request.size > 0 THEN "head" ELSE "spans"]
    /\ file' = IF request.size > 0 THEN Opened(file) ELSE file
    /\ UNCHANGED <<observations_ingested, spans, faults>>

(* ingest: one observation, no slot.                                        *)
Ingest(h) ==
    /\ Accept(h, [kind |-> "single", size |-> 1, rejected |-> 0, outcome |-> "open"])
    /\ UNCHANGED slots

(* try_acquire_owned, of ingest_batch and ingest_otlp_traces.               *)
AcquireSlot == slots > 0 /\ slots' = slots - 1

IngestBatch(h, size) ==
    /\ AcquireSlot
    /\ Accept(h, [kind |-> "batch", size |-> size, rejected |-> 0, outcome |-> "open"])

(* A trace whose spans are all rejected appends nothing.                    *)
IngestOtlpTraces(h, size, rejected) ==
    /\ AcquireSlot
    /\ Accept(h, [kind |-> "otlp", size |-> size, rejected |-> rejected, outcome |-> "open"])

(* "ingestion is busy; retry later": 429, to a batch or a trace of any size.*)
Refuse ==
    /\ slots = 0
    /\ Arrives([kind |-> "batch", size |-> 1, rejected |-> 0, outcome |-> "refused"])
    /\ UNCHANGED <<file, slots, observations_ingested, spans, pc, job, faults>>

(* The handler answers; its slot, if it has one, is dropped.                *)
BugAnswerKeepsSlot(h, outcome) == \* mutant: the slot is not given back on an error
    /\ requests' = [requests EXCEPT ![job[h].request].outcome = outcome]
    /\ slots' = IF outcome = "accepted" /\ Asked(h).kind # "single"
                THEN slots + 1 ELSE slots
    /\ pc' = [pc EXCEPT ![h] = "idle"]
    /\ job' = [job EXCEPT ![h] = NoJob]

BugAnswerGivesSlot(h, outcome) == \* mutant: a permit is added for every request
    /\ requests' = [requests EXCEPT ![job[h].request].outcome = outcome]
    /\ slots' = slots + 1
    /\ pc' = [pc EXCEPT ![h] = "idle"]
    /\ job' = [job EXCEPT ![h] = NoJob]

Answer(h, outcome) ==
    /\ requests' = [requests EXCEPT ![job[h].request].outcome = outcome]
    /\ slots' = IF Asked(h).kind # "single" THEN slots + 1 ELSE slots
    /\ pc' = [pc EXCEPT ![h] = "idle"]
    /\ job' = [job EXCEPT ![h] = NoJob]

(* accept_observations: append each observation ...                         *)
WriteHead(h) ==
    /\ pc[h] = "head"
    /\ file' = Written(file, FirstPart(Current(h)))
    /\ pc' = [pc EXCEPT ![h] = "tail"]
    /\ UNCHANGED <<slots, observations_ingested, spans, job, requests, faults>>

WriteTail(h) ==
    /\ pc[h] = "tail"
    /\ file' = Written(file, SecondPart(Current(h)))
    /\ pc' = [pc EXCEPT ![h] = "newline"]
    /\ UNCHANGED <<slots, observations_ingested, spans, job, requests, faults>>

WriteNewline(h) ==
    /\ pc[h] = "newline"
    /\ file' = Terminated(file)
    /\ IF job[h].next < Asked(h).size
       THEN /\ job' = [job EXCEPT ![h].next = @ + 1]
            /\ pc' = [pc EXCEPT ![h] = "head"]
       ELSE /\ pc' = [pc EXCEPT ![h] = "count"]
            /\ UNCHANGED job
    /\ UNCHANGED <<slots, observations_ingested, spans, requests, faults>>

(* ... then count them all, and answer 201; ingest_otlp_traces goes on.     *)
Count(h) ==
    /\ pc[h] = "count"
    /\ observations_ingested' = observations_ingested + Asked(h).size
    /\ IF Asked(h).kind = "otlp"
       THEN /\ pc' = [pc EXCEPT ![h] = "spans"]
            /\ UNCHANGED <<slots, job, requests>>
       ELSE Answer(h, "accepted")
    /\ UNCHANGED <<file, spans, faults>>

(* The spans are counted, and the rejected ones named in the answer: 200.   *)
CountSpans(h) ==
    /\ pc[h] = "spans"
    /\ otlp_spans_accepted' = otlp_spans_accepted + Asked(h).size
    /\ otlp_spans_rejected' = otlp_spans_rejected + Asked(h).rejected
    /\ Answer(h, "accepted")
    /\ UNCHANGED <<file, observations_ingested, faults>>

-----------------------------------------------------------------------------
Fault == faults < MaxFaults /\ faults' = faults + 1

(* A write fails: 500, and nothing more of the request is appended.  What   *)
(* it has written stays, its first observations whole.                      *)
BugWriteErrorSkips(h) ==          \* mutant: the loop goes on to the next observation
    /\ Fault
    /\ Appending(h)
    /\ IF job[h].next < Asked(h).size
       THEN /\ job' = [job EXCEPT ![h].next = @ + 1]
            /\ pc' = [pc EXCEPT ![h] = "head"]
       ELSE /\ pc' = [pc EXCEPT ![h] = "count"]
            /\ UNCHANGED job
    /\ UNCHANGED <<file, slots, observations_ingested, spans, requests>>

WriteError(h) ==
    /\ Fault
    /\ Appending(h)
    /\ Answer(h, "failed")
    /\ UNCHANGED <<file, observations_ingested, spans>>

(* The process dies and starts again; main does not read this file.         *)
Restart ==
    /\ Fault
    /\ slots' = Slots
    /\ observations_ingested' = 0
    /\ otlp_spans_accepted' = 0
    /\ otlp_spans_rejected' = 0
    /\ pc' = [h \in Handler |-> "idle"]
    /\ job' = [h \in Handler |-> NoJob]
    /\ requests' = [n \in DOMAIN requests |->
                       IF requests[n].outcome = "open"
                       THEN [requests[n] EXCEPT !.outcome = "failed"] ELSE requests[n]]
    /\ UNCHANGED file

Next ==
    \/ \E h \in Handler :
          \/ Ingest(h)
          \/ \E size \in 1 .. MaxBatch : IngestBatch(h, size)
          \/ \E size \in 0 .. MaxBatch : \E rejected \in 0 .. MaxBatch - size :
                IngestOtlpTraces(h, size, rejected)
          \/ WriteHead(h) \/ WriteTail(h) \/ WriteNewline(h) \/ Count(h) \/ CountSpans(h)
          \/ WriteError(h)
    \/ Refuse
    \/ Restart

Spec == Init /\ [][Next]_vars

-----------------------------------------------------------------------------
(* Properties.                                                              *)

(* list, for a file that can be read: where a request's observations are.   *)
Stored(n) == {i \in DOMAIN Documents(file) : Documents(file)[i].request = n}
Position(i) == Documents(file)[i].position

(* Whatever else was written meanwhile and whatever failed, as long as the  *)
(* file can be read each request has left a prefix of its observations in   *)
(* it, once each and in order: all of them if it was answered 201 or 200,   *)
(* none if it was answered 429.                                             *)
StoredIsPrefix ==
    Readable(file) =>
        \A n \in DOMAIN requests :
            \E k \in 0 .. requests[n].size :
                /\ {Position(i) : i \in Stored(n)} = 1 .. k
                /\ \A i, j \in Stored(n) : i < j => Position(i) < Position(j)
                /\ requests[n].outcome = "accepted" => k = requests[n].size
                /\ requests[n].outcome = "refused" => k = 0

(* The spans that OTLP requests answered 200 were told of: each with the    *)
(* number of its request and its place among them.                          *)
SpansAnswered ==
    {s \in (1 .. Len(requests)) \X (1 .. 2 * MaxBatch) :
        /\ requests[s[1]].kind = "otlp"
        /\ requests[s[1]].outcome = "accepted"
        /\ s[2] <= requests[s[1]].size + requests[s[1]].rejected}

(* observations_ingested never counts an observation the store lacks, an    *)
(* accepted span was ingested, and only spans a client was told of count.   *)
CountedIsStored ==
    /\ Readable(file) => observations_ingested <= Len(Documents(file))
    /\ otlp_spans_accepted <= observations_ingested
    /\ otlp_spans_accepted + otlp_spans_rejected <= Cardinality(SpansAnswered)

(* The requests in progress that took a slot.                               *)
Holding == {h \in Handler : pc[h] # "idle" /\ Asked(h).kind # "single"}

(* However requests end, every slot is free or held by one request in       *)
(* progress, so what was refused can be sent again.                         *)
SlotsAccounted == slots + Cardinality(Holding) = Slots

(* docs/production-readiness.md:8: observations are persisted as JSONL and  *)
(* recovered.  Once no request is in progress and nothing has failed, what  *)
(* was answered 201 can be read.                                            *)
CreatedIsReadable ==
    faults = 0 /\ (\A h \in Handler : pc[h] = "idle")
        /\ (\E n \in DOMAIN requests : requests[n].outcome = "accepted")
            => Readable(file)
=============================================================================
