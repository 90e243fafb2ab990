-------------------------- MODULE DirectIngestProofs --------------------------
(***************************************************************************)
(* Proofs about DirectIngest for every number of slots and of observations *)
(* in a request, any finite number of handlers and every bound.            *)
(***************************************************************************)
EXTENDS DirectIngest, JsonlProofs, FunctionTheorems

Busy(h) == pc[h] # "idle"
Storing(h) == pc[h] \in {"head", "tail", "newline", "count"}

(* A request in progress has one handler.  It is at one of its              *)
(* observations until all are appended, and only a trace has spans to count.*)
JobOK(h) ==
    /\ pc[h] = "idle" => job[h] = NoJob
    /\ Busy(h) => /\ job[h] \in Job
                  /\ job[h].request \in 1 .. Len(requests)
                  /\ Asked(h) \in Requests
                  /\ Asked(h).outcome = "open"
    /\ Storing(h) => job[h].next <= Asked(h).size
    /\ pc[h] = "count" => job[h].next = Asked(h).size
    /\ pc[h] = "spans" => Asked(h).kind = "otlp"

JobsInv ==
    /\ \A h \in Handler : JobOK(h)
    /\ \A g, h \in Handler : Busy(g) /\ Busy(h) /\ job[g].request = job[h].request => g = h

IInv == TypeOK /\ JobsInv /\ SlotsAccounted

-----------------------------------------------------------------------------
(* The three endpoints take up a request alike, except for the slot.        *)
Taken(h, request) ==
    /\ Accept(h, request)
    /\ request \in Requests
    /\ request.outcome = "open"
    /\ request.size = 0 => request.kind = "otlp"
    /\ request.kind = "single" => slots' = slots
    /\ request.kind # "single" => AcquireSlot

(* Each endpoint takes up a request of its own kind.                        *)
LEMMA EveryRequestIsTaken ==
    ASSUME NEW h \in Handler,
           \/ Ingest(h)
           \/ \E size \in 1 .. MaxBatch : IngestBatch(h, size)
           \/ \E size \in 0 .. MaxBatch : \E rejected \in 0 .. MaxBatch - size :
                 IngestOtlpTraces(h, size, rejected)
    PROVE  \E request : Taken(h, request)
<1>1. CASE Ingest(h)
  <2> DEFINE r == [kind |-> "single", size |-> 1, rejected |-> 0, outcome |-> "open"]
  <2>1. r \in Requests /\ r.outcome = "open" /\ r.size = 1 /\ r.kind = "single"
    BY BoundAssumption DEF Requests
  <2>2. Accept(h, r) /\ slots' = slots
    BY <1>1 DEF Ingest
  <2> HIDE DEF r
  <2> QED
    BY <2>1, <2>2 DEF Taken
<1>2. ASSUME NEW size \in 1 .. MaxBatch, IngestBatch(h, size) PROVE \E request : Taken(h, request)
  <2> DEFINE r == [kind |-> "batch", size |-> size, rejected |-> 0, outcome |-> "open"]
  <2>1. r \in Requests /\ r.outcome = "open" /\ r.size # 0 /\ r.kind = "batch"
    BY BoundAssumption DEF Requests
  <2>2. Accept(h, r) /\ AcquireSlot
    BY <1>2 DEF IngestBatch
  <2> HIDE DEF r
  <2> QED
    BY <2>1, <2>2 DEF Taken
<1>3. ASSUME NEW size \in 0 .. MaxBatch, NEW rejected \in 0 .. MaxBatch - size,
             IngestOtlpTraces(h, size, rejected)
      PROVE  \E request : Taken(h, request)
  <2> DEFINE r == [kind |-> "otlp", size |-> size, rejected |-> rejected, outcome |-> "open"]
  <2>1. r \in Requests /\ r.outcome = "open" /\ r.kind = "otlp"
    BY BoundAssumption DEF Requests
  <2>2. Accept(h, r) /\ AcquireSlot
    BY <1>3 DEF IngestOtlpTraces
  <2> HIDE DEF r
  <2> QED
    BY <2>1, <2>2 DEF Taken
<1> QED
  BY <1>1, <1>2, <1>3

(* A handler that answers: of a batch or a single observation once it is    *)
(* counted, of a trace once its spans are, of any when a write fails.       *)
Answering(h) ==
    /\ Answer(h, "accepted") \/ Answer(h, "failed")
    /\ Busy(h)
    /\ UNCHANGED file

(* The cases of a step.                                                     *)
LEMMA StepCases ==
    ASSUME Next
    PROVE  \/ \E h \in Handler :
                 \/ \E request : Taken(h, request)
                 \/ WriteHead(h) \/ WriteTail(h) \/ WriteNewline(h)
                 \/ Count(h) \/ CountSpans(h) \/ WriteError(h)
           \/ Refuse
           \/ Restart
BY EveryRequestIsTaken DEF Next

-----------------------------------------------------------------------------
PCs == {"idle", "head", "tail", "newline", "count", "spans"}

(* What the type invariant says of a handler and its request.               *)
LEMMA Known ==
    ASSUME TypeOK, JobsInv
    PROVE  /\ pc \in [Handler -> PCs]
           /\ job \in [Handler -> Job \cup {NoJob}]
           /\ requests \in Seq(Requests) /\ Len(requests) \in 0 .. MaxRequests
           /\ DOMAIN requests = 1 .. Len(requests)
           /\ \A m \in 1 .. Len(requests) : requests[m] \in Requests
           /\ \A h \in Handler : JobOK(h)
BY BoundAssumption DEF TypeOK, JobsInv, PCs

(* A request that is taken up is the next one, and has its handler alone.   *)
LEMMA TakenFacts ==
    ASSUME TypeOK, JobsInv, NEW h \in Handler, NEW request, Taken(h, request)
    PROVE  /\ requests' \in Seq(Requests)
           /\ Len(requests') = Len(requests) + 1 /\ Len(requests) + 1 \in 1 .. MaxRequests
           /\ \A m \in 1 .. Len(requests) : requests'[m] = requests[m]
           /\ requests'[Len(requests) + 1] = request
           /\ pc[h] = "idle"
           /\ pc' = [pc EXCEPT ![h] = IF request.size > 0 THEN "head" ELSE "spans"]
           /\ job' = [job EXCEPT ![h] = [request |-> Len(requests) + 1, next |-> 1]]
           /\ [request |-> Len(requests) + 1, next |-> 1] \in Job
           /\ file' = file
           /\ UNCHANGED <<observations_ingested, otlp_spans_accepted, otlp_spans_rejected, faults>>
<1>1. /\ Len(requests) < MaxRequests /\ requests' = Append(requests, request)
      /\ request \in Requests
  BY DEF Taken, Accept, Arrives
<1>2. requests \in Seq(Requests) /\ Len(requests) \in Nat
  BY Known
<1>3. /\ requests' \in Seq(Requests) /\ Len(requests') = Len(requests) + 1
      /\ \A m \in 1 .. Len(requests) : requests'[m] = requests[m]
      /\ requests'[Len(requests) + 1] = request
  BY <1>1, <1>2, AppendProperties
<1>4. Len(requests) + 1 \in 1 .. MaxRequests
  BY <1>1, <1>2, BoundAssumption
<1>5. [request |-> Len(requests) + 1, next |-> 1] \in Job
  BY <1>4, BoundAssumption DEF Job
<1>6. /\ pc[h] = "idle"
      /\ pc' = [pc EXCEPT ![h] = IF request.size > 0 THEN "head" ELSE "spans"]
      /\ job' = [job EXCEPT ![h] = [request |-> Len(requests) + 1, next |-> 1]]
      /\ UNCHANGED <<observations_ingested, otlp_spans_accepted, otlp_spans_rejected, faults>>
  BY DEF Taken, Accept, spans
<1>7. file' = file
  BY DEF Taken, Accept, Opened
<1> QED
  BY <1>1, <1>3, <1>4, <1>5, <1>6, <1>7

(* An answer settles the outcome of the one request.                        *)
LEMMA AnswerFacts ==
    ASSUME TypeOK, JobsInv, NEW h \in Handler, NEW outcome \in {"accepted", "failed"},
           Busy(h), Answer(h, outcome)
    PROVE  /\ requests' \in Seq(Requests) /\ Len(requests') = Len(requests)
           /\ \A m \in 1 .. Len(requests) : m # job[h].request => requests'[m] = requests[m]
           /\ requests'[job[h].request] \in Requests
           /\ requests'[job[h].request].kind = Asked(h).kind
           /\ requests'[job[h].request].size = Asked(h).size
           /\ requests'[job[h].request].rejected = Asked(h).rejected
           /\ requests'[job[h].request].outcome = outcome
           /\ pc' = [pc EXCEPT ![h] = "idle"]
           /\ job' = [job EXCEPT ![h] = NoJob]
           /\ slots' = IF Asked(h).kind # "single" THEN slots + 1 ELSE slots
<1> DEFINE n == job[h].request  r == [Asked(h) EXCEPT !.outcome = outcome]
<1>1. n \in 1 .. Len(requests) /\ Asked(h) \in Requests /\ requests \in Seq(Requests)
  BY Known DEF JobOK
<1>2. requests' = [requests EXCEPT ![n] = r]
  BY DEF Answer, Asked
<1>3. /\ r \in Requests /\ r.kind = Asked(h).kind /\ r.size = Asked(h).size
      /\ r.rejected = Asked(h).rejected /\ r.outcome = outcome
  BY <1>1 DEF Requests
<1> HIDE DEF n, r
<1>4. /\ [requests EXCEPT ![n] = r] \in Seq(Requests)
      /\ Len([requests EXCEPT ![n] = r]) = Len(requests)
      /\ \A m \in 1 .. Len(requests) :
            [requests EXCEPT ![n] = r][m] = IF m = n THEN r ELSE requests[m]
  BY <1>1, <1>3, ExceptSeq
<1>5. /\ requests' \in Seq(Requests) /\ Len(requests') = Len(requests)
      /\ \A m \in 1 .. Len(requests) : m # n => requests'[m] = requests[m]
      /\ requests'[n] = r
  BY <1>1, <1>2, <1>4
<1> QED
  BY <1>3, <1>5 DEF Answer, n

(* A restart ends the requests in progress.                                 *)
LEMMA RestartFacts ==
    ASSUME TypeOK, JobsInv, Restart
    PROVE  /\ requests' \in Seq(Requests) /\ Len(requests') = Len(requests)
           /\ \A m \in 1 .. Len(requests) :
                 /\ requests'[m] \in Requests
                 /\ requests'[m].kind = requests[m].kind
                 /\ requests'[m].size = requests[m].size
                 /\ requests'[m].rejected = requests[m].rejected
                 /\ requests[m].outcome = "open" => requests'[m].outcome = "failed"
                 /\ requests[m].outcome # "open" => requests'[m].outcome = requests[m].outcome
           /\ pc' = [h \in Handler |-> "idle"]
           /\ job' = [h \in Handler |-> NoJob]
           /\ file' = file
<1> DEFINE r(m) == IF requests[m].outcome = "open"
                   THEN [requests[m] EXCEPT !.outcome = "failed"] ELSE requests[m]
<1>1. DOMAIN requests = 1 .. Len(requests) /\ \A m \in 1 .. Len(requests) : requests[m] \in Requests
  BY Known
<1>2. requests' = [m \in 1 .. Len(requests) |-> r(m)]
  BY <1>1 DEF Restart
<1>3. \A m \in 1 .. Len(requests) :
          /\ r(m) \in Requests
          /\ r(m).kind = requests[m].kind
          /\ r(m).size = requests[m].size
          /\ r(m).rejected = requests[m].rejected
          /\ requests[m].outcome = "open" => r(m).outcome = "failed"
          /\ requests[m].outcome # "open" => r(m).outcome = requests[m].outcome
  BY <1>1 DEF Requests
<1> HIDE DEF r
<1>4. Len(requests) \in Nat
  BY Known
<1>5. requests' \in Seq(Requests) /\ Len(requests') = Len(requests)
  BY <1>2, <1>3, <1>4
<1> QED
  BY <1>2, <1>3, <1>5 DEF Restart

-----------------------------------------------------------------------------
(* A step of a handler at work: where it is and which observation it is at. *)
Working(h) == WriteHead(h) \/ WriteTail(h) \/ WriteNewline(h) \/ (Count(h) /\ Asked(h).kind = "otlp")

(* Its handler goes on with it, at most to the last observation asked.     *)
LEMMA WorkingFacts ==
    ASSUME TypeOK, JobsInv, NEW h \in Handler, Working(h)
    PROVE  /\ Storing(h) /\ UNCHANGED <<slots, requests, faults>>
           /\ pc' \in [Handler -> PCs] /\ pc'[h] # "idle"
           /\ job' \in [Handler -> Job \cup {NoJob}]
           /\ job'[h] \in Job /\ job'[h].request = job[h].request
           /\ \A g \in Handler : g # h => pc'[g] = pc[g] /\ job'[g] = job[g]
           /\ job'[h].next <= Asked(h).size
           /\ pc'[h] = "count" => job'[h].next = Asked(h).size
           /\ pc'[h] = "spans" => Asked(h).kind = "otlp"
<1>1. /\ pc \in [Handler -> PCs] /\ job \in [Handler -> Job \cup {NoJob}]
      /\ \A g \in Handler : JobOK(g)
  BY Known
<1>2. Storing(h) /\ Busy(h)
  BY DEF Working, WriteHead, WriteTail, WriteNewline, Count, Storing, Busy
<1>3. /\ job[h] \in Job /\ Asked(h) \in Requests /\ job[h].next <= Asked(h).size
      /\ pc[h] = "count" => job[h].next = Asked(h).size
  BY <1>1, <1>2 DEF JobOK
<1>4. CASE WriteHead(h)
  BY <1>1, <1>2, <1>3, <1>4 DEF WriteHead, PCs
<1>5. CASE WriteTail(h)
  BY <1>1, <1>2, <1>3, <1>5 DEF WriteTail, PCs
<1>6. CASE WriteNewline(h)
  <2>1. CASE job[h].next < Asked(h).size
    <3>1. [job[h] EXCEPT !.next = @ + 1] \in Job /\ [job[h] EXCEPT !.next = @ + 1].request = job[h].request
      BY <1>3, <2>1, BoundAssumption DEF Job, Requests
    <3>2. [job[h] EXCEPT !.next = @ + 1].next <= Asked(h).size
      BY <1>3, <2>1 DEF Job, Requests
    <3>3. /\ job' = [job EXCEPT ![h] = [job[h] EXCEPT !.next = @ + 1]]
          /\ pc' = [pc EXCEPT ![h] = "head"] /\ UNCHANGED <<slots, requests, faults>>
      BY <1>6, <2>1 DEF WriteNewline
    <3> QED
      BY <1>1, <1>2, <3>1, <3>2, <3>3 DEF PCs
  <2>2. CASE ~(job[h].next < Asked(h).size)
    <3>1. job[h].next = Asked(h).size
      BY <1>3, <2>2 DEF Job, Requests
    <3> QED
      BY <1>1, <1>2, <1>3, <1>6, <2>2, <3>1 DEF WriteNewline, PCs
  <2> QED
    BY <2>1, <2>2
<1>7. CASE Count(h) /\ Asked(h).kind = "otlp"
  BY <1>1, <1>2, <1>3, <1>7 DEF Count, PCs
<1> QED
  BY <1>4, <1>5, <1>6, <1>7 DEF Working

(* The other steps of a handler answer.                                     *)
LEMMA OtherStepsAnswer ==
    ASSUME TypeOK, NEW h \in Handler,
           (Count(h) /\ Asked(h).kind # "otlp") \/ CountSpans(h) \/ WriteError(h)
    PROVE  /\ Answering(h)
           /\ faults' \in Nat
BY DEF Count, CountSpans, WriteError, Appending, Fault, Answering, Busy, TypeOK

(* The requests of other handlers are untouched, so the invariant on them   *)
(* is.                                                                      *)
LEMMA JobsKept == IInv /\ [Next]_vars => JobsInv'
<1> SUFFICES ASSUME TypeOK, JobsInv, [Next]_vars PROVE JobsInv'
  BY DEF IInv
<1>a. /\ pc \in [Handler -> PCs] /\ job \in [Handler -> Job \cup {NoJob}]
      /\ \A g \in Handler : JobOK(g)
      /\ Len(requests) \in 0 .. MaxRequests
  BY Known
<1>b. \A f, g \in Handler : Busy(f) /\ Busy(g) /\ job[f].request = job[g].request => f = g
  BY DEF JobsInv
<1>1. ASSUME NEW h \in Handler, NEW request, Taken(h, request) PROVE JobsInv'
  <2>1. /\ pc'[h] = IF request.size > 0 THEN "head" ELSE "spans"
        /\ job'[h] \in Job /\ job'[h].request = Len(requests) + 1 /\ job'[h].next = 1
        /\ \A g \in Handler : g # h => pc'[g] = pc[g] /\ job'[g] = job[g]
    BY <1>a, <1>1, TakenFacts
  <2>2. \A g \in Handler : g # h /\ Busy(g) => /\ job[g].request \in 1 .. Len(requests)
                                               /\ Asked(g)' = Asked(g)
    BY <1>a, <1>1, <2>1, TakenFacts DEF JobOK, Asked
  <2>3. ASSUME NEW g \in Handler, g # h PROVE JobOK(g)'
    BY <1>a, <1>1, <2>1, <2>2, <2>3, TakenFacts DEF JobOK, Busy, Storing
  <2>4. JobOK(h)'
    <3>1. /\ Asked(h)' = request /\ request \in Requests /\ request.outcome = "open"
          /\ request.size = 0 => request.kind = "otlp"
      BY <1>1, <2>1, TakenFacts DEF Asked, Taken
    <3>2. request.size \in Nat
      BY <3>1, BoundAssumption DEF Requests
    <3>3. job'[h].request \in 1 .. Len(requests')
      BY <1>a, <1>1, <2>1, TakenFacts
    <3> QED
      BY <2>1, <3>1, <3>2, <3>3 DEF JobOK, Busy, Storing
  <2>5. ASSUME NEW f \in Handler, NEW g \in Handler, Busy(f)', Busy(g)', job'[f].request = job'[g].request
        PROVE  f = g
    BY <1>a, <1>b, <2>1, <2>2, <2>5 DEF Busy
  <2> QED
    BY <2>3, <2>4, <2>5 DEF JobsInv
<1>2. ASSUME NEW h \in Handler, Working(h) PROVE JobsInv'
  <2>1. \A g \in Handler : Busy(g) => Asked(g)' = Asked(g) /\ (Busy(g)' <=> Busy(g))
    BY <1>2, WorkingFacts DEF Asked, Busy
  <2>2. \A g \in Handler : g # h => JobOK(g)'
    BY <1>a, <1>2, <2>1, WorkingFacts DEF JobOK, Busy, Storing
  <2>3. JobOK(h)'
    <3>1. JobOK(h) /\ Busy(h)
      BY <1>a, <1>2, WorkingFacts DEF Busy, Storing
    <3> QED
      BY <1>2, <2>1, <3>1, WorkingFacts DEF JobOK, Busy, Storing
  <2>4. \A g \in Handler : Busy(g)' => Busy(g) /\ job'[g].request = job[g].request
    BY <1>2, WorkingFacts DEF Busy, Storing
  <2> QED
    BY <1>b, <2>2, <2>3, <2>4 DEF JobsInv
<1>3. ASSUME NEW h \in Handler, Answering(h) PROVE JobsInv'
  <2>0. PICK outcome \in {"accepted", "failed"} : Answer(h, outcome)
    BY <1>3 DEF Answering
  <2>1. /\ Busy(h) /\ pc' = [pc EXCEPT ![h] = "idle"] /\ job' = [job EXCEPT ![h] = NoJob]
        /\ Len(requests') = Len(requests)
        /\ \A m \in 1 .. Len(requests) : m # job[h].request => requests'[m] = requests[m]
    BY <1>3, <2>0, AnswerFacts DEF Answering
  <2>2. \A g \in Handler : g # h => pc'[g] = pc[g] /\ job'[g] = job[g] /\ (Busy(g) => Asked(g)' = Asked(g))
    BY <1>a, <1>b, <2>1 DEF JobOK, Asked
  <2>3. \A g \in Handler : g # h => JobOK(g)'
    BY <1>a, <2>1, <2>2 DEF JobOK, Busy, Storing
  <2>4. JobOK(h)' /\ ~Busy(h)'
    BY <1>a, <2>1 DEF JobOK, Busy, Storing
  <2> QED
    BY <1>b, <2>2, <2>3, <2>4 DEF JobsInv, Busy
<1>4. CASE Refuse
  <2> DEFINE r == [kind |-> "batch", size |-> 1, rejected |-> 0, outcome |-> "refused"]
  <2>1. requests' = Append(requests, r) /\ UNCHANGED <<pc, job>>
    BY <1>4 DEF Refuse, Arrives
  <2>2. requests \in Seq(Requests) /\ r \in Requests
    BY Known, BoundAssumption DEF Requests
  <2> HIDE DEF r
  <2>3. Len(requests') = Len(requests) + 1 /\ \A m \in 1 .. Len(requests) : requests'[m] = requests[m]
    BY <2>1, <2>2, AppendProperties
  <2>4. \A g \in Handler : JobOK(g)'
    BY <1>a, <2>1, <2>3 DEF JobOK, Busy, Storing, Asked
  <2> QED
    BY <1>b, <2>1, <2>4 DEF JobsInv, Busy
<1>5. CASE Restart
  <2>1. \A g \in Handler : pc'[g] = "idle" /\ job'[g] = NoJob
    BY <1>5, RestartFacts
  <2> QED
    BY <2>1 DEF JobsInv, JobOK, Busy, Storing
<1>6. CASE UNCHANGED vars
  BY <1>6 DEF vars, JobsInv, JobOK, Busy, Storing, Asked
<1> QED
  BY <1>1, <1>2, <1>3, <1>4, <1>5, <1>6, StepCases, OtherStepsAnswer DEF Working

-----------------------------------------------------------------------------
(* What a handler appends next is an observation, in two parts.             *)
LEMMA CurrentType ==
    ASSUME TypeOK, JobsInv, NEW h \in Handler, Busy(h)
    PROVE  /\ Current(h) \in Observation
           /\ FirstPart(Current(h)) \in Piece(Observation)
           /\ SecondPart(Current(h)) \in Piece(Observation)
<1>1. job[h] \in Job
  BY Known DEF JobOK
<1>2. Current(h) \in Observation
  BY <1>1 DEF Current, Observation, Job
<1> QED
  BY <1>2, PartsArePieces

(* Slots are taken and given back one at a time, with the request.          *)
LEMMA SlotsKept == IInv /\ [Next]_vars => SlotsAccounted'
<1> SUFFICES ASSUME TypeOK, JobsInv, SlotsAccounted, [Next]_vars PROVE SlotsAccounted'
  BY DEF IInv
<1>a. /\ pc \in [Handler -> PCs] /\ job \in [Handler -> Job \cup {NoJob}]
      /\ \A g \in Handler : JobOK(g)
  BY Known
<1>b. \A f, g \in Handler : Busy(f) /\ Busy(g) /\ job[f].request = job[g].request => f = g
  BY DEF JobsInv
<1>c. IsFiniteSet(Holding) /\ Cardinality(Holding) \in Nat /\ slots \in Nat /\ Slots \in Nat
  BY HandlerAssumption, SlotsAssumption, FS_Subset, FS_CardinalityType DEF Holding, TypeOK
<1>1. ASSUME NEW h \in Handler, NEW request, Taken(h, request) PROVE SlotsAccounted'
  <2>1. \A g \in Handler : g # h => (g \in Holding' <=> g \in Holding)
    BY <1>a, <1>1, TakenFacts DEF Holding, Asked, JobOK, Busy
  <2>2. h \notin Holding /\ (h \in Holding' <=> request.kind # "single")
    BY <1>a, <1>1, TakenFacts DEF Holding, Asked
  <2>3. CASE request.kind = "single"
    <3>1. Holding' = Holding /\ slots' = slots
      BY <1>1, <2>1, <2>2, <2>3 DEF Holding, Taken
    <3> QED
      BY <3>1 DEF SlotsAccounted
  <2>4. CASE request.kind # "single"
    <3>1. Holding' = Holding \cup {h} /\ slots' = slots - 1
      BY <1>1, <2>1, <2>2, <2>4 DEF Holding, Taken, AcquireSlot
    <3>2. Cardinality(Holding') = Cardinality(Holding) + 1
      BY <1>c, <2>2, <3>1, FS_AddElement
    <3> QED
      BY <1>c, <3>1, <3>2 DEF SlotsAccounted
  <2> QED
    BY <2>3, <2>4
<1>2. ASSUME NEW h \in Handler, Working(h) PROVE SlotsAccounted'
  <2>1. Holding' = Holding /\ slots' = slots
    BY <1>2, WorkingFacts DEF Holding, Asked, Storing
  <2> QED
    BY <2>1 DEF SlotsAccounted
<1>3. ASSUME NEW h \in Handler, Answering(h) PROVE SlotsAccounted'
  <2>0. PICK outcome \in {"accepted", "failed"} : Answer(h, outcome)
    BY <1>3 DEF Answering
  <2>1. /\ Busy(h) /\ pc' = [pc EXCEPT ![h] = "idle"] /\ job' = [job EXCEPT ![h] = NoJob]
        /\ \A m \in 1 .. Len(requests) : m # job[h].request => requests'[m] = requests[m]
        /\ slots' = IF Asked(h).kind # "single" THEN slots + 1 ELSE slots
    BY <1>3, <2>0, AnswerFacts DEF Answering
  <2>2. \A g \in Handler : g # h => pc'[g] = pc[g] /\ (Busy(g) => Asked(g)' = Asked(g))
    BY <1>a, <1>b, <2>1 DEF JobOK, Asked
  <2>3. Holding' = Holding \ {h} /\ (h \in Holding <=> Asked(h).kind # "single")
    BY <1>a, <2>1, <2>2 DEF Holding, Busy
  <2>4. Cardinality(Holding') = IF h \in Holding THEN Cardinality(Holding) - 1 ELSE Cardinality(Holding)
    BY <1>c, <2>3, FS_RemoveElement
  <2> QED
    BY <1>c, <2>1, <2>3, <2>4 DEF SlotsAccounted
<1>4. CASE Refuse
  <2> DEFINE r == [kind |-> "batch", size |-> 1, rejected |-> 0, outcome |-> "refused"]
  <2>1. requests' = Append(requests, r) /\ UNCHANGED <<pc, job, slots>>
    BY <1>4 DEF Refuse, Arrives
  <2>2. requests \in Seq(Requests) /\ r \in Requests
    BY Known, BoundAssumption DEF Requests
  <2> HIDE DEF r
  <2>3. \A m \in 1 .. Len(requests) : requests'[m] = requests[m]
    BY <2>1, <2>2, AppendProperties
  <2>4. \A g \in Handler : Busy(g) => job[g].request \in 1 .. Len(requests)
    BY <1>a DEF JobOK
  <2>5. Holding' = Holding
    BY <2>1, <2>3, <2>4 DEF Holding, Asked, Busy
  <2> QED
    BY <2>1, <2>5 DEF SlotsAccounted
<1>5. CASE Restart
  <2>1. Holding' = {} /\ slots' = Slots
    BY <1>5, RestartFacts DEF Holding, Restart
  <2> QED
    BY <1>c, <2>1, FS_EmptySet DEF SlotsAccounted
<1>6. CASE UNCHANGED vars
  BY <1>6 DEF vars, SlotsAccounted, Holding, Asked
<1> QED
  BY <1>1, <1>2, <1>3, <1>4, <1>5, <1>6, StepCases, OtherStepsAnswer DEF Working

(* Slots stay in their range because each is accounted for.                 *)
LEMMA TypeKept == IInv /\ [Next]_vars => TypeOK'
<1> SUFFICES ASSUME TypeOK, JobsInv, SlotsAccounted, JobsInv', SlotsAccounted', [Next]_vars PROVE TypeOK'
  BY JobsKept, SlotsKept DEF IInv
<1>a. /\ pc \in [Handler -> PCs] /\ job \in [Handler -> Job \cup {NoJob}]
      /\ \A g \in Handler : JobOK(g)
      /\ Len(requests) \in 0 .. MaxRequests
      /\ \A m \in 1 .. Len(requests) : requests[m] \in Requests
  BY Known
<1>b. slots \in 0 .. Slots /\ file \in File(Observation) /\ faults \in Nat
  BY DEF TypeOK
<1>c. \A g \in Handler : JobOK(g)'
  BY DEF JobsInv
<1>1. /\ pc' \in [Handler -> PCs] /\ job' \in [Handler -> Job \cup {NoJob}]
      /\ requests' \in Seq(Requests) /\ Len(requests') <= MaxRequests
      /\ faults' \in Nat
  <2>1. ASSUME NEW h \in Handler, NEW request, Taken(h, request)
        PROVE  /\ pc' \in [Handler -> PCs] /\ job' \in [Handler -> Job \cup {NoJob}]
               /\ requests' \in Seq(Requests) /\ Len(requests') <= MaxRequests
               /\ faults' \in Nat
    BY <1>a, <1>b, <2>1, TakenFacts, BoundAssumption DEF PCs
  <2>2. ASSUME NEW h \in Handler, Working(h)
        PROVE  /\ pc' \in [Handler -> PCs] /\ job' \in [Handler -> Job \cup {NoJob}]
               /\ requests' \in Seq(Requests) /\ Len(requests') <= MaxRequests
               /\ faults' \in Nat
    BY <1>a, <1>b, <2>2, WorkingFacts, Known, BoundAssumption
  <2>3. ASSUME NEW h \in Handler, Answering(h), faults' \in Nat
        PROVE  /\ pc' \in [Handler -> PCs] /\ job' \in [Handler -> Job \cup {NoJob}]
               /\ requests' \in Seq(Requests) /\ Len(requests') <= MaxRequests
               /\ faults' \in Nat
    BY <1>a, <2>3, AnswerFacts, BoundAssumption DEF Answering, PCs
  <2>4. ASSUME Refuse
        PROVE  /\ pc' \in [Handler -> PCs] /\ job' \in [Handler -> Job \cup {NoJob}]
               /\ requests' \in Seq(Requests) /\ Len(requests') <= MaxRequests
               /\ faults' \in Nat
    <3> DEFINE r == [kind |-> "batch", size |-> 1, rejected |-> 0, outcome |-> "refused"]
    <3>1. requests' = Append(requests, r) /\ Len(requests) < MaxRequests /\ UNCHANGED <<pc, job, faults>>
      BY <2>4 DEF Refuse, Arrives
    <3>2. requests \in Seq(Requests) /\ r \in Requests
      BY Known, BoundAssumption DEF Requests
    <3> HIDE DEF r
    <3>3. requests' \in Seq(Requests) /\ Len(requests') = Len(requests) + 1
      BY <3>1, <3>2, AppendProperties
    <3> QED
      BY <1>a, <1>b, <3>1, <3>3, BoundAssumption
  <2>5. ASSUME Restart
        PROVE  /\ pc' \in [Handler -> PCs] /\ job' \in [Handler -> Job \cup {NoJob}]
               /\ requests' \in Seq(Requests) /\ Len(requests') <= MaxRequests
               /\ faults' \in Nat
    BY <1>a, <1>b, <2>5, RestartFacts DEF Restart, Fault, PCs
  <2>6. CASE UNCHANGED vars
    BY <1>a, <1>b, <2>6, Known DEF vars
  <2> QED
    BY <2>1, <2>2, <2>3, <2>4, <2>5, <2>6, StepCases, OtherStepsAnswer DEF Working
<1>2. file' \in File(Observation)
  <2>1. ASSUME NEW h \in Handler, WriteHead(h) PROVE file' \in File(Observation)
    <3>1. FirstPart(Current(h)) \in Piece(Observation)
      BY <2>1, CurrentType DEF WriteHead, Busy
    <3> QED
      BY <1>b, <2>1, <3>1, WrittenType DEF WriteHead
  <2>2. ASSUME NEW h \in Handler, WriteTail(h) PROVE file' \in File(Observation)
    <3>1. SecondPart(Current(h)) \in Piece(Observation)
      BY <2>2, CurrentType DEF WriteTail, Busy
    <3> QED
      BY <1>b, <2>2, <3>1, WrittenType DEF WriteTail
  <2>3. ASSUME NEW h \in Handler, WriteNewline(h) PROVE file' \in File(Observation)
    BY <1>b, <2>3, TerminatedType DEF WriteNewline
  <2>4. ASSUME NEW h \in Handler, NEW request, Taken(h, request) PROVE file' \in File(Observation)
    BY <1>b, <2>4, TakenFacts
  <2>5. ASSUME NEW h \in Handler, Count(h) \/ CountSpans(h) \/ WriteError(h)
        PROVE  file' \in File(Observation)
    BY <1>b, <2>5 DEF Count, CountSpans, WriteError
  <2>6. ASSUME Refuse \/ Restart \/ UNCHANGED vars PROVE file' \in File(Observation)
    BY <1>b, <2>6 DEF Refuse, Restart, vars
  <2> QED
    BY <2>1, <2>2, <2>3, <2>4, <2>5, <2>6, StepCases
<1>3. /\ observations_ingested' \in Nat
      /\ otlp_spans_accepted' \in Nat
      /\ otlp_spans_rejected' \in Nat
  <2>1. \A h \in Handler : Busy(h) => Asked(h).size \in Nat /\ Asked(h).rejected \in Nat
    BY <1>a, BoundAssumption DEF JobOK, Requests
  <2>2. \A h \in Handler : Count(h) \/ CountSpans(h) => Busy(h)
    BY DEF Count, CountSpans, Busy
  <2>3. /\ observations_ingested \in Nat /\ otlp_spans_accepted \in Nat /\ otlp_spans_rejected \in Nat
    BY DEF TypeOK
  <2>4. ASSUME NEW h \in Handler, Count(h) \/ CountSpans(h)
        PROVE  /\ observations_ingested' \in Nat
               /\ otlp_spans_accepted' \in Nat
               /\ otlp_spans_rejected' \in Nat
    BY <2>1, <2>2, <2>3, <2>4 DEF Count, CountSpans, spans
  <2>5. ASSUME NEW h \in Handler, NEW request,
               Taken(h, request) \/ WriteHead(h) \/ WriteTail(h) \/ WriteNewline(h) \/ WriteError(h)
        PROVE  /\ observations_ingested' \in Nat
               /\ otlp_spans_accepted' \in Nat
               /\ otlp_spans_rejected' \in Nat
    BY <2>3, <2>5, TakenFacts DEF WriteHead, WriteTail, WriteNewline, WriteError, spans
  <2>6. ASSUME Refuse \/ Restart \/ UNCHANGED vars
        PROVE  /\ observations_ingested' \in Nat
               /\ otlp_spans_accepted' \in Nat
               /\ otlp_spans_rejected' \in Nat
    BY <2>3, <2>6 DEF Refuse, Restart, vars, spans
  <2> QED
    BY <2>4, <2>5, <2>6, StepCases
<1>4. slots' \in 0 .. Slots
  <2>1. IsFiniteSet(Holding')
    BY HandlerAssumption, FS_Subset DEF Holding
  <2>2. Cardinality(Holding') \in Nat
    BY <2>1, FS_CardinalityType
  <2>3. slots' \in Nat
    <3>1. slots \in Nat /\ Slots \in Nat
      BY <1>b, SlotsAssumption
    <3>2. ASSUME NEW h \in Handler, NEW request, Taken(h, request) PROVE slots' \in Nat
      BY <3>1, <3>2 DEF Taken, AcquireSlot
    <3>3. ASSUME NEW h \in Handler, Working(h) PROVE slots' \in Nat
      BY <3>1, <3>3, WorkingFacts
    <3>4. ASSUME NEW h \in Handler, Answering(h) PROVE slots' \in Nat
      BY <3>1, <3>4 DEF Answering, Answer
    <3>5. ASSUME Refuse \/ Restart \/ UNCHANGED vars PROVE slots' \in Nat
      BY <3>1, <3>5 DEF Refuse, Restart, vars
    <3> QED
      BY <3>2, <3>3, <3>4, <3>5, StepCases, OtherStepsAnswer DEF Working
  <2> QED
    BY <2>2, <2>3, SlotsAssumption DEF SlotsAccounted
<1>5. \A h \in Handler : /\ job'[h] = NoJob <=> pc'[h] = "idle"
                         /\ pc'[h] # "idle" => /\ job'[h].request <= Len(requests')
                                               /\ requests'[job'[h].request].outcome = "open"
  BY <1>c DEF JobOK, Busy, Asked, Job, NoJob
<1> QED
  BY <1>1, <1>2, <1>3, <1>4, <1>5 DEF TypeOK, PCs

(* At first nothing is in progress and every slot is free.                  *)
LEMMA IInvInitially == Init => IInv
<1> SUFFICES ASSUME Init PROVE IInv
  OBVIOUS
<1>1. \A h \in Handler : pc[h] = "idle" /\ job[h] = NoJob
  BY DEF Init
<1>2. TypeOK
  <2>1. file \in File(Observation)
    BY EmptyFileType DEF Init
  <2>2. /\ slots \in 0 .. Slots
        /\ observations_ingested \in Nat
        /\ otlp_spans_accepted \in Nat
        /\ otlp_spans_rejected \in Nat
        /\ faults \in Nat
    BY SlotsAssumption DEF Init
  <2>3. /\ pc \in [Handler -> {"idle", "head", "tail", "newline", "count", "spans"}]
        /\ job \in [Handler -> Job \cup {NoJob}]
    BY DEF Init
  <2>4. requests \in Seq(Requests) /\ Len(requests) <= MaxRequests
    BY BoundAssumption DEF Init
  <2> QED
    BY <1>1, <2>1, <2>2, <2>3, <2>4 DEF TypeOK
<1>3. JobsInv
  BY <1>1 DEF JobsInv, JobOK, Busy, Storing
<1>4. SlotsAccounted
  <2>1. Holding = {} /\ slots = Slots
    BY <1>1 DEF Holding, Init
  <2> QED
    BY <2>1, FS_EmptySet, SlotsAssumption DEF SlotsAccounted
<1> QED
  BY <1>2, <1>3, <1>4 DEF IInv

(* So the three hold in every state.                                        *)
LEMMA IInvAlways == Spec => []IInv
<1>1. IInv /\ [Next]_vars => IInv'
  BY TypeKept, JobsKept, SlotsKept DEF IInv
<1> QED
  BY <1>1, IInvInitially, PTL DEF Spec

(* Every variable keeps its type.  That slots stay between none and all is  *)
(* not for the semaphore to say: it holds because a slot is given back only *)
(* with a request that took one.                                            *)
THEOREM TypeCorrect == Spec => []TypeOK
BY IInvAlways, PTL DEF IInv

(* Whichever way requests end, and whatever dies with them, the slots that  *)
(* are not free are those of the requests in progress.                      *)
THEOREM SlotsAccountedHolds == Spec => []SlotsAccounted
BY IInvAlways, PTL DEF IInv

-----------------------------------------------------------------------------
(* What a request has begun in a file: the cells of the first parts of its  *)
(* observations, which are a prefix of them, once each and in order.        *)
At(f, c) == f[c[1]][c[2]]
Begun(f, n) == {c \in Cells(f) : At(f, c).part = "head" /\ At(f, c).document.request = n}
PositionAt(f, c) == At(f, c).document.position

Begins(f, n, k) ==
    /\ {PositionAt(f, c) : c \in Begun(f, n)} = 1 .. k
    /\ \A c, e \in Begun(f, n) : Before(c, e) => PositionAt(f, c) < PositionAt(f, e)

(* The first part of an observation is one more that its request has begun. *)
LEMMA HeadBegins ==
    ASSUME NEW f \in File(Observation), NEW d \in Observation
    PROVE  LET new == Written(f, FirstPart(d))
           IN  /\ \A n : n # d.request => Begun(new, n) = Begun(f, n)
               /\ Begun(new, d.request) = Begun(f, d.request) \cup {NextCell(f)}
               /\ NextCell(f) \notin Begun(f, d.request)
               /\ \A n, k : n # d.request /\ Begins(f, n, k) => Begins(new, n, k)
               /\ Begins(f, d.request, d.position - 1) => Begins(new, d.request, d.position)
<1> DEFINE new == Written(f, FirstPart(d))  c0 == NextCell(f)
<1>1. /\ Cells(new) = Cells(f) \cup {c0} /\ c0 \notin Cells(f)
      /\ At(new, c0) = FirstPart(d)
      /\ \A c \in Cells(f) : At(new, c) = At(f, c) /\ Before(c, c0) /\ ~Before(c0, c)
      /\ ~Before(c0, c0)
  BY PartsArePieces, WrittenCells DEF At
<1>2. FirstPart(d).part = "head" /\ FirstPart(d).document = d
  BY DEF FirstPart
<1>3. d.position \in Nat \ {0}
  BY DEF Observation
<1> HIDE DEF new, c0
<1>4. \A n : n # d.request => Begun(new, n) = Begun(f, n)
  BY <1>1, <1>2 DEF Begun
<1>5. Begun(new, d.request) = Begun(f, d.request) \cup {c0} /\ c0 \notin Begun(f, d.request)
  BY <1>1, <1>2 DEF Begun
<1>6. \A n : \A c \in Begun(f, n) : PositionAt(new, c) = PositionAt(f, c)
  BY <1>1 DEF Begun, PositionAt
<1>7. \A n, k : n # d.request /\ Begins(f, n, k) => Begins(new, n, k)
  BY <1>4, <1>6 DEF Begins
<1>8. ASSUME Begins(f, d.request, d.position - 1) PROVE Begins(new, d.request, d.position)
  <2> DEFINE B == Begun(f, d.request)  p == d.position
  <2>1. PositionAt(new, c0) = p
    BY <1>1, <1>2 DEF PositionAt
  <2>2. {PositionAt(f, c) : c \in B} = 1 .. p - 1
    BY <1>8 DEF Begins
  <2>3. \A c \in B : PositionAt(new, c) = PositionAt(f, c) /\ PositionAt(f, c) \in 1 .. p - 1
    BY <1>6, <2>2
  <2>4. {PositionAt(new, c) : c \in B \cup {c0}} = 1 .. p
    <3>1. \A c \in B \cup {c0} : PositionAt(new, c) \in 1 .. p
      BY <1>3, <2>1, <2>3
    <3>2. \A q \in 1 .. p : \E c \in B \cup {c0} : PositionAt(new, c) = q
      <4> TAKE q \in 1 .. p
      <4>1. CASE q = p
        BY <2>1, <4>1
      <4>2. CASE q # p
        <5>1. q \in 1 .. p - 1
          BY <1>3, <4>2
        <5>2. PICK c \in B : PositionAt(f, c) = q
          BY <2>2, <5>1
        <5> QED
          BY <2>3, <5>2
      <4> QED
        BY <4>1, <4>2
    <3> QED
      BY <3>1, <3>2
  <2>5. ASSUME NEW c \in B \cup {c0}, NEW e \in B \cup {c0}, Before(c, e)
        PROVE  PositionAt(new, c) < PositionAt(new, e)
    <3>1. c \in B
      BY <1>1, <2>5 DEF Begun
    <3>2. CASE e \in B
      BY <1>8, <2>3, <2>5, <3>1, <3>2 DEF Begins
    <3>3. CASE e = c0
      BY <1>3, <2>1, <2>3, <3>1, <3>3
    <3> QED
      BY <3>2, <3>3
  <2> QED
    BY <1>5, <2>4, <2>5 DEF Begins
<1> QED
  BY <1>4, <1>5, <1>7, <1>8 DEF new, c0

(* The rest of an observation, or a newline, begins nothing.                *)
LEMMA RestBeginsNothing ==
    ASSUME NEW f \in File(Observation), NEW new,
           (\E d \in Observation : new = Written(f, SecondPart(d))) \/ new = Terminated(f) \/ new = f
    PROVE  \A n : /\ Begun(new, n) = Begun(f, n)
                  /\ \A k : Begins(f, n, k) => Begins(new, n, k)
<1>1. /\ \A c \in Cells(f) : c \in Cells(new) /\ At(new, c) = At(f, c)
      /\ \A c \in Cells(new) : c \in Cells(f) \/ At(new, c).part = "tail"
  <2>1. ASSUME NEW d \in Observation, new = Written(f, SecondPart(d))
        PROVE  /\ \A c \in Cells(f) : c \in Cells(new) /\ At(new, c) = At(f, c)
               /\ \A c \in Cells(new) : c \in Cells(f) \/ At(new, c).part = "tail"
    BY <2>1, PartsArePieces, WrittenCells DEF At, SecondPart
  <2>2. CASE new = Terminated(f)
    BY <2>2, TerminatedCells DEF At
  <2>3. CASE new = f
    BY <2>3
  <2> QED
    BY <2>1, <2>2, <2>3
<1>2. \A n : Begun(new, n) = Begun(f, n)
  BY <1>1 DEF Begun
<1>3. \A n : \A c \in Begun(f, n) : PositionAt(new, c) = PositionAt(f, c)
  BY <1>1 DEF Begun, PositionAt
<1> QED
  BY <1>2, <1>3 DEF Begins

(* How far the request of a handler has come, k of its observations begun.  *)
Reached(h, k) ==
    /\ pc[h] = "head" => k = job[h].next - 1
    /\ pc[h] \in {"tail", "newline", "count"} => k = job[h].next
    /\ pc[h] = "spans" => k = Asked(h).size

Left(n, k) ==
    /\ k \in 0 .. requests[n].size
    /\ Begins(file, n, k)
    /\ requests[n].outcome = "accepted" => k = requests[n].size
    /\ requests[n].outcome = "refused" => k = 0
    /\ \A h \in Handler : Busy(h) /\ job[h].request = n => Reached(h, k)

PrefixInv ==
    /\ \A n \in 1 .. Len(requests) : \E k \in Nat : Left(n, k)
    /\ \A n \in Nat : n > Len(requests) => Begun(file, n) = {}

(* A request nothing is known of has begun nothing.                         *)
LEMMA NoneBegun == \A n : Begun(file, n) = {} => Begins(file, n, 0)
BY DEF Begins

(* Only the first part of an observation moves its request one on.          *)
LEMMA PrefixKept == IInv /\ PrefixInv /\ [Next]_vars => PrefixInv'
<1> SUFFICES ASSUME TypeOK, JobsInv, PrefixInv, [Next]_vars PROVE PrefixInv'
  BY DEF IInv
<1>a. /\ pc \in [Handler -> PCs] /\ job \in [Handler -> Job \cup {NoJob}]
      /\ \A g \in Handler : JobOK(g)
      /\ Len(requests) \in Nat
      /\ \A m \in 1 .. Len(requests) : requests[m] \in Requests /\ requests[m].size \in Nat
  BY Known, BoundAssumption DEF Requests
<1>b. \A f, g \in Handler : Busy(f) /\ Busy(g) /\ job[f].request = job[g].request => f = g
  BY DEF JobsInv
<1>c. file \in File(Observation)
  BY DEF TypeOK
<1>1. ASSUME NEW h \in Handler, NEW request, Taken(h, request) PROVE PrefixInv'
  <2>1. /\ pc'[h] = IF request.size > 0 THEN "head" ELSE "spans"
        /\ job'[h].request = Len(requests) + 1 /\ job'[h].next = 1
        /\ \A g \in Handler : g # h => pc'[g] = pc[g] /\ job'[g] = job[g]
        /\ pc[h] = "idle" /\ file' = file
        /\ Len(requests') = Len(requests) + 1
        /\ \A m \in 1 .. Len(requests) : requests'[m] = requests[m]
        /\ requests'[Len(requests) + 1] = request
    BY <1>a, <1>1, TakenFacts
  <2>2. request.size \in Nat /\ request.outcome = "open"
    BY <1>1, BoundAssumption DEF Taken, Requests
  <2>4. ASSUME NEW n \in 1 .. Len(requests) PROVE \E k \in Nat : Left(n, k)'
    <3>1. PICK k \in Nat : Left(n, k)
      BY DEF PrefixInv
    <3>2. requests'[n] = requests[n] /\ Begins(file, n, k)'
      BY <2>1, <3>1 DEF Left
    <3>3. ASSUME NEW g \in Handler, Busy(g)', job'[g].request = n PROVE Reached(g, k)'
      <4>1. g # h /\ Busy(g) /\ job[g].request = n
        BY <1>a, <2>1, <3>3 DEF Busy
      <4>2. Asked(g)' = Asked(g)
        BY <2>1, <4>1 DEF Asked
      <4> QED
        BY <2>1, <3>1, <4>1, <4>2 DEF Left, Reached
    <3> QED
      BY <3>1, <3>2, <3>3 DEF Left
  <2>5. ASSUME NEW n \in Nat, n = Len(requests) + 1 PROVE Left(n, 0)'
    <3>1. Begins(file, n, 0)'
      <4>1. Begins(file, n, 0)
        BY <1>a, <2>5, NoneBegun DEF PrefixInv
      <4> QED
        BY <2>1, <4>1
    <3>2. ASSUME NEW g \in Handler, Busy(g)', job'[g].request = n PROVE Reached(g, 0)'
      <4>1. g = h
        BY <1>a, <2>1, <2>5, <3>2 DEF Busy, JobOK
      <4>2. Asked(h)' = request
        BY <2>1 DEF Asked
      <4> QED
        BY <2>1, <2>2, <4>1, <4>2 DEF Reached
    <3> QED
      BY <2>1, <2>2, <2>5, <3>1, <3>2 DEF Left
  <2>6. \A n \in Nat : n > Len(requests') => Begun(file, n)' = {}
    BY <1>a, <2>1 DEF PrefixInv
  <2> QED
    BY <1>a, <2>1, <2>4, <2>5, <2>6 DEF PrefixInv
<1>2. ASSUME NEW h \in Handler, WriteHead(h) PROVE PrefixInv'
  <2> DEFINE d == Current(h)
  <2>1. /\ pc[h] = "head" /\ pc' = [pc EXCEPT ![h] = "tail"] /\ UNCHANGED <<job, requests>>
        /\ file' = Written(file, FirstPart(d))
    BY <1>2 DEF WriteHead
  <2>2. /\ d \in Observation /\ d.request = job[h].request /\ d.position = job[h].next
        /\ job[h].request \in 1 .. Len(requests) /\ job[h].next \in Nat \ {0}
        /\ job[h].next <= requests[job[h].request].size
        /\ requests[job[h].request].outcome = "open"
    <3>1. job[h] \in Job
      BY <1>a, <2>1 DEF JobOK, Busy
    <3>2. job[h].next \in Nat \ {0}
      BY <3>1 DEF Job
    <3> QED
      BY <1>a, <2>1, <3>2, CurrentType DEF JobOK, Busy, Storing, Current, Asked
  <2> HIDE DEF d
  <2>3. /\ \A n : n # job[h].request => Begun(file, n)' = Begun(file, n)
        /\ \A n, k : n # job[h].request /\ Begins(file, n, k) => Begins(file, n, k)'
        /\ Begins(file, job[h].request, job[h].next - 1) => Begins(file', job[h].request, job[h].next)
    <3>1. /\ \A n : n # d.request => Begun(Written(file, FirstPart(d)), n) = Begun(file, n)
          /\ \A n, k : n # d.request /\ Begins(file, n, k) => Begins(Written(file, FirstPart(d)), n, k)
          /\ Begins(file, d.request, d.position - 1)
                => Begins(Written(file, FirstPart(d)), d.request, d.position)
      BY <1>c, <2>2, HeadBegins
    <3> QED
      BY <2>1, <2>2, <3>1
  <2>4. ASSUME NEW n \in 1 .. Len(requests) PROVE \E k \in Nat : Left(n, k)'
    <3>1. PICK k \in Nat : Left(n, k)
      BY DEF PrefixInv
    <3>2. CASE n # job[h].request
      <4>1. \A g \in Handler : Busy(g)' /\ job'[g].request = n => Reached(g, k)'
        BY <1>a, <2>1, <3>1, <3>2 DEF Left, Reached, Busy, Asked
      <4> QED
        BY <2>1, <2>3, <3>1, <3>2, <4>1 DEF Left
    <3>3. CASE n = job[h].request
      <4>1. k = job[h].next - 1
        BY <2>1, <3>1, <3>3 DEF Left, Reached, Busy
      <4>2. PICK next \in Nat : next = job[h].next /\ next = k + 1
        BY <2>2, <4>1
      <4>3. Begins(file, n, next)'
        BY <2>3, <3>1, <3>3, <4>1, <4>2 DEF Left
      <4>4. \A g \in Handler : Busy(g)' /\ job'[g].request = n => Reached(g, next)'
        BY <1>a, <1>b, <2>1, <3>3, <4>2 DEF Reached, Busy
      <4>5. Left(n, next)'
        BY <2>1, <2>2, <3>3, <4>2, <4>3, <4>4 DEF Left
      <4> QED
        BY <4>5
    <3> QED
      BY <3>2, <3>3
  <2>5. \A n \in Nat : n > Len(requests') => Begun(file, n)' = {}
    BY <1>a, <2>1, <2>2, <2>3 DEF PrefixInv
  <2> QED
    BY <2>1, <2>4, <2>5 DEF PrefixInv
<1>3. ASSUME NEW h \in Handler, Working(h), ~WriteHead(h) PROVE PrefixInv'
  <2>1. /\ \A n : Begun(file, n)' = Begun(file, n)
        /\ \A n, k : Begins(file, n, k) => Begins(file, n, k)'
    <3>1. (\E d \in Observation : file' = Written(file, SecondPart(d))) \/ file' = Terminated(file) \/ file' = file
      BY <1>3, CurrentType DEF Working, WriteTail, WriteNewline, Count, Busy
    <3>2. \A new : (\E d \in Observation : new = Written(file, SecondPart(d))) \/ new = Terminated(file) \/ new = file
                    => \A n : /\ Begun(new, n) = Begun(file, n)
                              /\ \A k : Begins(file, n, k) => Begins(new, n, k)
      BY <1>c, RestBeginsNothing
    <3> QED
      BY <3>1, <3>2
  <2>2. ASSUME NEW k \in Nat, Reached(h, k) PROVE Reached(h, k)'
    <3>1. Asked(h)' = Asked(h)
      BY <1>3, WorkingFacts DEF Asked
    <3>2. /\ job[h] \in Job /\ job[h].next \in Nat
          /\ pc[h] = "count" => job[h].next = Asked(h).size
      BY <1>a, <1>3, WorkingFacts DEF JobOK, Busy, Storing, Job
    <3>3. CASE WriteTail(h)
      BY <1>a, <2>2, <3>1, <3>3 DEF WriteTail, Reached
    <3>4. CASE WriteNewline(h)
      <4>1. CASE job[h].next < Asked(h).size
        <5>1. pc[h] = "newline" /\ pc'[h] = "head" /\ job'[h] = [job[h] EXCEPT !.next = @ + 1]
          BY <1>a, <3>4, <4>1 DEF WriteNewline
        <5>2. job'[h].next = job[h].next + 1
          BY <3>2, <5>1 DEF Job
        <5> QED
          BY <2>2, <3>2, <5>1, <5>2 DEF Reached
      <4>2. CASE ~(job[h].next < Asked(h).size)
        BY <1>a, <2>2, <3>1, <3>4, <4>2 DEF WriteNewline, Reached
      <4> QED
        BY <4>1, <4>2
    <3>5. CASE Count(h) /\ Asked(h).kind = "otlp"
      BY <1>a, <2>2, <3>1, <3>2, <3>5 DEF Count, Reached
    <3> QED
      BY <1>3, <3>3, <3>4, <3>5 DEF Working
  <2>3. ASSUME NEW n \in 1 .. Len(requests) PROVE \E k \in Nat : Left(n, k)'
    <3>1. PICK k \in Nat : Left(n, k)
      BY DEF PrefixInv
    <3>2. ASSUME NEW g \in Handler, Busy(g)', job'[g].request = n PROVE Reached(g, k)'
      <4>1. Busy(g) /\ job[g].request = n
        BY <1>3, <3>2, WorkingFacts DEF Busy, Storing
      <4>2. Reached(g, k)
        BY <3>1, <4>1 DEF Left
      <4>3. CASE g = h
        BY <2>2, <4>2, <4>3
      <4>4. CASE g # h
        BY <1>3, <4>2, <4>4, WorkingFacts DEF Reached, Asked
      <4> QED
        BY <4>3, <4>4
    <3>3. requests' = requests
      BY <1>3, WorkingFacts
    <3> QED
      BY <2>1, <3>1, <3>2, <3>3 DEF Left
  <2> QED
    BY <1>3, <2>1, <2>3, WorkingFacts DEF PrefixInv
<1>4. ASSUME NEW h \in Handler, Answering(h), pc[h] \notin {"count", "spans"} => Answer(h, "failed")
      PROVE  PrefixInv'
  <2>0. PICK outcome \in {"accepted", "failed"} :
            Answer(h, outcome) /\ (pc[h] \notin {"count", "spans"} => outcome = "failed")
    BY <1>4 DEF Answering
  <2>1. /\ Busy(h) /\ pc' = [pc EXCEPT ![h] = "idle"] /\ job' = [job EXCEPT ![h] = NoJob]
        /\ Len(requests') = Len(requests) /\ file' = file
        /\ \A m \in 1 .. Len(requests) : m # job[h].request => requests'[m] = requests[m]
        /\ requests'[job[h].request].size = Asked(h).size
        /\ requests'[job[h].request].outcome = outcome
    BY <1>4, <2>0, AnswerFacts DEF Answering
  <2>2. ASSUME NEW n \in 1 .. Len(requests) PROVE \E k \in Nat : Left(n, k)'
    <3>1. PICK k \in Nat : Left(n, k)
      BY DEF PrefixInv
    <3>2. Begins(file, n, k)'
      BY <2>1, <3>1 DEF Left
    <3>3. CASE n # job[h].request
      <4>1. ASSUME NEW g \in Handler, Busy(g)', job'[g].request = n PROVE Reached(g, k)'
        <5>1. g # h /\ pc'[g] = pc[g] /\ job'[g] = job[g]
          BY <1>a, <2>1, <4>1 DEF Busy
        <5> QED
          BY <2>1, <3>1, <3>3, <4>1, <5>1 DEF Left, Reached, Asked, Busy
      <4> QED
        BY <2>1, <3>1, <3>2, <3>3, <4>1 DEF Left
    <3>4. CASE n = job[h].request
      <4>1. Reached(h, k) /\ k \in 0 .. Asked(h).size
        BY <2>1, <3>1, <3>4 DEF Left, Asked
      <4>2. outcome = "accepted" => k = Asked(h).size
        BY <1>a, <2>0, <4>1 DEF Reached, JobOK
      <4>3. \A g \in Handler : ~(Busy(g)' /\ job'[g].request = n)
        BY <1>a, <1>b, <2>1, <3>4 DEF Busy
      <4> QED
        BY <2>0, <2>1, <3>1, <3>2, <3>4, <4>1, <4>2, <4>3 DEF Left
    <3> QED
      BY <3>3, <3>4
  <2> QED
    BY <2>1, <2>2 DEF PrefixInv
<1>5. CASE Refuse
  <2> DEFINE r == [kind |-> "batch", size |-> 1, rejected |-> 0, outcome |-> "refused"]
  <2>1. requests' = Append(requests, r) /\ UNCHANGED <<pc, job, file>>
    BY <1>5 DEF Refuse, Arrives
  <2>2. requests \in Seq(Requests) /\ r \in Requests /\ r.size = 1 /\ r.outcome = "refused"
    BY Known, BoundAssumption DEF Requests
  <2> HIDE DEF r
  <2>3. /\ Len(requests') = Len(requests) + 1
        /\ \A m \in 1 .. Len(requests) : requests'[m] = requests[m]
        /\ requests'[Len(requests) + 1] = r
    BY <2>1, <2>2, AppendProperties
  <2>4. ASSUME NEW n \in 1 .. Len(requests) PROVE \E k \in Nat : Left(n, k)'
    <3>1. PICK k \in Nat : Left(n, k)
      BY DEF PrefixInv
    <3> QED
      BY <2>1, <2>3, <3>1 DEF Left, Reached, Busy, Asked
  <2>5. ASSUME NEW n \in Nat, n = Len(requests) + 1 PROVE Left(n, 0)'
    <3>1. Begins(file, n, 0)
      BY <1>a, <2>5, NoneBegun DEF PrefixInv
    <3>2. Begins(file, n, 0)'
      BY <2>1, <3>1
    <3>3. \A g \in Handler : ~(Busy(g)' /\ job'[g].request = n)
      BY <1>a, <2>1, <2>5 DEF Busy, JobOK
    <3> QED
      BY <2>2, <2>3, <2>5, <3>2, <3>3 DEF Left
  <2>7. \A n \in 1 .. Len(requests') : \E k \in Nat : Left(n, k)'
    <3>1. ASSUME NEW n \in 1 .. Len(requests') PROVE \E k \in Nat : Left(n, k)'
      <4>1. n \in 1 .. Len(requests) \/ (n \in Nat /\ n = Len(requests) + 1)
        BY <1>a, <2>3
      <4>2. 0 \in Nat
        OBVIOUS
      <4> QED
        BY <2>4, <2>5, <4>1, <4>2
    <3> QED
      BY <3>1
  <2>6. \A n \in Nat : n > Len(requests') => Begun(file, n)' = {}
    BY <1>a, <2>1, <2>3 DEF PrefixInv
  <2> QED
    BY <2>6, <2>7 DEF PrefixInv
<1>6. CASE Restart
  <2>1. /\ file' = file /\ Len(requests') = Len(requests)
        /\ \A g \in Handler : ~Busy(g)'
        /\ \A m \in 1 .. Len(requests) :
              /\ requests'[m].size = requests[m].size
              /\ requests'[m].outcome \in {"accepted", "refused"} => requests'[m].outcome = requests[m].outcome
    BY <1>6, RestartFacts DEF Busy
  <2>2. ASSUME NEW n \in 1 .. Len(requests) PROVE \E k \in Nat : Left(n, k)'
    <3>1. PICK k \in Nat : Left(n, k)
      BY DEF PrefixInv
    <3>2. Begins(file, n, k)'
      BY <2>1, <3>1 DEF Left
    <3> QED
      BY <2>1, <3>1, <3>2 DEF Left
  <2> QED
    BY <2>1, <2>2 DEF PrefixInv
<1>7. CASE UNCHANGED vars
  BY <1>7 DEF vars, PrefixInv, Left, Reached, Busy, Asked
<1>8. ASSUME NEW h \in Handler, (Count(h) /\ Asked(h).kind # "otlp") \/ CountSpans(h) \/ WriteError(h)
      PROVE  Answering(h) /\ (pc[h] \notin {"count", "spans"} => Answer(h, "failed"))
  BY <1>8, OtherStepsAnswer DEF Count, CountSpans, WriteError
<1> QED
  BY <1>1, <1>2, <1>3, <1>4, <1>5, <1>6, <1>7, <1>8, StepCases DEF Working

(* So every request has begun a prefix in every state.                      *)
LEMMA PrefixAlways == Spec => []PrefixInv
<1>1. Init => PrefixInv
  <2> SUFFICES ASSUME Init PROVE PrefixInv
    OBVIOUS
  <2>1. Len(requests) = 0 /\ Cells(file) = {}
    <3>1. Len(EmptyFile) = 1 /\ Len(EmptyFile[1]) = 0
      BY DEF EmptyFile
    <3> QED
      BY <3>1 DEF Init, Cells
  <2> QED
    BY <2>1 DEF PrefixInv, Begun
<1> QED
  BY <1>1, PrefixKept, IInvAlways, PTL DEF Spec

(* In a file that can be read, what a request has begun is what is stored.  *)
LEMMA StoredIsBegun ==
    ASSUME TypeOK, Readable(file), NEW n
    PROVE  /\ \A i \in Stored(n) : /\ i \in Nat
                                   /\ <<i, 1>> \in Begun(file, n)
                                   /\ PositionAt(file, <<i, 1>>) = Position(i)
           /\ \A c \in Begun(file, n) : /\ c[1] \in Stored(n)
                                        /\ PositionAt(file, c) = Position(c[1])
<1>1. file \in File(Observation)
  BY DEF TypeOK
<1>2. \A d : FirstPart(d).part = "head" /\ FirstPart(d).document = d
  BY DEF FirstPart
<1>3. ASSUME NEW i \in Stored(n)
      PROVE  /\ i \in Nat
             /\ <<i, 1>> \in Begun(file, n)
             /\ PositionAt(file, <<i, 1>>) = Position(i)
  <2>1. /\ i \in DOMAIN Documents(file) /\ Documents(file)[i].request = n
        /\ <<i, 1>> \in Cells(file) /\ At(file, <<i, 1>>) = FirstPart(Documents(file)[i])
    BY <1>1, ReadableCells DEF Stored, At
  <2>2. i \in Nat
    BY <1>1, <2>1, ReadableLines, FileLines
  <2> QED
    BY <1>2, <2>1, <2>2 DEF Begun, PositionAt, Position
<1>4. ASSUME NEW c \in Begun(file, n)
      PROVE  /\ c[1] \in Stored(n)
             /\ PositionAt(file, c) = Position(c[1])
  <2>1. c \in Cells(file) /\ At(file, c).part = "head" /\ At(file, c).document.request = n
    BY DEF Begun
  <2>2. c[1] \in DOMAIN Documents(file) /\ At(file, c) = FirstPart(Documents(file)[c[1]])
    BY <1>1, <2>1, ReadableCells DEF At
  <2> QED
    BY <1>2, <2>1, <2>2 DEF Stored, PositionAt, Position
<1> QED
  BY <1>3, <1>4

(* Of a file that can be read, a request stored the observations up to the  *)
(* one it came to, once each and in order, whatever was written between     *)
(* them; all of them if it was accepted, and none if it was refused.        *)
THEOREM StoredIsPrefixHolds == Spec => []StoredIsPrefix
<1>1. TypeOK /\ JobsInv /\ PrefixInv => StoredIsPrefix
  <2> SUFFICES ASSUME TypeOK, JobsInv, PrefixInv, Readable(file), NEW n \in 1 .. Len(requests)
               PROVE  \E k \in 0 .. requests[n].size :
                         /\ {Position(i) : i \in Stored(n)} = 1 .. k
                         /\ \A i, j \in Stored(n) : i < j => Position(i) < Position(j)
                         /\ requests[n].outcome = "accepted" => k = requests[n].size
                         /\ requests[n].outcome = "refused" => k = 0
    BY Known DEF StoredIsPrefix
  <2>1. PICK k \in Nat : Left(n, k)
    BY DEF PrefixInv
  <2>2. /\ \A i \in Stored(n) : /\ i \in Nat
                                /\ <<i, 1>> \in Begun(file, n)
                                /\ PositionAt(file, <<i, 1>>) = Position(i)
        /\ \A c \in Begun(file, n) : /\ c[1] \in Stored(n)
                                     /\ PositionAt(file, c) = Position(c[1])
    BY StoredIsBegun
  <2>3. {Position(i) : i \in Stored(n)} = {PositionAt(file, c) : c \in Begun(file, n)}
    BY <2>2
  <2>4. ASSUME NEW i \in Stored(n), NEW j \in Stored(n), i < j PROVE Position(i) < Position(j)
    <3>1. Before(<<i, 1>>, <<j, 1>>)
      BY <2>4 DEF Before
    <3> QED
      BY <2>1, <2>2, <3>1 DEF Left, Begins
  <2> QED
    BY <2>1, <2>3, <2>4 DEF Left, Begins
<1> QED
  BY <1>1, IInvAlways, PrefixAlways, PTL DEF IInv

-----------------------------------------------------------------------------
(* Counting.                                                                *)

(* Sets apart are counted apart.                                            *)
LEMMA CountApart ==
    ASSUME NEW S, NEW T, IsFiniteSet(S), IsFiniteSet(T), S \cap T = {}
    PROVE  IsFiniteSet(S \cup T) /\ Cardinality(S \cup T) = Cardinality(S) + Cardinality(T)
<1>1. Cardinality({}) = 0 /\ Cardinality(S) \in Nat /\ Cardinality(T) \in Nat
  BY FS_EmptySet, FS_CardinalityType
<1>2. Cardinality(S \cup T) = Cardinality(S) + Cardinality(T) - Cardinality(S \cap T)
  BY FS_Union
<1>3. Cardinality(S \cap T) = 0
  BY <1>1
<1> QED
  BY <1>1, <1>2, <1>3, FS_Union

(* A row of k pairs.                                                        *)
LEMMA RowOf ==
    ASSUME NEW x, NEW k \in Nat
    PROVE  IsFiniteSet({x} \X (1 .. k)) /\ Cardinality({x} \X (1 .. k)) = k
<1> DEFINE S == {x}  T == 1 .. k
<1>1. IsFiniteSet(S) /\ Cardinality(S) = 1
  BY FS_Singleton
<1>2. IsFiniteSet(T) /\ Cardinality(T) = k
  BY FS_Interval
<1> HIDE DEF S, T
<1>3. IsFiniteSet(S \X T) /\ Cardinality(S \X T) = Cardinality(S) * Cardinality(T)
  BY <1>1, <1>2, FS_Product
<1>4. Cardinality(S \X T) = k
  BY <1>1, <1>2, <1>3
<1> QED
  BY <1>3, <1>4 DEF S, T

(* As many as its position says have begun.                                 *)
LEMMA BegunCount ==
    ASSUME NEW f \in File(Observation), NEW n, NEW k \in Nat, Begins(f, n, k)
    PROVE  IsFiniteSet(Begun(f, n)) /\ Cardinality(Begun(f, n)) = k
<1> DEFINE B == Begun(f, n)  p == [c \in B |-> PositionAt(f, c)]
<1>1. {PositionAt(f, c) : c \in B} = 1 .. k
  BY DEF Begins
<1>2. p \in [B -> 1 .. k] /\ \A q \in 1 .. k : \E c \in B : p[c] = q
  BY <1>1
<1>3. ASSUME NEW c \in B, NEW e \in B, p[c] = p[e] PROVE c = e
  <2>1. c = e \/ Before(c, e) \/ Before(e, c)
    <3>1. \A b \in B : b = <<b[1], b[2]>> /\ b[1] \in Nat /\ b[2] \in Nat
      BY DEF Begun, Cells
    <3> QED
      BY <3>1 DEF Before
  <2>2. p[c] \in Nat /\ p[e] \in Nat
    BY <1>2
  <2> QED
    BY <1>3, <2>1, <2>2 DEF Begins
<1> HIDE DEF p, B
<1>4. p \in Bijection(B, 1 .. k)
  BY <1>2, <1>3 DEF Bijection, Injection, Surjection, IsInjective
<1>5. ExistsBijection(1 .. k, B)
  BY <1>4, Fun_ExistsBijSymmetric DEF ExistsBijection
<1>6. IsFiniteSet(1 .. k) /\ Cardinality(1 .. k) = k
  BY FS_Interval
<1> QED
  BY <1>5, <1>6, FS_Bijection DEF B

(* The observations begun in the file, those of them whose request is not   *)
(* counted yet, and the spans of counted requests that are not.             *)
Started == {c \in Cells(file) : At(file, c).part = "head"}
Uncounted == {c \in Started : \E h \in Handler : Storing(h) /\ c \in Begun(file, job[h].request)}
SpansUncounted == {s \in Handler \X (1 .. MaxBatch) : pc[s[1]] = "spans" /\ s[2] <= Asked(s[1]).size}

ObservationsInv ==
    /\ IsFiniteSet(Started)
    /\ observations_ingested + Cardinality(Uncounted) <= Cardinality(Started)

SpansInv ==
    /\ otlp_spans_accepted + Cardinality(SpansUncounted) <= observations_ingested
    /\ otlp_spans_accepted + otlp_spans_rejected <= Cardinality(SpansAnswered)

(* An observation is one more begun, and one more to be counted; a count    *)
(* takes all of a request's.                                                *)
LEMMA ObservationsKept == IInv /\ PrefixInv /\ ObservationsInv /\ [Next]_vars => ObservationsInv'
<1> SUFFICES ASSUME TypeOK, JobsInv, PrefixInv, ObservationsInv, [Next]_vars PROVE ObservationsInv'
  BY DEF IInv
<1>a. /\ pc \in [Handler -> PCs] /\ job \in [Handler -> Job \cup {NoJob}]
      /\ \A g \in Handler : JobOK(g)
      /\ Len(requests) \in Nat
      /\ file \in File(Observation) /\ observations_ingested \in Nat
  BY Known DEF TypeOK
<1>b. \A f, g \in Handler : Busy(f) /\ Busy(g) /\ job[f].request = job[g].request => f = g
  BY DEF JobsInv
<1>c. /\ IsFiniteSet(Started) /\ IsFiniteSet(Uncounted) /\ Uncounted \subseteq Started
      /\ Cardinality(Started) \in Nat /\ Cardinality(Uncounted) \in Nat
      /\ observations_ingested + Cardinality(Uncounted) <= Cardinality(Started)
  BY FS_Subset, FS_CardinalityType DEF ObservationsInv, Uncounted
<1>d. ASSUME UNCHANGED file PROVE Started' = Started /\ \A n : Begun(file', n) = Begun(file, n)
  BY <1>d DEF Started
<1>e. ASSUME UNCHANGED <<file, observations_ingested>>, Uncounted' \subseteq Uncounted PROVE ObservationsInv'
  <2>1. IsFiniteSet(Uncounted') /\ Cardinality(Uncounted') <= Cardinality(Uncounted)
    BY <1>c, <1>e, FS_Subset
  <2>2. Cardinality(Uncounted') \in Nat
    BY <2>1, FS_CardinalityType
  <2> QED
    BY <1>a, <1>c, <1>d, <1>e, <2>1, <2>2 DEF ObservationsInv
<1>1. ASSUME NEW h \in Handler, NEW request, Taken(h, request) PROVE ObservationsInv'
  <2>1. /\ job'[h].request = Len(requests) + 1 /\ file' = file
        /\ \A g \in Handler : g # h => pc'[g] = pc[g] /\ job'[g] = job[g]
        /\ UNCHANGED observations_ingested
    BY <1>a, <1>1, TakenFacts
  <2>2. Begun(file, Len(requests) + 1) = {}
    BY <1>a DEF PrefixInv
  <2>3. Uncounted' \subseteq Uncounted
    BY <1>d, <2>1, <2>2 DEF Uncounted, Storing
  <2> QED
    BY <1>e, <2>1, <2>3
<1>2. ASSUME NEW h \in Handler, WriteHead(h) PROVE ObservationsInv'
  <2> DEFINE d == Current(h)  c0 == NextCell(file)
  <2>1. /\ pc[h] = "head" /\ pc' = [pc EXCEPT ![h] = "tail"]
        /\ UNCHANGED <<job, observations_ingested>>
        /\ file' = Written(file, FirstPart(d))
    BY <1>2 DEF WriteHead
  <2>2. d \in Observation /\ d.request = job[h].request
    BY <2>1, CurrentType DEF Current, Busy
  <2>3. /\ \A n : n # job[h].request => Begun(file', n) = Begun(file, n)
        /\ Begun(file', job[h].request) = Begun(file, job[h].request) \cup {c0}
        /\ Started' = Started \cup {c0} /\ c0 \notin Started
    <3> DEFINE new == Written(file, FirstPart(d))
    <3>1. /\ \A n : n # d.request => Begun(new, n) = Begun(file, n)
          /\ Begun(new, d.request) = Begun(file, d.request) \cup {c0}
      BY <1>a, <2>2, HeadBegins
    <3>2. /\ Cells(new) = Cells(file) \cup {c0} /\ c0 \notin Cells(file)
          /\ At(new, c0) = FirstPart(d)
          /\ \A c \in Cells(file) : At(new, c) = At(file, c)
      BY <1>a, <2>2, PartsArePieces, WrittenCells DEF At
    <3>3. FirstPart(d).part = "head"
      BY DEF FirstPart
    <3>4. file' = new
      BY <2>1
    <3> HIDE DEF new, c0, d
    <3>5. {c \in Cells(new) : At(new, c).part = "head"} = Started \cup {c0} /\ c0 \notin Started
      BY <3>2, <3>3 DEF Started
    <3> QED
      BY <2>2, <3>1, <3>4, <3>5 DEF Started
  <2> HIDE DEF d, c0
  <2>4. Uncounted' = Uncounted \cup {c0}
    <3>1. \A g \in Handler : Storing(g)' <=> Storing(g)
      BY <1>a, <2>1 DEF Storing
    <3>2. Storing(h)
      BY <2>1 DEF Storing
    <3>3. \A g \in Handler : Storing(g) /\ job[g].request = job[h].request => g = h
      BY <1>b, <3>2 DEF Storing, Busy
    <3> QED
      BY <2>1, <2>3, <3>1, <3>2, <3>3 DEF Uncounted
  <2>5. /\ IsFiniteSet(Started') /\ Cardinality(Started') = Cardinality(Started) + 1
        /\ Cardinality(Uncounted') = Cardinality(Uncounted) + 1
    BY <1>c, <2>3, <2>4, FS_AddElement
  <2> QED
    BY <1>a, <1>c, <2>1, <2>5 DEF ObservationsInv
<1>3. ASSUME NEW h \in Handler, WriteTail(h) \/ WriteNewline(h) PROVE ObservationsInv'
  <2>1. \A n : Begun(file', n) = Begun(file, n)
    <3>1. (\E d \in Observation : file' = Written(file, SecondPart(d))) \/ file' = Terminated(file)
      BY <1>3, CurrentType DEF WriteTail, WriteNewline, Busy
    <3>2. \A new : (\E d \in Observation : new = Written(file, SecondPart(d))) \/ new = Terminated(file)
                    => \A n : Begun(new, n) = Begun(file, n)
      BY <1>a, RestBeginsNothing
    <3> QED
      BY <3>1, <3>2
  <2>2. Started' = Started
    <3>1. \A c : c \in Started <=> \E n : c \in Begun(file, n)
      BY DEF Started, Begun
    <3>2. \A c : c \in Started' <=> \E n : c \in Begun(file', n)
      BY DEF Started, Begun
    <3>3. \A c : c \in Started' <=> c \in Started
      BY <2>1, <3>1, <3>2
    <3> QED
      BY <3>3 DEF Started
  <2>3. /\ \A g \in Handler : (Storing(g)' <=> Storing(g)) /\ job'[g].request = job[g].request
        /\ UNCHANGED observations_ingested
    BY <1>3, WorkingFacts DEF Working, Storing, WriteTail, WriteNewline
  <2>4. Uncounted' = Uncounted
    BY <2>1, <2>2, <2>3 DEF Uncounted
  <2> QED
    BY <2>2, <2>3, <2>4 DEF ObservationsInv
<1>4. ASSUME NEW h \in Handler, Count(h) PROVE ObservationsInv'
  <2> DEFINE n == job[h].request
  <2>1. /\ pc[h] = "count" /\ pc'[h] \in {"idle", "spans"} /\ file' = file
        /\ observations_ingested' = observations_ingested + Asked(h).size
        /\ \A g \in Handler : g # h => pc'[g] = pc[g] /\ job'[g] = job[g]
    BY <1>a, <1>4 DEF Count, Answer
  <2>2. /\ n \in 1 .. Len(requests) /\ Storing(h) /\ Busy(h)
        /\ job[h].next = Asked(h).size /\ Asked(h).size \in Nat
    BY <1>a, <2>1, BoundAssumption DEF JobOK, Busy, Storing, Requests
  <2>3. PICK k \in Nat : Left(n, k)
    BY <2>2 DEF PrefixInv
  <2>4. k = Asked(h).size /\ Begins(file, n, k)
    BY <2>1, <2>2, <2>3 DEF Left, Reached
  <2>5. IsFiniteSet(Begun(file, n)) /\ Cardinality(Begun(file, n)) = Asked(h).size
    BY <1>a, <2>4, BegunCount
  <2>6. Begun(file, n) \subseteq Uncounted
    BY <2>2 DEF Uncounted, Started, Begun
  <2>7. Uncounted' \subseteq Uncounted \ Begun(file, n)
    <3>1. \A g \in Handler : Storing(g)' => g # h /\ Storing(g) /\ job'[g] = job[g]
      BY <2>1 DEF Storing
    <3>2. \A g \in Handler : Storing(g) /\ g # h => job[g].request # n
      BY <1>b, <2>2 DEF Storing, Busy
    <3>3. \A g \in Handler : job[g].request # n => Begun(file, n) \cap Begun(file, job[g].request) = {}
      BY DEF Begun
    <3> HIDE DEF n
    <3> QED
      BY <1>d, <2>1, <3>1, <3>2, <3>3 DEF Uncounted
  <2> HIDE DEF n
  <2>8. /\ IsFiniteSet(Uncounted \ Begun(file, n))
        /\ Cardinality(Uncounted \ Begun(file, n)) = Cardinality(Uncounted) - Asked(h).size
    <3>1. Uncounted \cap Begun(file, n) = Begun(file, n)
      BY <2>6
    <3>2. /\ IsFiniteSet(Uncounted \ Begun(file, n))
          /\ Cardinality(Uncounted \ Begun(file, n))
                = Cardinality(Uncounted) - Cardinality(Uncounted \cap Begun(file, n))
      BY <1>c, FS_Difference
    <3> QED
      BY <2>5, <3>1, <3>2
  <2>9. Cardinality(Uncounted') <= Cardinality(Uncounted) - Asked(h).size /\ IsFiniteSet(Uncounted')
    BY <2>7, <2>8, FS_Subset
  <2>10. Cardinality(Uncounted') \in Nat
    BY <2>9, FS_CardinalityType
  <2> QED
    BY <1>a, <1>c, <1>d, <2>1, <2>2, <2>9, <2>10 DEF ObservationsInv
<1>5. ASSUME NEW h \in Handler, CountSpans(h) \/ WriteError(h) PROVE ObservationsInv'
  <2>1. /\ pc'[h] = "idle" /\ \A g \in Handler : g # h => pc'[g] = pc[g] /\ job'[g] = job[g]
        /\ UNCHANGED <<file, observations_ingested>>
    BY <1>a, <1>5 DEF CountSpans, WriteError, Answer
  <2>2. Uncounted' \subseteq Uncounted
    BY <1>d, <2>1 DEF Uncounted, Storing
  <2> QED
    BY <1>e, <2>1, <2>2
<1>6. CASE Refuse \/ UNCHANGED vars
  <2>1. UNCHANGED <<file, observations_ingested, pc, job>>
    BY <1>6 DEF Refuse, vars
  <2>2. Uncounted' = Uncounted
    BY <1>d, <2>1 DEF Uncounted, Storing
  <2> QED
    BY <1>e, <2>1, <2>2
<1>7. CASE Restart
  <2>1. /\ file' = file /\ observations_ingested' = 0
        /\ \A g \in Handler : pc'[g] = "idle"
    BY <1>7 DEF Restart
  <2>2. Uncounted' = {}
    BY <2>1 DEF Uncounted, Storing
  <2>3. Cardinality(Uncounted') = 0
    BY <2>2, FS_EmptySet
  <2> QED
    BY <1>c, <1>d, <2>1, <2>3 DEF ObservationsInv
<1> QED
  BY <1>1, <1>2, <1>3, <1>4, <1>5, <1>6, <1>7, StepCases

(* Both sets of spans are finite, and the second grows only when a trace is *)
(* accepted.                                                                *)
LEMMA SpansFinite ==
    ASSUME TypeOK, JobsInv
    PROVE  /\ IsFiniteSet(SpansUncounted) /\ Cardinality(SpansUncounted) \in Nat
           /\ IsFiniteSet(SpansAnswered) /\ Cardinality(SpansAnswered) \in Nat
<1>1. IsFiniteSet(Handler \X (1 .. MaxBatch)) /\ IsFiniteSet((1 .. Len(requests)) \X (1 .. 2 * MaxBatch))
  <2>1. Len(requests) \in Int /\ MaxBatch \in Int
    BY Known, BoundAssumption
  <2>2. IsFiniteSet(1 .. MaxBatch) /\ IsFiniteSet(1 .. Len(requests)) /\ IsFiniteSet(1 .. 2 * MaxBatch)
    BY <2>1, FS_Interval
  <2> QED
    BY <2>2, HandlerAssumption, FS_Product
<1>2. SpansUncounted \subseteq Handler \X (1 .. MaxBatch)
  BY DEF SpansUncounted
<1>3. SpansAnswered \subseteq (1 .. Len(requests)) \X (1 .. 2 * MaxBatch)
  BY DEF SpansAnswered
<1>4. IsFiniteSet(SpansUncounted) /\ IsFiniteSet(SpansAnswered)
  BY <1>1, <1>2, <1>3, FS_Subset
<1> QED
  BY <1>4, FS_CardinalityType

(* Answers other than of accepted traces leave what traces were told.       *)
LEMMA SpansAnsweredKept ==
    ASSUME TypeOK, JobsInv,
           Len(requests') \in Nat, Len(requests') >= Len(requests),
           \A m \in 1 .. Len(requests) :
              /\ requests'[m].kind = requests[m].kind
              /\ requests'[m].size = requests[m].size
              /\ requests'[m].rejected = requests[m].rejected
              /\ requests[m].kind = "otlp" =>
                    (requests'[m].outcome = "accepted" <=> requests[m].outcome = "accepted"),
           \A m \in 1 .. Len(requests') : m > Len(requests) => requests'[m].outcome # "accepted"
    PROVE  SpansAnswered' = SpansAnswered
<1>1. Len(requests) \in Nat
  BY Known
<1>2. \A m \in 1 .. Len(requests') : m \in 1 .. Len(requests) \/ m > Len(requests)
  BY <1>1
<1>3. \A m \in 1 .. Len(requests) : m \in 1 .. Len(requests')
  BY <1>1
<1>4. \A s : s \in SpansAnswered' <=> s \in SpansAnswered
  BY <1>2, <1>3 DEF SpansAnswered
<1> QED
  BY <1>4

(* A trace's spans are counted as accepted after they are as observations,  *)
(* and when its client is told.                                             *)
LEMMA SpansKept == IInv /\ SpansInv /\ [Next]_vars => SpansInv'
<1> SUFFICES ASSUME TypeOK, JobsInv, SpansInv, [Next]_vars PROVE SpansInv'
  BY DEF IInv
<1>a. /\ pc \in [Handler -> PCs] /\ job \in [Handler -> Job \cup {NoJob}]
      /\ \A g \in Handler : JobOK(g)
      /\ Len(requests) \in Nat
      /\ otlp_spans_accepted \in Nat /\ otlp_spans_rejected \in Nat /\ observations_ingested \in Nat
  BY Known DEF TypeOK
<1>b. \A f, g \in Handler : Busy(f) /\ Busy(g) /\ job[f].request = job[g].request => f = g
  BY DEF JobsInv
<1>c. /\ IsFiniteSet(SpansUncounted) /\ Cardinality(SpansUncounted) \in Nat
      /\ IsFiniteSet(SpansAnswered) /\ Cardinality(SpansAnswered) \in Nat
      /\ otlp_spans_accepted + Cardinality(SpansUncounted) <= observations_ingested
      /\ otlp_spans_accepted + otlp_spans_rejected <= Cardinality(SpansAnswered)
  BY SpansFinite DEF SpansInv
<1>d. ASSUME UNCHANGED <<otlp_spans_accepted, otlp_spans_rejected>>,
             observations_ingested' \in Nat, observations_ingested' >= observations_ingested,
             SpansUncounted' \subseteq SpansUncounted, SpansAnswered' = SpansAnswered
      PROVE  SpansInv'
  <2>1. IsFiniteSet(SpansUncounted') /\ Cardinality(SpansUncounted') <= Cardinality(SpansUncounted)
    BY <1>c, <1>d, FS_Subset
  <2>2. Cardinality(SpansUncounted') \in Nat
    BY <2>1, FS_CardinalityType
  <2> QED
    BY <1>a, <1>c, <1>d, <2>1, <2>2 DEF SpansInv
<1>1. ASSUME NEW h \in Handler, NEW request, Taken(h, request) PROVE SpansInv'
  <2>1. /\ pc'[h] = IF request.size > 0 THEN "head" ELSE "spans"
        /\ job'[h].request = Len(requests) + 1
        /\ \A g \in Handler : g # h => pc'[g] = pc[g] /\ job'[g] = job[g]
        /\ Len(requests') = Len(requests) + 1
        /\ \A m \in 1 .. Len(requests) : requests'[m] = requests[m]
        /\ requests'[Len(requests) + 1] = request
        /\ UNCHANGED <<observations_ingested, otlp_spans_accepted, otlp_spans_rejected>>
    BY <1>a, <1>1, TakenFacts
  <2>2. request.size \in Nat /\ request.outcome = "open"
    BY <1>1, BoundAssumption DEF Taken, Requests
  <2>3. \A g \in Handler : g # h /\ pc[g] = "spans" => Asked(g)' = Asked(g)
    BY <1>a, <2>1 DEF Asked, JobOK, Busy
  <2>4. pc'[h] = "spans" => Asked(h)'.size = 0
    BY <2>1, <2>2 DEF Asked
  <2>5. SpansUncounted' \subseteq SpansUncounted
    BY <2>1, <2>3, <2>4 DEF SpansUncounted
  <2>6. SpansAnswered' = SpansAnswered
    BY <1>a, <2>1, <2>2, SpansAnsweredKept
  <2> QED
    BY <1>a, <1>d, <2>1, <2>5, <2>6
<1>2. ASSUME NEW h \in Handler, WriteHead(h) \/ WriteTail(h) \/ WriteNewline(h) PROVE SpansInv'
  <2>1. /\ UNCHANGED <<requests, observations_ingested, otlp_spans_accepted, otlp_spans_rejected>>
        /\ pc'[h] # "spans"
        /\ \A g \in Handler : g # h => pc'[g] = pc[g] /\ job'[g] = job[g]
    BY <1>a, <1>2 DEF WriteHead, WriteTail, WriteNewline, spans
  <2>2. SpansUncounted' \subseteq SpansUncounted
    BY <2>1 DEF SpansUncounted, Asked
  <2>3. SpansAnswered' = SpansAnswered
    BY <2>1 DEF SpansAnswered
  <2> QED
    BY <1>a, <1>d, <2>1, <2>2, <2>3
<1>3. ASSUME NEW h \in Handler, Count(h), Asked(h).kind = "otlp" PROVE SpansInv'
  <2>1. /\ pc[h] = "count" /\ pc' = [pc EXCEPT ![h] = "spans"]
        /\ UNCHANGED <<job, requests, otlp_spans_accepted, otlp_spans_rejected>>
        /\ observations_ingested' = observations_ingested + Asked(h).size
    BY <1>3 DEF Count, spans
  <2>2. Asked(h).size \in Nat /\ Asked(h).size <= MaxBatch
    BY <1>a, <2>1, BoundAssumption DEF JobOK, Busy, Requests
  <2> DEFINE Row == {h} \X (1 .. Asked(h).size)
  <2>3. IsFiniteSet(Row) /\ Cardinality(Row) = Asked(h).size
    BY <2>2, RowOf
  <2>4. SpansUncounted' = SpansUncounted \cup Row /\ SpansUncounted \cap Row = {}
    BY <1>a, <2>1, <2>2, BoundAssumption DEF SpansUncounted, Asked
  <2> HIDE DEF Row
  <2>5. Cardinality(SpansUncounted') = Cardinality(SpansUncounted) + Asked(h).size
    BY <1>c, <2>3, <2>4, CountApart
  <2>6. SpansAnswered' = SpansAnswered
    BY <2>1 DEF SpansAnswered
  <2> QED
    BY <1>a, <1>c, <2>1, <2>2, <2>5, <2>6 DEF SpansInv
<1>4. ASSUME NEW h \in Handler, (Count(h) /\ Asked(h).kind # "otlp") \/ WriteError(h) PROVE SpansInv'
  <2>0. PICK outcome \in {"accepted", "failed"} : Answer(h, outcome)
    BY <1>4 DEF Count, WriteError
  <2>1. /\ Busy(h) /\ pc' = [pc EXCEPT ![h] = "idle"] /\ job' = [job EXCEPT ![h] = NoJob]
        /\ Len(requests') = Len(requests)
        /\ \A m \in 1 .. Len(requests) : m # job[h].request => requests'[m] = requests[m]
        /\ requests'[job[h].request].kind = Asked(h).kind
        /\ requests'[job[h].request].size = Asked(h).size
        /\ requests'[job[h].request].rejected = Asked(h).rejected
        /\ requests'[job[h].request].outcome = outcome
    BY <1>4, <2>0, OtherStepsAnswer, AnswerFacts DEF Answering
  <2>2. /\ Asked(h).size \in Nat /\ Asked(h).outcome = "open" /\ job[h].request \in 1 .. Len(requests)
        /\ UNCHANGED <<otlp_spans_accepted, otlp_spans_rejected>>
        /\ observations_ingested' \in {observations_ingested, observations_ingested + Asked(h).size}
        /\ Asked(h).kind = "otlp" => outcome = "failed"
    <3>1. Asked(h).size \in Nat /\ Asked(h).outcome = "open" /\ job[h].request \in 1 .. Len(requests)
      BY <1>a, <2>1, BoundAssumption DEF JobOK, Requests
    <3>2. CASE Count(h) /\ Asked(h).kind # "otlp"
      BY <3>1, <3>2 DEF Count, spans
    <3>3. CASE WriteError(h)
      <4>1. UNCHANGED <<otlp_spans_accepted, otlp_spans_rejected, observations_ingested>> /\ Answer(h, "failed")
        BY <3>3 DEF WriteError, spans
      <4>2. requests'[job[h].request].outcome = "failed"
        BY <2>1, <4>1, AnswerFacts
      <4> QED
        BY <2>1, <3>1, <4>1, <4>2
    <3> QED
      BY <1>4, <3>2, <3>3
  <2>3. \A g \in Handler : g # h => pc'[g] = pc[g] /\ job'[g] = job[g] /\ (Busy(g) => Asked(g)' = Asked(g))
    BY <1>a, <1>b, <2>1 DEF JobOK, Asked
  <2>4. SpansUncounted' \subseteq SpansUncounted
    BY <1>a, <2>1, <2>3 DEF SpansUncounted, Busy
  <2>5. SpansAnswered' = SpansAnswered
    <3>1. \A m \in 1 .. Len(requests) :
              /\ requests'[m].kind = requests[m].kind
              /\ requests'[m].size = requests[m].size
              /\ requests'[m].rejected = requests[m].rejected
              /\ requests[m].kind = "otlp" =>
                    (requests'[m].outcome = "accepted" <=> requests[m].outcome = "accepted")
      BY <2>1, <2>2 DEF Asked
    <3> QED
      BY <1>a, <2>1, <3>1, SpansAnsweredKept
  <2>6. observations_ingested' \in Nat /\ observations_ingested' >= observations_ingested
    BY <1>a, <2>2
  <2> QED
    BY <1>d, <2>2, <2>4, <2>5, <2>6
<1>5. ASSUME NEW h \in Handler, CountSpans(h) PROVE SpansInv'
  <2> DEFINE n == job[h].request  told == Asked(h).size + Asked(h).rejected
  <2>0. Answer(h, "accepted") /\ pc[h] = "spans"
    BY <1>5 DEF CountSpans
  <2>1. /\ Busy(h) /\ pc' = [pc EXCEPT ![h] = "idle"] /\ job' = [job EXCEPT ![h] = NoJob]
        /\ Len(requests') = Len(requests)
        /\ \A m \in 1 .. Len(requests) : m # n => requests'[m] = requests[m]
        /\ requests'[n].kind = Asked(h).kind
        /\ requests'[n].size = Asked(h).size
        /\ requests'[n].rejected = Asked(h).rejected
        /\ requests'[n].outcome = "accepted"
    BY <2>0, AnswerFacts DEF Busy
  <2>2. /\ Asked(h).size \in Nat /\ Asked(h).size <= MaxBatch
        /\ Asked(h).rejected \in Nat /\ Asked(h).rejected <= MaxBatch
        /\ Asked(h).outcome = "open" /\ Asked(h).kind = "otlp" /\ n \in 1 .. Len(requests)
        /\ Asked(h) = requests[n] /\ MaxBatch \in Nat
    BY <1>a, <2>0, <2>1, BoundAssumption DEF JobOK, Requests, Asked
  <2>3. /\ otlp_spans_accepted' = otlp_spans_accepted + Asked(h).size
        /\ otlp_spans_rejected' = otlp_spans_rejected + Asked(h).rejected
        /\ UNCHANGED observations_ingested
    BY <1>5 DEF CountSpans
  <2> DEFINE Row == {h} \X (1 .. Asked(h).size)  Told == {n} \X (1 .. told)
  <2>4. /\ IsFiniteSet(Row) /\ Cardinality(Row) = Asked(h).size
        /\ IsFiniteSet(Told) /\ Cardinality(Told) = told
        /\ told \in Nat
    <3>1. told \in Nat
      BY <2>2
    <3>2. IsFiniteSet(Row) /\ Cardinality(Row) = Asked(h).size
      BY <2>2, RowOf
    <3> HIDE DEF told
    <3>3. IsFiniteSet(Told) /\ Cardinality(Told) = told
      BY <3>1, RowOf
    <3> QED
      BY <3>1, <3>2, <3>3
  <2>5. SpansUncounted' = SpansUncounted \ Row /\ Row \subseteq SpansUncounted
    <3>1. \A g \in Handler : g # h => pc'[g] = pc[g] /\ job'[g] = job[g] /\ (Busy(g) => Asked(g)' = Asked(g))
      BY <1>a, <1>b, <2>1 DEF JobOK, Asked
    <3>2. Row \subseteq SpansUncounted
      BY <2>0, <2>2 DEF SpansUncounted
    <3>3. \A s \in SpansUncounted : s[1] = h => s \in Row
      BY <2>2 DEF SpansUncounted
    <3>4. \A s \in Row : s[1] = h
      OBVIOUS
    <3> HIDE DEF Row
    <3>5. \A s : s \in SpansUncounted' <=> s \in SpansUncounted \ Row
      BY <1>a, <2>1, <3>1, <3>3, <3>4 DEF SpansUncounted, Busy
    <3> QED
      BY <3>2, <3>5
  <2>6. SpansAnswered' = SpansAnswered \cup Told /\ SpansAnswered \cap Told = {}
    <3>1. SpansAnswered \cap Told = {}
      BY <2>2 DEF SpansAnswered
    <3>2. \A s : s \in Told <=> /\ s \in (1 .. Len(requests)) \X (1 .. 2 * MaxBatch)
                                /\ s[1] = n /\ s[2] <= told
      BY <1>a, <2>2
    <3> HIDE DEF Told, n
    <3>3. \A s : s \in SpansAnswered' <=> s \in SpansAnswered \cup Told
      BY <2>1, <2>2, <3>2, SMTT(30) DEF SpansAnswered
    <3> QED
      BY <3>1, <3>3
  <2> HIDE DEF Row, Told
  <2>7. Cardinality(SpansUncounted') = Cardinality(SpansUncounted) - Asked(h).size
    <3>1. SpansUncounted \cap Row = Row
      BY <2>5
    <3>2. Cardinality(SpansUncounted \ Row)
              = Cardinality(SpansUncounted) - Cardinality(SpansUncounted \cap Row)
      BY <1>c, FS_Difference
    <3> QED
      BY <2>4, <2>5, <3>1, <3>2
  <2>8. Cardinality(SpansAnswered') = Cardinality(SpansAnswered) + told
    BY <1>c, <2>4, <2>6, CountApart
  <2>9. otlp_spans_accepted' + Cardinality(SpansUncounted') <= observations_ingested'
    BY <1>a, <1>c, <2>2, <2>3, <2>7, SMTT(30)
  <2>10. otlp_spans_accepted' + otlp_spans_rejected' <= Cardinality(SpansAnswered')
    <3>1. PICK size \in Nat, rejected \in Nat : size = Asked(h).size /\ rejected = Asked(h).rejected
      BY <2>2
    <3>2. /\ otlp_spans_accepted' = otlp_spans_accepted + size
          /\ otlp_spans_rejected' = otlp_spans_rejected + rejected
          /\ Cardinality(SpansAnswered') = Cardinality(SpansAnswered) + (size + rejected)
      BY <2>3, <2>8, <3>1
    <3>3. /\ otlp_spans_accepted \in Nat /\ otlp_spans_rejected \in Nat
          /\ Cardinality(SpansAnswered) \in Nat
          /\ otlp_spans_accepted + otlp_spans_rejected <= Cardinality(SpansAnswered)
      BY <1>a, <1>c
    <3> QED
      BY <3>1, <3>2, <3>3
  <2> QED
    BY <2>9, <2>10 DEF SpansInv
<1>6. CASE Refuse
  <2> DEFINE r == [kind |-> "batch", size |-> 1, rejected |-> 0, outcome |-> "refused"]
  <2>1. /\ requests' = Append(requests, r)
        /\ UNCHANGED <<pc, job, observations_ingested, otlp_spans_accepted, otlp_spans_rejected>>
    BY <1>6 DEF Refuse, Arrives, spans
  <2>2. requests \in Seq(Requests) /\ r \in Requests /\ r.outcome # "accepted"
    BY Known, BoundAssumption DEF Requests
  <2> HIDE DEF r
  <2>3. /\ Len(requests') = Len(requests) + 1
        /\ \A m \in 1 .. Len(requests) : requests'[m] = requests[m]
        /\ requests'[Len(requests) + 1] = r
    BY <2>1, <2>2, AppendProperties
  <2>4. SpansAnswered' = SpansAnswered
    BY <1>a, <2>2, <2>3, SpansAnsweredKept
  <2>5. SpansUncounted' \subseteq SpansUncounted
    BY <1>a, <2>1, <2>3 DEF SpansUncounted, Asked, JobOK, Busy
  <2> QED
    BY <1>a, <1>d, <2>1, <2>4, <2>5
<1>7. CASE Restart
  <2>1. /\ otlp_spans_accepted' = 0 /\ otlp_spans_rejected' = 0 /\ observations_ingested' = 0
        /\ \A g \in Handler : pc'[g] = "idle"
    BY <1>7 DEF Restart
  <2>2. Cardinality(SpansUncounted') = 0
    <3>1. SpansUncounted' = {}
      BY <2>1 DEF SpansUncounted
    <3> QED
      BY <3>1, FS_EmptySet
  <2>3. SpansAnswered' = SpansAnswered
    <3>1. /\ Len(requests') = Len(requests)
          /\ \A m \in 1 .. Len(requests) :
                /\ requests'[m].kind = requests[m].kind
                /\ requests'[m].size = requests[m].size
                /\ requests'[m].rejected = requests[m].rejected
                /\ (requests'[m].outcome = "accepted" <=> requests[m].outcome = "accepted")
      BY <1>7, RestartFacts
    <3> QED
      BY <1>a, <3>1, SpansAnsweredKept
  <2> QED
    BY <1>c, <2>1, <2>2, <2>3 DEF SpansInv
<1>8. CASE UNCHANGED vars
  <2>1. UNCHANGED <<pc, job, requests, observations_ingested, otlp_spans_accepted, otlp_spans_rejected>>
    BY <1>8 DEF vars, spans
  <2>2. SpansUncounted' = SpansUncounted /\ SpansAnswered' = SpansAnswered
    BY <2>1 DEF SpansUncounted, SpansAnswered, Asked
  <2> QED
    BY <1>a, <1>d, <2>1, <2>2
<1> QED
  BY <1>1, <1>2, <1>3, <1>4, <1>5, <1>6, <1>7, <1>8, StepCases

(* Nothing is counted yet.                                                  *)
LEMMA CountsInitially == Init => ObservationsInv /\ SpansInv
<1> SUFFICES ASSUME Init PROVE ObservationsInv /\ SpansInv
  OBVIOUS
<1>1. TypeOK /\ JobsInv
  BY IInvInitially DEF IInv
<1>2. Started = {} /\ Uncounted = {} /\ SpansUncounted = {} /\ SpansAnswered = {}
  <2>1. Len(EmptyFile) = 1 /\ Len(EmptyFile[1]) = 0
    BY DEF EmptyFile
  <2>2. Started = {}
    BY <2>1 DEF Started, Init, Cells
  <2> QED
    BY <2>2 DEF Init, Uncounted, SpansUncounted, SpansAnswered
<1>3. Cardinality({}) = 0 /\ IsFiniteSet({})
  BY FS_EmptySet
<1> QED
  BY <1>2, <1>3 DEF Init, ObservationsInv, SpansInv

(* The counters of /metrics never run ahead of the store: an observation is *)
(* counted when it is in the file, a span when its observation is, and no   *)
(* client was told of fewer spans than are counted.                         *)
THEOREM CountedIsStoredHolds == Spec => []CountedIsStored
<1>1. TypeOK /\ JobsInv /\ ObservationsInv /\ SpansInv => CountedIsStored
  <2> SUFFICES ASSUME TypeOK, JobsInv, ObservationsInv, SpansInv PROVE CountedIsStored
    OBVIOUS
  <2>1. /\ otlp_spans_accepted <= observations_ingested
        /\ otlp_spans_accepted + otlp_spans_rejected <= Cardinality(SpansAnswered)
    BY SpansFinite DEF SpansInv, TypeOK
  <2>2. ASSUME Readable(file) PROVE observations_ingested <= Len(Documents(file))
    <3> DEFINE f == [c \in Started |-> c[1]]  L == Len(Documents(file))
    <3>1. file \in File(Observation)
      BY DEF TypeOK
    <3>2. DOMAIN Documents(file) = 1 .. L /\ L \in Nat
      <4>1. Len(Lines(file)) \in Nat /\ DOMAIN Documents(file) = 1 .. Len(Lines(file))
        BY <2>2, <3>1, ReadableLines, FileLines
      <4> QED
        BY <4>1 DEF Documents
    <3>3. \A c \in Started : c = <<c[1], 1>> /\ c[1] \in 1 .. L
      BY <2>2, <3>1, <3>2, ReadableCells DEF Started, At
    <3> HIDE DEF L
    <3>4. IsFiniteSet(1 .. L) /\ Cardinality(1 .. L) = L
      BY <3>2, FS_Interval
    <3>5. f \in Injection(Started, 1 .. L)
      BY <3>3 DEF Injection, IsInjective
    <3>6. Cardinality(Started) <= L
      BY <3>4, <3>5, FS_Injection
    <3>7. IsFiniteSet(Uncounted) /\ Cardinality(Uncounted) \in Nat /\ Cardinality(Started) \in Nat
      BY FS_Subset, FS_CardinalityType DEF ObservationsInv, Uncounted
    <3>8. L \in Nat /\ observations_ingested \in Nat
      BY <3>2 DEF TypeOK, L
    <3> QED
      BY <3>6, <3>7, <3>8 DEF ObservationsInv, L
  <2> QED
    BY <2>1, <2>2 DEF CountedIsStored
<1> QED
  BY <1>1, CountsInitially, ObservationsKept, SpansKept, IInvAlways, PrefixAlways, PTL DEF Spec, IInv
=============================================================================
