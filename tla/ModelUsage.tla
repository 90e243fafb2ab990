----------------------------- MODULE ModelUsage -----------------------------
(***************************************************************************)
(* Metered model calls: the handler model_complete with its three effects  *)
(* after a paid call of the provider, the reports of record_usage, the     *)
(* usage ledger both write to, and the quote made from it.                 *)
(*                                                                         *)
(* model_complete awaits only the provider.  A client that goes away then  *)
(* drops the request; after the answer was read only a storage error or    *)
(* the death of the process comes between the steps.  Everything is of one *)
(* tenant: get_many and the ledger never look at another's rows.           *)
(***************************************************************************)
EXTENDS Billing, FiniteSets, Sequences

CONSTANTS
    EvidenceId,      \* IDs of observations a request may name
    Tokens,          \* input_tokens + output_tokens of an answer
    Reported,        \* quantities sent to POST /v1/usage
    StartDates,      \* dates on which the service may start
    Months,          \* bound: months that are metered, and reported by clients
    MaxTicks,        \* bound: days that pass
    MaxCalls,        \* bound: requests to model_complete
    MaxRequests,     \* bound: requests to model_complete and record_usage
    MaxIngests,      \* bound: observations written under evidence IDs
    MaxFaults        \* bound: storage errors and restarts

Month(d) == <<d.year, d.month>>

Dates == {d \in [year : Nat, month : 1 .. 12, day : 1 .. 31] :
             d.year >= 1970 /\ d.day <= DaysIn(d.year, d.month)}

ASSUME DateAssumption == \A date \in StartDates : date \in Dates /\ Month(date) \in Months

ASSUME MonthAssumption == Months \subseteq Nat \X (1 .. 12)

ASSUME EvidenceAssumption == IsFiniteSet(EvidenceId)

ASSUME QuantityAssumption == Reported \subseteq Quantity /\ Tokens \subseteq 0 .. Word \div 2 - 1

ASSUME BoundAssumption == MaxTicks \in Nat

VARIABLES
    store,           \* OBSERVABILITY_STORAGE
    provider,        \* MODEL_PROVIDER_URL and MODEL_API_KEY
    lines,           \* observations the store returns for each evidence ID
    calls,           \* requests to model_complete, in the order they came
    usage_entries,   \* what the usage store adds up to, by kind and period
    usage,           \* state.usage: its copy in memory
    model_calls, observations_ingested,     \* counters of /metrics
    day,             \* the clock
    date,            \* history: its date by the rules of the calendar
    reported,        \* history: exact sum of the reports, by kind and period
    ticks, reports, ingests, faults         \* bounded

clock == <<day, date, ticks>>
ledger == <<usage_entries, usage>>
counters == <<model_calls, observations_ingested>>
vars == <<store, provider, lines, calls, ledger, counters, clock, reported, reports, ingests, faults>>

-----------------------------------------------------------------------------
Kind == {"Observation", "AgentRun", "ModelToken"}
Unread == -1                       \* the API has no answer of the provider
NoMonth == <<0, 0>>

Ledger == [Kind \X Months -> Quantity]

Stage == {"asked", "answered", "observed", "charged", "ok", "failed", "gone"}

Call == [stage : Stage,
         evidence : SUBSET EvidenceId,
         billed : BOOLEAN,              \* the provider did the work
         tokens : Tokens \cup {Unread},
         observed : BOOLEAN,            \* its observation was accepted
         period : Months \cup {NoMonth}, \* of its usage entry
         month : Months \cup {NoMonth}, \* history: month of the calendar at its charge
         available : BOOLEAN,           \* history: all its evidence was there
         hit : BOOLEAN]                 \* history: an error or a death stopped it

TypeOK ==
    /\ store \in {"jsonl", "sqlite"}
    /\ provider \in {"remote", "keyless", "local"}
    /\ lines \in [EvidenceId -> Nat]
    /\ calls \in Seq(Call)
    /\ usage_entries \in Ledger
    /\ usage \in Ledger
    /\ model_calls \in Nat /\ observations_ingested \in Nat
    /\ date \in Dates /\ Month(date) \in Months /\ day = DayNumber(date)
    /\ reported \in [Kind \X Months -> Nat]
    /\ ticks \in 0 .. MaxTicks /\ reports \in Nat /\ ingests \in Nat /\ faults \in Nat

NoUsage == [entry \in Kind \X Months |-> 0]

Init ==
    /\ store \in {"jsonl", "sqlite"}
    /\ provider \in {"remote", "keyless", "local"}
    /\ lines = [e \in EvidenceId |-> 0]
    /\ calls = <<>>
    /\ usage_entries = NoUsage
    /\ usage = NoUsage
    /\ model_calls = 0 /\ observations_ingested = 0
    /\ date \in StartDates
    /\ day = DayNumber(date)
    /\ reported = NoUsage
    /\ ticks = 0 /\ reports = 0 /\ ingests = 0 /\ faults = 0

-----------------------------------------------------------------------------
(* append: the JSONL store keeps a line for each time an ID was sent, and   *)
(* get_many returns them all; SQLite keeps one row.                         *)
BugLines(e) == lines[e] + 1       \* mutant: INSERT on a table without its primary key
Lines(e) == IF store = "jsonl" THEN lines[e] + 1 ELSE 1

Ingest(e) ==
    /\ ingests < MaxIngests
    /\ ingests' = ingests + 1
    /\ lines' = [lines EXCEPT ![e] = Lines(e)]
    /\ observations_ingested' = observations_ingested + 1
    /\ UNCHANGED <<store, provider, calls, ledger, model_calls, clock, reported, reports, faults>>

(* So many units of each element, counted.                                  *)
Units(S, units) == UNION {{e} \X (1 .. units[e]) : e \in S}

(* validated_evidence_ids compares how many observations get_many returned  *)
(* with how many distinct IDs were asked for.                               *)
EvidenceAccepted(ids) == Cardinality(Units(ids, lines)) = Cardinality(ids)
EvidenceThere(ids) == \A e \in ids : lines[e] > 0

(* model_complete up to the provider.  A request whose evidence is refused  *)
(* is answered 400 and changes nothing.                                     *)
Begin(ids, stage, tokens) ==
    /\ Len(calls) < MaxCalls
    /\ Len(calls) + reports < MaxRequests
    /\ EvidenceAccepted(ids)
    /\ calls' = Append(calls, [stage |-> stage, evidence |-> ids, billed |-> FALSE,
                               tokens |-> tokens, observed |-> FALSE, period |-> NoMonth, month |-> NoMonth,
                               available |-> EvidenceThere(ids), hit |-> FALSE])
    /\ model_calls' = model_calls + 1
    /\ UNCHANGED <<store, provider, lines, ledger, observations_ingested, clock, reported,
                   reports, ingests, faults>>

AskProvider(ids) == provider = "remote" /\ Begin(ids, "asked", Unread)

(* MODEL_PROVIDER_URL without MODEL_API_KEY: 500.                           *)
AskWithoutKey(ids) == provider = "keyless" /\ Begin(ids, "failed", Unread)

(* DeterministicModelProvider answers at once, or refuses a blank prompt.   *)
AskLocal(ids, tokens) == provider = "local" /\ Begin(ids, "answered", tokens)
AskLocalBlank(ids) == provider = "local" /\ Begin(ids, "failed", Unread)

-----------------------------------------------------------------------------
(* The provider (external) does what it was asked, whether or not the API   *)
(* still waits for it.                                                      *)
Bill(i) ==
    /\ provider = "remote"
    /\ calls[i].tokens = Unread
    /\ ~calls[i].billed
    /\ calls[i].stage \in {"asked", "gone"}
    /\ calls' = [calls EXCEPT ![i] = [@ EXCEPT !.billed = TRUE]]
    /\ UNCHANGED <<store, provider, lines, ledger, counters, clock, reported, reports, ingests, faults>>

Go(i, from, to) ==
    /\ calls[i].stage = from
    /\ UNCHANGED <<store, provider, lines, clock, reported, reports, ingests>>

(* The answer has a message and the counts of tokens.                       *)
Receive(i, tokens) ==
    /\ Go(i, "asked", "answered")
    /\ calls[i].billed
    /\ calls' = [calls EXCEPT ![i] = [@ EXCEPT !.stage = "answered", !.tokens = tokens]]
    /\ UNCHANGED <<ledger, counters, faults>>

(* No connection, an error status, no JSON or no message: 502, whatever the *)
(* provider has done.                                                       *)
ReceiveError(i) ==
    /\ Go(i, "asked", "failed")
    /\ calls' = [calls EXCEPT ![i] = [@ EXCEPT !.stage = "failed"]]
    /\ UNCHANGED <<ledger, counters, faults>>

(* The client goes away, and the request is dropped at its await.           *)
Abandon(i) ==
    /\ Go(i, "asked", "gone")
    /\ calls' = [calls EXCEPT ![i] = [@ EXCEPT !.stage = "gone"]]
    /\ UNCHANGED <<ledger, counters, faults>>

(* accept_observations stores the model observation, or queues it.          *)
Observe(i) ==
    /\ Go(i, "answered", "observed")
    /\ calls' = [calls EXCEPT ![i] = [@ EXCEPT !.stage = "observed", !.observed = TRUE]]
    /\ observations_ingested' = observations_ingested + 1
    /\ UNCHANGED <<ledger, model_calls, faults>>

(* usage_store.append, for the month of the clock.                          *)
BugMonthOfStart(i) ==             \* mutant: the period is computed once, when the service starts
    LET period == UtcPeriod(day - ticks)
    IN  /\ Go(i, "observed", "charged")
        /\ calls' = [calls EXCEPT ![i] = [@ EXCEPT !.stage = "charged", !.period = period,
                                                  !.month = Month(date)]]
        /\ usage_entries' = [usage_entries EXCEPT ![<<"ModelToken", period>>] =
                                Plus(@, calls[i].tokens)]
        /\ UNCHANGED <<usage, counters, faults>>

Charge(i) ==
    LET period == UtcPeriod(day)
    IN  /\ Go(i, "observed", "charged")
        /\ calls' = [calls EXCEPT ![i] = [@ EXCEPT !.stage = "charged", !.period = period,
                                                  !.month = Month(date)]]
        /\ usage_entries' = [usage_entries EXCEPT ![<<"ModelToken", period>>] =
                                Plus(@, calls[i].tokens)]
        /\ UNCHANGED <<usage, counters, faults>>

(* The ledger in memory, and 200.                                           *)
Record(i) ==
    /\ Go(i, "charged", "ok")
    /\ calls' = [calls EXCEPT ![i] = [@ EXCEPT !.stage = "ok"]]
    /\ usage' = [usage EXCEPT ![<<"ModelToken", calls[i].period>>] = Plus(@, calls[i].tokens)]
    /\ UNCHANGED <<usage_entries, counters, faults>>

(* record_usage: the period and the quantity are the client's.  Its two     *)
(* writes are taken together; Investigation and JsonlUsage take them apart. *)
(* SQLite's integers are signed, and append refuses the upper half of u64.  *)
Report(kind, month, quantity) ==
    /\ Len(calls) + reports < MaxRequests
    /\ store = "sqlite" => quantity < Word \div 2
    /\ reports' = reports + 1
    /\ usage_entries' = [usage_entries EXCEPT ![<<kind, month>>] = Plus(@, quantity)]
    /\ usage' = [usage EXCEPT ![<<kind, month>>] = Plus(@, quantity)]
    /\ reported' = [reported EXCEPT ![<<kind, month>>] = @ + quantity]
    /\ UNCHANGED <<store, provider, lines, calls, counters, clock, ingests, faults>>

-----------------------------------------------------------------------------
Fault == faults < MaxFaults /\ faults' = faults + 1

(* accept_observations or the append of usage fails: 500.                   *)
BugErrorIgnored(i) ==             \* mutant: the error of accept_observations is dropped
    /\ Fault
    /\ Go(i, "answered", "observed")
    /\ calls' = [calls EXCEPT ![i] = [@ EXCEPT !.stage = "observed"]]
    /\ UNCHANGED <<ledger, counters>>

StorageError(i) ==
    /\ Fault
    /\ Go(i, "answered", "failed") \/ Go(i, "observed", "failed")
    /\ calls' = [calls EXCEPT ![i] = [@ EXCEPT !.stage = "failed", !.hit = TRUE]]
    /\ UNCHANGED <<ledger, counters>>

Finished(call) == call.stage \in {"ok", "failed", "gone"}

(* The process dies, and main loads the ledger from the store.              *)
Restart ==
    /\ Fault
    /\ calls' = [i \in DOMAIN calls |->
                    IF Finished(calls[i]) THEN calls[i]
                    ELSE [calls[i] EXCEPT !.stage = "gone", !.hit = TRUE]]
    /\ usage' = usage_entries
    /\ model_calls' = 0 /\ observations_ingested' = 0
    /\ UNCHANGED <<store, provider, lines, usage_entries, clock, reported, reports, ingests>>

Tick ==
    /\ ticks < MaxTicks /\ Month(DayAfter(date)) \in Months
    /\ ticks' = ticks + 1
    /\ day' = day + 1
    /\ date' = DayAfter(date)
    /\ UNCHANGED <<store, provider, lines, calls, ledger, counters, reported, reports, ingests, faults>>

Next ==
    \/ \E e \in EvidenceId : Ingest(e)
    \/ \E ids \in SUBSET EvidenceId :
          \/ AskProvider(ids) \/ AskWithoutKey(ids) \/ AskLocalBlank(ids)
          \/ \E tokens \in Tokens : AskLocal(ids, tokens)
    \/ \E i \in DOMAIN calls :
          \/ Bill(i) \/ ReceiveError(i) \/ Abandon(i)
          \/ \E tokens \in Tokens : Receive(i, tokens)
          \/ Observe(i) \/ Charge(i) \/ Record(i) \/ StorageError(i)
    \/ \E kind \in {"Observation", "AgentRun"}, month \in Months, quantity \in Reported :
          Report(kind, month, quantity)
    \/ Restart
    \/ Tick

Spec == Init /\ [][Next]_vars

-----------------------------------------------------------------------------
(* Properties.                                                              *)

(* Tokens are charged only for a call whose observation was accepted and,   *)
(* with a remote provider, only for work it did; a call answered 200 is     *)
(* charged; and work whose answer the API has read stays uncharged only     *)
(* when a storage error or the death of the process stopped that call.      *)
MeteredUnlessHit ==
    \A i \in DOMAIN calls :
        LET call == calls[i]
            charged == call.period # NoMonth
        IN  /\ charged => call.observed /\ (provider = "remote" => call.billed)
            /\ call.stage = "ok" => charged
            /\ Finished(call) /\ call.tokens # Unread => charged \/ call.hit

(* The calls whose tokens were charged while it was a month.                *)
Charged(month) == {i \in DOMAIN calls : calls[i].month = month}

(* The ledger that usage and quotes are answered from holds, for each month *)
(* of the calendar, the tokens charged while it was that month and nothing  *)
(* else, whatever month it was when the call began, and for the other kinds *)
(* what was reported.                                                       *)
UsageInItsMonth ==
    \A month \in Months :
        /\ usage_entries[<<"ModelToken", month>>] =
              Cardinality(Units(Charged(month), [i \in DOMAIN calls |-> calls[i].tokens])) % Word
        /\ \A kind \in {"Observation", "AgentRun"} :
              usage_entries[<<kind, month>>] = reported[<<kind, month>>] % Word

(* billing_quote, from the store.                                           *)
Quote(plan, month) ==
    Total(plan, usage_entries[<<"Observation", month>>], usage_entries[<<"AgentRun", month>>])

(* What was really used, and what it really costs, fit in 64 bits.          *)
Fits(month) ==
    LET observations == reported[<<"Observation", month>>]
        agent_runs == reported[<<"AgentRun", month>>]
    IN  /\ observations < Word /\ agent_runs < Word
        /\ \A plan \in Plan : ExactTotal(plan, observations, agent_runs) < Word

(* Using more never makes a month cheaper, on any plan and across every     *)
(* included amount and every begun thousand, as long as the numbers fit.    *)
QuoteNeverFalls ==
    [][\A plan \in Plan, month \in Months :
          Fits(month)' => Quote(plan, month)' >= Quote(plan, month)]_vars

(* On SQLite the comparison of numbers is exact: evidence is accepted when  *)
(* all of it is there, and refused when any of it is not.                   *)
EvidenceExactOnSqlite ==
    store = "sqlite" => \A ids \in SUBSET EvidenceId : EvidenceAccepted(ids) <=> EvidenceThere(ids)
=============================================================================
