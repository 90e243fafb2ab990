------------------------------ MODULE Console -------------------------------
(***************************************************************************)
(* The web console, apps/console/app.js: one page whose handlers await     *)
(* requests and interleave at every await, the browser's storage that      *)
(* outlives it, and the server, of which it needs what Metering promises.  *)
(*                                                                         *)
(* A request carries the tenant and the period the configuration has when  *)
(* it is sent; what its answer changes is looked up when it comes.  One    *)
(* observation of each tenant stands for all that can be evidence.         *)
(***************************************************************************)
EXTENDS Integers, FiniteSets, Sequences

CONSTANTS
    Tenant, Period,
    HomeTenant, HomePeriod,        \* the configuration the browser has stored at first
    Task,            \* calls of runAgent or of the resume button in progress
    Nothing,         \* no tenant, no run, no period, no task
    MaxSubmissions,  \* bound: calls of runAgent
    MaxEdits,        \* bound: refreshes, reloads and changes of the configuration
    MaxTroubles      \* bound: failed requests, timeouts included

(* Each submission has a fresh key, and its run is known by it here.        *)
Key == 1 .. MaxSubmissions
RunId == Key

ASSUME HomeAssumption == HomeTenant \in Tenant /\ HomePeriod \in Period

ASSUME NothingAssumption == Nothing \notin Tenant \cup Period \cup RunId \cup Task

ASSUME BoundAssumption == MaxSubmissions \in Nat /\ MaxEdits \in Nat /\ MaxTroubles \in Nat

VARIABLES
    bindings, charged, usage,      \* the server
    tenant, period,                \* state.config
    connected, loading,
    load,            \* what loadData is waiting for, and what it has read
    rows,            \* the tenant whose observations are on the screen
    usagePanel,      \* the tenant and the period of the usage on the screen
    selected,        \* tenants whose observation is selected as evidence
    runAgentEnabled,
    panel,           \* the investigation on the screen
    stored,          \* localStorage: the last investigation of each tenant
    tasks,           \* calls of runAgent and of the resume button
    late,            \* requests the page gave up and the server has yet to handle
    submissions,     \* calls of runAgent; the last one's key
    created,         \* history: runs whose creation was answered to the page
    latest,          \* history: the last of them of each tenant
    crossed,         \* history: tenants of an answer that came after a switch
    overlapped,      \* history: an answer came while another task was waiting
    raced,           \* history: a run was rendered while recovery was waiting
    missed,          \* history: the period changed after a load had asked for usage
    edits, troubles  \* bounded

Server == INSTANCE Metering WITH Requests <- {"InspectFailureContext"}

server == <<bindings, charged, usage>>
config == <<tenant, period>>
screen == <<rows, usagePanel, selected, panel>>
page == <<config, connected, loading, load, screen, runAgentEnabled>>
history == <<created, latest, crossed, overlapped, raced, missed>>
bounds == <<submissions, edits, troubles>>
vars == <<server, page, stored, tasks, late, history, bounds>>

-----------------------------------------------------------------------------
NoLoad == [stage |-> "none"]
Load == [stage : {"none", "reading"}]
        \cup [stage : {"asked"}, period : Period]     \* the period usage was asked for
        \cup [stage : {"recovering"}, run : RunId,
              status : {"unread", "missing", "Planned", "Completed"}]
NoUsage == [tenant |-> Nothing, period |-> Nothing]
UsagePanel == [tenant : Tenant, period : Period] \cup {NoUsage}
NoPanel == [run |-> Nothing, status |-> "hidden", clicked |-> Nothing]
Panel == [run : RunId, status : {"Planned", "Completed"}, clicked : Task \cup {Nothing}]
         \cup {NoPanel}
Idle == [state |-> "idle"]

Create == [op : {"create"}, tenant : Tenant, key : Key, evidence : SUBSET Tenant]
Execute == [op : {"execute"}, tenant : Tenant, run : RunId]

(* A task waits for the answer to its request; run Nothing is a refusal.    *)
Waiting(request, agent) == [state |-> "waiting", request |-> request, agent |-> agent, run |-> Nothing]
TaskState == [state : {"waiting", "answered"}, request : Create \cup Execute,
              agent : BOOLEAN,           \* runAgent, not the resume button
              run : RunId \cup {Nothing}]

TypeOK ==
    /\ Server!TypeOK
    /\ tenant \in Tenant /\ period \in Period
    /\ connected \in BOOLEAN /\ runAgentEnabled \in BOOLEAN
    /\ load \in Load
    /\ loading = (load # NoLoad)
    /\ rows \in Tenant \cup {Nothing}
    /\ usagePanel \in UsagePanel
    /\ selected \subseteq Tenant
    /\ panel \in Panel
    /\ stored \in [Tenant -> RunId \cup {Nothing}]
    /\ tasks \in [Task -> TaskState \cup {Idle}]
    /\ late \subseteq Create \cup Execute
    /\ submissions \in 0 .. MaxSubmissions
    /\ created \subseteq RunId
    /\ latest \in [Tenant -> RunId \cup {Nothing}]
    /\ crossed \subseteq Tenant
    /\ overlapped \in BOOLEAN /\ raced \in BOOLEAN /\ missed \in BOOLEAN
    /\ edits \in 0 .. MaxEdits /\ troubles \in 0 .. MaxTroubles

(* The script's last lines: a page whose tenant is stored loads at once.    *)
Init ==
    /\ Server!Init
    /\ tenant = HomeTenant /\ period = HomePeriod
    /\ connected = FALSE /\ loading = TRUE
    /\ load = [stage |-> "reading"]
    /\ rows = Nothing
    /\ usagePanel = NoUsage
    /\ selected = {}
    /\ runAgentEnabled = FALSE
    /\ panel = NoPanel
    /\ stored = [t \in Tenant |-> Nothing]
    /\ tasks = [x \in Task |-> Idle]
    /\ late = {}
    /\ submissions = 0
    /\ created = {}
    /\ latest = [t \in Tenant |-> Nothing]
    /\ crossed = {} /\ overlapped = FALSE /\ raced = FALSE /\ missed = FALSE
    /\ edits = 0 /\ troubles = 0

-----------------------------------------------------------------------------
(* The server: an investigation is created for evidence of the request's    *)
(* tenant, and it is found, executed and charged for its own tenant only.   *)
OwnRun(t, r) == bindings[r] # Server!Free /\ bindings[r].tenant = t

BugServeCreate(request, run) ==   \* mutant: a created investigation is executed at once
    /\ run = request.key
    /\ bindings' = [bindings EXCEPT ![run] = [tenant |-> request.tenant, key |-> request.key,
                                              request |-> "InspectFailureContext"]]
    /\ charged' = charged \cup {run}
    /\ usage' = [usage EXCEPT ![request.tenant] = @ + 1]

ServeCreate(request, run) ==
    IF request.evidence = {request.tenant}
    THEN run = request.key /\ Server!Bind(run, request.tenant, request.key, "InspectFailureContext")
    ELSE run = Nothing /\ UNCHANGED server

ServeExecute(request, run) ==
    IF OwnRun(request.tenant, request.run)
    THEN run = request.run /\ (IF run \in charged THEN UNCHANGED server ELSE Server!Charge(run))
    ELSE run = Nothing /\ UNCHANGED server

Serve(request, run) ==
    \/ request.op = "create" /\ ServeCreate(request, run)
    \/ request.op = "execute" /\ ServeExecute(request, run)

Handle(x) ==
    /\ tasks[x].state = "waiting"
    /\ \E run \in RunId \cup {Nothing} :
          /\ Serve(tasks[x].request, run)
          /\ tasks' = [tasks EXCEPT ![x].state = "answered", ![x].run = run]
    /\ UNCHANGED <<page, stored, late, history, bounds>>

(* The page has given the request up; it may reach the server all the same. *)
HandleLate(request) ==
    /\ late' = late \ {request}
    /\ \E run \in RunId \cup {Nothing} : Serve(request, run)
    /\ UNCHANGED <<page, stored, tasks, history, bounds>>

-----------------------------------------------------------------------------
Trouble == troubles < MaxTroubles /\ troubles' = troubles + 1

(* setLoading(true): the placeholder replaces the rows.                     *)
SetLoading ==
    /\ loading' = TRUE
    /\ load' = [stage |-> "reading"]
    /\ rows' = Nothing
    /\ runAgentEnabled' = FALSE

(* loadData, called by a handler: it does nothing while a load is going on. *)
LoadData == IF loading THEN UNCHANGED <<loading, load, rows, runAgentEnabled>> ELSE SetLoading

(* finally { setLoading(false) }                                            *)
EndLoad ==
    /\ loading' = FALSE
    /\ load' = NoLoad
    /\ runAgentEnabled' = (connected' /\ selected' # {})

LoadStep == UNCHANGED <<server, config, tasks, late, submissions, created, latest, crossed,
                        overlapped, edits>>

(* /health and the observations have come; diagnostics, the queue and the   *)
(* usage of the period the page has now are asked for.                      *)
ReadObservations ==
    /\ load.stage = "reading"
    /\ load' = [stage |-> "asked", period |-> period]
    /\ missed' = FALSE
    /\ UNCHANGED <<connected, loading, screen, runAgentEnabled, stored, raced, troubles>> /\ LoadStep

(* renderAll, and recoverLastInvestigation if there is one to recover.      *)
Render(shown) ==
    /\ rows' = tenant
    /\ usagePanel' = shown
    /\ \E keep \in SUBSET (selected \cap {tenant}) : selected' = keep
    /\ connected' = TRUE
    /\ IF stored[tenant] = Nothing THEN EndLoad
       ELSE /\ load' = [stage |-> "recovering", run |-> stored[tenant], status |-> "unread"]
            /\ runAgentEnabled' = FALSE
            /\ UNCHANGED loading
    /\ UNCHANGED <<panel, stored, raced, missed>> /\ LoadStep

(* Promise.allSettled: usage, too, may have failed, and the page shows     *)
(* zeros.  With a queue the dead letters are read before renderAll.         *)
Settle ==
    /\ load.stage = "asked"
    /\ Render([tenant |-> tenant, period |-> load.period])
    /\ UNCHANGED troubles

SettleWithoutUsage ==
    /\ load.stage = "asked"
    /\ Trouble
    /\ Render(NoUsage)

(* The server answers GET /v1/investigations/{id}.                          *)
ServeRecovery ==
    /\ load.stage = "recovering" /\ load.status = "unread"
    /\ load' = [load EXCEPT !.status = IF ~OwnRun(tenant, load.run) THEN "missing"
                                       ELSE IF load.run \in charged THEN "Completed" ELSE "Planned"]
    /\ UNCHANGED <<connected, loading, screen, runAgentEnabled, stored, raced, missed, troubles>> /\ LoadStep

(* Its answer is rendered, whatever was rendered since it was sent; a 404   *)
(* clears what is stored now.                                               *)
Recover ==
    /\ load.stage = "recovering" /\ load.status # "unread"
    /\ IF load.status = "missing"
       THEN /\ stored' = [stored EXCEPT ![tenant] = Nothing]
            /\ UNCHANGED panel
       ELSE /\ panel' = [run |-> load.run, status |-> load.status, clicked |-> Nothing]
            /\ UNCHANGED stored
    /\ UNCHANGED <<connected, rows, usagePanel, selected, raced, missed, troubles>>
    /\ EndLoad /\ LoadStep

(* A request of the load fails or takes 10 s: catch and finally.            *)
BugLoadFails ==                   \* mutant: setLoading(false) is not in finally
    /\ loading /\ Trouble
    /\ load' = NoLoad
    /\ connected' = FALSE /\ rows' = Nothing
    /\ UNCHANGED <<loading, usagePanel, selected, panel, stored, raced, missed, runAgentEnabled>> /\ LoadStep

LoadFails ==
    /\ loading /\ Trouble
    /\ connected' = FALSE
    /\ rows' = Nothing
    /\ UNCHANGED <<usagePanel, selected, panel, stored, raced, missed>>
    /\ EndLoad /\ LoadStep

-----------------------------------------------------------------------------
FreeTask == CHOOSE x \in Task : tasks[x] = Idle

(* runAgent: the button, the evidence, a new key; the panel is hidden.      *)
Submit(x) ==
    /\ runAgentEnabled /\ selected # {}
    /\ submissions < MaxSubmissions
    /\ submissions' = submissions + 1
    /\ tasks' = [tasks EXCEPT ![x] = Waiting([op |-> "create", tenant |-> tenant, key |-> submissions + 1,
                                              evidence |-> selected], TRUE)]
    /\ runAgentEnabled' = FALSE
    /\ panel' = NoPanel
    /\ UNCHANGED <<server, config, connected, loading, load, rows, usagePanel, selected, stored, late,
                   created, latest, crossed, overlapped, raced, missed, edits, troubles>>

(* The resume button of a planned run.                                      *)
Resume(x) ==
    /\ panel.status = "Planned" /\ panel.clicked = Nothing
    /\ tasks' = [tasks EXCEPT ![x] = Waiting([op |-> "execute", tenant |-> tenant, run |-> panel.run], FALSE)]
    /\ panel' = [panel EXCEPT !.clicked = x]
    /\ UNCHANGED <<server, config, connected, loading, load, rows, usagePanel, selected, runAgentEnabled,
                   stored, late, history, bounds>>

BugRemember(x, status) ==         \* mutant: the storage key does not name the tenant
    LET run == tasks[x].run
    IN  /\ tasks[x].state = "answered" /\ run # Nothing
        /\ stored' = [t \in Tenant |-> run]
        /\ panel' = [run |-> run, status |-> status, clicked |-> Nothing]
        /\ UNCHANGED crossed
        /\ overlapped' = (overlapped \/ \E y \in Task \ {x} : tasks[y] # Idle)
        /\ raced' = (raced \/ load.stage = "recovering")

(* An answered run goes to the storage of the tenant the page has now, and  *)
(* to the screen.                                                           *)
Remember(x, status) ==
    LET run == tasks[x].run
        asked == tasks[x].request.tenant
    IN  /\ tasks[x].state = "answered" /\ run # Nothing
        /\ stored' = [stored EXCEPT ![tenant] = run]
        /\ panel' = [run |-> run, status |-> status, clicked |-> Nothing]
        /\ crossed' = IF asked = tenant THEN crossed ELSE crossed \cup {asked, tenant}
        /\ overlapped' = (overlapped \/ \E y \in Task \ {x} : tasks[y] # Idle)
        /\ raced' = (raced \/ load.stage = "recovering")

(* The creation is answered, and the run is executed for the tenant the     *)
(* page has now.                                                            *)
BugAnswerCreate(x) ==             \* mutant: the run is remembered only when it has been executed
    LET run == tasks[x].run
    IN  /\ tasks[x].state = "answered" /\ run # Nothing
        /\ tasks[x].request.op = "create"
        /\ panel' = [run |-> run, status |-> "Planned", clicked |-> Nothing]
        /\ created' = created \cup {run}
        /\ latest' = [latest EXCEPT ![tasks[x].request.tenant] = run]
        /\ tasks' = [tasks EXCEPT ![x] = Waiting([op |-> "execute", tenant |-> tenant, run |-> run], TRUE)]
        /\ UNCHANGED <<server, config, connected, loading, load, rows, usagePanel, selected, stored,
                       runAgentEnabled, late, crossed, overlapped, raced, missed, bounds>>

AnswerCreate(x) ==
    LET run == tasks[x].run
    IN  /\ Remember(x, "Planned")
        /\ tasks[x].request.op = "create"
        /\ created' = created \cup {run}
        /\ latest' = [latest EXCEPT ![tasks[x].request.tenant] = run]
        /\ tasks' = [tasks EXCEPT ![x] = Waiting([op |-> "execute", tenant |-> tenant, run |-> run], TRUE)]
        /\ UNCHANGED <<server, config, connected, loading, load, rows, usagePanel, selected,
                       runAgentEnabled, late, missed, bounds>>

BugEnable(agent) == UNCHANGED runAgentEnabled   \* mutant: there is no finally

(* finally of runAgent: its button, also while a load is going on.          *)
Enable(agent) ==
    runAgentEnabled' = IF agent THEN connected /\ selected # {} ELSE runAgentEnabled

(* The execution is answered: loadData, and at its end, or at once when it  *)
(* does nothing, the button.                                                *)
AnswerExecute(x) ==
    /\ Remember(x, "Completed")
    /\ tasks[x].request.op = "execute"
    /\ tasks' = [tasks EXCEPT ![x] = Idle]
    /\ IF loading THEN Enable(tasks[x].agent) /\ UNCHANGED <<loading, load, rows>> ELSE SetLoading
    /\ UNCHANGED <<server, config, connected, usagePanel, selected, late, created, latest, missed,
                   bounds>>

(* A refusal, or no answer within 10 s: the handler of the resume button    *)
(* enables that button again, if it is still on the page.                   *)
Giveup(x) ==
    /\ tasks' = [tasks EXCEPT ![x] = Idle]
    /\ panel' = IF panel.clicked = x THEN [panel EXCEPT !.clicked = Nothing] ELSE panel
    /\ Enable(tasks[x].agent)
    /\ UNCHANGED <<server, config, connected, loading, load, rows, usagePanel, selected, stored, history, submissions, edits>>

Refused(x) ==
    /\ tasks[x].state = "answered" /\ tasks[x].run = Nothing
    /\ Giveup(x)
    /\ UNCHANGED <<late, troubles>>

TaskFails(x) ==
    /\ tasks[x] # Idle
    /\ Trouble
    /\ late' = IF tasks[x].state = "waiting" THEN late \cup {tasks[x].request} ELSE late
    /\ Giveup(x)

-----------------------------------------------------------------------------
(* What the user does.                                                      *)
Edit == edits < MaxEdits /\ edits' = edits + 1

Pick(t) ==                        \* a checkbox of the rows on the screen
    /\ t = rows
    /\ selected' = (selected \ {t}) \cup ({t} \ selected)
    /\ runAgentEnabled' = (connected /\ ~loading /\ selected' # {})
    /\ UNCHANGED <<server, config, connected, loading, load, rows, usagePanel, panel, stored, tasks, late,
                   history, bounds>>

(* The refresh button, the status filter, a dead letter replayed.           *)
Refresh ==
    /\ Edit /\ ~loading
    /\ SetLoading
    /\ UNCHANGED <<server, config, connected, usagePanel, selected, panel, stored, tasks, late, history, submissions,
                   troubles>>

(* connectionForm: its button is disabled while a load is going on, and     *)
(* nothing asks whether an investigation is.                                *)
BugConnect(t) ==                  \* mutant: the button is not disabled
    /\ Edit
    /\ tenant' = t
    /\ LoadData
    /\ UNCHANGED <<server, period, connected, usagePanel, selected, panel, stored, tasks, late, history, submissions,
                   troubles>>

Connect(t) ==
    /\ Edit /\ ~loading
    /\ t # tenant
    /\ tenant' = t
    /\ LoadData
    /\ UNCHANGED <<server, period, connected, usagePanel, selected, panel, stored, tasks, late, history, submissions,
                   troubles>>

ChangePeriod(p) ==
    /\ Edit
    /\ p # period
    /\ period' = p
    /\ IF connected THEN LoadData ELSE UNCHANGED <<loading, load, rows, runAgentEnabled>>
    /\ missed' = (missed \/ load.stage \in {"asked", "recovering"} \/ ~connected)
    /\ UNCHANGED <<server, tenant, connected, usagePanel, selected, panel, stored, tasks, late,
                   submissions, created, latest, crossed, overlapped, raced, troubles>>

(* The page is loaded again: only what is stored is left, and the server    *)
(* may still handle what was sent.                                          *)
Reload ==
    /\ Edit
    /\ connected' = FALSE /\ loading' = TRUE
    /\ load' = [stage |-> "reading"]
    /\ rows' = Nothing /\ usagePanel' = NoUsage /\ selected' = {} /\ panel' = NoPanel
    /\ runAgentEnabled' = FALSE
    /\ late' = late \cup {tasks[x].request : x \in {y \in Task : tasks[y].state = "waiting"}}
    /\ tasks' = [x \in Task |-> Idle]
    /\ UNCHANGED <<server, config, stored, history, submissions, troubles>>

-----------------------------------------------------------------------------
LoadNext == ReadObservations \/ Settle \/ ServeRecovery \/ Recover
TaskNext(x) == Handle(x) \/ AnswerCreate(x) \/ AnswerExecute(x) \/ Refused(x)
UserNext ==
    \/ (\E x \in Task : tasks[x] = Idle) /\ (Submit(FreeTask) \/ Resume(FreeTask))
    \/ \E t \in Tenant : Pick(t) \/ Connect(t)
    \/ \E p \in Period : ChangePeriod(p)
    \/ Refresh \/ Reload

Next ==
    \/ LoadNext \/ SettleWithoutUsage \/ LoadFails
    \/ \E x \in Task : TaskNext(x) \/ TaskFails(x)
    \/ \E request \in late : HandleLate(request)
    \/ UserNext

Spec == Init /\ [][Next]_vars

(* request gives up after 10 s, so everything a handler waits for comes or  *)
(* fails; what fails is bounded here.  The user need not do anything.       *)
FairSpec == Spec /\ WF_vars(LoadNext) /\ \A x \in Task : WF_vars(TaskNext(x))

-----------------------------------------------------------------------------
(* Properties.                                                              *)

(* A page that says it is connected shows the observations and the usage of *)
(* its tenant, and the usage of its period unless that was changed after    *)
(* the last load had asked for usage, or while the page was disconnected.   *)
ConnectedShowsConfig ==
    connected /\ ~loading =>
        /\ rows = tenant
        /\ usagePanel # NoUsage => /\ usagePanel.tenant = tenant
                                   /\ usagePanel.period = period \/ missed

(* The tenant's last created run, when it is not executed, can be recovered *)
(* by a refresh or a reload: it is stored.  Only a tenant switched while an *)
(* answer was under way, two investigations at once, or a recovery that     *)
(* answered late and whose older run was then resumed, lose it.             *)
RunRecoverable ==
    \A t \in Tenant \ crossed :
        latest[t] # Nothing /\ latest[t] \notin charged => stored[t] = latest[t] \/ overlapped \/ raced

(* Without a switch in between, what is stored for a tenant is its own, and *)
(* a connected page that shows a run shows the stored one, unless a         *)
(* recovery answered after a newer run was rendered.                        *)
PanelIsStored ==
    crossed = {} =>
        /\ \A t \in Tenant : stored[t] # Nothing => OwnRun(t, stored[t])
        /\ connected /\ ~loading /\ stored[tenant] # Nothing =>
              panel.run \in {stored[tenant], Nothing} \/ raced

(* A run whose creation the page never saw, because its answer was lost or  *)
(* the page was gone, is never charged, however often the user submits      *)
(* again: each charge is one of a run the user was shown.                   *)
OrphansAreFree == charged \subseteq created

(* When nothing is under way, the button that starts an investigation is    *)
(* enabled exactly when there is a connection and evidence.                 *)
ButtonTellsTruth ==
    ~loading /\ (\A x \in Task : tasks[x] = Idle) => (runAgentEnabled <=> connected /\ selected # {})

(* Every load ends, on every path, and gives its buttons back.              *)
LoadEnds == loading ~> ~loading
=============================================================================
