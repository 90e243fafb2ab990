---------------------------- MODULE ConsoleProofs ----------------------------
(***************************************************************************)
(* Proofs about Console for every set of tenants, periods and tasks and    *)
(* every bound.  They are about safety, so about Spec, without fairness.   *)
(***************************************************************************)
EXTENDS Console, FiniteSetTheorems, TLAPS

-----------------------------------------------------------------------------
(* A task is idle, or it waits for the answer to a request, or has it.      *)
LEMMA TaskStates ==
    ASSUME NEW s \in TaskState \cup {Idle}
    PROVE  /\ s \in TaskState <=> s # Idle
           /\ s \in TaskState <=> s.state \in {"waiting", "answered"}
           /\ s = Idle <=> s.state = "idle"
BY DEF TaskState, Idle

(* A request names its operation, its tenant and, to be executed, a run.    *)
LEMMA RequestTypes ==
    ASSUME NEW request \in Create \cup Execute
    PROVE  /\ request.tenant \in Tenant
           /\ request.op \in {"create", "execute"}
           /\ request \in Create <=> request.op = "create"
           /\ request \in Execute <=> request.op = "execute"
           /\ request.op = "create" => request.key \in RunId
           /\ request.op = "execute" => request.run \in RunId
BY DEF Create, Execute, RunId

(* A request that was just sent.                                            *)
LEMMA WaitingType ==
    ASSUME NEW request \in Create \cup Execute, NEW agent \in BOOLEAN
    PROVE  /\ Waiting(request, agent) \in TaskState
           /\ Waiting(request, agent) # Idle
           /\ Waiting(request, agent).state = "waiting"
           /\ Waiting(request, agent).request = request
           /\ Waiting(request, agent).agent = agent
           /\ Waiting(request, agent).run = Nothing
BY DEF Waiting, TaskState, Idle

(* The stages of a load are told apart by their stage.                      *)
LEMMA LoadStages ==
    ASSUME NEW l \in Load
    PROVE  /\ l = NoLoad <=> l.stage = "none"
           /\ l.stage = "asked" => l.period \in Period
           /\ l.stage = "recovering" =>
                 /\ l.run \in RunId
                 /\ l.status \in {"unread", "missing", "Planned", "Completed"}
BY DEF Load, NoLoad

(* What loads are waiting for.                                              *)
LEMMA LoadValues ==
    /\ NoLoad \in Load
    /\ [stage |-> "reading"] \in Load /\ [stage |-> "reading"] # NoLoad
    /\ \A p \in Period : /\ [stage |-> "asked", period |-> p] \in Load
                         /\ [stage |-> "asked", period |-> p] # NoLoad
    /\ \A r \in RunId, s \in {"unread", "missing", "Planned", "Completed"} :
          /\ [stage |-> "recovering", run |-> r, status |-> s] \in Load
          /\ [stage |-> "recovering", run |-> r, status |-> s] # NoLoad
BY DEF Load, NoLoad

(* What is shown of an investigation and of the usage.                      *)
LEMMA PanelValues ==
    /\ NoPanel \in Panel /\ NoUsage \in UsagePanel
    /\ \A t \in Tenant, p \in Period : [tenant |-> t, period |-> p] \in UsagePanel
    /\ \A r \in RunId, s \in {"Planned", "Completed"}, x \in Task \cup {Nothing} :
          [run |-> r, status |-> s, clicked |-> x] \in Panel
BY DEF Panel, NoPanel, UsagePanel, NoUsage

(* A panel whose button was clicked, or is enabled again.                   *)
LEMMA ClickedPanel ==
    ASSUME NEW shown \in Panel, NEW x \in Task \cup {Nothing}
    PROVE  /\ shown.clicked # Nothing => [shown EXCEPT !.clicked = x] \in Panel
           /\ shown.status = "Planned" => [shown EXCEPT !.clicked = x] \in Panel
           /\ [shown EXCEPT !.clicked = x].run = shown.run
           /\ [shown EXCEPT !.clicked = x].status = shown.status
           /\ [shown EXCEPT !.clicked = x].clicked = x
BY DEF Panel, NoPanel

(* An untouched server is what it was.                                      *)
LEMMA ServerUnchanged ==
    ASSUME Server!TypeOK, UNCHANGED <<bindings, charged, usage>>
    PROVE  Server!TypeOK'
BY DEF Server!TypeOK

(* What the page shows is no run, or a run with its status.                 *)
LEMMA PanelStates ==
    ASSUME TypeOK
    PROVE  /\ panel.run \in RunId \cup {Nothing}
           /\ panel.run = Nothing <=> panel = NoPanel
           /\ panel.status = "Planned" => panel.run \in RunId
           /\ panel.clicked \in Task \cup {Nothing}
BY NothingAssumption DEF TypeOK, Panel, NoPanel

(* What the server does with a request, whenever it comes: bound runs stay  *)
(* bound, an answered run is one of the request's tenant, and only an       *)
(* execution charges, and then its own run.                                 *)
LEMMA ServeEffect ==
    ASSUME Server!TypeOK, NEW request \in Create \cup Execute,
           NEW run \in RunId \cup {Nothing}, Serve(request, run)
    PROVE  /\ Server!TypeOK'
           /\ \A r \in RunId : bindings[r] # Server!Free => bindings'[r] = bindings[r]
           /\ run # Nothing => /\ run \in RunId
                               /\ bindings'[run] # Server!Free
                               /\ bindings'[run].tenant = request.tenant
           /\ request.op = "create" => charged' = charged
           /\ request.op = "execute" => /\ run \in {Nothing, request.run}
                                        /\ charged \subseteq charged'
                                        /\ charged' \subseteq charged \cup {request.run}
<1>1. CASE request.op = "create" /\ request.evidence = {request.tenant}
  <2> DEFINE new == [tenant |-> request.tenant, key |-> request.key,
                     request |-> "InspectFailureContext"]
  <2>1. /\ run = request.key /\ run \in RunId /\ request.tenant \in Tenant
        /\ bindings[run] = Server!Free
        /\ bindings' = [bindings EXCEPT ![run] = new]
        /\ charged' = charged /\ usage' = usage
    BY <1>1, RequestTypes DEF Serve, ServeCreate, Server!Bind
  <2>2. new \in Server!Binding /\ new # Server!Free /\ new.tenant = request.tenant
    BY <2>1 DEF Server!Binding, Server!Free, RunId
  <2> HIDE DEF new
  <2>3. /\ bindings' \in [RunId -> Server!Binding \cup {Server!Free}]
        /\ bindings'[run] = new
        /\ \A r \in RunId \ {run} : bindings'[r] = bindings[r]
    BY <2>1, <2>2 DEF Server!TypeOK
  <2> QED
    BY <1>1, <2>1, <2>2, <2>3 DEF Server!TypeOK
<1>2. CASE request.op = "execute" /\ OwnRun(request.tenant, request.run)
  <2>1. run = request.run /\ run \in RunId
    BY <1>2, RequestTypes DEF Serve, ServeExecute
  <2>2. CASE run \in charged
    <3>1. UNCHANGED <<bindings, charged, usage>>
      BY <1>2, <2>1, <2>2 DEF Serve, ServeExecute, server
    <3> QED
      BY <1>2, <2>1, <3>1 DEF Server!TypeOK, OwnRun
  <2>3. CASE run \notin charged
    <3>1. /\ charged' = charged \cup {run} /\ bindings' = bindings
          /\ usage' = [usage EXCEPT ![bindings[run].tenant] = @ + 1]
      BY <1>2, <2>1, <2>3 DEF Serve, ServeExecute, Server!Charge
    <3>2. bindings[run].tenant \in Tenant
      BY <1>2, <2>1, RequestTypes DEF OwnRun
    <3>3. usage' \in [Tenant -> Nat]
      BY <3>1, <3>2 DEF Server!TypeOK
    <3> QED
      BY <1>2, <2>1, <3>1, <3>3 DEF Server!TypeOK, OwnRun
  <2> QED
    BY <2>2, <2>3
<1>3. CASE /\ request.op = "create" => request.evidence # {request.tenant}
           /\ request.op = "execute" => ~OwnRun(request.tenant, request.run)
  <2>1. run = Nothing /\ UNCHANGED <<bindings, charged, usage>>
    BY <1>3 DEF Serve, ServeCreate, ServeExecute, server
  <2> QED
    BY <2>1 DEF Server!TypeOK
<1> QED
  BY <1>1, <1>2, <1>3, RequestTypes

(* A task that is asked for is there.                                       *)
LEMMA FreeTaskIsIdle ==
    ASSUME \E x \in Task : tasks[x] = Idle
    PROVE  FreeTask \in Task /\ tasks[FreeTask] = Idle
BY DEF FreeTask

(* The steps, one by one.                                                   *)
LEMMA Steps ==
    ASSUME [Next]_vars
    PROVE  \/ ReadObservations \/ Settle \/ SettleWithoutUsage
           \/ ServeRecovery \/ Recover \/ LoadFails
           \/ \E x \in Task : Handle(x) \/ AnswerCreate(x) \/ AnswerExecute(x)
           \/ \E x \in Task : Refused(x) \/ TaskFails(x)
           \/ \E request \in late : HandleLate(request)
           \/ \E x \in Task : tasks[x] = Idle /\ (Submit(x) \/ Resume(x))
           \/ \E t \in Tenant : Pick(t) \/ Connect(t)
           \/ \E p \in Period : ChangePeriod(p)
           \/ Refresh \/ Reload
           \/ UNCHANGED vars
BY FreeTaskIsIdle DEF Next, LoadNext, TaskNext, UserNext

(* A task whose state changes, and no other.                                *)
LEMMA TaskChange ==
    ASSUME TypeOK, NEW x \in Task, NEW s \in TaskState \cup {Idle},
           tasks' = [tasks EXCEPT ![x] = s]
    PROVE  /\ tasks' \in [Task -> TaskState \cup {Idle}]
           /\ tasks'[x] = s
           /\ \A y \in Task \ {x} : tasks'[y] = tasks[y]
BY DEF TypeOK

(* The answer to a request keeps everything else of its task.               *)
LEMMA HandleEffect ==
    ASSUME TypeOK, NEW x \in Task, Handle(x)
    PROVE  /\ tasks[x] \in TaskState /\ tasks'[x] \in TaskState
           /\ tasks[x].request \in Create \cup Execute
           /\ tasks'[x].request = tasks[x].request
           /\ tasks'[x].agent = tasks[x].agent
           /\ tasks'[x].run \in RunId \cup {Nothing}
           /\ Serve(tasks[x].request, tasks'[x].run)
           /\ tasks' \in [Task -> TaskState \cup {Idle}]
           /\ \A y \in Task \ {x} : tasks'[y] = tasks[y]
<1>1. tasks[x] \in TaskState \cup {Idle} /\ tasks[x].state = "waiting"
  BY DEF TypeOK, Handle
<1>2. tasks[x] \in TaskState
  BY <1>1, TaskStates
<1>3. PICK run \in RunId \cup {Nothing} :
        /\ Serve(tasks[x].request, run)
        /\ tasks' = [tasks EXCEPT ![x].state = "answered", ![x].run = run]
  BY DEF Handle
<1> DEFINE new == [tasks[x] EXCEPT !.state = "answered", !.run = run]
<1>4. /\ new \in TaskState /\ new.request = tasks[x].request
      /\ new.agent = tasks[x].agent /\ new.run = run
  BY <1>2 DEF TaskState
<1>5. tasks' = [tasks EXCEPT ![x] = new]
  BY <1>3 DEF TypeOK
<1> HIDE DEF new
<1>6. tasks[x].request \in Create \cup Execute
  BY <1>2 DEF TaskState
<1> QED
  BY <1>2, <1>3, <1>4, <1>5, <1>6, TaskChange

(* A remembered run: on the screen and stored for the page's tenant.        *)
LEMMA RememberEffect ==
    ASSUME TypeOK, NEW x \in Task, NEW status \in {"Planned", "Completed"}, Remember(x, status)
    PROVE  /\ tasks[x] \in TaskState /\ tasks[x] # Idle
           /\ tasks[x].run \in RunId /\ tasks[x].run # Nothing
           /\ tasks[x].request \in Create \cup Execute
           /\ tasks[x].request.tenant \in Tenant
           /\ stored' \in [Tenant -> RunId \cup {Nothing}]
           /\ stored'[tenant] = tasks[x].run
           /\ \A t \in Tenant \ {tenant} : stored'[t] = stored[t]
           /\ panel' \in Panel
           /\ panel'.run = tasks[x].run
           /\ crossed' \subseteq Tenant /\ crossed \subseteq crossed'
           /\ tasks[x].request.tenant # tenant =>
                 tenant \in crossed' /\ tasks[x].request.tenant \in crossed'
           /\ overlapped' \in BOOLEAN
           /\ overlapped' = (overlapped \/ \E y \in Task \ {x} : tasks[y] # Idle)
           /\ raced' \in BOOLEAN
           /\ raced' = (raced \/ load.stage = "recovering")
<1>1. /\ tasks[x] \in TaskState /\ tasks[x] # Idle
      /\ tasks[x].run \in RunId /\ tasks[x].run # Nothing
      /\ tasks[x].request \in Create \cup Execute
  <2>1. tasks[x] \in TaskState \cup {Idle} /\ tasks[x].state = "answered" /\ tasks[x].run # Nothing
    BY DEF Remember, TypeOK
  <2>2. tasks[x] \in TaskState /\ tasks[x] # Idle
    BY <2>1, TaskStates
  <2> QED
    BY <2>1, <2>2 DEF TaskState
<1>2. tasks[x].request.tenant \in Tenant
  BY <1>1, RequestTypes
<1>3. /\ stored' = [stored EXCEPT ![tenant] = tasks[x].run]
      /\ panel' = [run |-> tasks[x].run, status |-> status, clicked |-> Nothing]
      /\ crossed' = IF tasks[x].request.tenant = tenant THEN crossed
                    ELSE crossed \cup {tasks[x].request.tenant, tenant}
      /\ overlapped' = (overlapped \/ \E y \in Task \ {x} : tasks[y] # Idle)
      /\ raced' = (raced \/ load.stage = "recovering")
  BY DEF Remember
<1>4. /\ stored' \in [Tenant -> RunId \cup {Nothing}]
      /\ stored'[tenant] = tasks[x].run
      /\ \A t \in Tenant \ {tenant} : stored'[t] = stored[t]
  BY <1>1, <1>3 DEF TypeOK
<1>5. panel' \in Panel /\ panel'.run = tasks[x].run
  BY <1>1, <1>3, PanelValues
<1>6. overlapped' \in BOOLEAN /\ raced' \in BOOLEAN
  BY <1>3 DEF TypeOK
<1> QED
  BY <1>1, <1>2, <1>3, <1>4, <1>5, <1>6 DEF TypeOK

(* The task that has created a run executes it for the page's tenant.       *)
LEMMA AnswerCreateEffect ==
    ASSUME TypeOK, NEW x \in Task, AnswerCreate(x)
    PROVE  /\ tasks' \in [Task -> TaskState \cup {Idle}]
           /\ tasks'[x] # Idle /\ tasks'[x].agent = TRUE /\ tasks'[x].run = Nothing
           /\ tasks'[x].request.op = "execute"
           /\ tasks'[x].request.tenant = tenant
           /\ tasks'[x].request.run = tasks[x].run
           /\ \A y \in Task \ {x} : tasks'[y] = tasks[y]
           /\ created' = created \cup {tasks[x].run}
           /\ latest' \in [Tenant -> RunId \cup {Nothing}]
           /\ latest'[tasks[x].request.tenant] = tasks[x].run
           /\ \A t \in Tenant \ {tasks[x].request.tenant} : latest'[t] = latest[t]
<1> DEFINE request == [op |-> "execute", tenant |-> tenant, run |-> tasks[x].run]
<1>1. tasks[x].run \in RunId /\ tasks[x].request.tenant \in Tenant
  BY RememberEffect DEF AnswerCreate
<1>2. /\ request \in Execute /\ request.op = "execute"
      /\ request.tenant = tenant /\ request.run = tasks[x].run
  BY <1>1 DEF Execute, TypeOK
<1>3. /\ tasks' = [tasks EXCEPT ![x] = Waiting(request, TRUE)]
      /\ created' = created \cup {tasks[x].run}
      /\ latest' = [latest EXCEPT ![tasks[x].request.tenant] = tasks[x].run]
  BY DEF AnswerCreate
<1> HIDE DEF request
<1>4. /\ tasks' \in [Task -> TaskState \cup {Idle}]
      /\ tasks'[x] = Waiting(request, TRUE)
      /\ \A y \in Task \ {x} : tasks'[y] = tasks[y]
  BY <1>2, <1>3, WaitingType, TaskChange
<1>5. /\ latest' \in [Tenant -> RunId \cup {Nothing}]
      /\ latest'[tasks[x].request.tenant] = tasks[x].run
      /\ \A t \in Tenant \ {tasks[x].request.tenant} : latest'[t] = latest[t]
  BY <1>1, <1>3 DEF TypeOK
<1> QED
  BY <1>2, <1>3, <1>4, <1>5, WaitingType

(* A handler that is through with its request.                              *)
LEMMA GiveupEffect ==
    ASSUME TypeOK, NEW x \in Task, Giveup(x)
    PROVE  /\ tasks' \in [Task -> TaskState \cup {Idle}]
           /\ tasks'[x] = Idle
           /\ \A y \in Task \ {x} : tasks'[y] = tasks[y]
           /\ panel' \in Panel
           /\ panel'.run = panel.run
<1>1. panel \in Panel /\ tasks' = [tasks EXCEPT ![x] = Idle]
  BY DEF Giveup, TypeOK
<1>2. panel' \in Panel /\ panel'.run = panel.run
  BY <1>1, ClickedPanel, NothingAssumption DEF Giveup
<1> QED
  BY <1>1, <1>2, TaskChange

(* A submission creates a run for the page's tenant and hides the panel.    *)
LEMMA SubmitEffect ==
    ASSUME TypeOK, NEW x \in Task, Submit(x)
    PROVE  /\ tasks' \in [Task -> TaskState \cup {Idle}]
           /\ tasks'[x] # Idle /\ tasks'[x].agent = TRUE /\ tasks'[x].run = Nothing
           /\ tasks'[x].request.op = "create"
           /\ tasks'[x].request.tenant = tenant
           /\ \A y \in Task \ {x} : tasks'[y] = tasks[y]
           /\ submissions' \in 0 .. MaxSubmissions
           /\ panel' \in Panel /\ panel'.run = Nothing
<1> DEFINE request == [op |-> "create", tenant |-> tenant, key |-> submissions + 1,
                       evidence |-> selected]
<1>1. submissions + 1 \in RunId /\ submissions' \in 0 .. MaxSubmissions
  BY BoundAssumption DEF Submit, TypeOK, RunId, Key
<1>2. request \in Create /\ request.op = "create" /\ request.tenant = tenant
  BY <1>1 DEF Create, RunId, TypeOK
<1>3. tasks' = [tasks EXCEPT ![x] = Waiting(request, TRUE)] /\ panel' = NoPanel
  BY DEF Submit
<1> HIDE DEF request
<1>4. /\ tasks' \in [Task -> TaskState \cup {Idle}]
      /\ tasks'[x] = Waiting(request, TRUE)
      /\ \A y \in Task \ {x} : tasks'[y] = tasks[y]
  BY <1>2, <1>3, WaitingType, TaskChange
<1>5. panel' \in Panel /\ panel'.run = Nothing
  BY <1>3, PanelValues DEF NoPanel
<1>6. /\ tasks'[x] # Idle /\ tasks'[x].agent = TRUE /\ tasks'[x].run = Nothing
      /\ tasks'[x].request = request
  BY <1>2, <1>4, WaitingType, ZenonT(30)
<1> QED
  BY <1>1, <1>2, <1>4, <1>5, <1>6

(* The resume button executes the run on the screen for the page's tenant.  *)
LEMMA ResumeEffect ==
    ASSUME TypeOK, NEW x \in Task, Resume(x)
    PROVE  /\ tasks' \in [Task -> TaskState \cup {Idle}]
           /\ tasks'[x] # Idle /\ tasks'[x].agent = FALSE /\ tasks'[x].run = Nothing
           /\ tasks'[x].request.op = "execute"
           /\ tasks'[x].request.tenant = tenant
           /\ tasks'[x].request.run = panel.run
           /\ \A y \in Task \ {x} : tasks'[y] = tasks[y]
           /\ panel.run \in RunId /\ panel.run # Nothing
           /\ panel' \in Panel /\ panel'.run = panel.run
<1> DEFINE request == [op |-> "execute", tenant |-> tenant, run |-> panel.run]
<1>1. panel.run \in RunId /\ panel.run # Nothing
  BY PanelStates, NothingAssumption DEF Resume
<1>2. /\ request \in Execute /\ request.op = "execute"
      /\ request.tenant = tenant /\ request.run = panel.run
  BY <1>1 DEF Execute, TypeOK
<1>3. tasks' = [tasks EXCEPT ![x] = Waiting(request, FALSE)]
  BY DEF Resume
<1> HIDE DEF request
<1>4. /\ tasks' \in [Task -> TaskState \cup {Idle}]
      /\ tasks'[x] = Waiting(request, FALSE)
      /\ \A y \in Task \ {x} : tasks'[y] = tasks[y]
  BY <1>2, <1>3, WaitingType, TaskChange
<1>5. panel' \in Panel /\ panel'.run = panel.run
  BY ClickedPanel DEF Resume, TypeOK
<1> QED
  BY <1>1, <1>2, <1>4, <1>5, WaitingType, ZenonT(30)

(* Init is typed.                                                           *)
LEMMA InitType ==
    ASSUME Init
    PROVE  TypeOK
<1>1. Server!TypeOK
  BY DEF Init, Server!Init, Server!TypeOK
<1>2. /\ tasks \in [Task -> TaskState \cup {Idle}]
      /\ stored \in [Tenant -> RunId \cup {Nothing}] /\ latest \in [Tenant -> RunId \cup {Nothing}]
  BY DEF Init
<1>3. /\ load \in Load /\ loading = (load # NoLoad)
      /\ usagePanel \in UsagePanel /\ panel \in Panel
  BY LoadValues, PanelValues DEF Init
<1>4. submissions \in 0 .. MaxSubmissions /\ edits \in 0 .. MaxEdits /\ troubles \in 0 .. MaxTroubles
  BY BoundAssumption DEF Init
<1> QED
  BY <1>1, <1>2, <1>3, <1>4, HomeAssumption DEF Init, TypeOK

(* The steps of a load keep the types.                                      *)
LEMMA LoadStepType ==
    ASSUME TypeOK,
           ReadObservations \/ Settle \/ SettleWithoutUsage \/ ServeRecovery \/ Recover \/ LoadFails
    PROVE  TypeOK'
<1>1. /\ UNCHANGED <<server, config, tasks, late, submissions, created, latest, crossed,
                     overlapped, edits, raced>>
      /\ Server!TypeOK'
  <2>1. UNCHANGED <<server, config, tasks, late, submissions, created, latest, crossed,
                    overlapped, edits, raced>>
    BY DEF ReadObservations, Settle, SettleWithoutUsage, ServeRecovery, Recover, LoadFails,
           Render, LoadStep
  <2> QED
    BY <2>1, ServerUnchanged DEF server, TypeOK
<1>2. CASE ReadObservations
  BY <1>1, <1>2, LoadValues, LoadStages DEF ReadObservations, TypeOK, server, config, screen
<1>3. ASSUME NEW shown \in UsagePanel, Render(shown), load.stage = "asked",
             \/ UNCHANGED troubles
             \/ Trouble
      PROVE  TypeOK'
  <2>1. /\ rows' = tenant /\ usagePanel' = shown /\ selected' \subseteq selected
        /\ connected' = TRUE /\ UNCHANGED <<panel, stored, missed>>
        /\ troubles' \in 0 .. MaxTroubles
    BY <1>3, BoundAssumption DEF Render, Trouble, TypeOK
  <2>2. /\ load' \in Load /\ loading' = (load' # NoLoad) /\ loading' \in BOOLEAN
        /\ runAgentEnabled' \in BOOLEAN
    <3>1. CASE stored[tenant] = Nothing
      BY <1>3, <2>1, <3>1, LoadValues DEF Render, EndLoad, TypeOK
    <3>2. CASE stored[tenant] # Nothing
      <4>1. load # NoLoad /\ stored[tenant] \in RunId
        BY <1>3, <3>2 DEF TypeOK, NoLoad
      <4> QED
        BY <1>3, <3>2, <4>1, LoadValues DEF Render, TypeOK
    <3> QED
      BY <3>1, <3>2
  <2> QED
    BY <1>1, <2>1, <2>2 DEF TypeOK, server, config
<1>4. CASE Settle
  <2>1. [tenant |-> tenant, period |-> load.period] \in UsagePanel
    BY <1>4, LoadStages, PanelValues DEF Settle, TypeOK
  <2> QED
    BY <1>3, <1>4, <2>1 DEF Settle
<1>5. CASE SettleWithoutUsage
  BY <1>3, <1>5, PanelValues DEF SettleWithoutUsage
<1>6. CASE ServeRecovery
  <2> DEFINE status == IF ~OwnRun(tenant, load.run) THEN "missing"
                       ELSE IF load.run \in charged THEN "Completed" ELSE "Planned"
  <2>1. load' = [load EXCEPT !.status = status]
    BY <1>6 DEF ServeRecovery
  <2>2. status \in {"unread", "missing", "Planned", "Completed"}
    OBVIOUS
  <2> HIDE DEF status
  <2>3. load' \in Load /\ load' # NoLoad /\ load # NoLoad
    BY <1>6, <2>1, <2>2 DEF ServeRecovery, TypeOK, Load, NoLoad
  <2> QED
    BY <1>1, <1>6, <2>3 DEF ServeRecovery, TypeOK, server, config, screen
<1>7. CASE Recover
  <2>1. stored' \in [Tenant -> RunId \cup {Nothing}] /\ panel' \in Panel
    BY <1>7, LoadStages, PanelValues DEF Recover, TypeOK
  <2> QED
    BY <1>1, <1>7, <2>1, LoadValues DEF Recover, EndLoad, TypeOK, server, config
<1>8. CASE LoadFails
  <2>1. /\ connected' \in BOOLEAN /\ rows' = Nothing /\ troubles' \in 0 .. MaxTroubles
        /\ UNCHANGED <<usagePanel, selected, panel, stored, missed>>
    <3>1. troubles < MaxTroubles /\ troubles' = troubles + 1
      BY <1>8 DEF LoadFails, Trouble
    <3>2. troubles' \in 0 .. MaxTroubles
      BY <3>1, BoundAssumption DEF TypeOK
    <3> QED
      BY <1>8, <3>2 DEF LoadFails
  <2>2. /\ load' \in Load /\ loading' = (load' # NoLoad) /\ loading' \in BOOLEAN
        /\ runAgentEnabled' \in BOOLEAN
    <3>1. loading' = FALSE /\ load' = NoLoad /\ runAgentEnabled' = (connected' /\ selected' # {})
      BY <1>8 DEF LoadFails, EndLoad
    <3> QED
      BY <3>1, LoadValues
  <2> QED
    BY <1>1, <2>1, <2>2 DEF TypeOK, server, config
<1> QED
  BY <1>2, <1>4, <1>5, <1>6, <1>7, <1>8

(* A load that begins, or does not, when a handler calls loadData.          *)
LEMMA LoadDataType ==
    ASSUME TypeOK, LoadData \/ SetLoading \/ UNCHANGED <<loading, load, rows, runAgentEnabled>>
    PROVE  /\ load' \in Load /\ loading' = (load' # NoLoad) /\ loading' \in BOOLEAN
           /\ rows' \in Tenant \cup {Nothing} /\ runAgentEnabled' \in BOOLEAN
BY LoadValues DEF LoadData, SetLoading, TypeOK

(* The steps of a task keep the types.                                      *)
LEMMA TaskStepType ==
    ASSUME TypeOK, NEW x \in Task,
           Handle(x) \/ AnswerCreate(x) \/ AnswerExecute(x) \/ Refused(x) \/ TaskFails(x)
    PROVE  TypeOK'
<1>1. CASE Handle(x)
  <2>1. Server!TypeOK'
    BY <1>1, HandleEffect, ServeEffect DEF TypeOK
  <2> QED
    BY <1>1, <2>1, HandleEffect DEF Handle, TypeOK, page, config, screen, history, bounds
<1>3. CASE AnswerCreate(x)
  <2>1. /\ tasks[x].run \in RunId
        /\ stored' \in [Tenant -> RunId \cup {Nothing}] /\ panel' \in Panel
        /\ crossed' \subseteq Tenant /\ overlapped' \in BOOLEAN /\ raced' \in BOOLEAN
    BY <1>3, RememberEffect DEF AnswerCreate
  <2>2. /\ tasks' \in [Task -> TaskState \cup {Idle}]
        /\ created' = created \cup {tasks[x].run}
        /\ latest' \in [Tenant -> RunId \cup {Nothing}]
    BY <1>3, AnswerCreateEffect
  <2>4. /\ UNCHANGED <<server, config, connected, loading, load, rows, usagePanel, selected,
                       runAgentEnabled, late, missed, bounds>>
        /\ Server!TypeOK'
    BY <1>3, ServerUnchanged DEF AnswerCreate, TypeOK, server
  <2> QED
    BY <2>1, <2>2, <2>4 DEF TypeOK, server, config, bounds
<1>4. CASE AnswerExecute(x)
  <2>1. /\ stored' \in [Tenant -> RunId \cup {Nothing}] /\ panel' \in Panel
        /\ crossed' \subseteq Tenant /\ overlapped' \in BOOLEAN /\ raced' \in BOOLEAN
    BY <1>4, RememberEffect DEF AnswerExecute
  <2>2. tasks' \in [Task -> TaskState \cup {Idle}]
    BY <1>4, TaskChange DEF AnswerExecute
  <2>3. /\ UNCHANGED <<server, config, connected, usagePanel, selected, late, created, latest,
                       missed, bounds>>
        /\ Server!TypeOK'
    BY <1>4, ServerUnchanged DEF AnswerExecute, TypeOK, server
  <2>4. /\ load' \in Load /\ loading' = (load' # NoLoad) /\ loading' \in BOOLEAN
        /\ rows' \in Tenant \cup {Nothing} /\ runAgentEnabled' \in BOOLEAN
    BY <1>4, LoadDataType DEF AnswerExecute, Enable, TypeOK
  <2> QED
    BY <2>1, <2>2, <2>3, <2>4 DEF TypeOK, server, config, bounds
<1>5. ASSUME Giveup(x), late' \subseteq Create \cup Execute, troubles' \in 0 .. MaxTroubles
      PROVE  TypeOK'
  <2>1. tasks' \in [Task -> TaskState \cup {Idle}] /\ panel' \in Panel
    BY <1>5, GiveupEffect
  <2>3. runAgentEnabled' \in BOOLEAN
    BY <1>5 DEF Giveup, Enable, TypeOK
  <2>4. /\ UNCHANGED <<server, config, connected, loading, load, rows, usagePanel, selected,
                       stored, history, submissions, edits>>
        /\ Server!TypeOK'
    BY <1>5, ServerUnchanged DEF Giveup, TypeOK, server
  <2> QED
    BY <1>5, <2>1, <2>3, <2>4 DEF TypeOK, server, config, history
<1>6. CASE Refused(x)
  BY <1>5, <1>6 DEF Refused, TypeOK
<1>7. CASE TaskFails(x)
  <2>1. tasks[x] \in TaskState
    BY <1>7, TaskStates DEF TaskFails, TypeOK
  <2>2. late' \subseteq Create \cup Execute
    BY <1>7, <2>1 DEF TaskFails, TypeOK, TaskState
  <2> QED
    BY <1>5, <1>7, <2>2, BoundAssumption DEF TaskFails, Trouble, TypeOK
<1> QED
  BY <1>1, <1>3, <1>4, <1>6, <1>7

(* The user keeps the types.                                                *)
LEMMA UserStepType ==
    ASSUME TypeOK,
           \/ \E x \in Task : tasks[x] = Idle /\ (Submit(x) \/ Resume(x))
           \/ \E t \in Tenant : Pick(t) \/ Connect(t)
           \/ \E p \in Period : ChangePeriod(p)
           \/ Refresh \/ Reload
    PROVE  TypeOK'
<1>1. UNCHANGED server /\ Server!TypeOK'
  <2>1. UNCHANGED server
    BY DEF Submit, Resume, Pick, Connect, ChangePeriod, Refresh, Reload
  <2> QED
    BY <2>1, ServerUnchanged DEF server, TypeOK
<1>2. ASSUME NEW x \in Task, Submit(x) PROVE TypeOK'
  BY <1>1, <1>2, SubmitEffect DEF Submit, TypeOK, server, config
<1>3. ASSUME NEW x \in Task, Resume(x) PROVE TypeOK'
  BY <1>1, <1>3, ResumeEffect DEF Resume, TypeOK, server, config, history, bounds
<1>4. ASSUME NEW t \in Tenant, Pick(t) PROVE TypeOK'
  BY <1>1, <1>4 DEF Pick, TypeOK, server, config, history, bounds
<1>5. ASSUME NEW t \in Tenant, Connect(t) PROVE TypeOK'
  BY <1>1, <1>5, LoadDataType, BoundAssumption DEF Connect, Edit, TypeOK, server, history
<1>6. ASSUME NEW p \in Period, ChangePeriod(p) PROVE TypeOK'
  <2>1. LoadData \/ UNCHANGED <<loading, load, rows, runAgentEnabled>>
    BY <1>6 DEF ChangePeriod
  <2>2. period' \in Period /\ missed' \in BOOLEAN /\ edits' \in 0 .. MaxEdits
    BY <1>6, BoundAssumption DEF ChangePeriod, Edit, TypeOK
  <2> QED
    BY <1>1, <1>6, <2>1, <2>2, LoadDataType DEF ChangePeriod, TypeOK, server
<1>7. CASE Refresh
  BY <1>1, <1>7, LoadDataType, BoundAssumption DEF Refresh, Edit, TypeOK, server, config, history
<1>8. CASE Reload
  <2>1. late' \subseteq Create \cup Execute
    <3>1. \A x \in Task : tasks[x].state = "waiting" => tasks[x].request \in Create \cup Execute
      BY DEF TypeOK, TaskState, Idle
    <3> QED
      BY <1>8, <3>1 DEF Reload, TypeOK
  <2>2. /\ connected' \in BOOLEAN /\ rows' = Nothing /\ runAgentEnabled' \in BOOLEAN
        /\ load' \in Load /\ loading' = (load' # NoLoad) /\ loading' \in BOOLEAN
        /\ usagePanel' \in UsagePanel /\ panel' \in Panel /\ selected' \subseteq Tenant
    BY <1>8, LoadValues, PanelValues DEF Reload
  <2>3. tasks' \in [Task -> TaskState \cup {Idle}] /\ edits' \in 0 .. MaxEdits
    BY <1>8, BoundAssumption DEF Reload, Edit, TypeOK
  <2> QED
    BY <1>1, <1>8, <2>1, <2>2, <2>3 DEF Reload, TypeOK, config, history
<1> QED
  BY <1>2, <1>3, <1>4, <1>5, <1>6, <1>7, <1>8

(* Every step keeps the types.                                              *)
LEMMA StepType ==
    ASSUME TypeOK, [Next]_vars
    PROVE  TypeOK'
<1>1. ASSUME NEW request \in late, HandleLate(request) PROVE TypeOK'
  <2>1. Server!TypeOK'
    BY <1>1, ServeEffect DEF HandleLate, TypeOK
  <2> QED
    BY <1>1, <2>1 DEF HandleLate, TypeOK, page, config, screen, history, bounds
<1>2. CASE UNCHANGED vars
  BY <1>2, ServerUnchanged
     DEF vars, server, page, config, screen, history, bounds, TypeOK
<1> QED
  BY <1>1, <1>2, Steps, LoadStepType, TaskStepType, UserStepType

(* Type correctness of the console.                                         *)
THEOREM TypeCorrect == Spec => []TypeOK
<1>1. Init => TypeOK
  BY InitType
<1>2. TypeOK /\ [Next]_vars => TypeOK'
  BY StepType
<1> QED
  BY <1>1, <1>2, PTL DEF Spec

-----------------------------------------------------------------------------
(* The screen: a connected page, and one about to be, shows what it read    *)
(* for its configuration.                                                   *)
ShowsConfig ==
    /\ rows = tenant
    /\ usagePanel # NoUsage => usagePanel.tenant = tenant /\ (usagePanel.period = period \/ missed)

ScreenInv ==
    /\ connected /\ ~loading => ShowsConfig
    /\ load.stage = "recovering" => ShowsConfig
    /\ load.stage = "asked" => load.period = period \/ missed

(* The button: a call of runAgent enables it again when it ends.            *)
ButtonInv ==
    ~loading /\ (\A x \in Task : tasks[x] # Idle => ~tasks[x].agent)
        => (runAgentEnabled <=> connected /\ selected # {})

(* Every run the page can name was created for it.                          *)
SeenInv ==
    /\ charged \subseteq created
    /\ \A x \in Task : tasks[x] # Idle /\ tasks[x].request.op = "execute" =>
          /\ tasks[x].request.run \in created
          /\ tasks[x].run \in {Nothing, tasks[x].request.run}
    /\ \A request \in late : request.op = "execute" => request.run \in created
    /\ panel.run \in created \cup {Nothing}
    /\ \A t \in Tenant : stored[t] \in created \cup {Nothing}
    /\ load.stage = "recovering" => load.run \in created

(* Whose run it is, once it has been created.                               *)
OwnedInv ==
    /\ \A r \in created : bindings[r] # Server!Free
    /\ \A x \in Task : tasks[x] # Idle /\ tasks[x].run # Nothing =>
          OwnRun(tasks[x].request.tenant, tasks[x].run)
    /\ \A t \in Tenant : latest[t] # Nothing => latest[t] \in created /\ OwnRun(t, latest[t])
    /\ load.stage = "recovering" =>
          /\ load.status \in {"Planned", "Completed"} => OwnRun(tenant, load.run)
          /\ load.status = "missing" => ~OwnRun(tenant, load.run)
    /\ crossed = {} => \A t \in Tenant : stored[t] # Nothing => OwnRun(t, stored[t])

(* What is stored is on the screen, or will be when it is recovered.        *)
PanelInv ==
    /\ load.stage = "recovering" => load.run = stored[tenant] \/ raced
    /\ connected /\ ~loading /\ stored[tenant] # Nothing =>
          panel.run \in {stored[tenant], Nothing} \/ raced

(* A tenant's last run, while it is not executed, is the only one of its    *)
(* own that is stored, on the screen or about to be executed.               *)
LatestInv ==
    \A t \in Tenant \ crossed :
        latest[t] # Nothing /\ latest[t] \notin charged /\ ~overlapped /\ ~raced =>
            /\ stored[t] = latest[t]
            /\ panel.run # Nothing /\ OwnRun(t, panel.run) => panel.run = latest[t]
            /\ \A x \in Task :
                  tasks[x] # Idle /\ tasks[x].request.op = "execute" /\ tasks[x].request.tenant = t
                     /\ OwnRun(t, tasks[x].request.run) => tasks[x].request.run = latest[t]

-----------------------------------------------------------------------------
(* What a load reads is what was stored, and it is rendered.                *)
LEMMA RenderEffect ==
    ASSUME TypeOK, NEW shown, Render(shown), load.stage = "asked"
    PROVE  /\ stored[tenant] = Nothing => load'.stage = "none" /\ loading' = FALSE
           /\ stored[tenant] # Nothing => /\ load'.stage = "recovering"
                                          /\ load'.run = stored[tenant]
                                          /\ load'.status = "unread"
                                          /\ loading' = TRUE
           /\ load'.stage \in {"none", "recovering"}
<1>1. loading = TRUE
  BY LoadStages DEF TypeOK
<1>2. NoLoad.stage = "none"
  BY DEF NoLoad
<1>3. CASE stored[tenant] = Nothing
  BY <1>2, <1>3 DEF Render, EndLoad
<1>4. CASE stored[tenant] # Nothing
  <2>1. /\ load' = [stage |-> "recovering", run |-> stored[tenant], status |-> "unread"]
        /\ loading' = loading
    BY <1>4 DEF Render
  <2> QED
    BY <1>1, <1>4, <2>1
<1> QED
  BY <1>3, <1>4

(* The status the server answers with.                                      *)
LEMMA ServeRecoveryEffect ==
    ASSUME TypeOK, ServeRecovery
    PROVE  /\ load'.stage = "recovering" /\ load'.run = load.run
           /\ OwnRun(tenant, load.run) => load'.status \in {"Planned", "Completed"}
           /\ ~OwnRun(tenant, load.run) => load'.status = "missing"
<1>1. load \in [stage : {"recovering"}, run : RunId,
                 status : {"unread", "missing", "Planned", "Completed"}]
  BY DEF ServeRecovery, TypeOK, Load
<1> QED
  BY <1>1 DEF ServeRecovery

(* A step of the server: which request it answers, and what becomes of the  *)
(* tasks.                                                                   *)
LEMMA ServerSteps ==
    ASSUME TypeOK,
           \/ \E x \in Task : Handle(x)
           \/ \E request \in late : HandleLate(request)
    PROVE  /\ UNCHANGED <<page, stored, history, bounds>>
           /\ late' \subseteq late
           /\ \A r \in RunId : bindings[r] # Server!Free => bindings'[r] = bindings[r]
           /\ charged \subseteq charged'
           /\ \E request \in Create \cup Execute :
                 /\ request \in late \/ \E x \in Task : tasks[x] # Idle /\ tasks[x].request = request
                 /\ request.op = "create" => charged' = charged
                 /\ request.op = "execute" => charged' \subseteq charged \cup {request.run}
           /\ \A x \in Task : tasks'[x] # Idle =>
                 /\ tasks[x] # Idle
                 /\ tasks'[x].request = tasks[x].request /\ tasks'[x].agent = tasks[x].agent
                 /\ \/ tasks'[x].run \in {tasks[x].run, Nothing}
                    \/ /\ tasks'[x].request.op = "execute" => tasks'[x].run = tasks[x].request.run
                       /\ tasks'[x].run \in RunId
                       /\ bindings'[tasks'[x].run] # Server!Free
                       /\ bindings'[tasks'[x].run].tenant = tasks[x].request.tenant
           /\ \A x \in Task : tasks'[x] = Idle <=> tasks[x] = Idle
<1>1. ASSUME NEW x \in Task, Handle(x)
      PROVE  /\ tasks[x] # Idle /\ tasks'[x] # Idle
             /\ tasks[x].request \in Create \cup Execute
             /\ tasks'[x].request = tasks[x].request /\ tasks'[x].agent = tasks[x].agent
             /\ \A y \in Task \ {x} : tasks'[y] = tasks[y]
             /\ \A r \in RunId : bindings[r] # Server!Free => bindings'[r] = bindings[r]
             /\ tasks'[x].run # Nothing => /\ tasks'[x].run \in RunId
                                           /\ bindings'[tasks'[x].run] # Server!Free
                                           /\ bindings'[tasks'[x].run].tenant = tasks[x].request.tenant
             /\ tasks[x].request.op = "create" => charged' = charged
             /\ tasks[x].request.op = "execute" =>
                   /\ tasks'[x].run \in {Nothing, tasks[x].request.run}
                   /\ charged \subseteq charged'
                   /\ charged' \subseteq charged \cup {tasks[x].request.run}
             /\ UNCHANGED <<page, stored, late, history, bounds>>
  <2>1. tasks[x] # Idle /\ tasks'[x] # Idle
    BY <1>1, HandleEffect, TaskStates
  <2>2. UNCHANGED <<page, stored, late, history, bounds>>
    BY <1>1 DEF Handle
  <2> QED
    BY <1>1, <2>1, <2>2, HandleEffect, ServeEffect DEF TypeOK
<1>2. ASSUME NEW request \in late, HandleLate(request)
      PROVE  /\ request \in Create \cup Execute
             /\ \A r \in RunId : bindings[r] # Server!Free => bindings'[r] = bindings[r]
             /\ request.op = "create" => charged' = charged
             /\ request.op = "execute" => /\ charged \subseteq charged'
                                          /\ charged' \subseteq charged \cup {request.run}
             /\ late' \subseteq late
             /\ UNCHANGED <<page, stored, tasks, history, bounds>>
  <2>1. /\ request \in Create \cup Execute /\ late' \subseteq late
        /\ UNCHANGED <<page, stored, tasks, history, bounds>>
    BY <1>2 DEF HandleLate, TypeOK
  <2>2. PICK run \in RunId \cup {Nothing} : Serve(request, run)
    BY <1>2 DEF HandleLate
  <2> QED
    BY <2>1, <2>2, ServeEffect DEF TypeOK
<1>3. CASE \E x \in Task : Handle(x)
  <2>1. PICK x \in Task : Handle(x)
    BY <1>3
  <2> QED
    BY <1>1, <2>1, RequestTypes
<1>4. CASE \E request \in late : HandleLate(request)
  <2>1. PICK request \in late : HandleLate(request)
    BY <1>4
  <2> QED
    BY <1>2, <2>1, RequestTypes
<1> QED
  BY <1>3, <1>4

(* Every step keeps the runs the page can name among those it has seen.     *)
LEMMA SeenStep ==
    ASSUME TypeOK, SeenInv, [Next]_vars
    PROVE  SeenInv'
<1>1. ASSUME LoadStep
      PROVE  /\ charged' \subseteq created' /\ created' = created /\ tasks' = tasks /\ late' = late
             /\ \A x \in Task : tasks'[x] # Idle /\ tasks'[x].request.op = "execute" =>
                   /\ tasks'[x].request.run \in created'
                   /\ tasks'[x].run \in {Nothing, tasks'[x].request.run}
             /\ \A request \in late' : request.op = "execute" => request.run \in created'
  BY <1>1 DEF LoadStep, SeenInv, server
<1>2. CASE ReadObservations
  BY <1>1, <1>2 DEF ReadObservations, SeenInv, screen
<1>3. CASE Settle \/ SettleWithoutUsage
  <2>1. PICK shown : Render(shown)
    BY <1>3 DEF Settle, SettleWithoutUsage
  <2>2. load.stage = "asked" /\ LoadStep /\ UNCHANGED <<panel, stored>>
    BY <1>3, <2>1 DEF Settle, SettleWithoutUsage, Render
  <2>3. stored[tenant] \in created \cup {Nothing}
    BY DEF SeenInv, TypeOK
  <2>4. load'.stage = "recovering" => load'.run \in created
    BY <2>1, <2>2, <2>3, RenderEffect
  <2> QED
    BY <1>1, <2>2, <2>4 DEF SeenInv
<1>4. CASE ServeRecovery
  BY <1>1, <1>4, ServeRecoveryEffect DEF ServeRecovery, SeenInv, screen
<1>5. CASE Recover
  BY <1>1, <1>5 DEF Recover, EndLoad, NoLoad, SeenInv, TypeOK
<1>6. CASE LoadFails
  BY <1>1, <1>6 DEF LoadFails, EndLoad, NoLoad, SeenInv
<1>7. CASE (\E x \in Task : Handle(x)) \/ \E request \in late : HandleLate(request)
  <2>1. charged' \subseteq created
    BY <1>7, ServerSteps, RequestTypes DEF SeenInv
  <2>2. UNCHANGED <<created, panel, stored, load>>
    BY <1>7, ServerSteps DEF page, screen, history
  <2> QED
    BY <1>7, <2>1, <2>2, ServerSteps DEF SeenInv
<1>8. ASSUME NEW x \in Task, AnswerCreate(x) PROVE SeenInv'
  <2>1. /\ UNCHANGED <<server, load, late>> /\ Remember(x, "Planned")
    BY <1>8 DEF AnswerCreate
  <2>2. /\ stored'[tenant] = tasks[x].run
        /\ \A t \in Tenant \ {tenant} : stored'[t] = stored[t]
        /\ panel'.run = tasks[x].run
    BY <2>1, RememberEffect
  <2>3. /\ created' = created \cup {tasks[x].run}
        /\ tasks'[x].request.run = tasks[x].run /\ tasks'[x].run = Nothing
        /\ \A y \in Task \ {x} : tasks'[y] = tasks[y]
    BY <1>8, AnswerCreateEffect
  <2>4. \A y \in Task : tasks'[y] # Idle /\ tasks'[y].request.op = "execute" =>
           /\ tasks'[y].request.run \in created'
           /\ tasks'[y].run \in {Nothing, tasks'[y].request.run}
    BY <2>3 DEF SeenInv
  <2> QED
    BY <2>1, <2>2, <2>3, <2>4 DEF SeenInv, server
<1>9. ASSUME NEW x \in Task, AnswerExecute(x) PROVE SeenInv'
  <2>1. /\ Remember(x, "Completed") /\ UNCHANGED <<server, late, created>>
        /\ tasks[x].request.op = "execute"
        /\ tasks' = [tasks EXCEPT ![x] = Idle]
        /\ load' = load \/ load'.stage = "reading"
    BY <1>9 DEF AnswerExecute, SetLoading
  <2>2. tasks[x].run \in created
    BY <2>1, RememberEffect DEF SeenInv
  <2>3. tasks'[x] = Idle /\ \A y \in Task \ {x} : tasks'[y] = tasks[y]
    BY <2>1, TaskChange
  <2> QED
    BY <2>1, <2>2, <2>3, RememberEffect DEF SeenInv, TypeOK, server
<1>10. ASSUME NEW x \in Task, Refused(x) \/ TaskFails(x) PROVE SeenInv'
  <2>1. Giveup(x) /\ UNCHANGED <<charged, created, stored, load>>
    BY <1>10 DEF Refused, TaskFails, Giveup, server, history
  <2>2. \A request \in late' : request.op = "execute" => request.run \in created
    BY <1>10 DEF Refused, TaskFails, SeenInv
  <2> QED
    BY <2>1, <2>2, GiveupEffect DEF SeenInv
<1>11. ASSUME NEW x \in Task, Submit(x) PROVE SeenInv'
  BY <1>11, SubmitEffect DEF Submit, SeenInv, server
<1>12. ASSUME NEW x \in Task, Resume(x) PROVE SeenInv'
  BY <1>12, ResumeEffect DEF Resume, SeenInv, server, history
<1>13. ASSUME NEW t \in Tenant, Pick(t) \/ Connect(t) PROVE SeenInv'
  BY <1>13 DEF Pick, Connect, LoadData, SetLoading, SeenInv, server, history
<1>14. ASSUME NEW p \in Period, ChangePeriod(p) PROVE SeenInv'
  BY <1>14 DEF ChangePeriod, LoadData, SetLoading, SeenInv, server
<1>15. CASE Refresh
  BY <1>15 DEF Refresh, SetLoading, SeenInv, server, history
<1>16. CASE Reload
  <2>1. \A request \in late' : request.op = "execute" => request.run \in created
    <3>1. \A x \in Task : tasks[x].state = "waiting" => tasks[x] # Idle
      BY DEF Idle
    <3> QED
      BY <1>16, <3>1 DEF Reload, SeenInv
  <2> QED
    BY <1>16, <2>1 DEF Reload, SeenInv, NoPanel, server, history
<1>17. CASE UNCHANGED vars
  BY <1>17 DEF vars, server, page, screen, history, SeenInv
<1> QED
  BY <1>2, <1>3, <1>4, <1>5, <1>6, <1>7, <1>8, <1>9, <1>10, <1>11, <1>12, <1>13, <1>14, <1>15,
     <1>16, <1>17, Steps

(* A run whose creation the page never saw is never charged: no request it  *)
(* sends, or gave up, executes such a run.                                  *)
THEOREM OrphansAreFreeHolds == Spec => []OrphansAreFree
<1>1. Init => SeenInv
  BY DEF Init, SeenInv, Server!Init, NoPanel, Idle
<1>2. TypeOK /\ SeenInv /\ [Next]_vars => SeenInv'
  BY SeenStep
<1>3. SeenInv => OrphansAreFree
  BY DEF SeenInv, OrphansAreFree
<1> QED
  BY <1>1, <1>2, <1>3, TypeCorrect, PTL DEF Spec

-----------------------------------------------------------------------------
(* A load that waits for something is going on; one that ends waits for     *)
(* nothing, and one that begins reads first.                                *)
LEMMA Loading ==
    ASSUME TypeOK
    PROVE  /\ loading \in BOOLEAN
           /\ load.stage \in {"reading", "asked", "recovering"} => loading
           /\ NoLoad.stage = "none"
           /\ EndLoad => ~loading' /\ load'.stage = "none"
           /\ SetLoading => loading' /\ load'.stage = "reading"
<1>1. loading \in BOOLEAN /\ loading = (load # NoLoad) /\ load \in Load
  BY DEF TypeOK
<1>2. load.stage \in {"reading", "asked", "recovering"} => loading
  BY <1>1, LoadStages
<1>3. /\ NoLoad.stage = "none"
      /\ EndLoad => ~loading' /\ load'.stage = "none"
      /\ SetLoading => loading' /\ load'.stage = "reading"
  BY DEF EndLoad, SetLoading, NoLoad
<1> QED
  BY <1>1, <1>2, <1>3

(* Every step keeps the button true to the page.                            *)
LEMMA ButtonStep ==
    ASSUME TypeOK, ButtonInv, [Next]_vars
    PROVE  ButtonInv'
<1> DEFINE NoAgent == \A x \in Task : tasks[x] # Idle => ~tasks[x].agent
<1>1. CASE ReadObservations \/ ServeRecovery
  <2>1. loading' = loading /\ loading
    BY <1>1, Loading DEF ReadObservations, ServeRecovery
  <2> QED
    BY <2>1 DEF ButtonInv
<1>2. CASE Settle \/ SettleWithoutUsage
  <2>1. PICK shown : Render(shown)
    BY <1>2 DEF Settle, SettleWithoutUsage
  <2>2. load.stage = "asked" /\ loading
    BY <1>2, Loading DEF Settle, SettleWithoutUsage
  <2>3. EndLoad \/ loading' = loading
    BY <2>1 DEF Render
  <2> QED
    BY <2>2, <2>3 DEF EndLoad, ButtonInv
<1>3. CASE Recover \/ LoadFails
  BY <1>3 DEF Recover, LoadFails, EndLoad, ButtonInv
<1>4. CASE (\E x \in Task : Handle(x)) \/ \E request \in late : HandleLate(request)
  <2>1. /\ UNCHANGED page
        /\ \A x \in Task : tasks[x] # Idle => /\ tasks'[x] # Idle
                                              /\ tasks[x].agent => tasks'[x].agent
    <3>1. UNCHANGED page
      BY <1>4, ServerSteps
    <3> QED
      BY <1>4, <3>1, ServerSteps
  <2>2. NoAgent' => NoAgent
    BY <2>1
  <2> QED
    BY <2>1, <2>2 DEF ButtonInv, page, screen
<1>5. ASSUME NEW x \in Task, AnswerCreate(x) \/ Submit(x) PROVE ButtonInv'
  <2>1. tasks'[x] # Idle /\ tasks'[x].agent = TRUE
    BY <1>5, AnswerCreateEffect, SubmitEffect
  <2> QED
    BY <2>1 DEF ButtonInv
<1>6. ASSUME NEW x \in Task, AnswerExecute(x) PROVE ButtonInv'
  <2>1. loading'
    BY <1>6, Loading DEF AnswerExecute
  <2> QED
    BY <2>1 DEF ButtonInv
<1>7. ASSUME NEW x \in Task, Refused(x) \/ TaskFails(x) PROVE ButtonInv'
  <2>1. /\ Giveup(x) /\ Enable(tasks[x].agent) /\ tasks[x] # Idle
        /\ UNCHANGED <<connected, loading, selected>>
    BY <1>7 DEF Refused, TaskFails, Giveup, Idle
  <2>2. tasks'[x] = Idle /\ \A y \in Task \ {x} : tasks'[y] = tasks[y]
    BY <2>1, GiveupEffect
  <2>3. CASE tasks[x].agent
    BY <2>1, <2>3 DEF Enable, ButtonInv
  <2>4. CASE ~tasks[x].agent
    <3>1. NoAgent' => NoAgent
      BY <2>2, <2>4
    <3>2. UNCHANGED runAgentEnabled
      BY <2>1, <2>4 DEF Enable
    <3> QED
      BY <2>1, <3>1, <3>2 DEF ButtonInv
  <2> QED
    BY <2>3, <2>4
<1>8. ASSUME NEW x \in Task, tasks[x] = Idle, Resume(x) PROVE ButtonInv'
  <2>1. NoAgent' => NoAgent
    BY <1>8, ResumeEffect
  <2> QED
    BY <1>8, <2>1 DEF Resume, ButtonInv
<1>9. ASSUME NEW t \in Tenant, Pick(t) PROVE ButtonInv'
  BY <1>9 DEF Pick, ButtonInv
<1>10. ASSUME NEW t \in Tenant, Connect(t) PROVE ButtonInv'
  BY <1>10 DEF Connect, LoadData, SetLoading, ButtonInv
<1>11. ASSUME NEW p \in Period, ChangePeriod(p) PROVE ButtonInv'
  <2>1. SetLoading \/ UNCHANGED <<loading, runAgentEnabled>>
    BY <1>11 DEF ChangePeriod, LoadData
  <2> QED
    BY <1>11, <2>1 DEF ChangePeriod, SetLoading, ButtonInv
<1>12. CASE Refresh \/ Reload
  BY <1>12 DEF Refresh, Reload, SetLoading, ButtonInv
<1>13. CASE UNCHANGED vars
  BY <1>13 DEF vars, page, screen, ButtonInv
<1> QED
  BY <1>1, <1>2, <1>3, <1>4, <1>5, <1>6, <1>7, <1>8, <1>9, <1>10, <1>11, <1>12, <1>13, Steps

(* When nothing is under way the button is enabled exactly when it may be:  *)
(* whatever ends last, a load or a task, leaves it so.                      *)
THEOREM ButtonTellsTruthHolds == Spec => []ButtonTellsTruth
<1>1. Init => ButtonInv
  BY DEF Init, ButtonInv
<1>2. TypeOK /\ ButtonInv /\ [Next]_vars => ButtonInv'
  BY ButtonStep
<1>3. ButtonInv => ButtonTellsTruth
  BY DEF ButtonInv, ButtonTellsTruth
<1> QED
  BY <1>1, <1>2, <1>3, TypeCorrect, PTL DEF Spec

-----------------------------------------------------------------------------
(* Every step keeps the screen true to the configuration.                   *)
LEMMA ScreenStep ==
    ASSUME TypeOK, ScreenInv, [Next]_vars
    PROVE  ScreenInv'
<1> DEFINE Shown == <<tenant, period, rows, usagePanel, missed>>
<1>1. CASE ReadObservations
  <2>1. /\ load' = [stage |-> "asked", period |-> period] /\ UNCHANGED <<loading, period>>
        /\ loading
    BY <1>1, Loading DEF ReadObservations, LoadStep, config
  <2> QED
    BY <2>1 DEF ScreenInv
<1>2. ASSUME NEW shown, Render(shown), load.stage = "asked",
             shown # NoUsage => shown.tenant = tenant /\ shown.period = load.period
      PROVE  ScreenInv'
  <2>1. ShowsConfig'
    BY <1>2 DEF Render, LoadStep, config, ShowsConfig, ScreenInv
  <2>2. load'.stage # "asked"
    BY <1>2, RenderEffect
  <2> QED
    BY <2>1, <2>2 DEF ScreenInv
<1>3. CASE Settle \/ SettleWithoutUsage
  BY <1>2, <1>3 DEF Settle, SettleWithoutUsage
<1>4. CASE ServeRecovery
  <2>1. load.stage = "recovering" /\ loading /\ UNCHANGED <<Shown, loading>>
    BY <1>4, Loading DEF ServeRecovery, LoadStep, config, screen
  <2>2. load'.stage = "recovering"
    BY <1>4, ServeRecoveryEffect
  <2> QED
    BY <2>1, <2>2 DEF ScreenInv, ShowsConfig
<1>5. CASE Recover
  <2>1. load.stage = "recovering" /\ UNCHANGED Shown
    BY <1>5 DEF Recover, LoadStep, config
  <2>2. load'.stage = "none"
    BY <1>5, Loading DEF Recover
  <2> QED
    BY <2>1, <2>2 DEF ScreenInv, ShowsConfig
<1>6. CASE LoadFails
  <2>1. connected' = FALSE /\ load'.stage = "none"
    BY <1>6, Loading DEF LoadFails
  <2> QED
    BY <2>1 DEF ScreenInv
<1>7. ASSUME UNCHANGED <<Shown, connected, loading, load>> PROVE ScreenInv'
  BY <1>7 DEF ScreenInv, ShowsConfig
<1>8. ASSUME SetLoading PROVE ScreenInv'
  <2>1. loading' /\ load'.stage = "reading"
    BY <1>8, Loading
  <2> QED
    BY <2>1 DEF ScreenInv
<1>9. CASE (\E x \in Task : Handle(x)) \/ \E request \in late : HandleLate(request)
  <2>1. UNCHANGED <<page, history>>
    BY <1>9, ServerSteps
  <2> QED
    BY <1>7, <2>1 DEF page, config, screen, history
<1>10. ASSUME NEW x \in Task, AnswerCreate(x) \/ Refused(x) \/ TaskFails(x) \/ Submit(x) \/ Resume(x)
       PROVE  ScreenInv'
  <2>1. UNCHANGED <<Shown, connected, loading, load>>
    BY <1>10 DEF AnswerCreate, Refused, TaskFails, Giveup, Submit, Resume, config, history
  <2> QED
    BY <1>7, <2>1
<1>11. ASSUME NEW x \in Task, AnswerExecute(x) PROVE ScreenInv'
  <2>1. SetLoading \/ UNCHANGED <<Shown, connected, loading, load>>
    BY <1>11 DEF AnswerExecute, config
  <2> QED
    BY <1>7, <1>8, <2>1
<1>12. ASSUME NEW t \in Tenant, Pick(t) \/ Connect(t) PROVE ScreenInv'
  <2>1. SetLoading \/ UNCHANGED <<Shown, connected, loading, load>>
    BY <1>12 DEF Pick, Connect, LoadData, config, history
  <2> QED
    BY <1>7, <1>8, <2>1
<1>13. ASSUME NEW p \in Period, ChangePeriod(p) PROVE ScreenInv'
  <2>1. /\ UNCHANGED <<tenant, connected, usagePanel>>
        /\ SetLoading \/ UNCHANGED <<loading, load, rows>>
        /\ connected => SetLoading \/ loading
        /\ load.stage \in {"asked", "recovering"} => missed'
    BY <1>13 DEF ChangePeriod, LoadData
  <2>2. CASE ~SetLoading
    <3>1. UNCHANGED <<tenant, connected, usagePanel, loading, load, rows>> /\ ~(connected /\ ~loading)
      BY <2>1, <2>2
    <3> QED
      BY <2>1, <3>1 DEF ScreenInv, ShowsConfig
  <2> QED
    BY <1>8, <2>2
<1>14. CASE Refresh
  BY <1>8, <1>14 DEF Refresh
<1>15. CASE Reload
  BY <1>15 DEF Reload, ScreenInv
<1>16. CASE UNCHANGED vars
  BY <1>7, <1>16 DEF vars, page, config, screen, history
<1> QED
  BY <1>1, <1>3, <1>4, <1>5, <1>6, <1>9, <1>10, <1>11, <1>12, <1>13, <1>14, <1>15, <1>16, Steps

(* A page that says it is connected shows the observations and the usage of *)
(* the tenant it names, however requests and changes of the configuration   *)
(* interleave.                                                              *)
THEOREM ConnectedShowsConfigHolds == Spec => []ConnectedShowsConfig
<1>1. Init => ScreenInv
  BY DEF Init, ScreenInv
<1>2. TypeOK /\ ScreenInv /\ [Next]_vars => ScreenInv'
  BY ScreenStep
<1>3. ScreenInv => ConnectedShowsConfig
  BY DEF ScreenInv, ShowsConfig, ConnectedShowsConfig
<1> QED
  BY <1>1, <1>2, <1>3, TypeCorrect, PTL DEF Spec

-----------------------------------------------------------------------------
(* A run that was created keeps its tenant.                                 *)
LEMMA OwnersKept ==
    ASSUME TypeOK, SeenInv, OwnedInv,
           \/ \E x \in Task : Handle(x)
           \/ \E request \in late : HandleLate(request)
    PROVE  \A r \in created : /\ bindings[r] # Server!Free
                              /\ bindings'[r] = bindings[r]
<1>1. created \subseteq RunId
  BY DEF TypeOK
<1>2. \A r \in RunId : bindings[r] # Server!Free => bindings'[r] = bindings[r]
  BY ServerSteps
<1> QED
  BY <1>1, <1>2 DEF OwnedInv

(* Every step keeps whose run it is.                                        *)
LEMMA OwnedStep ==
    ASSUME TypeOK, SeenInv, OwnedInv, [Next]_vars
    PROVE  OwnedInv'
<1>1. ASSUME UNCHANGED <<bindings, created, tasks, latest, crossed>>,
             \/ load'.stage = "recovering" => load'.status = "unread"
             \/ UNCHANGED <<tenant, load>>,
             \A t \in Tenant : stored'[t] \in {stored[t], Nothing}
      PROVE  OwnedInv'
  BY <1>1 DEF OwnedInv, OwnRun
<1>2. CASE ReadObservations
  BY <1>1, <1>2 DEF ReadObservations, LoadStep, server
<1>3. CASE Settle \/ SettleWithoutUsage
  <2>1. PICK shown : Render(shown)
    BY <1>3 DEF Settle, SettleWithoutUsage
  <2>2. load.stage = "asked" /\ LoadStep /\ UNCHANGED stored
    BY <1>3, <2>1 DEF Settle, SettleWithoutUsage, Render
  <2>3. load'.stage = "recovering" => load'.status = "unread"
    BY <2>1, <2>2, RenderEffect
  <2> QED
    BY <1>1, <2>2, <2>3 DEF LoadStep, server
<1>4. CASE ServeRecovery
  <2>1. UNCHANGED <<bindings, created, tasks, latest, crossed, tenant, stored>>
    BY <1>4 DEF ServeRecovery, LoadStep, server, config
  <2>2. /\ load'.run = load.run
        /\ OwnRun(tenant, load.run) => load'.status \in {"Planned", "Completed"}
        /\ ~OwnRun(tenant, load.run) => load'.status = "missing"
    BY <1>4, ServeRecoveryEffect
  <2>3. /\ load'.status \in {"Planned", "Completed"} => OwnRun(tenant, load.run)'
        /\ load'.status = "missing" => ~OwnRun(tenant, load.run)'
    BY <2>1, <2>2 DEF OwnRun
  <2> QED
    BY <2>1, <2>3 DEF OwnedInv, OwnRun
<1>5. CASE Recover
  <2>1. UNCHANGED <<bindings, created, tasks, latest, crossed, tenant>> /\ load'.stage = "none"
    BY <1>5, Loading DEF Recover, LoadStep, server, config
  <2>2. \A t \in Tenant : stored'[t] \in {stored[t], Nothing}
    BY <1>5 DEF Recover, TypeOK
  <2> QED
    BY <1>1, <2>1, <2>2
<1>6. CASE LoadFails
  <2>1. load'.stage = "none" /\ LoadStep /\ UNCHANGED stored
    BY <1>6, Loading DEF LoadFails
  <2> QED
    BY <1>1, <2>1 DEF LoadStep, server
<1>7. CASE (\E x \in Task : Handle(x)) \/ \E request \in late : HandleLate(request)
  <2>1. UNCHANGED <<created, latest, crossed, load, tenant, stored>>
    <3>1. UNCHANGED <<page, stored, history>>
      BY <1>7, ServerSteps
    <3> QED
      BY <3>1 DEF page, config, history
  <2>2. \A r \in created : bindings[r] # Server!Free /\ bindings'[r] = bindings[r]
    BY <1>7, OwnersKept
  <2>3. ASSUME NEW x \in Task, tasks'[x] # Idle, tasks'[x].run # Nothing
        PROVE  OwnRun(tasks[x].request.tenant, tasks[x].run)'
    <3>1. /\ tasks[x] # Idle
          /\ tasks'[x].request = tasks[x].request
          /\ \/ tasks'[x].run \in {tasks[x].run, Nothing}
             \/ /\ tasks'[x].run \in RunId
                /\ bindings'[tasks'[x].run] # Server!Free
                /\ bindings'[tasks'[x].run].tenant = tasks[x].request.tenant
      BY <1>7, <2>3, ServerSteps
    <3>2. CASE tasks'[x].run = tasks[x].run
      <4>1. OwnRun(tasks[x].request.tenant, tasks[x].run) /\ tasks[x].run # Nothing
        BY <2>3, <3>1, <3>2 DEF OwnedInv
      <4>2. tasks[x].run \in RunId
        BY <3>1, <4>1 DEF TypeOK, TaskState
      <4>3. bindings'[tasks[x].run] = bindings[tasks[x].run]
        BY <1>7, <4>1, <4>2, ServerSteps DEF OwnRun
      <4> QED
        BY <3>1, <3>2, <4>1, <4>3 DEF OwnRun
    <3> QED
      BY <2>3, <3>1, <3>2 DEF OwnRun
  <2>4. \A t \in Tenant : latest[t] # Nothing => OwnRun(t, latest[t])'
    BY <2>1, <2>2 DEF OwnedInv, OwnRun
  <2>5. load.stage = "recovering" =>
          /\ load.status \in {"Planned", "Completed"} => OwnRun(tenant, load.run)'
          /\ load.status = "missing" => ~OwnRun(tenant, load.run)'
    BY <2>1, <2>2 DEF SeenInv, OwnedInv, OwnRun
  <2>6. crossed = {} => \A t \in Tenant : stored[t] # Nothing => OwnRun(t, stored[t])'
    BY <2>1, <2>2 DEF SeenInv, OwnedInv, OwnRun
  <2> QED
    BY <2>1, <2>2, <2>3, <2>4, <2>5, <2>6 DEF OwnedInv
<1>8. ASSUME NEW x \in Task, NEW status \in {"Planned", "Completed"}, Remember(x, status)
      PROVE  /\ OwnRun(tasks[x].request.tenant, tasks[x].run)
             /\ crossed' = {} => \A t \in Tenant : stored'[t] # Nothing => OwnRun(t, stored'[t])
  <2>1. OwnRun(tasks[x].request.tenant, tasks[x].run)
    BY <1>8, RememberEffect DEF OwnedInv
  <2>2. crossed' = {} => crossed = {} /\ tasks[x].request.tenant = tenant
    BY <1>8, RememberEffect
  <2> QED
    BY <1>8, <2>1, <2>2, RememberEffect DEF OwnedInv
<1>9. ASSUME NEW x \in Task, AnswerCreate(x) PROVE OwnedInv'
  <2>1. UNCHANGED <<bindings, load, tenant>> /\ Remember(x, "Planned")
    BY <1>9 DEF AnswerCreate, server, config
  <2>2. /\ OwnRun(tasks[x].request.tenant, tasks[x].run)
        /\ crossed' = {} => \A t \in Tenant : stored'[t] # Nothing => OwnRun(t, stored'[t])
    BY <1>8, <2>1
  <2>3. /\ tasks'[x].run = Nothing /\ \A y \in Task \ {x} : tasks'[y] = tasks[y]
        /\ created' = created \cup {tasks[x].run}
        /\ latest'[tasks[x].request.tenant] = tasks[x].run
        /\ \A t \in Tenant \ {tasks[x].request.tenant} : latest'[t] = latest[t]
    BY <1>9, AnswerCreateEffect
  <2>4. \A r \in created' : bindings'[r] # Server!Free
    BY <2>1, <2>2, <2>3 DEF OwnedInv, OwnRun
  <2>5. \A t \in Tenant : latest'[t] # Nothing => latest'[t] \in created' /\ OwnRun(t, latest'[t])
    BY <2>2, <2>3 DEF OwnedInv
  <2>6. \A y \in Task : tasks'[y] # Idle /\ tasks'[y].run # Nothing =>
          OwnRun(tasks'[y].request.tenant, tasks'[y].run)
    BY <2>3 DEF OwnedInv
  <2> QED
    BY <2>1, <2>2, <2>4, <2>5, <2>6 DEF OwnedInv, OwnRun
<1>10. ASSUME NEW x \in Task, AnswerExecute(x) PROVE OwnedInv'
  <2>1. /\ UNCHANGED <<bindings, created, latest, tenant>> /\ Remember(x, "Completed")
        /\ tasks' = [tasks EXCEPT ![x] = Idle]
        /\ load' = load \/ load'.stage = "reading"
    BY <1>10, Loading DEF AnswerExecute, server, config
  <2>2. crossed' = {} => \A t \in Tenant : stored'[t] # Nothing => OwnRun(t, stored'[t])
    BY <1>8, <2>1
  <2>3. tasks'[x] = Idle /\ \A y \in Task \ {x} : tasks'[y] = tasks[y]
    BY <2>1, TaskChange
  <2> QED
    BY <2>1, <2>2, <2>3 DEF OwnedInv, OwnRun
<1>11. ASSUME UNCHANGED <<bindings, created, latest, crossed, stored>>,
              load'.stage # "recovering" \/ UNCHANGED <<tenant, load>>,
              \A x \in Task : tasks'[x] # Idle /\ tasks'[x].run # Nothing => tasks'[x] = tasks[x]
       PROVE  OwnedInv'
  BY <1>11 DEF OwnedInv, OwnRun
<1>12. ASSUME NEW x \in Task, Refused(x) \/ TaskFails(x) PROVE OwnedInv'
  <2>1. Giveup(x) /\ UNCHANGED <<bindings, created, latest, crossed, stored, tenant, load>>
    BY <1>12 DEF Refused, TaskFails, Giveup, server, config, history
  <2> QED
    BY <1>11, <2>1, GiveupEffect
<1>13. ASSUME NEW x \in Task, Submit(x) \/ Resume(x) PROVE OwnedInv'
  <2>1. UNCHANGED <<bindings, created, latest, crossed, stored, tenant, load>>
    BY <1>13 DEF Submit, Resume, server, config, history
  <2> QED
    BY <1>11, <1>13, <2>1, SubmitEffect, ResumeEffect
<1>14. ASSUME NEW t \in Tenant, Pick(t) \/ Connect(t) PROVE OwnedInv'
  <2>1. /\ UNCHANGED <<bindings, created, latest, crossed, stored, tasks>>
        /\ SetLoading \/ UNCHANGED <<tenant, load>>
    BY <1>14 DEF Pick, Connect, LoadData, server, config, history
  <2> QED
    BY <1>11, <2>1, Loading
<1>15. ASSUME NEW p \in Period, ChangePeriod(p) PROVE OwnedInv'
  <2>1. /\ UNCHANGED <<bindings, created, latest, crossed, stored, tasks>>
        /\ SetLoading \/ UNCHANGED <<tenant, load>>
    BY <1>15 DEF ChangePeriod, LoadData, server
  <2> QED
    BY <1>11, <2>1, Loading
<1>16. CASE Refresh \/ Reload
  <2>1. /\ UNCHANGED <<bindings, created, latest, crossed, stored>>
        /\ load'.stage = "reading"
        /\ \A x \in Task : tasks'[x] = tasks[x] \/ tasks'[x] = Idle
    BY <1>16, Loading DEF Refresh, Reload, server, history
  <2> QED
    BY <1>11, <2>1
<1>17. CASE UNCHANGED vars
  BY <1>11, <1>17 DEF vars, server, page, config, history
<1> QED
  BY <1>2, <1>3, <1>4, <1>5, <1>6, <1>7, <1>9, <1>10, <1>12, <1>13, <1>14, <1>15, <1>16, <1>17, Steps

-----------------------------------------------------------------------------
(* Every step keeps what is stored on the screen, or on its way there.      *)
LEMMA PanelStep ==
    ASSUME TypeOK, PanelInv, [Next]_vars
    PROVE  PanelInv'
<1>1. ASSUME load'.stage # "recovering" \/ UNCHANGED load,
             ~connected' \/ loading' \/ UNCHANGED <<connected, loading>>,
             UNCHANGED stored, tenant' = tenant \/ (load'.stage = "reading" /\ loading'),
             panel'.run \in {panel.run, Nothing}, UNCHANGED raced
      PROVE  PanelInv'
  BY <1>1 DEF PanelInv
<1>2. CASE ReadObservations
  <2>1. UNCHANGED <<connected, loading, panel, stored, raced, tenant>> /\ load'.stage = "asked"
    BY <1>2 DEF ReadObservations, LoadStep, screen, config
  <2> QED
    BY <1>1, <2>1
<1>3. CASE Settle \/ SettleWithoutUsage
  <2>1. PICK shown : Render(shown)
    BY <1>3 DEF Settle, SettleWithoutUsage
  <2>2. load.stage = "asked" /\ UNCHANGED <<panel, stored, raced, tenant>>
    BY <1>3, <2>1 DEF Settle, SettleWithoutUsage, Render, LoadStep, config
  <2> QED
    BY <2>1, <2>2, RenderEffect DEF PanelInv
<1>4. CASE ServeRecovery
  <2>1. /\ UNCHANGED <<connected, loading, panel, stored, raced, tenant>>
        /\ load.stage = "recovering" /\ loading
    BY <1>4, Loading DEF ServeRecovery, LoadStep, screen, config
  <2> QED
    BY <1>4, <2>1, ServeRecoveryEffect DEF PanelInv
<1>5. CASE Recover
  <2>1. /\ load.stage = "recovering" /\ load'.stage = "none"
        /\ UNCHANGED <<connected, raced, tenant>>
    BY <1>5, Loading DEF Recover, LoadStep, config
  <2>2. CASE load.status = "missing"
    <3>1. stored'[tenant] = Nothing
      BY <1>5, <2>2 DEF Recover, TypeOK
    <3> QED
      BY <2>1, <3>1 DEF PanelInv
  <2>3. CASE load.status # "missing"
    <3>1. panel'.run = load.run /\ UNCHANGED stored
      BY <1>5, <2>3 DEF Recover
    <3> QED
      BY <2>1, <3>1 DEF PanelInv
  <2> QED
    BY <2>2, <2>3
<1>6. CASE LoadFails
  <2>1. ~connected' /\ load'.stage = "none" /\ UNCHANGED <<panel, stored, raced, tenant>>
    BY <1>6, Loading DEF LoadFails, LoadStep, config
  <2> QED
    BY <1>1, <2>1
<1>7. CASE (\E x \in Task : Handle(x)) \/ \E request \in late : HandleLate(request)
  <2>1. UNCHANGED <<page, stored, history>>
    BY <1>7, ServerSteps
  <2> QED
    BY <1>1, <2>1 DEF page, config, screen, history
<1>8. ASSUME NEW x \in Task, NEW status \in {"Planned", "Completed"}, Remember(x, status),
             UNCHANGED tenant, UNCHANGED load \/ load'.stage = "reading"
      PROVE  PanelInv'
  <2>1. stored'[tenant] = panel'.run /\ raced' = (raced \/ load.stage = "recovering")
    BY <1>8, RememberEffect
  <2>2. load'.stage = "recovering" => raced'
    BY <1>8, <2>1
  <2> QED
    BY <1>8, <2>1, <2>2 DEF PanelInv
<1>9. ASSUME NEW x \in Task, AnswerCreate(x) PROVE PanelInv'
  BY <1>8, <1>9 DEF AnswerCreate, config
<1>10. ASSUME NEW x \in Task, AnswerExecute(x) PROVE PanelInv'
  BY <1>8, <1>10, Loading DEF AnswerExecute, config
<1>11. ASSUME NEW x \in Task, Refused(x) \/ TaskFails(x) PROVE PanelInv'
  <2>1. Giveup(x) /\ UNCHANGED <<connected, loading, load, stored, tenant, raced>>
    BY <1>11 DEF Refused, TaskFails, Giveup, config, history
  <2> QED
    BY <1>1, <2>1, GiveupEffect
<1>12. ASSUME NEW x \in Task, Submit(x) \/ Resume(x) PROVE PanelInv'
  <2>1. UNCHANGED <<connected, loading, load, stored, tenant, raced>>
    BY <1>12 DEF Submit, Resume, config, history
  <2> QED
    BY <1>1, <1>12, <2>1, SubmitEffect, ResumeEffect
<1>13. ASSUME NEW t \in Tenant, Pick(t) \/ Connect(t) PROVE PanelInv'
  <2>1. /\ UNCHANGED <<connected, panel, stored, raced>>
        /\ SetLoading \/ UNCHANGED <<tenant, loading, load>>
    BY <1>13 DEF Pick, Connect, LoadData, config, history
  <2> QED
    BY <1>1, <2>1, Loading
<1>14. ASSUME NEW p \in Period, ChangePeriod(p) PROVE PanelInv'
  <2>1. /\ UNCHANGED <<tenant, connected, panel, stored, raced>>
        /\ SetLoading \/ UNCHANGED <<loading, load>>
    BY <1>14 DEF ChangePeriod, LoadData
  <2> QED
    BY <1>1, <2>1, Loading
<1>15. CASE Refresh \/ Reload
  <2>1. /\ UNCHANGED <<tenant, stored, raced>> /\ loading' /\ load'.stage = "reading"
        /\ panel' = panel \/ panel' = NoPanel
    BY <1>15, Loading DEF Refresh, Reload, config, history
  <2>2. NoPanel.run = Nothing
    BY DEF NoPanel
  <2> QED
    BY <1>1, <2>1, <2>2
<1>16. CASE UNCHANGED vars
  BY <1>1, <1>16 DEF vars, page, config, screen, history
<1> QED
  BY <1>2, <1>3, <1>4, <1>5, <1>6, <1>7, <1>9, <1>10, <1>11, <1>12, <1>13, <1>14, <1>15, <1>16, Steps

(* Without a switch in between, what is stored for a tenant is its own, and *)
(* a connected page shows the stored run or none, unless a recovery         *)
(* answered after a newer run was rendered.                                 *)
THEOREM PanelIsStoredHolds == Spec => []PanelIsStored
<1>1. Init => SeenInv /\ OwnedInv /\ PanelInv
  BY DEF Init, SeenInv, OwnedInv, PanelInv, Server!Init, NoPanel, Idle
<1>2. TypeOK /\ (SeenInv /\ OwnedInv /\ PanelInv) /\ [Next]_vars
        => (SeenInv /\ OwnedInv /\ PanelInv)'
  BY SeenStep, OwnedStep, PanelStep
<1>3. OwnedInv /\ PanelInv => PanelIsStored
  BY DEF OwnedInv, PanelInv, PanelIsStored
<1> QED
  BY <1>1, <1>2, <1>3, TypeCorrect, PTL DEF Spec

-----------------------------------------------------------------------------
(* Every step keeps a tenant's last run stored until it is executed.        *)
LEMMA LatestStep ==
    ASSUME TypeOK, SeenInv, OwnedInv, PanelInv, LatestInv, [Next]_vars
    PROVE  LatestInv'
<1> DEFINE Pending(x) == tasks[x] # Idle /\ tasks[x].request.op = "execute"
<1>1. ASSUME \A r \in created : bindings'[r] = bindings[r],
             UNCHANGED <<latest, stored, crossed, overlapped, raced>>,
             charged \subseteq charged',
             panel'.run \in {panel.run, Nothing},
             \A x \in Task : Pending(x)' =>
                \/ Pending(x) /\ tasks'[x].request = tasks[x].request
                \/ tasks'[x].request.run = panel.run /\ panel.run # Nothing
      PROVE  LatestInv'
  <2> SUFFICES ASSUME NEW t \in Tenant \ crossed, latest[t] # Nothing, latest[t] \notin charged',
                      ~overlapped, ~raced
               PROVE  /\ stored[t] = latest[t]
                      /\ panel'.run # Nothing /\ OwnRun(t, panel.run)' => panel'.run = latest[t]
                      /\ \A x \in Task :
                            Pending(x)' /\ tasks'[x].request.tenant = t /\ OwnRun(t, tasks[x].request.run)'
                               => tasks'[x].request.run = latest[t]
    BY <1>1 DEF LatestInv
  <2>1. /\ stored[t] = latest[t]
        /\ panel.run # Nothing /\ OwnRun(t, panel.run) => panel.run = latest[t]
        /\ \A x \in Task : Pending(x) /\ tasks[x].request.tenant = t /\ OwnRun(t, tasks[x].request.run)
                            => tasks[x].request.run = latest[t]
    BY <1>1 DEF LatestInv
  <2>2. panel.run # Nothing => bindings'[panel.run] = bindings[panel.run]
    BY <1>1 DEF SeenInv
  <2>3. panel'.run # Nothing /\ OwnRun(t, panel.run)' => panel'.run = latest[t]
    BY <1>1, <2>1, <2>2 DEF OwnRun
  <2>4. ASSUME NEW x \in Task, Pending(x)', tasks'[x].request.tenant = t, OwnRun(t, tasks[x].request.run)'
        PROVE  tasks'[x].request.run = latest[t]
    <3>1. CASE Pending(x) /\ tasks'[x].request = tasks[x].request
      <4>1. bindings'[tasks[x].request.run] = bindings[tasks[x].request.run]
        BY <1>1, <3>1 DEF SeenInv
      <4> QED
        BY <2>1, <2>4, <3>1, <4>1 DEF OwnRun
    <3>2. CASE tasks'[x].request.run = panel.run /\ panel.run # Nothing
      BY <2>1, <2>2, <2>4, <3>2 DEF OwnRun
    <3> QED
      BY <1>1, <2>4, <3>1, <3>2
  <2> QED
    BY <2>1, <2>3, <2>4
<1>2. ASSUME LoadStep, UNCHANGED stored, panel' = panel, raced' = raced PROVE LatestInv'
  BY <1>1, <1>2 DEF LoadStep, server
<1>3. CASE ReadObservations \/ ServeRecovery
  BY <1>2, <1>3 DEF ReadObservations, ServeRecovery, screen
<1>4. CASE Settle \/ SettleWithoutUsage \/ LoadFails
  BY <1>2, <1>4 DEF Settle, SettleWithoutUsage, Render, LoadFails
<1>5. CASE Recover
  <2>1. UNCHANGED <<bindings, charged, tenant, tasks, created, latest, crossed, overlapped, raced>>
    BY <1>5 DEF Recover, LoadStep, server, config
  <2>2. load.stage = "recovering" /\ load.run \in created /\ load.run # Nothing
    BY <1>5, NothingAssumption DEF Recover, SeenInv, TypeOK
  <2>3. CASE load.status = "missing"
    <3>1. ~OwnRun(tenant, load.run)
      BY <2>2, <2>3 DEF OwnedInv
    <3>2. panel' = panel /\ \A t \in Tenant \ {tenant} : stored'[t] = stored[t]
      BY <1>5, <2>3 DEF Recover, TypeOK
    <3>3. ~raced => load.run = stored[tenant]
      BY <2>2 DEF PanelInv
    <3>4. /\ tenant \in Tenant \ crossed /\ latest[tenant] # Nothing /\ latest[tenant] \notin charged
          /\ ~overlapped /\ ~raced
          => FALSE
      BY <3>1, <3>3 DEF LatestInv, OwnedInv
    <3> QED
      BY <2>1, <3>2, <3>4 DEF LatestInv, OwnRun
  <2>4. CASE load.status # "missing"
    <3>1. panel'.run = load.run /\ UNCHANGED stored
      BY <1>5, <2>4 DEF Recover
    <3>2. OwnRun(tenant, load.run)
      <4>1. load.status \in {"Planned", "Completed"}
        BY <1>5, <2>2, <2>4, LoadStages DEF Recover, TypeOK
      <4> QED
        BY <2>2, <4>1 DEF OwnedInv
    <3>3. ~raced => load.run = stored[tenant]
      BY <2>2 DEF PanelInv
    <3>4. \A t \in Tenant : OwnRun(t, load.run) => t = tenant
      BY <3>2 DEF OwnRun
    <3> QED
      BY <2>1, <3>1, <3>3, <3>4 DEF LatestInv, OwnRun
  <2> QED
    BY <2>3, <2>4
<1>6. CASE (\E x \in Task : Handle(x)) \/ \E request \in late : HandleLate(request)
  <2>1. UNCHANGED <<panel, stored, latest, crossed, overlapped, raced>>
    <3>1. UNCHANGED <<page, stored, history>>
      BY <1>6, ServerSteps
    <3> QED
      BY <3>1 DEF page, screen, history
  <2>2. \A x \in Task : Pending(x)' => Pending(x) /\ tasks'[x].request = tasks[x].request
    BY <1>6, ServerSteps
  <2>3. charged \subseteq charged'
    BY <1>6, ServerSteps
  <2> QED
    BY <1>1, <1>6, <2>1, <2>2, <2>3, OwnersKept
<1>7. ASSUME NEW x \in Task, AnswerCreate(x) PROVE LatestInv'
  <2> DEFINE run == tasks[x].run
             asked == tasks[x].request.tenant
  <2>1. UNCHANGED <<bindings, charged, tenant>> /\ Remember(x, "Planned")
    BY <1>7 DEF AnswerCreate, server, config
  <2>2. /\ asked \in Tenant /\ tasks[x] # Idle /\ run # Nothing
        /\ stored'[tenant] = run /\ \A t \in Tenant \ {tenant} : stored'[t] = stored[t]
        /\ panel'.run = run
        /\ crossed \subseteq crossed'
        /\ asked # tenant => tenant \in crossed' /\ asked \in crossed'
        /\ ~overlapped' => ~overlapped /\ \A y \in Task \ {x} : tasks[y] = Idle
        /\ ~raced' => ~raced
    BY <2>1, RememberEffect
  <2>3. OwnRun(asked, run)
    BY <2>2 DEF OwnedInv
  <2>4. /\ tasks'[x].request.tenant = tenant /\ tasks'[x].request.run = run
        /\ \A y \in Task \ {x} : tasks'[y] = tasks[y]
        /\ latest'[asked] = run /\ \A t \in Tenant \ {asked} : latest'[t] = latest[t]
    BY <1>7, AnswerCreateEffect
  <2> HIDE DEF run, asked
  <2> SUFFICES ASSUME NEW t \in Tenant \ crossed', latest'[t] # Nothing, latest'[t] \notin charged,
                      ~overlapped', ~raced'
               PROVE  /\ stored'[t] = latest'[t]
                      /\ OwnRun(t, run) => run = latest'[t]
                      /\ \A y \in Task : Pending(y)' /\ tasks'[y].request.tenant = t
                            /\ OwnRun(t, tasks'[y].request.run) => tasks'[y].request.run = latest'[t]
    BY <2>1, <2>2 DEF LatestInv, OwnRun
  <2>5. \A y \in Task : Pending(y)' => y = x
    BY <2>2, <2>4
  <2>6. CASE t = asked
    BY <2>2, <2>4, <2>5, <2>6
  <2>7. CASE t # asked
    <3>1. t # tenant /\ t \notin crossed
      BY <2>2, <2>7
    <3>2. ~OwnRun(t, run)
      BY <2>3, <2>7 DEF OwnRun
    <3> QED
      BY <2>2, <2>4, <2>5, <2>7, <3>1, <3>2 DEF LatestInv
  <2> QED
    BY <2>6, <2>7
<1>8. ASSUME NEW x \in Task, AnswerExecute(x) PROVE LatestInv'
  <2> DEFINE run == tasks[x].run
             asked == tasks[x].request.tenant
  <2>1. /\ UNCHANGED <<bindings, charged, latest, tenant>> /\ Remember(x, "Completed")
        /\ tasks[x].request.op = "execute" /\ tasks' = [tasks EXCEPT ![x] = Idle]
    BY <1>8 DEF AnswerExecute, server, config
  <2>2. /\ asked \in Tenant /\ tasks[x] # Idle /\ run # Nothing
        /\ stored'[tenant] = run /\ \A t \in Tenant \ {tenant} : stored'[t] = stored[t]
        /\ panel'.run = run
        /\ crossed \subseteq crossed'
        /\ asked # tenant => tenant \in crossed' /\ asked \in crossed'
        /\ ~overlapped' => ~overlapped
        /\ ~raced' => ~raced
    BY <2>1, RememberEffect
  <2>3. OwnRun(asked, run) /\ run = tasks[x].request.run
    BY <2>1, <2>2 DEF OwnedInv, SeenInv
  <2>4. tasks'[x] = Idle /\ \A y \in Task \ {x} : tasks'[y] = tasks[y]
    BY <2>1, TaskChange
  <2>5. ASSUME NEW t \in Tenant \ crossed', latest[t] # Nothing, latest[t] \notin charged,
               ~overlapped', ~raced'
        PROVE  /\ stored'[t] = latest[t]
               /\ OwnRun(t, run) => run = latest[t]
               /\ \A y \in Task : Pending(y)' /\ tasks'[y].request.tenant = t
                     /\ OwnRun(t, tasks'[y].request.run) => tasks'[y].request.run = latest[t]
    <3>1. /\ t \notin crossed /\ stored[t] = latest[t]
          /\ \A y \in Task : Pending(y) /\ tasks[y].request.tenant = t
                /\ OwnRun(t, tasks[y].request.run) => tasks[y].request.run = latest[t]
      BY <2>2, <2>5 DEF LatestInv
    <3>2. \A y \in Task : Pending(y)' => Pending(y) /\ tasks'[y] = tasks[y]
      BY <2>4
    <3>3. CASE t = asked
      <4>1. t = tenant /\ run = latest[t]
        BY <2>1, <2>2, <2>3, <2>5, <3>1, <3>3
      <4> QED
        BY <2>2, <3>1, <3>2, <4>1
    <3>4. CASE t # asked
      <4>1. t # tenant /\ ~OwnRun(t, run)
        BY <2>2, <2>3, <2>5, <3>4 DEF OwnRun
      <4> QED
        BY <2>2, <3>1, <3>2, <4>1
    <3> QED
      BY <3>3, <3>4
  <2> HIDE DEF run, asked
  <2> QED
    BY <2>1, <2>2, <2>5 DEF LatestInv, OwnRun
<1>9. ASSUME UNCHANGED <<server, stored, history>>, panel'.run \in {panel.run, Nothing},
             \A x \in Task : Pending(x)' =>
                \/ Pending(x) /\ tasks'[x].request = tasks[x].request
                \/ tasks'[x].request.run = panel.run /\ panel.run # Nothing
      PROVE  LatestInv'
  BY <1>1, <1>9 DEF server, history
<1>10. ASSUME NEW x \in Task, Refused(x) \/ TaskFails(x) PROVE LatestInv'
  <2>1. Giveup(x) /\ UNCHANGED <<server, stored, history>>
    BY <1>10 DEF Refused, TaskFails, Giveup
  <2>2. \A y \in Task : Pending(y)' => Pending(y) /\ tasks'[y].request = tasks[y].request
    BY <2>1, GiveupEffect
  <2>3. panel'.run = panel.run
    BY <2>1, GiveupEffect
  <2> QED
    BY <1>9, <2>1, <2>2, <2>3
<1>11. ASSUME NEW x \in Task, Submit(x) PROVE LatestInv'
  <2>1. \A y \in Task : Pending(y)' => Pending(y) /\ tasks'[y].request = tasks[y].request
    BY <1>11, SubmitEffect
  <2>2. UNCHANGED <<server, stored, history>> /\ panel'.run = Nothing
    BY <1>11, SubmitEffect DEF Submit, history
  <2> QED
    BY <1>9, <2>1, <2>2
<1>12. ASSUME NEW x \in Task, Resume(x) PROVE LatestInv'
  <2>1. /\ tasks'[x].request.run = panel.run /\ panel.run # Nothing /\ panel'.run = panel.run
        /\ \A y \in Task \ {x} : tasks'[y] = tasks[y]
    BY <1>12, ResumeEffect
  <2>2. UNCHANGED <<server, stored, history>>
    BY <1>12 DEF Resume
  <2>3. \A y \in Task : Pending(y)' =>
           \/ Pending(y) /\ tasks'[y].request = tasks[y].request
           \/ tasks'[y].request.run = panel.run /\ panel.run # Nothing
    BY <2>1
  <2> QED
    BY <1>9, <2>1, <2>2, <2>3
<1>13. ASSUME NEW t \in Tenant, Pick(t) \/ Connect(t) PROVE LatestInv'
  BY <1>9, <1>13 DEF Pick, Connect
<1>14. ASSUME NEW p \in Period, ChangePeriod(p) PROVE LatestInv'
  BY <1>1, <1>14 DEF ChangePeriod, server
<1>15. CASE Refresh
  BY <1>9, <1>15 DEF Refresh
<1>16. CASE Reload
  <2>1. UNCHANGED <<server, stored, history>> /\ panel'.run = Nothing
    BY <1>16 DEF Reload, NoPanel
  <2>2. \A y \in Task : tasks'[y] = Idle
    BY <1>16 DEF Reload
  <2> QED
    BY <1>9, <2>1, <2>2
<1>17. CASE UNCHANGED vars
  BY <1>9, <1>17 DEF vars, page, screen
<1> QED
  BY <1>3, <1>4, <1>5, <1>6, <1>7, <1>8, <1>10, <1>11, <1>12, <1>13, <1>14, <1>15, <1>16, <1>17, Steps

(* A tenant's last created run can be recovered until it is executed: it is *)
(* what the browser has stored, unless a tenant was switched, two           *)
(* investigations overlapped, or a recovery raced with a newer run.         *)
THEOREM RunRecoverableHolds == Spec => []RunRecoverable
<1> DEFINE IInv == SeenInv /\ OwnedInv /\ PanelInv /\ LatestInv
<1>1. Init => IInv
  BY DEF Init, SeenInv, OwnedInv, PanelInv, LatestInv, Server!Init, NoPanel, Idle
<1>2. TypeOK /\ IInv /\ [Next]_vars => IInv'
  BY SeenStep, OwnedStep, PanelStep, LatestStep
<1>3. IInv => RunRecoverable
  BY DEF LatestInv, RunRecoverable
<1> HIDE DEF IInv
<1> QED
  BY <1>1, <1>2, <1>3, TypeCorrect, PTL DEF Spec

-----------------------------------------------------------------------------
(* One request is served as Metering promises, or changes nothing.          *)
LEMMA ServeIsMetering ==
    ASSUME NEW request \in Create \cup Execute, NEW run \in RunId \cup {Nothing}, Serve(request, run)
    PROVE  [Server!Next]_server
<1>1. CASE request.op = "create" /\ ServeCreate(request, run)
  <2>1. CASE request.evidence = {request.tenant}
    <3>1. request.tenant \in Tenant /\ request.key \in RunId
      BY <1>1, RequestTypes
    <3>2. Server!Bind(request.key, request.tenant, request.key, "InspectFailureContext")
      BY <1>1, <2>1 DEF ServeCreate
    <3> QED
      BY <3>1, <3>2 DEF Server!Next, RunId
  <2> QED
    BY <1>1, <2>1 DEF ServeCreate, server
<1>2. CASE request.op = "execute" /\ ServeExecute(request, run)
  <2>1. request.run \in RunId
    BY <1>2, RequestTypes
  <2>2. Server!Charge(request.run) \/ UNCHANGED server
    BY <1>2 DEF ServeExecute
  <2> QED
    BY <2>1, <2>2 DEF Server!Next
<1> QED
  BY <1>1, <1>2 DEF Serve

(* The page, its retries and the requests it gave up make the server do     *)
(* nothing that Metering does not allow: no other step touches its state.   *)
THEOREM ServerIsMetering == Spec => Server!Spec
<1>1. Init => Server!Init
  BY DEF Init
<1>2. TypeOK /\ [Next]_vars => [Server!Next]_(Server!vars)
  <2> SUFFICES ASSUME TypeOK, [Next]_vars PROVE [Server!Next]_server
    BY DEF server, Server!vars
  <2>1. ASSUME NEW x \in Task, Handle(x) PROVE [Server!Next]_server
    <3>1. tasks[x].request \in Create \cup Execute
      BY <2>1, HandleEffect
    <3> QED
      BY <2>1, <3>1, ServeIsMetering DEF Handle
  <2>2. ASSUME NEW request \in late, HandleLate(request) PROVE [Server!Next]_server
    <3>1. request \in Create \cup Execute
      BY DEF TypeOK
    <3> QED
      BY <2>2, <3>1, ServeIsMetering DEF HandleLate
  <2>3. CASE ReadObservations \/ Settle \/ SettleWithoutUsage \/ ServeRecovery \/ Recover \/ LoadFails
    BY <2>3 DEF ReadObservations, Settle, SettleWithoutUsage, ServeRecovery, Recover, LoadFails,
                Render, LoadStep
  <2>4. ASSUME NEW x \in Task, AnswerCreate(x) \/ AnswerExecute(x) \/ Refused(x) \/ TaskFails(x)
        PROVE  UNCHANGED server
    BY <2>4 DEF AnswerCreate, AnswerExecute, Refused, TaskFails, Giveup
  <2>5. ASSUME NEW x \in Task, Submit(x) \/ Resume(x) PROVE UNCHANGED server
    BY <2>5 DEF Submit, Resume
  <2>6. ASSUME NEW t \in Tenant, Pick(t) \/ Connect(t) PROVE UNCHANGED server
    BY <2>6 DEF Pick, Connect
  <2>7. ASSUME NEW p \in Period, ChangePeriod(p) PROVE UNCHANGED server
    BY <2>7 DEF ChangePeriod
  <2>8. CASE Refresh \/ Reload
    BY <2>8 DEF Refresh, Reload
  <2>9. CASE UNCHANGED vars
    BY <2>9 DEF vars
  <2> QED
    BY <2>1, <2>2, <2>3, <2>4, <2>5, <2>6, <2>7, <2>8, <2>9, Steps
<1> QED
  BY <1>1, <1>2, TypeCorrect, PTL DEF Spec, Server!Spec
=============================================================================
