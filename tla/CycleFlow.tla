------------------------------ MODULE CycleFlow -----------------------------
(***************************************************************************)
(* One cycle from the request that creates it to its last task             *)
(* (openclaw-ui): create_cycle and approve_plan (routes/cycles.rs), the    *)
(* plan generator that the dispatcher starts on PlanRequested and the end  *)
(* of handle_worker_exit (dispatch.rs), the claims of the scheduler        *)
(* (scheduler.rs), and `cycle approve` and `cycle cancel` of the CLI       *)
(* (openclaw-cli, orch.rs).  Each writes orch_cycles and orch_tasks by     *)
(* statements of its own, and most of them without a look at the state     *)
(* they overwrite.                                                         *)
(*                                                                         *)
(* A task is named by its task_key, unique in a cycle.  Runs, capacity and *)
(* crashes are in Orchestrator; here a claimed task is worked on until its *)
(* worker exits, and only requests and plan generators get lost.           *)
(***************************************************************************)
EXTENDS Naturals, FiniteSets

CONSTANTS Keys,          \* task keys
          Plans,         \* the plans the planner may propose: sets of task keys
          Approvals,     \* calls of approve_plan
          Cli,           \* runs of the CLI commands approve and cancel
          MaxDeliveries  \* bound: deliveries of PlanRequested to handle_event

ASSUME CycleAssumption ==
    /\ Plans \subseteq SUBSET Keys
    /\ MaxDeliveries \in Nat

VARIABLES
    cycle,       \* orch_cycles.state, or none before the row is there
    plan,        \* orch_cycles.plan
    task,        \* the state of each row of orch_tasks, or none
    create,      \* where create_cycle is
    deliveries,  \* how often the dispatcher was handed PlanRequested
    generators,  \* plan generators at work
    lost,        \* plan generators whose UPDATE failed or found no row
    approve,     \* where each call of approve_plan is, and the keys it has left
    cli,         \* where each CLI command is
    approved,    \* PlanApproved is in the log
    tick,        \* the open scheduler tick: its tasks, and the state it read
    handler      \* handle_worker_exit: its step, and the state it will write

requests == <<create, approve, cli>>
planning == <<deliveries, generators, lost>>
vars == <<cycle, plan, task, requests, planning, approved, tick, handler>>

Ended    == {"completed", "failed", "cancelled"}
Terminal == {"passed", "failed"}

TypeOK ==
    /\ cycle \in {"none", "planning", "plan_ready", "approved", "running"} \cup Ended
    /\ plan \subseteq Keys
    /\ task \in [Keys -> {"none", "scheduled", "active"} \cup Terminal]
    /\ create \in {"start", "insert", "done", "dead"}
    /\ {deliveries, generators, lost} \subseteq 0..MaxDeliveries
    /\ approve \in [Approvals -> [step : {"start", "update", "read", "insert", "done", "dead"},
                                  left : SUBSET Keys]]
    /\ cli \in [Cli -> {"start", "approve", "cancel", "done"}]
    /\ approved \in BOOLEAN
    /\ tick \in [open : BOOLEAN, tasks : SUBSET Keys, start : BOOLEAN]
    /\ handler \in [step : {"idle", "count", "write"}, verdict : {"none", "completed", "failed"}]

NoTick == [open |-> FALSE, tasks |-> {}, start |-> FALSE]
Idle   == [step |-> "idle", verdict |-> "none"]

Init ==
    /\ cycle = "none" /\ plan = {} /\ task = [k \in Keys |-> "none"]
    /\ create = "start" /\ deliveries = 0 /\ generators = 0 /\ lost = 0
    /\ approve = [a \in Approvals |-> [step |-> "start", left |-> {}]]
    /\ cli = [i \in Cli |-> "start"]
    /\ approved = FALSE /\ tick = NoTick /\ handler = Idle

-----------------------------------------------------------------------------
\* create_cycle emits CycleCreated and PlanRequested.
CreateEmits ==
    /\ create = "start" /\ create' = "insert"
    /\ UNCHANGED <<cycle, plan, task, planning, approve, cli, approved, tick, handler>>

\* Then it inserts the row.
CreateInserts ==
    /\ create = "insert" /\ create' = "done"
    /\ cycle' = "planning"
    /\ UNCHANGED <<plan, task, planning, approve, cli, approved, tick, handler>>

\* The INSERT fails, or the request is cut off before it.
CreateDies ==
    /\ create = "insert" /\ create' = "dead"
    /\ UNCHANGED <<cycle, plan, task, planning, approve, cli, approved, tick, handler>>

\* handle_plan_requested: a delivery starts a plan generator, at once after
\* the emit() and again whenever the event comes back (EventDispatcher).
PlanRequestedArrives ==
    /\ create # "start" /\ deliveries < MaxDeliveries
    /\ deliveries' = deliveries + 1 /\ generators' = generators + 1
    /\ UNCHANGED <<lost, cycle, plan, task, requests, approved, tick, handler>>

\* Variant of PlanReady: the plan without the state.
PlanReadyKeepsState ==
    /\ generators > 0 /\ generators' = generators - 1
    /\ \E p \in Plans : plan' = IF cycle = "none" THEN plan ELSE p
    /\ lost' = IF cycle = "none" THEN lost + 1 ELSE lost
    /\ UNCHANGED <<cycle, task, deliveries, requests, approved, tick, handler>>

\* The generator's UPDATE ... WHERE id = $3: whatever the state was, and of no
\* effect when the row is not there yet.
PlanReady ==
    /\ generators > 0 /\ generators' = generators - 1
    /\ \/ /\ cycle # "none"
          /\ cycle' = "plan_ready" /\ plan' \in Plans
          /\ UNCHANGED lost
       \/ cycle = "none" /\ lost' = lost + 1 /\ UNCHANGED <<cycle, plan>>
    /\ UNCHANGED <<task, deliveries, requests, approved, tick, handler>>

PlanFails ==
    /\ generators > 0 /\ generators' = generators - 1
    /\ \/ cycle # "none" /\ cycle' = "failed" /\ UNCHANGED lost
       \/ cycle = "none" /\ lost' = lost + 1 /\ UNCHANGED cycle
    /\ UNCHANGED <<plan, task, deliveries, requests, approved, tick, handler>>

\* The UPDATE fails, which is only logged, or the process ends before it.
PlanLost ==
    /\ generators > 0 /\ generators' = generators - 1
    /\ lost' = lost + 1
    /\ UNCHANGED <<cycle, plan, task, deliveries, requests, approved, tick, handler>>

-----------------------------------------------------------------------------
\* approve_plan emits PlanApproved (at most once, by its key), for a cycle in
\* whatever state: CycleCreated tells its id before there is a row.
ApproveEmits(a) ==
    /\ approve[a].step = "start" /\ create # "start"
    /\ approve' = [approve EXCEPT ![a].step = "update"]
    /\ approved' = TRUE
    /\ UNCHANGED <<cycle, plan, task, create, planning, cli, tick, handler>>

\* Then it writes the state, if there is a row,
ApproveUpdates(a) ==
    /\ approve[a].step = "update"
    /\ approve' = [approve EXCEPT ![a].step = "read"]
    /\ cycle' = IF cycle = "none" THEN "none" ELSE "approved"
    /\ UNCHANGED <<plan, task, create, planning, cli, approved, tick, handler>>

\* reads the plan,
ApproveReads(a) ==
    /\ approve[a].step = "read"
    /\ approve' = [approve EXCEPT ![a] =
                     [step |-> IF plan = {} THEN "done" ELSE "insert", left |-> plan]]
    /\ UNCHANGED <<cycle, plan, task, create, planning, cli, approved, tick, handler>>

Inserted(a, k) ==
    [approve EXCEPT ![a] = [step |-> IF @.left = {k} THEN "done" ELSE "insert",
                            left |-> @.left \ {k}]]

\* Variant of ApproveInserts: ON CONFLICT (cycle_id, task_key) DO UPDATE.
ApproveUpserts(a) ==
    \E k \in approve[a].left :
        /\ approve[a].step = "insert"
        /\ task' = [task EXCEPT ![k] = "scheduled"]
        /\ approve' = Inserted(a, k)
        /\ UNCHANGED <<cycle, plan, create, planning, cli, approved, tick, handler>>

\* and inserts a row per task, each in a statement of its own.  A row with the
\* same task_key is an error that is only logged.
ApproveInserts(a) ==
    \E k \in approve[a].left :
        /\ approve[a].step = "insert"
        /\ task' = IF task[k] = "none" THEN [task EXCEPT ![k] = "scheduled"] ELSE task
        /\ approve' = Inserted(a, k)
        /\ UNCHANGED <<cycle, plan, create, planning, cli, approved, tick, handler>>

\* A statement fails, or the request is cut off.
ApproveDies(a) ==
    /\ approve[a].step \in {"update", "read", "insert"}
    /\ approve' = [approve EXCEPT ![a].step = "dead"]
    /\ UNCHANGED <<cycle, plan, task, create, planning, cli, approved, tick, handler>>

-----------------------------------------------------------------------------
\* The CLI looks at the state, outside of its transaction.
CliChecks(i) ==
    /\ cli[i] = "start"
    /\ \/ cycle = "plan_ready" /\ cli' = [cli EXCEPT ![i] = "approve"]
       \/ cycle \notin Ended \cup {"none"} /\ cli' = [cli EXCEPT ![i] = "cancel"]
    /\ UNCHANGED <<cycle, plan, task, create, approve, planning, approved, tick, handler>>

\* Variant of CliApproves: the state without the event.
CliApprovesSilently(i) ==
    /\ cli[i] = "approve" /\ cli' = [cli EXCEPT ![i] = "done"]
    /\ cycle' = "approved"
    /\ task' = [k \in Keys |-> IF k \in plan /\ task[k] = "none" THEN "scheduled" ELSE task[k]]
    /\ UNCHANGED <<plan, create, approve, planning, approved, tick, handler>>

\* PlanApproved and the state in one transaction; it schedules no task.
CliApproves(i) ==
    /\ cli[i] = "approve" /\ cli' = [cli EXCEPT ![i] = "done"]
    /\ cycle' = "approved" /\ approved' = TRUE
    /\ UNCHANGED <<plan, task, create, approve, planning, tick, handler>>

\* CycleCancelled and the state in one transaction.
CliCancels(i) ==
    /\ cli[i] = "cancel" /\ cli' = [cli EXCEPT ![i] = "done"]
    /\ cycle' = "cancelled"
    /\ UNCHANGED <<plan, task, create, approve, planning, approved, tick, handler>>

-----------------------------------------------------------------------------
Scheduled == {k \in Keys : task[k] = "scheduled"}

\* The SELECT of a scheduler tick (its LIMIT, the free slots, may be anything).
TickSelects ==
    /\ ~tick.open /\ cycle \in {"approved", "running"}
    /\ \E S \in (SUBSET Scheduled) \ {{}} :
          tick' = [open |-> TRUE, tasks |-> S, start |-> cycle = "approved"]
    /\ UNCHANGED <<cycle, plan, task, requests, planning, approved, handler>>

\* The claims; UPDATE orch_cycles SET state = 'running' ... AND state = 'approved'.
TickCommits ==
    /\ tick.open /\ tick' = NoTick
    /\ task' = [k \in Keys |-> IF k \in tick.tasks THEN "active" ELSE task[k]]
    /\ cycle' = IF tick.start /\ cycle = "approved" THEN "running" ELSE cycle
    /\ UNCHANGED <<plan, requests, planning, approved, handler>>

TickAborts ==
    /\ tick.open /\ tick' = NoTick
    /\ UNCHANGED <<cycle, plan, task, requests, planning, approved, handler>>

\* The state that check_cycle_completion gives the cycle, for the tasks as they
\* are in t; none while one of them is not terminal.
Verdict(t) ==
    LET rows == {k \in Keys : t[k] # "none"} IN
    IF \E k \in rows : t[k] \notin Terminal THEN "none"
    ELSE IF \A k \in rows : t[k] = "passed" THEN "completed" ELSE "failed"

\* A worker exits, and handle_worker_exit writes the outcome of its task.
WorkerExits(k) ==
    /\ handler.step = "idle" /\ task[k] = "active"
    /\ \E outcome \in Terminal : task' = [task EXCEPT ![k] = outcome]
    /\ handler' = [step |-> "count", verdict |-> "none"]
    /\ UNCHANGED <<cycle, plan, requests, planning, approved, tick>>

\* Variant of HandlerCounts: no verdict on a cycle with a failed task.
HandlerCountsPassed ==
    /\ handler.step = "count"
    /\ handler' = IF Verdict(task) # "completed" THEN Idle
                  ELSE [step |-> "write", verdict |-> "completed"]
    /\ UNCHANGED <<cycle, plan, task, requests, planning, approved, tick>>

\* Variant of HandlerCounts: a state that orch_cycles allows and nobody leaves.
HandlerCountsCompleting ==
    /\ handler.step = "count"
    /\ handler' = IF Verdict(task) = "none" THEN Idle
                  ELSE [step |-> "write", verdict |-> "completing"]
    /\ UNCHANGED <<cycle, plan, task, requests, planning, approved, tick>>

HandlerCounts ==
    /\ handler.step = "count"
    /\ handler' = IF Verdict(task) = "none" THEN Idle
                  ELSE [step |-> "write", verdict |-> Verdict(task)]
    /\ UNCHANGED <<cycle, plan, task, requests, planning, approved, tick>>

\* UPDATE orch_cycles SET state = $1, whatever it is by now.
HandlerWrites ==
    /\ handler.step = "write" /\ handler' = Idle
    /\ cycle' = handler.verdict
    /\ UNCHANGED <<plan, task, requests, planning, approved, tick>>

-----------------------------------------------------------------------------
Next ==
    \/ CreateEmits \/ CreateInserts \/ CreateDies
    \/ PlanRequestedArrives \/ PlanReady \/ PlanFails \/ PlanLost
    \/ \E a \in Approvals : \/ ApproveEmits(a) \/ ApproveUpdates(a) \/ ApproveReads(a)
                            \/ ApproveInserts(a) \/ ApproveDies(a)
    \/ \E i \in Cli : CliChecks(i) \/ CliApproves(i) \/ CliCancels(i)
    \/ TickSelects \/ TickCommits \/ TickAborts
    \/ \E k \in Keys : WorkerExits(k)
    \/ HandlerCounts \/ HandlerWrites

\* The scheduler ticks again and again and does not lose every race for a
\* sequence number; claimed workers exit in the end; the handler keeps going.
Fairness ==
    /\ WF_vars(TickSelects) /\ SF_vars(TickCommits)
    /\ \A k \in Keys : SF_vars(WorkerExits(k))
    /\ WF_vars(HandlerCounts) /\ WF_vars(HandlerWrites)

Spec == Init /\ [][Next]_vars /\ Fairness

-----------------------------------------------------------------------------
\* No task comes into being, let alone runs, unless a PlanApproved is on
\* record, however approvals, cancellations and generators overlap.
WorkIsApproved == (\E k \in Keys : task[k] # "none") => approved

\* create_cycle asks for a plan before the row of the cycle is there.  A cycle
\* that is in planning still has a generator at work, unless every one that was
\* started so far came too early or failed to write: then it is stuck.
PlanningHasGenerator ==
    cycle = "planning" => deliveries = generators + lost

\* What a task came to is final: approving again, a second plan, or a cancel
\* between the steps of a tick runs no task twice.
TaskOutcomeFinal ==
    [][\A k \in Keys : task[k] \in Terminal => task'[k] = task[k]]_vars

\* A running cycle does not run for ever, given that its workers exit: the
\* last exit finds all tasks terminal whatever was inserted meanwhile.
RunningEnds == cycle = "running" ~> cycle # "running"

\* A cycle that has ended stays as it ended.
EndIsFinal == [][(cycle \in Ended) => cycle' = cycle]_vars
=============================================================================
