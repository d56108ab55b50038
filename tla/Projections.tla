---------------------------- MODULE Projections ----------------------------
(***************************************************************************)
(* The projection tables of the orchestrator crate and all that writes     *)
(* them there: the five projectors (app/*_projector.rs), the claim of the  *)
(* scheduler (app/scheduler.rs) and the truncation at the start of a       *)
(* rebuild (app/maintenance_service.rs).                                   *)
(*                                                                         *)
(* Events reach the projectors in any order and any number of times: their *)
(* emitters do not wait for each other, delivery is at least once, and a   *)
(* rebuild delivers the whole log again.  So every handler may run with    *)
(* any event at any time; what keeps the tables sane is in the WHERE and   *)
(* ON CONFLICT clauses of the statements, and in the foreign keys.  A      *)
(* statement that changes no row, or is refused, is a stuttering step.     *)
(*                                                                         *)
(* The UI server writes the same tables without these guards: that is      *)
(* CycleFlow.                                                              *)
(***************************************************************************)
EXTENDS Integers, FiniteSets

CONSTANTS Cycles, Tasks, Runs,
          CycleOf,      \* the cycle of each task (orch_tasks.cycle_id)
          TaskOf,       \* the task of each run (orch_runs.task_id)
          BudgetEvents, \* budget events; one is also the id of its ledger entry
          Amount,       \* amount_cents of each budget event
          Order         \* its place in ORDER BY created_at, id

ASSUME TablesAssumption ==
    /\ CycleOf \in [Tasks -> Cycles]
    /\ TaskOf \in [Runs -> Tasks]
    /\ IsFiniteSet(BudgetEvents)
    /\ Amount \in [BudgetEvents -> Int]
    /\ Order \in [BudgetEvents -> 1..Cardinality(BudgetEvents)]
    /\ \A d, e \in BudgetEvents : Order[d] = Order[e] => d = e

VARIABLES instance,   \* the row of orch_instances: state and block_reason
          cycles,     \* orch_cycles.state, "absent" without a row
          tasks,      \* orch_tasks.state
          runs,       \* orch_runs.state
          ledger,     \* orch_budget_ledger: id -> balance_after
          reading,    \* the balances read by INSERT ... SELECTs under way
          charged,    \* the sum of the amounts inserted so far
          orderly     \* no INSERT overlapped another or came out of order so far

tables == <<instance, cycles, tasks, runs>>
budget == <<ledger, reading, charged, orderly>>
vars   == <<instance, cycles, tasks, runs, ledger, reading, charged, orderly>>

Reasons == {"none", "Maintenance", "ResourceExhausted", "unknown"}

InstanceState == {"absent", "provisioning", "active", "blocked", "suspended",
                  "provisioning_failed"}
CycleState == {"absent", "created", "planning", "plan_ready", "approved", "running",
               "blocked", "completing", "completed", "failed", "cancelled"}
TaskState  == {"absent", "scheduled", "active", "verifying", "passed", "failed",
               "cancelled", "skipped"}
RunState   == {"absent", "claimed", "running", "completed", "failed", "timed_out",
               "cancelled", "abandoned"}

TypeOK ==
    /\ instance \in [state : InstanceState, reason : Reasons]
    /\ cycles \in [Cycles -> CycleState]
    /\ tasks \in [Tasks -> TaskState]
    /\ runs \in [Runs -> RunState]
    /\ \E S \in SUBSET BudgetEvents : ledger \in [S -> Int]
    /\ \E S \in SUBSET BudgetEvents : reading \in [S -> Int]
    /\ charged \in Int
    /\ orderly \in BOOLEAN

Init ==
    /\ instance = [state |-> "absent", reason |-> "none"]
    /\ cycles = [c \in Cycles |-> "absent"]
    /\ tasks = [t \in Tasks |-> "absent"]
    /\ runs = [r \in Runs |-> "absent"]
    /\ ledger = [e \in {} |-> 0]
    /\ reading = [e \in {} |-> 0]
    /\ charged = 0
    /\ orderly = TRUE

-----------------------------------------------------------------------------
(***************************************************************************)
(* The updates of the projectors: for each event type the states its WHERE *)
(* clause accepts and the state it sets.                                   *)
(***************************************************************************)
Upd(from, to) == [from |-> from, to |-> to]

CycleUpdates ==
    [PlanRequested        |-> Upd({"created"}, "planning"),
     PlanGenerated        |-> Upd({"planning"}, "plan_ready"),
     PlanApproved         |-> Upd({"plan_ready"}, "approved"),
     PlanGenerationFailed |-> Upd({"planning"}, "failed"),
     CycleRunningStarted  |-> Upd({"approved"}, "running"),
     CycleCompleting      |-> Upd({"running"}, "completing"),
     CycleBlocked         |-> Upd({"running"}, "blocked"),
     CycleUnblocked       |-> Upd({"blocked"}, "running"),
     CycleCompleted       |-> Upd({"completing"}, "completed"),
     CycleFailed          |-> Upd({"running", "completing"}, "failed"),
     CycleCancelled       |-> Upd({"plan_ready", "running"}, "cancelled")]

TaskUpdates ==
    [TaskRetryScheduled |-> Upd({"active", "verifying"}, "scheduled"),
     TaskPassed         |-> Upd({"verifying"}, "passed"),
     TaskFailed         |-> Upd({"active", "verifying"}, "failed"),
     TaskCancelled      |-> Upd({"scheduled", "active"}, "cancelled"),
     TaskSkipped        |-> Upd({"scheduled"}, "skipped")]

\* Variants of RunUpdates for the mutation checks: a timeout that overtakes a
\* completion, and a state the table does not have.
RunUpdatesLateTimeout ==
    [RunStarted   |-> Upd({"claimed"}, "running"),
     RunCompleted |-> Upd({"running"}, "completed"),
     RunFailed    |-> Upd({"claimed", "running"}, "failed"),
     RunTimedOut  |-> Upd({"running", "completed"}, "timed_out"),
     RunCancelled |-> Upd({"claimed", "running"}, "cancelled"),
     RunAbandoned |-> Upd({"running"}, "abandoned")]

RunUpdatesUnknownState ==
    [RunStarted |-> Upd({"claimed"}, "starting"), RunFailed |-> Upd({"starting"}, "failed")]

RunUpdates ==
    [RunStarted   |-> Upd({"claimed"}, "running"),
     RunCompleted |-> Upd({"running"}, "completed"),
     RunFailed    |-> Upd({"claimed", "running"}, "failed"),
     RunTimedOut  |-> Upd({"running"}, "timed_out"),
     RunCancelled |-> Upd({"claimed", "running"}, "cancelled"),
     RunAbandoned |-> Upd({"running"}, "abandoned")]

\* InstanceProjector: the events that set a state and a reason.  The block
\* reasons are those of the two emitters, the maintenance service and the
\* janitor's disk guard.
InstanceCreated ==
    /\ instance.state = "absent"
    /\ instance' = [state |-> "provisioning", reason |-> "none"]
    /\ UNCHANGED <<cycles, tasks, runs, budget>>

SetInstance(from, to, reason) ==
    /\ instance.state = from
    /\ instance' = [state |-> to, reason |-> reason]
    /\ UNCHANGED <<cycles, tasks, runs, budget>>

InstanceProvisioned        == SetInstance("provisioning", "active", instance.reason)
InstanceProvisioningFailed == SetInstance("provisioning", "provisioning_failed", "unknown")
InstanceBlocked ==
    \E reason \in {"Maintenance", "ResourceExhausted"} :
        SetInstance("active", "blocked", reason)
\* Variant: the reason of the block survives it.
InstanceUnblockedKeeps     == SetInstance("blocked", "active", instance.reason)
InstanceUnblocked          == SetInstance("blocked", "active", "none")
InstanceSuspended          == SetInstance("active", "suspended", instance.reason)
InstanceResumed            == SetInstance("suspended", "active", instance.reason)

\* CycleProjector: CycleCreated inserts, ON CONFLICT (id) DO NOTHING; the
\* foreign key wants the instance.
CycleCreated(c) ==
    /\ instance.state # "absent"
    /\ cycles[c] = "absent"
    /\ cycles' = [cycles EXCEPT ![c] = "created"]
    /\ UNCHANGED <<instance, tasks, runs, budget>>

CycleUpdated(c, type) ==
    /\ cycles[c] \in CycleUpdates[type].from
    /\ cycles' = [cycles EXCEPT ![c] = CycleUpdates[type].to]
    /\ UNCHANGED <<instance, tasks, runs, budget>>

\* TaskProjector.
TaskScheduled(t) ==
    /\ cycles[CycleOf[t]] # "absent"
    /\ tasks[t] = "absent"
    /\ tasks' = [tasks EXCEPT ![t] = "scheduled"]
    /\ UNCHANGED <<instance, cycles, runs, budget>>

TaskUpdated(t, type) ==
    /\ tasks[t] \in TaskUpdates[type].from
    /\ tasks' = [tasks EXCEPT ![t] = TaskUpdates[type].to]
    /\ UNCHANGED <<instance, cycles, runs, budget>>

\* RunProjector: RunClaimed inserts the run and leaves its task alone.
RunClaimed(r) ==
    /\ tasks[TaskOf[r]] # "absent"
    /\ runs[r] = "absent"
    /\ runs' = [runs EXCEPT ![r] = "claimed"]
    /\ UNCHANGED <<instance, cycles, tasks, budget>>

RunUpdated(r, type) ==
    /\ runs[r] \in RunUpdates[type].from
    /\ runs' = [runs EXCEPT ![r] = RunUpdates[type].to]
    /\ UNCHANGED <<instance, cycles, tasks, budget>>

-----------------------------------------------------------------------------
\* Scheduler::tick claims a task: the rows of the cycle, the run and the
\* task change in one transaction; the task's row is locked since it was read
\* as scheduled.
SchedulerClaims(r) ==
    LET t == TaskOf[r] IN
    /\ tasks[t] = "scheduled"
    /\ cycles[CycleOf[t]] \in {"approved", "running"}
    /\ runs[r] = "absent"
    /\ cycles' = [cycles EXCEPT ![CycleOf[t]] = "running"]
    /\ tasks' = [tasks EXCEPT ![t] = "active"]
    /\ runs' = [runs EXCEPT ![r] = "claimed"]
    /\ UNCHANGED <<instance, budget>>

\* rebuild_projections: the truncation, one transaction.  The ledger and the
\* instance stay.  The replay that follows is more of the actions above.
Truncate ==
    /\ instance = [state |-> "blocked", reason |-> "Maintenance"]
    /\ cycles' = [c \in Cycles |-> "absent"]
    /\ tasks' = [t \in Tasks |-> "absent"]
    /\ runs' = [r \in Runs |-> "absent"]
    /\ UNCHANGED <<instance, budget>>

-----------------------------------------------------------------------------
(***************************************************************************)
(* BudgetProjector: every handler is one INSERT ... SELECT.  Its subquery  *)
(* reads the last entry of a snapshot, and its insert lands later.         *)
(***************************************************************************)
\* COALESCE((SELECT balance_after ... ORDER BY created_at DESC, id DESC LIMIT 1), 0).
LastBalance(entries) ==
    IF DOMAIN entries = {} THEN 0
    ELSE entries[CHOOSE e \in DOMAIN entries :
                    \A d \in DOMAIN entries : Order[d] <= Order[e]]

LedgerRead(e) ==
    /\ instance.state # "absent"
    /\ e \notin DOMAIN reading
    /\ reading' = [d \in DOMAIN reading \cup {e} |->
                      IF d = e THEN LastBalance(ledger) ELSE reading[d]]
    /\ UNCHANGED <<tables, ledger, charged, orderly>>

\* Variant: ON CONFLICT (id) DO UPDATE SET balance_after = excluded.balance_after.
LedgerInsertAgain(e) ==
    /\ e \in DOMAIN reading
    /\ reading' = [d \in DOMAIN reading \ {e} |-> reading[d]]
    /\ ledger' = [d \in DOMAIN ledger \cup {e} |->
                     IF d = e THEN reading[e] + Amount[e] ELSE ledger[d]]
    /\ charged' = IF e \in DOMAIN ledger THEN charged ELSE charged + Amount[e]
    /\ orderly' = (/\ orderly
                   /\ DOMAIN reading = {e}
                   /\ \A d \in DOMAIN ledger : Order[d] <= Order[e])
    /\ UNCHANGED tables

\* ON CONFLICT (id) DO NOTHING: an event handled before adds nothing.
LedgerInsert(e) ==
    /\ e \in DOMAIN reading
    /\ reading' = [d \in DOMAIN reading \ {e} |-> reading[d]]
    /\ IF e \in DOMAIN ledger
       THEN UNCHANGED <<ledger, charged, orderly>>
       ELSE /\ ledger' = [d \in DOMAIN ledger \cup {e} |->
                             IF d = e THEN reading[e] + Amount[e] ELSE ledger[d]]
            /\ charged' = charged + Amount[e]
            /\ orderly' = (/\ orderly
                           /\ DOMAIN reading = {e}
                           /\ \A d \in DOMAIN ledger : Order[d] < Order[e])
    /\ UNCHANGED tables

Next ==
    \/ InstanceCreated \/ InstanceProvisioned \/ InstanceProvisioningFailed
    \/ InstanceBlocked \/ InstanceUnblocked \/ InstanceSuspended \/ InstanceResumed
    \/ \E c \in Cycles : \/ CycleCreated(c)
                         \/ \E type \in DOMAIN CycleUpdates : CycleUpdated(c, type)
    \/ \E t \in Tasks  : \/ TaskScheduled(t)
                         \/ \E type \in DOMAIN TaskUpdates : TaskUpdated(t, type)
    \/ \E r \in Runs   : \/ RunClaimed(r) \/ SchedulerClaims(r)
                         \/ \E type \in DOMAIN RunUpdates : RunUpdated(r, type)
    \/ Truncate
    \/ \E e \in BudgetEvents : LedgerRead(e) \/ LedgerInsert(e)

Spec == Init /\ [][Next]_vars

-----------------------------------------------------------------------------
\* Whatever the order in which events arrive, however often, and wherever a
\* rebuild cuts in, each row follows the state machine domain/states.rs
\* defines for it: the guards of the SQL and transition() agree.
Domain == INSTANCE Lifecycle
            WITH instance <- instance.state, cycles <- cycles,
                 tasks <- tasks, runs <- runs
FollowsLifecycle == Domain!Spec

\* is_maintenance_mode and the CLI tell maintenance from other blocks by
\* block_reason: a reason is there exactly when a block, or a failed
\* provisioning, put it there, and no late event leaves a stale one behind.
ReasonIsCurrent ==
    instance.reason # "none" <=> instance.state \in {"blocked", "provisioning_failed"}

\* As long as budget events are handled one at a time and in the order of
\* created_at, redelivered or not, the last balance_after is the sum of the
\* amounts charged: nothing is charged twice and nothing is lost.
BalanceIsSum == orderly => LastBalance(ledger) = charged
=============================================================================
