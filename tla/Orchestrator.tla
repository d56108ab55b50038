---------------------------- MODULE Orchestrator ----------------------------
(***************************************************************************)
(* The loops of openclaw-ui that run the tasks of one cycle (main.rs),     *)
(* beside the request that approved it and inserts its tasks one by one    *)
(* (approve_plan in cycles.rs): the scheduler tick that claims tasks in a  *)
(* transaction and then spawns a worker for each claim (scheduler.rs,      *)
(* tick_coordinator.rs, worker_service.rs, worker.rs), the reaper of each  *)
(* worker process, the completion handler (dispatch.rs) and the reconciler *)
(* (reconciler.rs).                                                        *)
(*                                                                         *)
(* A run is named by its task: a failed task is never scheduled again, so  *)
(* a task has at most one run.  The tables are task, run, activeRuns,      *)
(* cycle and log; mem is the worker manager's state in memory and disk its *)
(* copy in worker_state.json.  emit() is one step that records an event,   *)
(* finds its key recorded, or fails (EventStore has its steps).  The       *)
(* instance is active.  A crash ends the loops; workers live on.           *)
(***************************************************************************)
EXTENDS Naturals, Sequences, FiniteSets

CONSTANTS Tasks,          \* the tasks of the cycle, by their ordinals
          NoTask,
          MaxConcurrent,  \* orch_server_capacity.max_concurrent
          MaxMishaps      \* bound: crashes, and failed spawns, writes and lookups

ASSUME OrchestratorAssumption ==
    /\ IsFiniteSet(Tasks) /\ NoTask \notin Tasks
    /\ MaxConcurrent \in Nat \ {0}
    /\ MaxMishaps \in Nat

ASSUME OrdinalAssumption == Tasks \subseteq Nat

VARIABLES
    task, run,    \* the state of each row of orch_tasks, orch_runs
    activeRuns,   \* orch_server_capacity.active_runs
    cycle,        \* orch_cycles.state
    toInsert,     \* the tasks of the plan that approve_plan has still to insert
    late,         \* history: tasks inserted when the cycle had ended, or the
                  \* handler had counted the tasks for its end
    log,          \* the events that report the end of a run
    tick,         \* the scheduler tick: idle, its transaction open, spawning
    claims,       \* the tasks it selected, then the claims left to spawn
    spawn,        \* the spawn in progress
    proc,         \* the worker process of each run, with its exit
    reaper,       \* the task of the process that awaits each worker
    exits,        \* exit notifications waiting for the completion handler
    handler,      \* the completion handler
    mem, disk,    \* the runs whose worker is recorded in memory, on disk
    rec,          \* the reconciler tick: idle, over active runs, over stale
    suspects,     \* the runs it has still to look at
    dead,         \* the run it found without a worker
    settled,      \* history: runs whose slot the handler has returned
    mishaps       \* crashes and faults so far

tables    == <<task, run, activeRuns, cycle, toInsert, late>>
scheduler == <<tick, claims, spawn>>
workers   == <<proc, reaper, exits>>
manager   == <<mem, disk>>
reconcile == <<rec, suspects, dead>>
vars == <<tables, log, scheduler, workers, handler, manager, reconcile, settled, mishaps>>

Terminal == {"passed", "failed"}
Ended    == {"completed", "failed"}
Inserted == {t \in Tasks : task[t] # "none"}
Claimed  == {t \in Tasks : run[t] # "none"}
Alive    == {t \in Tasks : proc[t] = "alive"}

\* The exit code is 0, another, or not to be had from the system.
Exited == {"ok", "error", "lost"}

\* RunFailed goes by its failure_category.
Event == [type : {"RunCompleted", "SpawnFailure", "ProcessExit"}, run : Tasks,
          key : {"run-completed", "run-failed", "reconcile-abandon"}]

\* The next statement of handle_worker_exit; after the count of the tasks it is
\* the UPDATE that gives the cycle one of its ends.
HandlerSteps == {"idle", "run", "task", "capacity", "cycle"} \cup Ended

TypeOK ==
    /\ task \in [Tasks -> {"none", "scheduled", "active"} \cup Terminal]
    /\ run \in [Tasks -> {"none", "claimed", "completed", "failed"}]
    /\ activeRuns \in Nat
    /\ cycle \in {"approved", "running"} \cup Ended
    /\ toInsert \subseteq Tasks /\ late \subseteq Tasks
    /\ log \subseteq Event
    /\ tick \in {"idle", "open", "spawn"} /\ claims \subseteq Tasks
    /\ spawn \in [step : {"none", "record", "failed"}, run : Tasks \cup {NoTask}]
    /\ proc \in [Tasks -> {"none", "alive"} \cup Exited]
    /\ reaper \in [Tasks -> {"none", "waiting", "done"}]
    /\ exits \in Seq(Tasks)
    /\ handler \in [step : HandlerSteps, run : Tasks \cup {NoTask}, known : BOOLEAN]
    /\ mem \subseteq Tasks /\ disk \subseteq Tasks
    /\ rec \in {"idle", "runs", "stale"} /\ suspects \subseteq Tasks
    /\ dead \in Tasks \cup {NoTask}
    /\ settled \subseteq Tasks
    /\ mishaps \in 0..MaxMishaps

NoSpawn == [step |-> "none", run |-> NoTask]
Idle    == [step |-> "idle", run |-> NoTask, known |-> FALSE]

\* approve_plan has set the state of the cycle and read its plan.
Init ==
    /\ task = [t \in Tasks |-> "none"] /\ run = [t \in Tasks |-> "none"]
    /\ activeRuns = 0 /\ cycle = "approved" /\ log = {}
    /\ toInsert = Tasks /\ late = {}
    /\ tick = "idle" /\ claims = {} /\ spawn = NoSpawn
    /\ proc = [t \in Tasks |-> "none"] /\ reaper = [t \in Tasks |-> "none"]
    /\ exits = << >> /\ handler = Idle
    /\ mem = {} /\ disk = {}
    /\ rec = "idle" /\ suspects = {} /\ dead = NoTask
    /\ settled = {} /\ mishaps = 0

\* emit() of an event of run t under an idempotency key: Ok.
Emits(type, t, key) ==
    log' = IF \E e \in log : e.run = t /\ e.key = key THEN log
           ELSE log \cup {[type |-> type, run |-> t, key |-> key]}

\* An emit() whose error is only logged.
TriesToEmit(type, t, key) == Emits(type, t, key) \/ UNCHANGED log

\* A database, file system or process error, where the code handles one.
Fault == mishaps < MaxMishaps /\ mishaps' = mishaps + 1

-----------------------------------------------------------------------------
(* The request that approved the cycle.                                    *)

\* A row per task, in the order of the plan and each in a statement of its own,
\* whose error is only logged.
ApproveInsert(t) ==
    /\ t \in toInsert /\ \A u \in toInsert : t <= u
    /\ toInsert' = toInsert \ {t}
    /\ \/ /\ task' = [task EXCEPT ![t] = "scheduled"]
          /\ late' = IF cycle \in Ended \/ handler.step \in Ended THEN late \cup {t} ELSE late
          /\ UNCHANGED mishaps
       \/ Fault /\ UNCHANGED <<task, late>>
    /\ UNCHANGED <<run, activeRuns, cycle, log, scheduler, workers, handler, manager, reconcile,
                   settled>>

\* The request is cut off between two of them.
ApproveDies ==
    /\ toInsert # {} /\ toInsert' = {}
    /\ UNCHANGED <<task, run, activeRuns, cycle, late, log, scheduler, workers, handler, manager,
                   reconcile, settled, mishaps>>

-----------------------------------------------------------------------------
(* The scheduler tick.                                                     *)

Claimable == IF cycle \in {"approved", "running"}
             THEN {t \in Tasks : task[t] = "scheduled"} ELSE {}

\* available = max_concurrent - active_runs, nothing to claim at or below 0.
Room == IF activeRuns < MaxConcurrent THEN MaxConcurrent - activeRuns ELSE 0

\* Lock, read the capacity, and SELECT ... ORDER BY ordinal ... LIMIT: as many
\* claimable tasks as there is room for, the first ones first.  (A tick that
\* finds no room or no task commits an empty transaction; nobody else locks a
\* scheduled task, which FOR UPDATE SKIP LOCKED would pass over.)
TickSelect ==
    /\ tick = "idle"
    /\ \E S \in SUBSET Claimable :
          /\ S # {} /\ Cardinality(S) <= Room
          /\ S # Claimable => Cardinality(S) = Room
          /\ \A t \in S, u \in Claimable \ S : t < u
          /\ claims' = S
    /\ tick' = "open"
    /\ UNCHANGED <<tables, log, spawn, workers, handler, manager, reconcile, settled, mishaps>>

\* The events and projections of all claims, at COMMIT.
TickCommit ==
    /\ tick = "open"
    /\ cycle' = IF cycle = "approved" THEN "running" ELSE cycle
    /\ run' = [t \in Tasks |-> IF t \in claims THEN "claimed" ELSE run[t]]
    /\ task' = [t \in Tasks |-> IF t \in claims THEN "active" ELSE task[t]]
    /\ activeRuns' = activeRuns + Cardinality(claims)
    /\ tick' = "spawn"
    /\ UNCHANGED <<toInsert, late, log, claims, spawn, workers, handler, manager, reconcile,
                   settled, mishaps>>

\* A statement fails, usually the INSERT of a sequence number that a
\* concurrent emit() took: the whole tick rolls back.
TickAbort ==
    /\ tick = "open"
    /\ tick' = "idle" /\ claims' = {}
    /\ UNCHANGED <<tables, log, spawn, workers, handler, manager, reconcile, settled, mishaps>>

\* Claim t is dealt with; the tick ends with its last one.
ClaimDone(t) ==
    /\ claims' = claims \ {t}
    /\ tick' = IF claims = {t} THEN "idle" ELSE "spawn"
    /\ spawn' = NoSpawn

\* spawn_for_claim: the task's description cannot be read, and no event says so.
SpawnSkipped(t) ==
    /\ tick = "spawn" /\ spawn = NoSpawn /\ t \in claims /\ Fault
    /\ ClaimDone(t)
    /\ UNCHANGED <<tables, log, workers, handler, manager, reconcile, settled>>

\* The process is there, and a task that reaps it.
SpawnProcess(t) ==
    /\ tick = "spawn" /\ spawn = NoSpawn /\ t \in claims
    /\ \/ /\ t \notin mem
          /\ proc' = [proc EXCEPT ![t] = "alive"]
          /\ reaper' = [reaper EXCEPT ![t] = "waiting"]
          /\ spawn' = [step |-> "record", run |-> t]
          /\ UNCHANGED <<exits, mishaps>>
       \/ /\ Fault
          /\ spawn' = [step |-> "failed", run |-> t]
          /\ UNCHANGED workers
    /\ UNCHANGED <<tables, log, tick, claims, handler, manager, reconcile, settled>>

\* The entry in memory, and persist_state; RunStarted goes to the log.  A
\* failure to write the file is a failure of spawn() although the worker runs.
SpawnRecord ==
    /\ spawn.step = "record"
    /\ mem' = mem \cup {spawn.run}
    /\ \/ disk' = mem' /\ ClaimDone(spawn.run) /\ UNCHANGED mishaps
       \/ /\ Fault /\ spawn' = [spawn EXCEPT !.step = "failed"]
          /\ UNCHANGED <<disk, tick, claims>>
    /\ UNCHANGED <<tables, log, workers, handler, reconcile, settled>>

\* Variant of SpawnFailed: it gives the slot back at once.
SpawnFailedReturnsSlot ==
    /\ spawn.step = "failed"
    /\ TriesToEmit("SpawnFailure", spawn.run, "run-failed")
    /\ activeRuns' = activeRuns - 1
    /\ settled' = settled \cup {spawn.run}
    /\ ClaimDone(spawn.run)
    /\ UNCHANGED <<task, run, cycle, toInsert, late, workers, handler, manager, reconcile, mishaps>>

\* RunFailed(SpawnFailure): an event, and no change of any table.
SpawnFailed ==
    /\ spawn.step = "failed"
    /\ TriesToEmit("SpawnFailure", spawn.run, "run-failed")
    /\ ClaimDone(spawn.run)
    /\ UNCHANGED <<tables, workers, handler, manager, reconcile, settled, mishaps>>

-----------------------------------------------------------------------------
(* The workers and their reapers.                                          *)

WorkerExits(t) ==
    /\ proc[t] = "alive"
    /\ \E code \in {"ok", "error"} : proc' = [proc EXCEPT ![t] = code]
    /\ UNCHANGED <<tables, log, scheduler, reaper, exits, handler, manager,
                   reconcile, settled, mishaps>>

\* Variant of Reap: the notification is sent from the exit of the process and
\* again from the end of the reaper.
ReapTwice(t) ==
    /\ reaper[t] = "waiting" /\ proc[t] \in Exited
    /\ reaper' = [reaper EXCEPT ![t] = "done"]
    /\ mem' = mem \ {t}
    /\ exits' = exits \o <<t, t>>
    /\ UNCHANGED <<tables, log, scheduler, proc, handler, disk, reconcile, settled, mishaps>>

\* The reaper forgets the entry in memory, not on disk, and notifies, also when
\* child.wait() fails: then without an exit code, which is no success.  (wait()
\* fails for a process that is gone, not for one that runs.)
Reap(t) ==
    /\ reaper[t] = "waiting" /\ proc[t] \in Exited
    /\ reaper' = [reaper EXCEPT ![t] = "done"]
    /\ mem' = mem \ {t}
    /\ exits' = Append(exits, t)
    /\ \/ UNCHANGED <<proc, mishaps>>
       \/ Fault /\ proc' = [proc EXCEPT ![t] = "lost"]
    /\ UNCHANGED <<tables, log, scheduler, handler, disk, reconcile, settled>>

-----------------------------------------------------------------------------
(* handle_worker_exit, one statement at a time.  Every error is ignored.   *)

At(step) == handler.step = step
GoTo(step) == handler' = [handler EXCEPT !.step = step]

Ok(t) == proc[t] = "ok"

\* Variant of HandlerTake: an emit() that fails ends the handling of the exit.
HandlerTakeStrict ==
    /\ At("idle") /\ exits # << >>
    /\ exits' = Tail(exits)
    /\ \/ /\ handler' = [step |-> "run", run |-> Head(exits), known |-> TRUE]
          /\ IF Ok(Head(exits)) THEN Emits("RunCompleted", Head(exits), "run-completed")
                                ELSE Emits("ProcessExit", Head(exits), "run-failed")
       \/ UNCHANGED <<handler, log>>
    /\ UNCHANGED <<tables, scheduler, proc, reaper, manager, reconcile, settled, mishaps>>

\* The next notification, the lookup of its task, and the event.
HandlerTake ==
    /\ At("idle") /\ exits # << >>
    /\ exits' = Tail(exits)
    /\ \/ handler' = [step |-> "run", run |-> Head(exits), known |-> TRUE] /\ UNCHANGED mishaps
       \/ handler' = [step |-> "run", run |-> Head(exits), known |-> FALSE] /\ Fault
    /\ IF Ok(Head(exits)) THEN TriesToEmit("RunCompleted", Head(exits), "run-completed")
                          ELSE TriesToEmit("ProcessExit", Head(exits), "run-failed")
    /\ UNCHANGED <<tables, scheduler, proc, reaper, manager, reconcile, settled>>

HandlerRun ==
    /\ At("run") /\ GoTo(IF handler.known THEN "task" ELSE "capacity")
    /\ \/ /\ run' = [run EXCEPT ![handler.run] = IF Ok(handler.run) THEN "completed" ELSE "failed"]
          /\ UNCHANGED mishaps
       \/ Fault /\ UNCHANGED run
    /\ UNCHANGED <<task, activeRuns, cycle, toInsert, late, log, scheduler, workers, manager,
                   reconcile, settled>>

\* Variant of HandlerTask: the task follows the run's last event.
HandlerTaskByEvent ==
    /\ At("task") /\ GoTo("capacity")
    /\ task' = [task EXCEPT ![handler.run] =
                  IF \E e \in log : e.run = handler.run /\ e.type # "RunCompleted"
                  THEN "failed" ELSE "passed"]
    /\ UNCHANGED <<run, activeRuns, cycle, toInsert, late, log, scheduler, workers, manager,
                   reconcile, settled, mishaps>>

HandlerTask ==
    /\ At("task") /\ GoTo("capacity")
    /\ \/ /\ task' = [task EXCEPT ![handler.run] = IF Ok(handler.run) THEN "passed" ELSE "failed"]
          /\ UNCHANGED mishaps
       \/ Fault /\ UNCHANGED task
    /\ UNCHANGED <<run, activeRuns, cycle, toInsert, late, log, scheduler, workers, manager,
                   reconcile, settled>>

\* active_runs = GREATEST(active_runs - 1, 0).
HandlerCapacity ==
    /\ At("capacity") /\ GoTo("cycle")
    /\ \/ /\ activeRuns' = IF activeRuns = 0 THEN 0 ELSE activeRuns - 1
          /\ settled' = settled \cup {handler.run}
          /\ UNCHANGED mishaps
       \/ Fault /\ UNCHANGED <<activeRuns, settled>>
    /\ UNCHANGED <<task, run, cycle, toInsert, late, log, scheduler, workers, manager, reconcile>>

\* Variant of CycleOutcome: only failed and active tasks are looked at.
CycleOutcomeOfClaimed ==
    IF \E t \in Inserted : task[t] = "active" THEN "none"
    ELSE IF \A t \in Inserted : task[t] # "failed" THEN "completed" ELSE "failed"

\* Variant of CycleOutcome: the state that the domain's state machine has
\* between running and completed.
CycleOutcomeCompleting ==
    IF \E t \in Inserted : task[t] \notin Terminal THEN "none" ELSE "completing"

\* What check_cycle_completion makes of the tasks that are there; none while
\* one of them has not ended.
CycleOutcome ==
    IF \E t \in Inserted : task[t] \notin Terminal THEN "none"
    ELSE IF \A t \in Inserted : task[t] = "passed" THEN "completed" ELSE "failed"

\* The count of the tasks, if the handler knows the task at all; nothing comes
\* of a count that fails.
HandlerCount ==
    /\ At("cycle")
    /\ \/ /\ handler' = IF handler.known /\ CycleOutcome # "none"
                        THEN [handler EXCEPT !.step = CycleOutcome] ELSE Idle
          /\ UNCHANGED mishaps
       \/ handler.known /\ Fault /\ handler' = Idle
    /\ UNCHANGED <<tables, log, scheduler, workers, manager, reconcile, settled>>

\* Then UPDATE orch_cycles SET state = $1, whatever there is by now.
HandlerCycle ==
    /\ handler.step \in Ended /\ handler' = Idle
    /\ \/ cycle' = handler.step /\ UNCHANGED mishaps
       \/ Fault /\ UNCHANGED cycle
    /\ UNCHANGED <<task, run, activeRuns, toInsert, late, log, scheduler, workers, manager,
                   reconcile, settled>>

-----------------------------------------------------------------------------
(* The reconciler tick.                                                    *)

\* SELECT ... state IN ('running', 'claimed').
ReconcileBegin ==
    /\ rec = "idle"
    /\ rec' = "runs" /\ suspects' = {t \in Tasks : run[t] = "claimed"}
    /\ UNCHANGED <<tables, log, scheduler, workers, handler, manager, dead, settled, mishaps>>

\* reattach: the worker on disk is alive; its entry is (again) in memory.
Reattach(t) ==
    /\ rec = "runs" /\ dead = NoTask /\ t \in suspects
    /\ t \in disk /\ proc[t] = "alive"
    /\ mem' = mem \cup {t}
    /\ suspects' = suspects \ {t}
    /\ UNCHANGED <<tables, log, scheduler, workers, handler, disk, rec, dead, settled, mishaps>>

\* reattach: no entry on disk, or one of a process that is gone, which it
\* removes: what it then writes to disk is the state in memory.  A run for
\* which that write fails is passed over.
FindDead(t) ==
    /\ rec = "runs" /\ dead = NoTask /\ t \in suspects
    /\ \/ t \notin disk /\ dead' = t /\ UNCHANGED <<manager, suspects, mishaps>>
       \/ /\ t \in disk /\ proc[t] # "alive" /\ mem' = mem \ {t}
          /\ \/ disk' = mem' /\ dead' = t /\ UNCHANGED <<suspects, mishaps>>
             \/ suspects' = suspects \ {t} /\ Fault /\ UNCHANGED <<disk, dead>>
    /\ UNCHANGED <<tables, log, scheduler, workers, handler, rec, settled>>

\* RunFailed(SpawnFailure) for the run without a worker: again no change of
\* any table.  An error ends the reconciler tick.
ReconcileEmit ==
    /\ dead # NoTask
    /\ dead' = NoTask
    /\ \/ /\ Emits("SpawnFailure", dead, "reconcile-abandon")
          /\ suspects' = suspects \ {dead} /\ UNCHANGED rec
       \/ suspects' = {} /\ rec' = "idle" /\ UNCHANGED log
    /\ UNCHANGED <<tables, scheduler, workers, handler, manager, settled, mishaps>>

\* detect_stale_claims: the runs 'claimed' for CLAIM_TIMEOUT_SECS, which may
\* be any of those that are 'claimed' (StaleEmit passes over the young ones).
DetectStale ==
    /\ rec = "runs" /\ suspects = {}
    /\ suspects' = {t \in Tasks : run[t] = "claimed"}
    /\ rec' = IF suspects' = {} THEN "idle" ELSE "stale"
    /\ UNCHANGED <<tables, log, scheduler, workers, handler, manager, dead, settled, mishaps>>

StaleEmit(t) ==
    /\ rec = "stale" /\ t \in suspects
    /\ TriesToEmit("SpawnFailure", t, "reconcile-abandon")
    /\ suspects' = suspects \ {t}
    /\ rec' = IF suspects = {t} THEN "idle" ELSE "stale"
    /\ UNCHANGED <<tables, scheduler, workers, handler, manager, dead, settled, mishaps>>

-----------------------------------------------------------------------------
\* The process dies and starts again: an open transaction rolls back, the
\* request, claims, notifications and the state in memory are gone, no reaper
\* awaits the workers that live on, and nothing is read from disk at the start.
Crash ==
    /\ mishaps < MaxMishaps /\ mishaps' = mishaps + 1
    /\ tick' = "idle" /\ claims' = {} /\ spawn' = NoSpawn
    /\ reaper' = [t \in Tasks |-> "none"] /\ exits' = << >> /\ handler' = Idle
    /\ mem' = {}
    /\ rec' = "idle" /\ suspects' = {} /\ dead' = NoTask
    /\ toInsert' = {}
    /\ UNCHANGED <<task, run, activeRuns, cycle, late, log, proc, disk, settled>>

Approving == ApproveDies \/ \E t \in Tasks : ApproveInsert(t)

Scheduling == \/ TickSelect \/ TickCommit \/ TickAbort
              \/ \E t \in Tasks : SpawnSkipped(t) \/ SpawnProcess(t)
              \/ SpawnRecord \/ SpawnFailed
Handling == \/ HandlerTake \/ HandlerRun \/ HandlerTask
            \/ HandlerCapacity \/ HandlerCount \/ HandlerCycle
Reconciling == \/ ReconcileBegin \/ ReconcileEmit \/ DetectStale
               \/ \E t \in Tasks : Reattach(t) \/ FindDead(t) \/ StaleEmit(t)

Next == \/ Approving \/ Scheduling \/ Handling \/ Reconciling
        \/ \E t \in Tasks : WorkerExits(t) \/ Reap(t)
        \/ Crash

\* The loops and the reapers keep running; a worker need not ever exit, a
\* request end, and faults and crashes owe nothing.
Fairness == /\ WF_vars(Scheduling) /\ WF_vars(Handling) /\ WF_vars(Reconciling)
            /\ \A t \in Tasks : WF_vars(Reap(t))

Spec == Init /\ [][Next]_vars /\ Fairness

-----------------------------------------------------------------------------
\* The live workers never exceed active_runs, nor that max_concurrent: through
\* failed spawns, ignored errors, crashes that orphan workers and whatever the
\* reconciler says, no slot is returned twice or while its worker lives.
WorkersWithinCapacity ==
    Cardinality(Alive) <= activeRuns /\ activeRuns <= MaxConcurrent

\* active_runs counts the claims whose slot was not returned: the increments of
\* the ticks and the decrements of the handler, in transactions of their own
\* and separated by crashes, do not drift apart.
SlotsAccounted == activeRuns = Cardinality(Claimed \ settled)

\* A task passes, and its run is recorded or reported completed, only if its
\* worker exited with 0; it fails only if its worker exited otherwise, or its
\* exit code was lost.
OutcomeIsWorkers ==
    /\ \A t \in Tasks : (task[t] = "passed" \/ run[t] = "completed") => proc[t] = "ok"
    /\ \A t \in Tasks : (task[t] = "failed" \/ run[t] = "failed") => proc[t] \in {"error", "lost"}
    /\ \A e \in log : e.type = "RunCompleted" => proc[e.run] = "ok"

\* The tasks that an end of the cycle was to judge have ended and agree with it.
Judged(end) ==
    /\ \A t \in Inserted \ late : task[t] \in Terminal
    /\ end = "completed" => \A t \in Inserted \ late : task[t] = "passed"
    /\ end = "failed" => \E t \in Inserted : task[t] = "failed"

\* The cycle ends only when all its tasks did, as completed only if all passed
\* and as failed only if one failed, whichever worker exits last and whatever
\* write was lost before; but for tasks that approve_plan inserted when the
\* handler had counted those that were there.
CycleFollowsTasks == cycle \in Ended => Judged(cycle)

\* The exception is more than docs/ARCHITECTURE.md:325 allows: "CycleCompleted
\* requires ALL tasks in terminal state".
CompletedWhenAllEnded ==
    cycle = "completed" => \A t \in Inserted : task[t] \in Terminal

\* Without a fault or a crash, a run whose worker exits is settled: its task
\* ends and its slot is free again.
ExitsSettle ==
    \A t \in Tasks : proc[t] \in Exited ~>
        (task[t] \in Terminal /\ t \in settled) \/ mishaps > 0
=============================================================================
