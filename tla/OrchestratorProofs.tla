-------------------------- MODULE OrchestratorProofs -------------------------
(***************************************************************************)
(* Proofs about Orchestrator, for any set of tasks, any number of slots    *)
(* and any number of crashes and faults: its type invariant, that slots    *)
(* are accounted for and never exceeded by live workers, that outcomes are *)
(* those of the workers, and that the cycle ends with the tasks that were  *)
(* there to be judged; and that without a fault no run is dropped on its   *)
(* way and no cycle left without its end.                                  *)
(***************************************************************************)
EXTENDS Orchestrator, FiniteSetTheorems, TLAPS

\* A task is inserted once and scheduled until it is claimed, and only a claimed
\* one has a worker.  The property about outcomes is inductive next to this.
TablesInv ==
    /\ \A t \in toInsert : task[t] = "none"
    /\ \A t \in Tasks : run[t] = "none" <=> task[t] \in {"none", "scheduled"}
    /\ \A t \in Tasks : proc[t] # "none" => run[t] # "none"
    /\ OutcomeIsWorkers

\* The end that the cycle has, and the one that the handler is about to give it,
\* agree with the tasks.
CycleInv ==
    /\ CycleFollowsTasks
    /\ handler.step \in Ended => Judged(handler.step)

\* What is recorded of a worker is recorded after its reaper has notified: its
\* exit code may still be lost.
ReapersInv ==
    \A t \in Tasks : reaper[t] = "waiting" =>
        /\ task[t] \notin Terminal /\ run[t] \notin {"completed", "failed"}
        /\ \A e \in log : e.type = "RunCompleted" => e.run # t

\* A returned slot is one of a worker that has exited.
SlotsInv ==
    /\ \A t \in settled : proc[t] \in Exited
    /\ SlotsAccounted
    /\ activeRuns <= MaxConcurrent

\* An open tick holds unclaimed tasks and has room for them; a claim left to
\* spawn has no worker, but for the one whose spawn is in progress.
TickInv ==
    /\ tick = "open" =>
          /\ \A t \in claims : task[t] = "scheduled"
          /\ activeRuns + Cardinality(claims) <= MaxConcurrent
    /\ tick = "spawn" =>
          \A t \in claims : /\ run[t] # "none"
                            /\ proc[t] = "none" \/ (spawn.step # "none" /\ spawn.run = t)
    /\ spawn.step # "none" => tick = "spawn" /\ spawn.run \in claims

\* The completion handler has still to return the slot of its run.
Handles(t) == handler.step \in {"run", "task", "capacity"} /\ handler.run = t

\* The exit of a worker is with its reaper, in the queue or with the handler,
\* in one place only, until its slot is returned.
ExitsInv ==
    /\ \A t \in Tasks : reaper[t] = "waiting" =>
          proc[t] # "none" /\ t \notin settled /\ ~Handles(t)
    /\ \A i \in 1..Len(exits) :
          /\ proc[exits[i]] \in Exited /\ exits[i] \notin settled
          /\ reaper[exits[i]] # "waiting" /\ ~Handles(exits[i])
    /\ \A i, j \in 1..Len(exits) : exits[i] = exits[j] => i = j
    /\ handler.step # "idle" => handler.run \in Tasks /\ proc[handler.run] \in Exited
    /\ \A t \in Tasks : Handles(t) => t \notin settled

IInv == TypeOK /\ TablesInv /\ CycleInv /\ ReapersInv /\ SlotsInv /\ TickInv /\ ExitsInv
-----------------------------------------------------------------------------
\* Nothing in a stutter touches the invariant.
LEMMA StutterType == TypeOK /\ UNCHANGED vars => TypeOK'
BY DEF TypeOK, vars, tables, scheduler, workers, manager, reconcile, Event, Terminal, Exited

\* Types, action by action: the request that inserts the tasks.
LEMMA ApprovingType == TypeOK /\ Approving => TypeOK'
<1>1. ASSUME TypeOK, ApproveDies PROVE TypeOK'
  BY <1>1 DEF ApproveDies, TypeOK, scheduler, workers, manager, reconcile,
              Event, Terminal, Exited
<1>2. ASSUME TypeOK, NEW t \in Tasks, ApproveInsert(t) PROVE TypeOK'
  <2>1. /\ task' \in [Tasks -> {"none", "scheduled", "active"} \cup Terminal]
        /\ late' \subseteq Tasks /\ mishaps' \in 0..MaxMishaps
    BY <1>2, OrchestratorAssumption DEF ApproveInsert, Fault, TypeOK
  <2> QED
    BY <1>2, <2>1 DEF ApproveInsert, TypeOK, scheduler, workers, manager, reconcile,
                      Event, Exited
<1> QED
  BY <1>1, <1>2 DEF Approving

\* Types: the scheduler's steps.
LEMMA SchedulingType == TypeOK /\ TickInv /\ Scheduling => TypeOK'
<1> SUFFICES ASSUME TypeOK, TickInv, Scheduling PROVE TypeOK'
  OBVIOUS
<1> USE OrchestratorAssumption DEF Fault, ClaimDone, NoSpawn
<1>1. CASE TickSelect
  BY <1>1 DEF TickSelect, Claimable, TypeOK, tables, workers, manager, reconcile,
              Event, Terminal, Exited
<1>2. CASE TickCommit
  <2>1. Cardinality(claims) \in Nat
    BY FS_Subset, FS_CardinalityType DEF TypeOK
  <2> QED
    BY <1>2, <2>1 DEF TickCommit, TypeOK, tables, workers, manager, reconcile,
                      Event, Terminal, Exited
<1>3. CASE TickAbort
  BY <1>3 DEF TickAbort, TypeOK, tables, workers, manager, reconcile, Event, Terminal, Exited
<1>4. ASSUME NEW t \in Tasks, SpawnSkipped(t) PROVE TypeOK'
  BY <1>4 DEF SpawnSkipped, TypeOK, tables, workers, manager, reconcile, Event, Terminal, Exited
<1>5. ASSUME NEW t \in Tasks, SpawnProcess(t) PROVE TypeOK'
  <2>1. /\ proc' \in [Tasks -> {"none", "alive"} \cup Exited]
        /\ reaper' \in [Tasks -> {"none", "waiting", "done"}]
        /\ UNCHANGED exits
    BY <1>5 DEF SpawnProcess, TypeOK, workers
  <2>2. /\ spawn' \in [step : {"none", "record", "failed"}, run : Tasks \cup {NoTask}]
        /\ mishaps' \in 0..MaxMishaps
    BY <1>5 DEF SpawnProcess, TypeOK
  <2>3. UNCHANGED <<tables, log, tick, claims, handler, manager, reconcile, settled>>
    BY <1>5 DEF SpawnProcess
  <2> QED
    BY <2>1, <2>2, <2>3 DEF TypeOK, tables, manager, reconcile, Event, Terminal
<1>6. CASE SpawnRecord
  <2>1. spawn.run \in Tasks
    BY <1>6 DEF SpawnRecord, TickInv, TypeOK
  <2> QED
    BY <1>6, <2>1 DEF SpawnRecord, TypeOK, tables, workers, manager, reconcile,
                      Event, Terminal, Exited
<1>7. CASE SpawnFailed
  <2>1. spawn.run \in Tasks
    BY <1>7 DEF SpawnFailed, TickInv, TypeOK
  <2> QED
    BY <1>7, <2>1 DEF SpawnFailed, TriesToEmit, Emits, TypeOK, tables, workers,
                      manager, reconcile, Event, Terminal, Exited
<1> QED
  BY <1>1, <1>2, <1>3, <1>4, <1>5, <1>6, <1>7 DEF Scheduling

\* Types: the workers, the completion handler and the end of the process.
LEMMA WorkersType ==
  TypeOK /\ (Crash \/ \E t \in Tasks : WorkerExits(t) \/ Reap(t)) => TypeOK'
<1> USE OrchestratorAssumption
<1>1. ASSUME TypeOK, Crash PROVE TypeOK'
  BY <1>1 DEF Crash, TypeOK, NoSpawn, Idle, HandlerSteps, Event, Terminal, Exited
<1>2. ASSUME TypeOK, NEW t \in Tasks, WorkerExits(t) PROVE TypeOK'
  BY <1>2 DEF WorkerExits, TypeOK, tables, scheduler, manager, reconcile,
              Event, Terminal, Exited
<1>3. ASSUME TypeOK, NEW t \in Tasks, Reap(t) PROVE TypeOK'
  <2>1. /\ proc' \in [Tasks -> {"none", "alive"} \cup Exited]
        /\ reaper' \in [Tasks -> {"none", "waiting", "done"}]
    BY <1>3 DEF Reap, TypeOK, Exited
  <2>2. exits' \in Seq(Tasks) /\ mem' \subseteq Tasks /\ mishaps' \in 0..MaxMishaps
    BY <1>3 DEF Reap, Fault, TypeOK
  <2>3. UNCHANGED <<tables, log, scheduler, handler, disk, reconcile, settled>>
    BY <1>3 DEF Reap
  <2> QED
    BY <1>3, <2>1, <2>2, <2>3 DEF TypeOK, tables, scheduler, reconcile, Event, Terminal
<1> QED
  BY <1>1, <1>2, <1>3

\* The completion handler keeps the types.
LEMMA HandlingType == TypeOK /\ ExitsInv /\ Handling => TypeOK'
<1> SUFFICES ASSUME TypeOK, ExitsInv, Handling PROVE TypeOK'
  OBVIOUS
<1> USE OrchestratorAssumption DEF Fault, At, GoTo
<1>1. CASE HandlerTake
  <2>1. Head(exits) \in Tasks /\ Tail(exits) \in Seq(Tasks)
    BY <1>1 DEF HandlerTake, TypeOK
  <2>2. handler' \in [step : HandlerSteps, run : Tasks \cup {NoTask}, known : BOOLEAN]
    <3>1. \/ handler' = [step |-> "run", run |-> Head(exits), known |-> TRUE]
          \/ handler' = [step |-> "run", run |-> Head(exits), known |-> FALSE]
      BY <1>1 DEF HandlerTake
    <3>2. \A t \in Tasks, k \in BOOLEAN :
             [step |-> "run", run |-> t, known |-> k] \in
               [step : HandlerSteps, run : Tasks \cup {NoTask}, known : BOOLEAN]
      BY DEF HandlerSteps
    <3> QED
      BY <2>1, <3>1, <3>2
  <2>3. log' \subseteq Event
    BY <1>1, <2>1 DEF HandlerTake, TriesToEmit, Emits, Event, TypeOK
  <2> QED
    BY <1>1, <2>1, <2>2, <2>3 DEF HandlerTake, TypeOK, tables, scheduler, manager, reconcile,
                                  Event, Terminal, Exited
<1>2. CASE HandlerRun \/ HandlerTask
  <2>1. handler.run \in Tasks
    BY <1>2 DEF HandlerRun, HandlerTask, ExitsInv
  <2>2. /\ task' \in [Tasks -> {"none", "scheduled", "active"} \cup Terminal]
        /\ run' \in [Tasks -> {"none", "claimed", "completed", "failed"}]
    BY <1>2, <2>1 DEF HandlerRun, HandlerTask, TypeOK, Terminal
  <2>3. handler' \in [step : HandlerSteps, run : Tasks \cup {NoTask}, known : BOOLEAN]
    BY <1>2 DEF HandlerRun, HandlerTask, HandlerSteps, TypeOK
  <2>4. mishaps' \in 0..MaxMishaps
    BY <1>2 DEF HandlerRun, HandlerTask, TypeOK
  <2>5. UNCHANGED <<activeRuns, cycle, toInsert, late, log, scheduler, workers, manager,
                    reconcile, settled>>
    BY <1>2 DEF HandlerRun, HandlerTask
  <2> QED
    BY <2>2, <2>3, <2>4, <2>5 DEF TypeOK, scheduler, workers, manager, reconcile, Event
<1>3. CASE HandlerCapacity
  <2>1. handler.run \in Tasks
    BY <1>3 DEF HandlerCapacity, ExitsInv
  <2>2. activeRuns' \in Nat /\ settled' \subseteq Tasks /\ mishaps' \in 0..MaxMishaps
    BY <1>3, <2>1 DEF HandlerCapacity, TypeOK
  <2>3. handler' \in [step : HandlerSteps, run : Tasks \cup {NoTask}, known : BOOLEAN]
    BY <1>3 DEF HandlerCapacity, HandlerSteps, TypeOK
  <2>4. UNCHANGED <<task, run, cycle, toInsert, late, log, scheduler, workers, manager,
                    reconcile>>
    BY <1>3 DEF HandlerCapacity
  <2> QED
    BY <2>2, <2>3, <2>4 DEF TypeOK, scheduler, workers, manager, reconcile, Event
<1>4. CASE HandlerCount
  <2>1. CycleOutcome \in {"none"} \cup Ended
    BY DEF CycleOutcome, Ended
  <2>2. handler' = Idle \/ \E o \in Ended : handler' = [handler EXCEPT !.step = o]
    BY <1>4, <2>1 DEF HandlerCount
  <2>3. handler' \in [step : HandlerSteps, run : Tasks \cup {NoTask}, known : BOOLEAN]
    <3>1. CASE handler' = Idle
      BY <3>1 DEF Idle, HandlerSteps
    <3>2. ASSUME NEW o \in Ended, handler' = [handler EXCEPT !.step = o]
          PROVE  handler' \in [step : HandlerSteps, run : Tasks \cup {NoTask}, known : BOOLEAN]
      BY <3>2 DEF HandlerSteps, TypeOK
    <3> QED
      BY <2>2, <3>1, <3>2
  <2>4. mishaps' \in 0..MaxMishaps
    BY <1>4 DEF HandlerCount, TypeOK
  <2>5. UNCHANGED <<tables, log, scheduler, workers, manager, reconcile, settled>>
    BY <1>4 DEF HandlerCount
  <2> QED
    BY <2>3, <2>4, <2>5 DEF TypeOK, tables, scheduler, workers, manager, reconcile, Event
<1>5. CASE HandlerCycle
  <2>1. cycle' \in {"approved", "running"} \cup Ended /\ mishaps' \in 0..MaxMishaps
    BY <1>5 DEF HandlerCycle, TypeOK
  <2>2. handler' \in [step : HandlerSteps, run : Tasks \cup {NoTask}, known : BOOLEAN]
    BY <1>5 DEF HandlerCycle, Idle, HandlerSteps
  <2>3. UNCHANGED <<task, run, activeRuns, toInsert, late, log, scheduler, workers, manager,
                    reconcile, settled>>
    BY <1>5 DEF HandlerCycle
  <2> QED
    BY <2>1, <2>2, <2>3 DEF TypeOK, scheduler, workers, manager, reconcile, Event
<1> QED
  BY <1>1, <1>2, <1>3, <1>4, <1>5 DEF Handling

\* The reconciler keeps the types.
LEMMA ReconcilingType == TypeOK /\ Reconciling => TypeOK'
<1> SUFFICES ASSUME TypeOK, Reconciling PROVE TypeOK'
  OBVIOUS
<1> USE OrchestratorAssumption
<1>1. CASE ReconcileBegin
  BY <1>1 DEF ReconcileBegin, TypeOK, tables, scheduler, workers, manager,
              Event, Terminal, Exited
<1>2. CASE ReconcileEmit
  <2>1. log' \subseteq Event
    BY <1>2 DEF ReconcileEmit, Emits, Event, TypeOK
  <2> QED
    BY <1>2, <2>1 DEF ReconcileEmit, TypeOK, tables, scheduler, workers, manager,
                      Event, Terminal, Exited
<1>3. CASE DetectStale
  BY <1>3 DEF DetectStale, TypeOK, tables, scheduler, workers, manager,
              Event, Terminal, Exited
<1>4. ASSUME NEW t \in Tasks, Reattach(t) PROVE TypeOK'
  BY <1>4 DEF Reattach, TypeOK, tables, scheduler, workers, Event, Terminal, Exited
<1>5. ASSUME NEW t \in Tasks, FindDead(t) PROVE TypeOK'
  BY <1>5 DEF FindDead, Fault, TypeOK, tables, scheduler, workers, manager,
              Event, Terminal, Exited
<1>6. ASSUME NEW t \in Tasks, StaleEmit(t) PROVE TypeOK'
  <2>1. log' \subseteq Event
    BY <1>6 DEF StaleEmit, TriesToEmit, Emits, Event, TypeOK
  <2> QED
    BY <1>6, <2>1 DEF StaleEmit, TypeOK, tables, scheduler, workers, manager,
                      Event, Terminal, Exited
<1> QED
  BY <1>1, <1>2, <1>3, <1>4, <1>5, <1>6 DEF Reconciling

-----------------------------------------------------------------------------
\* The tables: steps that leave them and the processes alone, and report no
\* completion but that of a worker that exited with 0.
LEMMA TablesFrame ==
  ASSUME TablesInv, UNCHANGED <<task, run, proc>>, toInsert' \subseteq toInsert,
         \A e \in log' : e \in log \/ e.type # "RunCompleted" \/ proc[e.run] = "ok"
  PROVE  TablesInv'
BY DEF TablesInv, OutcomeIsWorkers

\* The request keeps TablesInv: a new row is a scheduled task without a run.
LEMMA ApprovingTables == IInv /\ Approving => TablesInv'
<1> SUFFICES ASSUME IInv, Approving PROVE TablesInv'
  OBVIOUS
<1> USE DEF IInv
<1>1. CASE ApproveDies
  BY <1>1, TablesFrame DEF ApproveDies, workers
<1>2. ASSUME NEW t \in Tasks, ApproveInsert(t) PROVE TablesInv'
  <2>1. t \in toInsert /\ task[t] = "none" /\ run[t] = "none"
    BY <1>2 DEF ApproveInsert, TablesInv
  <2>2. UNCHANGED <<run, proc, log>> /\ toInsert' = toInsert \ {t}
    BY <1>2 DEF ApproveInsert, workers
  <2>3. \A u \in Tasks : task'[u] = task[u] \/ (u = t /\ task'[u] = "scheduled")
    BY <1>2 DEF ApproveInsert, TypeOK
  <2>4. OutcomeIsWorkers'
    BY <2>2, <2>3 DEF TablesInv, OutcomeIsWorkers
  <2>5. \A u \in toInsert' : u \in Tasks /\ u # t /\ u \in toInsert
    BY <2>2 DEF TypeOK
  <2> QED
    BY <2>1, <2>2, <2>3, <2>4, <2>5 DEF TablesInv
<1> QED
  BY <1>1, <1>2 DEF Approving

\* Scheduling keeps TablesInv.
LEMMA SchedulingTables == IInv /\ Scheduling => TablesInv'
<1> SUFFICES ASSUME IInv, Scheduling PROVE TablesInv'
  OBVIOUS
<1> USE DEF IInv
<1>1. CASE TickSelect \/ TickAbort
  BY <1>1, TablesFrame DEF TickSelect, TickAbort, tables, workers
<1>2. CASE TickCommit
  <2>1. \A t \in claims :
           t \in Tasks /\ run[t] = "none" /\ task[t] = "scheduled" /\ proc[t] = "none"
    BY <1>2 DEF TickCommit, TickInv, TablesInv, TypeOK
  <2>2. UNCHANGED <<proc, log, toInsert>>
    BY <1>2 DEF TickCommit, workers
  <2>3. /\ \A t \in Tasks : run'[t] = IF t \in claims THEN "claimed" ELSE run[t]
        /\ \A t \in Tasks : task'[t] = IF t \in claims THEN "active" ELSE task[t]
    BY <1>2 DEF TickCommit
  <2>4. OutcomeIsWorkers'
    BY <2>1, <2>2, <2>3 DEF TablesInv, OutcomeIsWorkers
  <2>5. \A t \in toInsert : t \in Tasks /\ t \notin claims
    BY <2>1 DEF TablesInv, TypeOK
  <2> QED
    BY <2>1, <2>2, <2>3, <2>4, <2>5 DEF TablesInv
<1>3. ASSUME NEW t \in Tasks, SpawnSkipped(t) PROVE TablesInv'
  BY <1>3, TablesFrame DEF SpawnSkipped, tables, workers
<1>4. ASSUME NEW t \in Tasks, SpawnProcess(t) PROVE TablesInv'
  <2>1. proc[t] = "none" /\ run[t] # "none"
    BY <1>4 DEF SpawnProcess, NoSpawn, TickInv
  <2>2. UNCHANGED <<task, run, log, toInsert>>
    BY <1>4 DEF SpawnProcess, tables
  <2>3. proc' = proc \/ proc' = [proc EXCEPT ![t] = "alive"]
    BY <1>4 DEF SpawnProcess, workers
  <2>4. \A u \in Tasks : proc'[u] = proc[u] \/ (u = t /\ proc'[u] = "alive")
    BY <2>3 DEF TypeOK
  <2>5. \A e \in log : e.run \in Tasks
    BY DEF TypeOK, Event
  <2>6. OutcomeIsWorkers'
    BY <2>1, <2>2, <2>4, <2>5 DEF TablesInv, OutcomeIsWorkers
  <2> QED
    BY <2>1, <2>2, <2>4, <2>6 DEF TablesInv
<1>5. CASE SpawnRecord
  BY <1>5, TablesFrame DEF SpawnRecord, tables, workers
<1>6. CASE SpawnFailed
  BY <1>6, TablesFrame DEF SpawnFailed, TriesToEmit, Emits, tables, workers
<1> QED
  BY <1>1, <1>2, <1>3, <1>4, <1>5, <1>6 DEF Scheduling

\* A step that changes the process of one run of which nothing is recorded.
LEMMA TablesOfOne ==
  ASSUME IInv, NEW t \in Tasks, UNCHANGED <<task, run, log, toInsert>>, run[t] # "none",
         \A u \in Tasks : u # t => proc'[u] = proc[u],
         task[t] \notin Terminal, run[t] \notin {"completed", "failed"},
         \A e \in log : e.type = "RunCompleted" => e.run # t
  PROVE  TablesInv'
<1>1. \A e \in log : e.run \in Tasks
  BY DEF IInv, TypeOK, Event
<1>2. OutcomeIsWorkers'
  BY <1>1 DEF IInv, TablesInv, OutcomeIsWorkers, Terminal
<1> QED
  BY <1>2 DEF IInv, TablesInv

\* Workers, reapers and crashes keep TablesInv: a reaper that loses the exit code
\* is ahead of everything that is recorded of it.
LEMMA WorkersTables ==
  IInv /\ (Crash \/ \E t \in Tasks : WorkerExits(t) \/ Reap(t)) => TablesInv'
<1> USE DEF IInv
<1>1. ASSUME IInv, Crash PROVE TablesInv'
  BY <1>1, TablesFrame DEF Crash
<1>2. ASSUME IInv, NEW t \in Tasks, Reap(t) PROVE TablesInv'
  <2>1. /\ UNCHANGED <<task, run, log, toInsert>> /\ proc[t] # "none"
        /\ reaper[t] = "waiting"
    BY <1>2 DEF Reap, tables, Exited
  <2>2. \A u \in Tasks : u # t => proc'[u] = proc[u]
    BY <1>2 DEF Reap, TypeOK
  <2>3. /\ task[t] \notin Terminal /\ run[t] \notin {"completed", "failed"} /\ run[t] # "none"
        /\ \A e \in log : e.type = "RunCompleted" => e.run # t
    BY <1>2, <2>1 DEF ReapersInv, TablesInv
  <2> QED
    BY <1>2, <2>1, <2>2, <2>3, TablesOfOne
<1>3. ASSUME IInv, NEW t \in Tasks, WorkerExits(t) PROVE TablesInv'
  <2>1. proc[t] = "alive" /\ UNCHANGED <<task, run, log, toInsert>>
    BY <1>3 DEF WorkerExits, tables
  <2>2. \A u \in Tasks : u # t => proc'[u] = proc[u]
    BY <1>3 DEF WorkerExits, TypeOK
  <2>3. /\ task[t] \notin Terminal /\ run[t] \notin {"completed", "failed"} /\ run[t] # "none"
        /\ \A e \in log : e.type = "RunCompleted" => e.run # t
    BY <1>3, <2>1 DEF TablesInv, OutcomeIsWorkers, Terminal
  <2> QED
    BY <1>3, <2>1, <2>2, <2>3, TablesOfOne
<1> QED
  BY <1>1, <1>2, <1>3

\* The reconciler keeps TablesInv.
LEMMA ReconcilingTables == IInv /\ Reconciling => TablesInv'
<1> SUFFICES ASSUME IInv, Reconciling PROVE TablesInv'
  OBVIOUS
<1>1. UNCHANGED <<task, run, toInsert, proc>>
  BY DEF Reconciling, ReconcileBegin, ReconcileEmit, DetectStale, Reattach, FindDead, StaleEmit,
         tables, workers
<1>2. \A e \in log' : e \in log \/ e.type = "SpawnFailure"
  BY DEF Reconciling, ReconcileBegin, ReconcileEmit, DetectStale, Reattach, FindDead, StaleEmit,
         TriesToEmit, Emits
<1> QED
  BY <1>1, <1>2, TablesFrame DEF IInv

\* The completion handler keeps TablesInv.
LEMMA HandlingTables == IInv /\ Handling => TablesInv'
<1> SUFFICES ASSUME IInv, Handling PROVE TablesInv'
  OBVIOUS
<1> USE DEF IInv, At, GoTo, Ok
<1>1. CASE HandlerTake
  <2>1. \A e \in log' : e \in log \/ e.type # "RunCompleted" \/ proc[e.run] = "ok"
    BY <1>1 DEF HandlerTake, TriesToEmit, Emits
  <2> QED
    BY <1>1, <2>1, TablesFrame DEF HandlerTake, tables
<1>2. CASE HandlerCapacity \/ HandlerCount \/ HandlerCycle
  BY <1>2, TablesFrame DEF HandlerCapacity, HandlerCount, HandlerCycle, tables, workers
<1>3. CASE HandlerRun
  <2> DEFINE h == handler.run
  <2>1. h \in Tasks /\ proc[h] \in Exited /\ run[h] # "none"
    BY <1>3 DEF HandlerRun, ExitsInv, TablesInv, Exited
  <2>2. UNCHANGED <<task, toInsert, log, proc>>
    BY <1>3 DEF HandlerRun, workers
  <2>3. \A t \in Tasks : \/ run'[t] = run[t]
                         \/ /\ t = h
                            /\ run'[t] = IF proc[h] = "ok" THEN "completed" ELSE "failed"
    BY <1>3 DEF HandlerRun, TypeOK
  <2>4. OutcomeIsWorkers'
    BY <2>1, <2>2, <2>3 DEF TablesInv, OutcomeIsWorkers, Exited
  <2> QED
    BY <2>1, <2>2, <2>3, <2>4 DEF TablesInv
<1>4. CASE HandlerTask
  <2> DEFINE h == handler.run
  <2>1. h \in Tasks /\ proc[h] \in Exited /\ run[h] # "none" /\ task[h] \notin {"none", "scheduled"}
    BY <1>4 DEF HandlerTask, ExitsInv, TablesInv, Exited
  <2>2. UNCHANGED <<run, toInsert, log, proc>>
    BY <1>4 DEF HandlerTask, workers
  <2>3. \A t \in Tasks : \/ task'[t] = task[t]
                         \/ /\ t = h
                            /\ task'[t] = IF proc[h] = "ok" THEN "passed" ELSE "failed"
    BY <1>4 DEF HandlerTask, TypeOK
  <2>4. OutcomeIsWorkers'
    BY <2>1, <2>2, <2>3 DEF TablesInv, OutcomeIsWorkers, Exited
  <2>5. \A t \in toInsert : t \in Tasks /\ t # h
    BY <2>1 DEF TablesInv, TypeOK
  <2> QED
    BY <2>1, <2>2, <2>3, <2>4, <2>5 DEF TablesInv
<1> QED
  BY <1>1, <1>2, <1>3, <1>4 DEF Handling

-----------------------------------------------------------------------------
\* The end of the cycle: what it says of the tasks it judged stays true when no
\* outcome changes and every new task is late.
LEMMA JudgedStays ==
  ASSUME NEW end, Judged(end),
         \A t \in Tasks : task[t] \in Terminal => task'[t] = task[t],
         \A t \in Tasks : task'[t] # "none" /\ t \notin late' => task[t] # "none" /\ t \notin late
  PROVE  Judged(end)'
BY DEF Judged, Inserted, Terminal

\* Steps that leave tasks and cycle alone, and begin no end.
LEMMA CycleFrame ==
  ASSUME CycleInv, UNCHANGED <<task, late, cycle>>,
         handler' = handler \/ handler'.step \notin Ended
  PROVE  CycleInv'
<1>1. \A end : Judged(end) => Judged(end)'
  BY JudgedStays
<1> QED
  BY <1>1 DEF CycleInv, CycleFollowsTasks

\* Steps that change tasks, but no outcome, and let new ones be late.
LEMMA CycleOfTasks ==
  ASSUME CycleInv, handler' = handler \/ handler'.step \notin Ended,
         cycle' = cycle \/ cycle' \notin Ended,
         cycle \in Ended \/ handler.step \in Ended =>
            /\ \A t \in Tasks : task[t] \in Terminal => task'[t] = task[t]
            /\ \A t \in Tasks : task'[t] # "none" /\ t \notin late' =>
                                  task[t] # "none" /\ t \notin late
  PROVE  CycleInv'
<1>1. cycle \in Ended \/ handler.step \in Ended => \A end : Judged(end) => Judged(end)'
  BY JudgedStays
<1> QED
  BY <1>1 DEF CycleInv, CycleFollowsTasks

\* Every step keeps CycleInv.
LEMMA NextCycle == IInv /\ Next => CycleInv'
<1> SUFFICES ASSUME IInv, Next PROVE CycleInv'
  OBVIOUS
<1> USE DEF IInv, At, GoTo, Ok
<1>1. ASSUME NEW t \in Tasks, ApproveInsert(t) PROVE CycleInv'
  <2>1. UNCHANGED <<handler, cycle>> /\ task[t] = "none"
    BY <1>1 DEF ApproveInsert, TablesInv
  <2>2. \A u \in Tasks : u # t => task'[u] = task[u]
    BY <1>1 DEF ApproveInsert, TypeOK
  <2>3. late \subseteq late' /\ (cycle \in Ended \/ handler.step \in Ended =>
                                    t \in late' \/ task' = task)
    BY <1>1 DEF ApproveInsert
  <2> QED
    BY <2>1, <2>2, <2>3, CycleOfTasks DEF Terminal
<1>2. CASE TickCommit
  <2>1. \A t \in claims : t \in Tasks /\ task[t] = "scheduled"
    BY <1>2 DEF TickCommit, TickInv, TypeOK
  <2>2. /\ \A t \in Tasks : task'[t] = IF t \in claims THEN "active" ELSE task[t]
        /\ UNCHANGED <<late, handler>> /\ (cycle' = cycle \/ cycle' = "running")
    BY <1>2 DEF TickCommit
  <2> QED
    BY <2>1, <2>2, CycleOfTasks DEF Terminal, Ended
<1>3. CASE HandlerTask
  <2> DEFINE h == handler.run
  <2>1. h \in Tasks /\ proc[h] \in Exited /\ task[h] \notin {"none", "scheduled"}
    BY <1>3 DEF HandlerTask, ExitsInv, TablesInv, Exited
  <2>2. \A t \in Tasks : \/ task'[t] = task[t]
                         \/ /\ t = h
                            /\ task'[t] = IF proc[h] = "ok" THEN "passed" ELSE "failed"
    BY <1>3 DEF HandlerTask, TypeOK
  <2>3. /\ task[h] = "passed" => proc[h] = "ok"
        /\ task[h] = "failed" => proc[h] # "ok"
    BY <2>1 DEF TablesInv, OutcomeIsWorkers
  <2>4. UNCHANGED <<cycle, late>> /\ handler'.step = "capacity"
    BY <1>3 DEF HandlerTask, TypeOK
  <2> QED
    BY <2>1, <2>2, <2>3, <2>4, CycleOfTasks DEF Terminal, Ended
<1>4. CASE HandlerCount
  <2>1. UNCHANGED <<task, late, cycle>>
    BY <1>4 DEF HandlerCount, tables
  <2>2. \A t \in Inserted : CycleOutcome # "none" => task[t] \in Terminal
    BY DEF CycleOutcome
  <2>3. CycleOutcome \in Ended => Judged(CycleOutcome)
    BY <2>2 DEF CycleOutcome, Judged, Terminal, Ended
  <2>4. \/ handler'.step = "idle"
        \/ CycleOutcome \in Ended /\ handler'.step = CycleOutcome
    BY <1>4 DEF HandlerCount, CycleOutcome, Idle, Ended, TypeOK
  <2>5. \A end : Judged(end) => Judged(end)'
    BY <2>1, JudgedStays
  <2> QED
    BY <2>1, <2>3, <2>4, <2>5 DEF CycleInv, CycleFollowsTasks, Ended
<1>5. CASE HandlerCycle
  <2>1. /\ UNCHANGED <<task, late>> /\ handler'.step = "idle"
        /\ handler.step \in Ended /\ (cycle' = cycle \/ cycle' = handler.step)
    BY <1>5 DEF HandlerCycle, Idle
  <2>2. \A end : Judged(end) => Judged(end)'
    BY <2>1, JudgedStays
  <2> QED
    BY <2>1, <2>2 DEF CycleInv, CycleFollowsTasks, Ended
<1>6. CASE \/ ApproveDies \/ TickSelect \/ TickAbort \/ SpawnRecord \/ SpawnFailed
           \/ \E t \in Tasks : SpawnSkipped(t) \/ SpawnProcess(t) \/ WorkerExits(t) \/ Reap(t)
  <2>1. UNCHANGED <<task, late, cycle, handler>>
    BY <1>6 DEF ApproveDies, TickSelect, TickAbort, SpawnRecord, SpawnFailed, SpawnSkipped,
                SpawnProcess, WorkerExits, Reap, tables
  <2> QED
    BY <2>1, CycleFrame
<1>7. CASE Reconciling \/ Crash
  <2>1. UNCHANGED <<task, late, cycle>> /\ (handler' = handler \/ handler' = Idle)
    BY <1>7 DEF Reconciling, ReconcileBegin, ReconcileEmit, DetectStale, Reattach, FindDead,
                StaleEmit, Crash, tables
  <2> QED
    BY <2>1, CycleFrame DEF Idle, Ended
<1>8. CASE HandlerTake \/ HandlerRun \/ HandlerCapacity
  <2>1. UNCHANGED <<task, late, cycle>> /\ handler'.step \in {"run", "task", "capacity", "cycle"}
    BY <1>8 DEF HandlerTake, HandlerRun, HandlerCapacity, TypeOK, tables
  <2> QED
    BY <2>1, CycleFrame DEF Ended
<1> QED
  BY <1>1, <1>2, <1>3, <1>4, <1>5, <1>6, <1>7, <1>8 DEF Next, Approving, Scheduling, Handling

-----------------------------------------------------------------------------
\* The reapers: steps that record nothing of a run whose reaper still waits.
LEMMA ReapersFrame ==
  ASSUME ReapersInv,
         \A t \in Tasks : reaper'[t] = "waiting" =>
            /\ reaper[t] = "waiting"
            /\ task'[t] = task[t] \/ task'[t] \notin Terminal
            /\ run'[t] = run[t] \/ run'[t] = "claimed"
            /\ \A e \in log' : e \in log \/ e.type # "RunCompleted" \/ e.run # t
  PROVE  ReapersInv'
BY DEF ReapersInv

\* Every step keeps ReapersInv.
LEMMA NextReapers == IInv /\ Next => ReapersInv'
<1> SUFFICES ASSUME IInv, Next PROVE ReapersInv'
  OBVIOUS
<1> USE DEF IInv, At, GoTo, Ok
<1>1. CASE Approving \/ TickCommit
  <2>1. UNCHANGED <<reaper, log>>
    BY <1>1 DEF Approving, ApproveInsert, ApproveDies, TickCommit, workers
  <2>2. \A t \in Tasks : /\ task'[t] = task[t] \/ task'[t] \in {"scheduled", "active"}
                         /\ run'[t] = run[t] \/ run'[t] = "claimed"
    BY <1>1 DEF Approving, ApproveInsert, ApproveDies, TickCommit, TypeOK
  <2> QED
    BY <2>1, <2>2, ReapersFrame DEF Terminal
<1>2. ASSUME NEW t \in Tasks, SpawnProcess(t) PROVE ReapersInv'
  <2>1. UNCHANGED <<task, run, log>> /\ proc[t] = "none"
    BY <1>2 DEF SpawnProcess, NoSpawn, TickInv, tables
  <2>2. \A u \in Tasks : u # t => reaper'[u] = reaper[u]
    BY <1>2 DEF SpawnProcess, TypeOK, workers
  <2>3. /\ task[t] \notin Terminal /\ run[t] \notin {"completed", "failed"}
        /\ \A e \in log : e.type = "RunCompleted" => e.run # t
    BY <2>1 DEF TablesInv, OutcomeIsWorkers, Terminal
  <2> QED
    BY <2>1, <2>2, <2>3 DEF ReapersInv
<1>3. CASE \/ TickSelect \/ TickAbort \/ SpawnRecord \/ SpawnFailed
           \/ \E t \in Tasks : SpawnSkipped(t) \/ WorkerExits(t)
  <2>1. UNCHANGED <<task, run, reaper>>
    BY <1>3 DEF TickSelect, TickAbort, SpawnRecord, SpawnFailed, SpawnSkipped, WorkerExits,
                tables, workers
  <2>2. \A e \in log' : e \in log \/ e.type # "RunCompleted"
    BY <1>3 DEF TickSelect, TickAbort, SpawnRecord, SpawnFailed, SpawnSkipped, WorkerExits,
                TriesToEmit, Emits
  <2> QED
    BY <2>1, <2>2, ReapersFrame
<1>4. CASE Crash \/ \E t \in Tasks : Reap(t)
  <2>1. UNCHANGED <<task, run, log>>
    BY <1>4 DEF Crash, Reap, tables
  <2>2. \A t \in Tasks : reaper'[t] = "waiting" => reaper[t] = "waiting"
    BY <1>4 DEF Crash, Reap, TypeOK
  <2> QED
    BY <2>1, <2>2, ReapersFrame
<1>5. CASE Reconciling
  <2>1. UNCHANGED <<task, run, reaper>>
    BY <1>5 DEF Reconciling, ReconcileBegin, ReconcileEmit, DetectStale, Reattach, FindDead,
                StaleEmit, tables, workers
  <2>2. \A e \in log' : e \in log \/ e.type # "RunCompleted"
    BY <1>5 DEF Reconciling, ReconcileBegin, ReconcileEmit, DetectStale, Reattach, FindDead,
                StaleEmit, TriesToEmit, Emits
  <2> QED
    BY <2>1, <2>2, ReapersFrame
<1>6. CASE HandlerTake
  <2>1. UNCHANGED <<task, run, reaper>>
    BY <1>6 DEF HandlerTake, tables
  <2>2. \A e \in log' : e \in log \/ e.type # "RunCompleted" \/ e.run = Head(exits)
    BY <1>6 DEF HandlerTake, TriesToEmit, Emits
  <2>3. 1 \in 1..Len(exits) /\ Head(exits) = exits[1]
    BY <1>6 DEF HandlerTake, TypeOK
  <2>4. reaper[Head(exits)] # "waiting"
    BY <2>3 DEF ExitsInv
  <2> QED
    BY <2>1, <2>2, <2>4, ReapersFrame
<1>7. CASE HandlerRun \/ HandlerTask
  <2>1. UNCHANGED <<reaper, log>> /\ Handles(handler.run)
    BY <1>7 DEF HandlerRun, HandlerTask, Handles, workers
  <2>2. \A t \in Tasks : t # handler.run => task'[t] = task[t] /\ run'[t] = run[t]
    BY <1>7 DEF HandlerRun, HandlerTask, TypeOK
  <2>3. \A t \in Tasks : reaper[t] = "waiting" => t # handler.run
    BY <2>1 DEF ExitsInv
  <2> QED
    BY <2>1, <2>2, <2>3, ReapersFrame
<1>8. CASE HandlerCapacity \/ HandlerCount \/ HandlerCycle
  BY <1>8, ReapersFrame DEF HandlerCapacity, HandlerCount, HandlerCycle, tables, workers
<1> QED
  BY <1>1, <1>2, <1>3, <1>4, <1>5, <1>6, <1>7, <1>8 DEF Next, Scheduling, Handling

-----------------------------------------------------------------------------
\* The slots.
LEMMA SlotsFrame ==
  ASSUME SlotsInv, UNCHANGED <<run, activeRuns, settled>>,
         \A t \in settled : proc[t] \in Exited => proc'[t] \in Exited
  PROVE  SlotsInv'
BY DEF SlotsInv, SlotsAccounted, Claimed

\* The runs that hold a slot are as finitely many as the tasks.
LEMMA HoldersFinite ==
  ASSUME NEW S \in SUBSET Tasks
  PROVE  IsFiniteSet(S) /\ Cardinality(S) \in Nat
BY OrchestratorAssumption, FS_Subset, FS_CardinalityType

\* The request keeps SlotsInv.
LEMMA ApprovingSlots == IInv /\ Approving => SlotsInv'
<1>1. Approving => UNCHANGED <<run, activeRuns, settled, proc>>
  BY DEF Approving, ApproveInsert, ApproveDies, workers
<1> QED
  BY <1>1, SlotsFrame DEF IInv

\* Scheduling keeps SlotsInv: a commit counts what it claims.
LEMMA SchedulingSlots == IInv /\ Scheduling => SlotsInv'
<1> SUFFICES ASSUME IInv, Scheduling PROVE SlotsInv'
  OBVIOUS
<1> USE DEF IInv
<1>1. CASE TickCommit
  <2>1. /\ tick = "open" /\ claims \subseteq Tasks
        /\ activeRuns' = activeRuns + Cardinality(claims)
        /\ UNCHANGED <<settled, proc>>
    BY <1>1 DEF TickCommit, TypeOK, workers
  <2>2. \A t \in claims : run[t] = "none" /\ t \notin settled
    BY <2>1 DEF TickInv, SlotsInv, TablesInv, Exited, TypeOK
  <2>3. \A t \in Tasks : run'[t] = IF t \in claims THEN "claimed" ELSE run[t]
    BY <1>1 DEF TickCommit
  <2>4. (Claimed \ settled)' = (Claimed \ settled) \cup claims
    BY <2>1, <2>2, <2>3 DEF Claimed
  <2>5. (Claimed \ settled) \cap claims = {}
    BY <2>2 DEF Claimed
  <2>6. IsFiniteSet(Claimed \ settled) /\ IsFiniteSet(claims) /\ Cardinality(claims) \in Nat
    BY <2>1, HoldersFinite DEF Claimed
  <2>7. Cardinality((Claimed \ settled) \cup claims)
          = Cardinality(Claimed \ settled) + Cardinality(claims) - Cardinality({})
    BY <2>5, <2>6, FS_Union
  <2>8. Cardinality({}) = 0
    BY FS_EmptySet
  <2>9. SlotsAccounted'
    <3>1. Cardinality((Claimed \ settled)') = Cardinality((Claimed \ settled) \cup claims)
      BY <2>4, Zenon
    <3>2. activeRuns = Cardinality(Claimed \ settled)
      BY DEF SlotsInv, SlotsAccounted
    <3>3. activeRuns' = Cardinality((Claimed \ settled)')
      BY <2>1, <2>6, <2>7, <2>8, <3>1, <3>2 DEF TypeOK
    <3> QED
      BY <3>3 DEF SlotsAccounted
  <2>10. activeRuns' <= MaxConcurrent
    BY <2>1 DEF TickInv
  <2> QED
    BY <2>1, <2>9, <2>10 DEF SlotsInv
<1>2. CASE TickSelect \/ TickAbort
  BY <1>2, SlotsFrame DEF TickSelect, TickAbort, tables, workers
<1>3. ASSUME NEW t \in Tasks, SpawnSkipped(t) \/ SpawnProcess(t) PROVE SlotsInv'
  <2>1. UNCHANGED <<run, activeRuns, settled>> /\ proc[t] = "none"
    BY <1>3 DEF SpawnSkipped, SpawnProcess, NoSpawn, TickInv, tables
  <2>2. \A u \in Tasks : u # t => proc'[u] = proc[u]
    BY <1>3 DEF SpawnSkipped, SpawnProcess, TypeOK, workers
  <2> QED
    BY <2>1, <2>2, SlotsFrame DEF Exited, TypeOK
<1>4. CASE SpawnRecord \/ SpawnFailed
  BY <1>4, SlotsFrame DEF SpawnRecord, SpawnFailed, tables, workers
<1> QED
  BY <1>1, <1>2, <1>3, <1>4 DEF Scheduling

\* Workers, reapers and crashes keep SlotsInv.
LEMMA WorkersSlots ==
  IInv /\ (Crash \/ \E t \in Tasks : WorkerExits(t) \/ Reap(t)) => SlotsInv'
<1> USE DEF IInv
<1>1. ASSUME IInv, Crash PROVE SlotsInv'
  BY <1>1, SlotsFrame DEF Crash
<1>2. ASSUME IInv, NEW t \in Tasks, Reap(t) PROVE SlotsInv'
  <2>1. \A u \in Tasks : proc'[u] = proc[u] \/ proc'[u] \in Exited
    BY <1>2 DEF Reap, TypeOK, Exited
  <2>2. settled \subseteq Tasks
    BY <1>2 DEF TypeOK
  <2> QED
    BY <1>2, <2>1, <2>2, SlotsFrame DEF Reap, tables
<1>3. ASSUME IInv, NEW t \in Tasks, WorkerExits(t) PROVE SlotsInv'
  <2>1. \A u \in Tasks : u # t => proc'[u] = proc[u]
    BY <1>3 DEF WorkerExits, TypeOK
  <2> QED
    BY <1>3, <2>1, SlotsFrame DEF WorkerExits, TypeOK, Exited, tables
<1> QED
  BY <1>1, <1>2, <1>3

\* The reconciler keeps SlotsInv.
LEMMA ReconcilingSlots == IInv /\ Reconciling => SlotsInv'
<1>1. Reconciling => UNCHANGED <<run, activeRuns, settled, proc>>
  BY DEF Reconciling, ReconcileBegin, ReconcileEmit, DetectStale, Reattach, FindDead, StaleEmit,
         tables, workers
<1> QED
  BY <1>1, SlotsFrame DEF IInv

\* The completion handler keeps SlotsInv: it returns a slot once.
LEMMA HandlingSlots == IInv /\ Handling => SlotsInv'
<1> SUFFICES ASSUME IInv, Handling PROVE SlotsInv'
  OBVIOUS
<1> USE DEF IInv, At, GoTo
<1>1. CASE HandlerTake
  BY <1>1, SlotsFrame DEF HandlerTake, tables
<1>2. CASE HandlerTask \/ HandlerCount \/ HandlerCycle
  BY <1>2, SlotsFrame DEF HandlerTask, HandlerCount, HandlerCycle, tables, workers
<1>3. CASE HandlerRun
  <2> DEFINE h == handler.run
  <2>1. h \in Tasks /\ run[h] # "none"
    BY <1>3 DEF HandlerRun, ExitsInv, TablesInv, Exited
  <2>2. \A t \in Tasks : run'[t] = "none" <=> run[t] = "none"
    BY <1>3, <2>1 DEF HandlerRun, TypeOK
  <2>3. Claimed' = Claimed
    BY <2>2 DEF Claimed
  <2> QED
    BY <1>3, <2>3 DEF HandlerRun, SlotsInv, SlotsAccounted, workers
<1>4. CASE HandlerCapacity
  <2> DEFINE h == handler.run
  <2>1. h \in Tasks /\ proc[h] \in Exited /\ run[h] # "none" /\ h \notin settled
    BY <1>4 DEF HandlerCapacity, ExitsInv, TablesInv, Exited, Handles
  <2>2. UNCHANGED <<run, proc>> /\ Claimed' = Claimed
    BY <1>4 DEF HandlerCapacity, workers, Claimed
  <2>3. CASE UNCHANGED <<activeRuns, settled>>
    BY <2>2, <2>3, SlotsFrame
  <2>4. CASE /\ activeRuns' = IF activeRuns = 0 THEN 0 ELSE activeRuns - 1
             /\ settled' = settled \cup {h}
    <3>1. h \in Claimed \ settled /\ IsFiniteSet(Claimed \ settled)
      BY <2>1, HoldersFinite DEF Claimed
    <3>2. /\ Cardinality((Claimed \ settled) \ {h}) = Cardinality(Claimed \ settled) - 1
          /\ Cardinality((Claimed \ settled) \ {h}) \in Nat
      BY <3>1, FS_RemoveElement, HoldersFinite DEF Claimed
    <3>3. (Claimed \ settled)' = (Claimed \ settled) \ {h}
      BY <2>2, <2>4
    <3>4. activeRuns' = activeRuns - 1 /\ activeRuns' = Cardinality((Claimed \ settled)')
      <4>1. Cardinality((Claimed \ settled)') = Cardinality((Claimed \ settled) \ {h})
        BY <3>3, Zenon
      <4>2. activeRuns = Cardinality(Claimed \ settled)
        BY DEF SlotsInv, SlotsAccounted
      <4> QED
        BY <2>4, <3>2, <4>1, <4>2 DEF TypeOK
    <3>5. activeRuns' <= MaxConcurrent
      BY <3>4, OrchestratorAssumption DEF SlotsInv, TypeOK
    <3> QED
      BY <2>1, <2>2, <2>4, <3>4, <3>5 DEF SlotsInv, SlotsAccounted
  <2> QED
    BY <1>4, <2>3, <2>4 DEF HandlerCapacity
<1> QED
  BY <1>1, <1>2, <1>3, <1>4 DEF Handling

-----------------------------------------------------------------------------
\* The tick: steps of others neither claim nor start a worker, and slots that
\* are returned meanwhile only make more room.
LEMMA TickFrame ==
  ASSUME TypeOK, TickInv, UNCHANGED <<tick, claims, spawn>>, activeRuns' \in Nat,
         activeRuns' <= activeRuns,
         \A t \in claims : /\ task[t] = "scheduled" => task'[t] = "scheduled"
                           /\ run[t] # "none" => run'[t] # "none"
                           /\ proc[t] = "none" => proc'[t] = "none"
  PROVE  TickInv'
<1>1. Cardinality(claims) \in Nat
  BY HoldersFinite DEF TypeOK
<1> QED
  BY <1>1, OrchestratorAssumption DEF TickInv, TypeOK

\* The request keeps TickInv: it inserts tasks that nobody has claimed.
LEMMA ApprovingTick == IInv /\ Approving => TickInv'
<1> SUFFICES ASSUME IInv, Approving PROVE TickInv'
  OBVIOUS
<1> USE DEF IInv
<1>1. UNCHANGED <<tick, claims, spawn, run, activeRuns, proc>>
  BY DEF Approving, ApproveInsert, ApproveDies, scheduler, workers
<1>2. \A t \in Tasks : task[t] = "scheduled" => task'[t] = "scheduled"
  BY DEF Approving, ApproveInsert, ApproveDies, TypeOK
<1>3. claims \subseteq Tasks /\ activeRuns \in Nat
  BY DEF TypeOK
<1> QED
  BY <1>1, <1>2, <1>3, TickFrame

\* Scheduling keeps TickInv.
LEMMA SchedulingTick == IInv /\ Scheduling => TickInv'
<1> SUFFICES ASSUME IInv, Scheduling PROVE TickInv'
  OBVIOUS
<1> USE DEF IInv
<1>1. CASE TickSelect
  <2>1. PICK S \in SUBSET Claimable : Cardinality(S) <= Room /\ claims' = S
    BY <1>1 DEF TickSelect
  <2>2. tick = "idle" /\ tick' = "open" /\ UNCHANGED <<spawn, task, activeRuns>>
    BY <1>1 DEF TickSelect, tables
  <2>3. spawn.step = "none"
    BY <2>2 DEF TickInv, TypeOK
  <2>4. \A t \in S : t \in Tasks /\ task[t] = "scheduled"
    BY <2>1 DEF Claimable
  <2>5. S \subseteq Tasks
    BY <2>4
  <2>6. Cardinality(S) \in Nat
    BY <2>5, HoldersFinite
  <2>7. Cardinality(claims') = Cardinality(S)
    BY <2>1, Zenon
  <2>8. activeRuns + Cardinality(S) <= MaxConcurrent
    BY <2>1, <2>6, OrchestratorAssumption DEF Room, SlotsInv, TypeOK
  <2> QED
    BY <2>1, <2>2, <2>3, <2>4, <2>7, <2>8 DEF TickInv
<1>2. CASE TickCommit
  <2>1. /\ tick = "open" /\ tick' = "spawn" /\ UNCHANGED <<claims, spawn, proc>>
        /\ \A t \in Tasks : run'[t] = IF t \in claims THEN "claimed" ELSE run[t]
    BY <1>2 DEF TickCommit, workers
  <2>2. spawn.step = "none"
    BY <2>1 DEF TickInv, TypeOK
  <2>3. \A t \in claims : t \in Tasks /\ run[t] = "none" /\ proc[t] = "none"
    BY <2>1 DEF TickInv, TablesInv, TypeOK
  <2> QED
    BY <2>1, <2>2, <2>3 DEF TickInv
<1>3. CASE TickAbort
  <2>1. spawn.step = "none"
    BY <1>3 DEF TickAbort, TickInv, TypeOK
  <2> QED
    BY <1>3, <2>1 DEF TickAbort, TickInv
<1>4. ASSUME NEW t \in Tasks, t \in claims, tick = "spawn", ClaimDone(t),
             UNCHANGED <<run, proc>>, spawn.step = "none" \/ spawn.run = t
      PROVE  TickInv'
  <2>1. \A u \in claims' : u \in claims /\ u # t /\ run'[u] # "none" /\ proc'[u] = "none"
    BY <1>4 DEF ClaimDone, TickInv
  <2>2. tick' # "open" /\ spawn'.step = "none"
    BY <1>4 DEF ClaimDone, NoSpawn
  <2> QED
    BY <2>1, <2>2 DEF TickInv
<1>5. ASSUME NEW t \in Tasks, SpawnSkipped(t) PROVE TickInv'
  BY <1>4, <1>5 DEF SpawnSkipped, NoSpawn, tables, workers
<1>6. ASSUME NEW t \in Tasks, SpawnProcess(t) PROVE TickInv'
  <2>1. /\ tick = "spawn" /\ t \in claims /\ spawn.step = "none"
        /\ UNCHANGED <<tick, claims, run>>
        /\ spawn'.step # "none" /\ spawn'.run = t
    BY <1>6 DEF SpawnProcess, NoSpawn, tables
  <2>2. \A u \in Tasks : u # t => proc'[u] = proc[u]
    BY <1>6 DEF SpawnProcess, TypeOK, workers
  <2>3. \A u \in claims : u \in Tasks
    BY DEF TypeOK
  <2> QED
    BY <2>1, <2>2, <2>3 DEF TickInv
<1>7. CASE SpawnRecord
  <2>1. spawn.run \in Tasks /\ spawn.run \in claims /\ tick = "spawn" /\ UNCHANGED <<run, proc>>
    BY <1>7 DEF SpawnRecord, TickInv, TypeOK, tables, workers
  <2>2. CASE ClaimDone(spawn.run)
    BY <1>4, <2>1, <2>2
  <2>3. CASE spawn' = [spawn EXCEPT !.step = "failed"] /\ UNCHANGED <<tick, claims>>
    <3>1. spawn'.step = "failed" /\ spawn'.run = spawn.run
      BY <2>3 DEF TypeOK
    <3>2. spawn.step = "record"
      BY <1>7 DEF SpawnRecord
    <3> QED
      BY <2>1, <2>3, <3>1, <3>2 DEF TickInv
  <2> QED
    BY <1>7, <2>2, <2>3 DEF SpawnRecord
<1>8. CASE SpawnFailed
  <2>1. spawn.run \in Tasks /\ spawn.run \in claims /\ tick = "spawn" /\ UNCHANGED <<run, proc>>
    BY <1>8 DEF SpawnFailed, TickInv, TypeOK, tables, workers
  <2> QED
    BY <1>4, <1>8, <2>1 DEF SpawnFailed
<1> QED
  BY <1>1, <1>2, <1>3, <1>5, <1>6, <1>7, <1>8 DEF Scheduling

\* Workers, reapers and crashes keep TickInv.
LEMMA WorkersTick ==
  IInv /\ (Crash \/ \E t \in Tasks : WorkerExits(t) \/ Reap(t)) => TickInv'
<1> USE DEF IInv
<1>1. ASSUME IInv, Crash PROVE TickInv'
  BY <1>1 DEF Crash, TickInv, NoSpawn
<1>2. ASSUME IInv, NEW t \in Tasks, WorkerExits(t) \/ Reap(t) PROVE TickInv'
  <2>1. UNCHANGED <<tick, claims, spawn, task, run, activeRuns>>
    BY <1>2 DEF WorkerExits, Reap, scheduler, tables
  <2>2. \A u \in Tasks : proc[u] = "none" => proc'[u] = "none"
    BY <1>2 DEF WorkerExits, Reap, TypeOK, Exited
  <2> QED
    BY <1>2, <2>1, <2>2, TickFrame DEF TypeOK
<1> QED
  BY <1>1, <1>2

\* The reconciler keeps TickInv.
LEMMA ReconcilingTick == IInv /\ Reconciling => TickInv'
<1>1. Reconciling => UNCHANGED <<tick, claims, spawn, task, run, activeRuns, proc>>
  BY DEF Reconciling, ReconcileBegin, ReconcileEmit, DetectStale, Reattach, FindDead, StaleEmit,
         tables, scheduler, workers
<1> QED
  BY <1>1, TickFrame DEF IInv, TypeOK

\* The completion handler keeps TickInv.
LEMMA HandlingTick == IInv /\ Handling => TickInv'
<1> SUFFICES ASSUME IInv, Handling PROVE TickInv'
  OBVIOUS
<1> USE DEF IInv, At, GoTo
<1>1. UNCHANGED <<tick, claims, spawn, proc>>
  BY DEF Handling, HandlerTake, HandlerRun, HandlerTask, HandlerCapacity, HandlerCount,
         HandlerCycle, scheduler, workers
<1>2. activeRuns' \in Nat /\ activeRuns' <= activeRuns
  BY DEF Handling, HandlerTake, HandlerRun, HandlerTask, HandlerCapacity, HandlerCount,
         HandlerCycle, tables, TypeOK
<1>3. \A t \in Tasks : /\ task[t] = "scheduled" => task'[t] = "scheduled"
                       /\ run[t] # "none" => run'[t] # "none"
  <2>1. CASE HandlerRun \/ HandlerTask
    <3>1. handler.run \in Tasks /\ task[handler.run] # "scheduled"
      BY <2>1 DEF HandlerRun, HandlerTask, ExitsInv, TablesInv, Exited
    <3> QED
      BY <2>1, <3>1 DEF HandlerRun, HandlerTask, TypeOK
  <2> QED
    BY <2>1 DEF Handling, HandlerTake, HandlerCapacity, HandlerCount, HandlerCycle, tables
<1>4. \A t \in claims : t \in Tasks
  BY DEF TypeOK
<1> QED
  BY <1>1, <1>2, <1>3, <1>4, TickFrame

-----------------------------------------------------------------------------
\* The exits: steps that move none of them on.
LEMMA ExitsFrame ==
  ASSUME TypeOK, ExitsInv, UNCHANGED <<reaper, exits, handler, settled>>,
         \A t \in Tasks : /\ proc[t] # "none" => proc'[t] # "none"
                          /\ proc[t] \in Exited => proc'[t] \in Exited
  PROVE  ExitsInv'
<1>1. \A i \in 1..Len(exits) : exits[i] \in Tasks
  BY DEF TypeOK
<1> QED
  BY <1>1 DEF ExitsInv, Handles

\* The request keeps ExitsInv.
LEMMA ApprovingExits == IInv /\ Approving => ExitsInv'
<1>1. Approving => UNCHANGED <<reaper, exits, handler, settled, proc>>
  BY DEF Approving, ApproveInsert, ApproveDies, workers
<1> QED
  BY <1>1, ExitsFrame DEF IInv

\* Scheduling keeps ExitsInv.
LEMMA SchedulingExits == IInv /\ Scheduling => ExitsInv'
<1> SUFFICES ASSUME IInv, Scheduling PROVE ExitsInv'
  OBVIOUS
<1> USE DEF IInv
<1>1. CASE TickSelect \/ TickCommit \/ TickAbort \/ SpawnRecord \/ SpawnFailed
  BY <1>1, ExitsFrame DEF TickSelect, TickCommit, TickAbort, SpawnRecord, SpawnFailed, workers
<1>2. ASSUME NEW t \in Tasks, SpawnSkipped(t) PROVE ExitsInv'
  BY <1>2, ExitsFrame DEF SpawnSkipped, workers
<1>3. ASSUME NEW t \in Tasks, SpawnProcess(t) PROVE ExitsInv'
  <2>1. proc[t] = "none" /\ UNCHANGED <<exits, handler, settled>>
    BY <1>3 DEF SpawnProcess, NoSpawn, TickInv, workers
  <2>2. \A u \in Tasks : u # t => proc'[u] = proc[u] /\ reaper'[u] = reaper[u]
    BY <1>3 DEF SpawnProcess, TypeOK, workers
  <2>3. reaper'[t] = "waiting" => proc'[t] # "none" \/ reaper[t] = "waiting"
    BY <1>3 DEF SpawnProcess, TypeOK, workers
  <2>4. t \notin settled /\ ~Handles(t)
    BY <2>1 DEF SlotsInv, ExitsInv, Handles, Exited
  <2>5. \A i \in 1..Len(exits) : exits[i] \in Tasks /\ exits[i] # t
    BY <2>1 DEF ExitsInv, TypeOK, Exited
  <2>6. handler.step # "idle" => handler.run # t
    BY <2>1 DEF ExitsInv, Exited
  <2> QED
    BY <2>1, <2>2, <2>3, <2>4, <2>5, <2>6 DEF ExitsInv, Handles
<1> QED
  BY <1>1, <1>2, <1>3 DEF Scheduling

\* Workers, reapers and crashes keep ExitsInv.
LEMMA WorkersExits ==
  IInv /\ (Crash \/ \E t \in Tasks : WorkerExits(t) \/ Reap(t)) => ExitsInv'
<1> USE DEF IInv
<1>1. ASSUME IInv, Crash PROVE ExitsInv'
  <2>1. Len(exits') = 0 /\ handler'.step = "idle" /\ \A t \in Tasks : reaper'[t] = "none"
    BY <1>1 DEF Crash, Idle
  <2> QED
    BY <2>1 DEF ExitsInv, Handles
<1>2. ASSUME IInv, NEW t \in Tasks, WorkerExits(t) PROVE ExitsInv'
  <2>1. proc[t] = "alive" /\ proc'[t] \in Exited /\ \A u \in Tasks : u # t => proc'[u] = proc[u]
    BY <1>2 DEF WorkerExits, TypeOK, Exited
  <2> QED
    BY <1>2, <2>1, ExitsFrame DEF WorkerExits, Exited
<1>3. ASSUME IInv, NEW t \in Tasks, Reap(t) PROVE ExitsInv'
  <2>1. /\ reaper[t] = "waiting" /\ proc[t] \in Exited
        /\ exits' = Append(exits, t) /\ UNCHANGED <<handler, settled>>
        /\ \A u \in Tasks : proc'[u] = proc[u] \/ (u = t /\ proc'[u] = "lost")
    BY <1>3 DEF Reap, TypeOK
  <2>2. reaper'[t] = "done" /\ \A u \in Tasks : u # t => reaper'[u] = reaper[u]
    BY <1>3 DEF Reap, TypeOK
  <2>3. t \notin settled /\ ~Handles(t)
    BY <1>3, <2>1 DEF ExitsInv
  <2>4. \A i \in 1..Len(exits) : exits[i] \in Tasks /\ exits[i] # t
    BY <1>3, <2>1 DEF ExitsInv, TypeOK
  <2>5. /\ Len(exits') = Len(exits) + 1 /\ Len(exits) \in Nat
        /\ \A i \in 1..Len(exits') : exits'[i] = IF i = Len(exits) + 1 THEN t ELSE exits[i]
    BY <1>3, <2>1 DEF TypeOK
  <2>6. \A i \in 1..Len(exits') : i = Len(exits) + 1 \/ i \in 1..Len(exits)
    BY <2>5
  <2>7. \A i, j \in 1..Len(exits') : exits'[i] = exits'[j] => i = j
    BY <1>3, <2>4, <2>5, <2>6 DEF ExitsInv
  <2>8. \A i \in 1..Len(exits') : /\ proc'[exits'[i]] \in Exited /\ exits'[i] \notin settled
                                  /\ reaper'[exits'[i]] # "waiting" /\ ~Handles(exits'[i])
    BY <1>3, <2>1, <2>2, <2>3, <2>4, <2>5, <2>6 DEF ExitsInv, Exited
  <2>9. \A u \in Tasks : /\ proc[u] # "none" => proc'[u] # "none"
                         /\ proc[u] \in Exited => proc'[u] \in Exited
    BY <2>1 DEF Exited
  <2> QED
    BY <1>3, <2>1, <2>2, <2>7, <2>8, <2>9 DEF ExitsInv, Handles
<1> QED
  BY <1>1, <1>2, <1>3

\* The reconciler keeps ExitsInv.
LEMMA ReconcilingExits == IInv /\ Reconciling => ExitsInv'
<1>1. Reconciling => UNCHANGED <<reaper, exits, handler, settled, proc>>
  BY DEF Reconciling, ReconcileBegin, ReconcileEmit, DetectStale, Reattach, FindDead, StaleEmit,
         tables, scheduler, workers
<1> QED
  BY <1>1, ExitsFrame DEF IInv

\* The completion handler keeps ExitsInv.
LEMMA HandlingExits == IInv /\ Handling => ExitsInv'
<1> SUFFICES ASSUME IInv, Handling PROVE ExitsInv'
  OBVIOUS
<1> USE DEF IInv, At, GoTo
<1>1. CASE HandlerTake
  <2>1. /\ handler.step = "idle" /\ exits # << >> /\ exits' = Tail(exits)
        /\ handler'.step = "run" /\ handler'.run = Head(exits)
        /\ UNCHANGED <<proc, reaper, settled>>
    BY <1>1 DEF HandlerTake
  <2>2. Len(exits) \in Nat /\ Len(exits) > 0 /\ Head(exits) = exits[1] /\ exits[1] \in Tasks
    BY <2>1 DEF TypeOK
  <2>3. /\ Len(exits') = Len(exits) - 1
        /\ \A i \in 1..Len(exits') : exits'[i] = exits[i + 1]
    BY <2>1, <2>2 DEF TypeOK
  <2>4. \A i \in 1..Len(exits') : i + 1 \in 1..Len(exits) /\ i + 1 # 1
    BY <2>2, <2>3
  <2>5. /\ proc[exits[1]] \in Exited /\ exits[1] \notin settled
        /\ reaper[exits[1]] # "waiting"
    BY <2>2 DEF ExitsInv
  <2>6. \A t : Handles(t)' => t = exits[1]
    BY <2>1, <2>2 DEF Handles
  <2>7. \A i \in 1..Len(exits') :
           /\ proc[exits'[i]] \in Exited /\ exits'[i] \notin settled
           /\ reaper[exits'[i]] # "waiting" /\ exits'[i] # exits[1]
    BY <2>2, <2>3, <2>4 DEF ExitsInv
  <2>8. \A i, j \in 1..Len(exits') : exits'[i] = exits'[j] => i + 1 = j + 1
    BY <2>3, <2>4 DEF ExitsInv
  <2>9. \A i, j \in 1..Len(exits') : exits'[i] = exits'[j] => i = j
    BY <2>8, <2>3, <2>2
  <2>10. \A i \in 1..Len(exits') :
            /\ proc'[exits'[i]] \in Exited /\ exits'[i] \notin settled'
            /\ reaper'[exits'[i]] # "waiting" /\ (~Handles(exits[i]))'
    BY <2>1, <2>7 DEF Handles
  <2>11. \A t \in Tasks : reaper'[t] = "waiting" =>
            proc'[t] # "none" /\ t \notin settled' /\ ~Handles(t)'
    BY <2>1, <2>5, <2>6 DEF ExitsInv
  <2>12. /\ handler'.run \in Tasks /\ proc'[handler'.run] \in Exited
         /\ \A t \in Tasks : Handles(t)' => t \notin settled'
    BY <2>1, <2>2, <2>5, <2>6
  <2> QED
    BY <2>9, <2>10, <2>11, <2>12 DEF ExitsInv
<1>2. CASE HandlerRun \/ HandlerTask
  <2>1. /\ UNCHANGED <<proc, reaper, exits, settled>>
        /\ handler.step \in {"run", "task"} /\ handler'.run = handler.run
    BY <1>2 DEF HandlerRun, HandlerTask, workers, TypeOK
  <2>2. \A t : Handles(t)' => Handles(t)
    BY <2>1 DEF Handles
  <2> QED
    BY <2>1, <2>2 DEF ExitsInv
<1>3. CASE HandlerCapacity
  <2>1. /\ UNCHANGED <<proc, reaper, exits>> /\ handler.step = "capacity"
        /\ handler'.run = handler.run /\ handler'.step = "cycle"
        /\ settled' \subseteq settled \cup {handler.run}
    BY <1>3 DEF HandlerCapacity, workers, TypeOK
  <2>2. Handles(handler.run) /\ \A t : ~Handles(t)'
    BY <2>1 DEF Handles
  <2>3. \A i \in 1..Len(exits) : exits[i] # handler.run
    BY <2>2 DEF ExitsInv
  <2>4. reaper[handler.run] # "waiting"
    BY <2>1, <2>2 DEF ExitsInv
  <2> QED
    BY <2>1, <2>2, <2>3, <2>4 DEF ExitsInv
<1>4. CASE HandlerCount \/ HandlerCycle
  <2>1. /\ UNCHANGED <<proc, reaper, exits, settled>>
        /\ handler.step \in {"cycle"} \cup Ended
        /\ handler'.step = "idle" \/ (handler'.step \in Ended /\ handler'.run = handler.run)
    BY <1>4 DEF HandlerCount, HandlerCycle, CycleOutcome, Idle, TypeOK, Ended, workers
  <2>2. \A t : ~Handles(t)'
    BY <2>1 DEF Handles, Ended
  <2> QED
    BY <2>1, <2>2 DEF ExitsInv, Ended
<1> QED
  BY <1>1, <1>2, <1>3, <1>4 DEF Handling

-----------------------------------------------------------------------------
\* IInv holds when nothing has been claimed.
LEMMA InitIInv == Init => IInv
<1> SUFFICES ASSUME Init PROVE IInv
  OBVIOUS
<1> USE OrchestratorAssumption DEF Init
<1>1. TypeOK
  BY DEF TypeOK, NoSpawn, Idle, HandlerSteps, Event, Terminal, Exited
<1>2. TablesInv /\ CycleInv /\ ReapersInv
  BY DEF TablesInv, OutcomeIsWorkers, CycleInv, CycleFollowsTasks, ReapersInv, Idle, Ended
<1>3. SlotsInv
  <2>1. Claimed \ settled = {}
    BY DEF Claimed
  <2>2. Cardinality(Claimed \ settled) = 0
    BY <2>1, FS_EmptySet, Zenon
  <2> QED
    BY <2>2 DEF SlotsInv, SlotsAccounted
<1>4. TickInv
  BY DEF TickInv, NoSpawn
<1>5. ExitsInv
  BY DEF ExitsInv, Handles, Idle
<1> QED
  BY <1>1, <1>2, <1>3, <1>4, <1>5 DEF IInv

\* Every step keeps IInv.
LEMMA NextIInv == IInv /\ [Next]_vars => IInv'
<1> SUFFICES ASSUME IInv, [Next]_vars PROVE IInv'
  OBVIOUS
<1>0. Next => CycleInv' /\ ReapersInv'
  BY NextCycle, NextReapers
<1>1. CASE Scheduling
  BY <1>0, <1>1, SchedulingType, SchedulingTables, SchedulingSlots, SchedulingTick,
     SchedulingExits DEF IInv, Next
<1>2. CASE Handling
  BY <1>0, <1>2, HandlingType, HandlingTables, HandlingSlots, HandlingTick,
     HandlingExits DEF IInv, Next
<1>3. CASE Reconciling
  BY <1>0, <1>3, ReconcilingType, ReconcilingTables, ReconcilingSlots, ReconcilingTick,
     ReconcilingExits DEF IInv, Next
<1>4. CASE Crash \/ \E t \in Tasks : WorkerExits(t) \/ Reap(t)
  BY <1>0, <1>4, WorkersType, WorkersTables, WorkersSlots, WorkersTick,
     WorkersExits DEF IInv, Next
<1>5. CASE Approving
  BY <1>0, <1>5, ApprovingType, ApprovingTables, ApprovingSlots, ApprovingTick,
     ApprovingExits DEF IInv, Next
<1>6. CASE UNCHANGED vars
  <2>1. UNCHANGED <<task, run, activeRuns, cycle, toInsert, late, log, tick, claims, spawn, proc,
                    reaper, exits, handler, settled>>
    BY <1>6 DEF vars, tables, scheduler, workers
  <2>2. TypeOK'
    BY <1>6, StutterType DEF IInv
  <2>3. TablesInv' /\ CycleInv' /\ ReapersInv'
    BY <2>1, TablesFrame, CycleFrame, ReapersFrame DEF IInv
  <2>4. SlotsInv' /\ TickInv' /\ ExitsInv'
    BY <2>1, SlotsFrame, TickFrame, ExitsFrame DEF IInv, TypeOK
  <2> QED
    BY <2>2, <2>3, <2>4 DEF IInv
<1> QED
  BY <1>1, <1>2, <1>3, <1>4, <1>5, <1>6 DEF Next

\* The inductive invariant holds in every reachable state.
THEOREM Invariant == Spec => []IInv
BY InitIInv, NextIInv, PTL DEF Spec

\* Every reachable state is type correct.
THEOREM TypeCorrect == Spec => []TypeOK
<1>1. IInv => TypeOK
  BY DEF IInv
<1> QED
  BY <1>1, Invariant, PTL

\* The counter of active runs is the number of claims whose slot was not returned.
THEOREM SlotsDoNotDrift == Spec => []SlotsAccounted
<1>1. IInv => SlotsAccounted
  BY DEF IInv, SlotsInv
<1> QED
  BY <1>1, Invariant, PTL

\* The live workers never exceed the counter, nor the counter the maximum.
THEOREM CapacityRespected == Spec => []WorkersWithinCapacity
<1>1. IInv => WorkersWithinCapacity
  <2> SUFFICES ASSUME IInv PROVE WorkersWithinCapacity
    OBVIOUS
  <2> USE DEF IInv
  <2>1. Alive \subseteq Claimed \ settled
    BY DEF Alive, Claimed, TablesInv, SlotsInv, Exited
  <2>2. Cardinality(Alive) <= Cardinality(Claimed \ settled)
    BY <2>1, HoldersFinite, FS_Subset DEF Claimed
  <2> QED
    BY <2>2 DEF WorkersWithinCapacity, SlotsInv, SlotsAccounted
<1> QED
  BY <1>1, Invariant, PTL

\* What is recorded of a task and its run is what its worker's exit says.
THEOREM OutcomesAreWorkers == Spec => []OutcomeIsWorkers
<1>1. IInv => OutcomeIsWorkers
  BY DEF IInv, TablesInv
<1> QED
  BY <1>1, Invariant, PTL

\* The cycle ends with the tasks that were there to be judged, and as they did,
\* while approve_plan still inserts others.
THEOREM CycleEndsWithTasks == Spec => []CycleFollowsTasks
<1>1. IInv => CycleFollowsTasks
  BY DEF IInv, CycleInv
<1> QED
  BY <1>1, Invariant, PTL
-----------------------------------------------------------------------------
(* Without a fault: the safety half of ExitsSettle.                        *)

\* The exit notification of t waits for the completion handler.
Queued(t) == \E i \in 1..Len(exits) : exits[i] = t

\* Run t is with somebody who will go on with it: the tick that claimed it and
\* has yet to start its worker, the reaper of its worker, the queue of exits or
\* the completion handler.
Underway(t) ==
    \/ tick = "spawn" /\ t \in claims /\ proc[t] = "none"
    \/ reaper[t] = "waiting"
    \/ Queued(t)
    \/ handler.step # "idle" /\ handler.run = t

\* Unless something failed or crashed, a claimed run is underway until its task
\* has ended and its slot is returned: nobody drops it.
SlotsReturn ==
    mishaps = 0 => \A t \in Claimed : Underway(t) \/ (task[t] \in Terminal /\ t \in settled)

\* Unless something failed or crashed, a cycle whose tasks have all ended, so
\* far as they are inserted, has ended, or the handler of the last exit is about
\* to end it.
CycleConcludes ==
    mishaps = 0 /\ Inserted # {} /\ (\A t \in Inserted : task[t] \in Terminal) =>
        cycle \in Ended \/ handler.step \in {"capacity", "cycle"} \cup Ended

\* What the spawn and the handler have done by each of their steps when nothing
\* has failed: the two properties above are inductive next to this.
StepsDone ==
    mishaps = 0 =>
        /\ spawn.step # "failed"
        /\ spawn.step = "record" => proc[spawn.run] # "none"
        /\ handler.step # "idle" => handler.known
        /\ handler.step \in {"capacity", "cycle"} \cup Ended => task[handler.run] \in Terminal
        /\ handler.step \in {"cycle"} \cup Ended => handler.run \in settled

FInv == StepsDone /\ SlotsReturn /\ CycleConcludes

\* Every fault is counted.
LEMMA FaultsCount ==
  ASSUME TypeOK, mishaps' = 0
  PROVE  ~Fault /\ ~Crash /\ (mishaps' = mishaps => mishaps = 0)
BY OrchestratorAssumption DEF TypeOK, Fault, Crash

\* Steps that leave the runs, the tick, the workers and the handler alone.
LEMMA FlawlessFrame ==
  ASSUME TypeOK, FInv, mishaps' = 0 => mishaps = 0,
         UNCHANGED <<task, run, cycle, tick, claims, spawn, proc, reaper, exits, handler, settled>>
  PROVE  FInv'
BY DEF FInv, StepsDone, SlotsReturn, CycleConcludes, Underway, Queued, Claimed, Inserted

\* The request keeps FInv: there is no end without a look at the new task.
LEMMA ApprovingFlawless == IInv /\ FInv /\ Approving => FInv'
<1> SUFFICES ASSUME IInv, FInv, Approving, mishaps' = 0 PROVE FInv'
  BY DEF FInv, StepsDone, SlotsReturn, CycleConcludes
<1> USE DEF IInv
<1>1. CASE ApproveDies
  BY <1>1, FlawlessFrame DEF ApproveDies, scheduler, workers
<1>2. ASSUME NEW t \in Tasks, ApproveInsert(t) PROVE FInv'
  <2>1. /\ UNCHANGED <<run, tick, claims, spawn, proc, reaper, exits, handler, settled>>
        /\ mishaps = 0 /\ task[t] = "none" /\ run[t] = "none"
    BY <1>2, FaultsCount DEF ApproveInsert, TablesInv, scheduler, workers
  <2>2. task'[t] = "scheduled" /\ \A u \in Tasks : u # t => task'[u] = task[u]
    BY <1>2, FaultsCount DEF ApproveInsert, TypeOK
  <2>3. CycleConcludes'
    BY <2>2 DEF CycleConcludes, Inserted, Terminal
  <2>4. handler.step # "idle" => handler.run \in Tasks /\ handler.run # t
    BY <2>1 DEF ExitsInv, TablesInv, Exited
  <2>5. StepsDone'
    BY <2>1, <2>2, <2>4 DEF FInv, StepsDone, Ended
  <2>6. SlotsReturn'
    BY <2>1, <2>2 DEF FInv, SlotsReturn, Underway, Queued, Claimed
  <2> QED
    BY <2>3, <2>5, <2>6 DEF FInv
<1> QED
  BY <1>1, <1>2 DEF Approving

\* Scheduling keeps FInv: a claim is spawned or its reaper waits.
LEMMA SchedulingFlawless == IInv /\ FInv /\ Scheduling => FInv'
<1> SUFFICES ASSUME IInv, FInv, Scheduling, mishaps' = 0 PROVE FInv'
  BY DEF FInv, StepsDone, SlotsReturn, CycleConcludes
<1> USE DEF IInv
<1>1. ~Fault
  BY FaultsCount
<1>2. mishaps = 0
  BY <1>1, FaultsCount DEF Scheduling, TickSelect, TickCommit, TickAbort, SpawnSkipped,
                           SpawnProcess, SpawnRecord, SpawnFailed
<1>3. UNCHANGED <<exits, handler, settled>>
  BY DEF Scheduling, TickSelect, TickCommit, TickAbort, SpawnSkipped, SpawnProcess,
         SpawnRecord, SpawnFailed, workers
<1>4. /\ spawn.step # "failed"
      /\ spawn.step = "record" => proc[spawn.run] # "none"
      /\ handler.step # "idle" => handler.known
      /\ handler.step \in {"capacity", "cycle"} \cup Ended => task[handler.run] \in Terminal
      /\ handler.step \in {"cycle"} \cup Ended => handler.run \in settled
  BY <1>2 DEF FInv, StepsDone
<1>5. \A t \in Claimed : Underway(t) \/ (task[t] \in Terminal /\ t \in settled)
  BY <1>2 DEF FInv, SlotsReturn
<1>6. CASE TickSelect \/ TickAbort
  <2>1. tick # "spawn" /\ UNCHANGED <<task, run, cycle, proc, reaper, spawn>>
    BY <1>6 DEF TickSelect, TickAbort, tables, workers
  <2>2. StepsDone' /\ CycleConcludes'
    BY <1>2, <1>3, <2>1 DEF FInv, StepsDone, CycleConcludes, Inserted, Ended
  <2>3. SlotsReturn'
    BY <1>3, <1>5, <2>1 DEF SlotsReturn, Underway, Queued, Claimed
  <2> QED
    BY <2>2, <2>3 DEF FInv
<1>7. CASE TickCommit
  <2>1. /\ tick = "open" /\ tick' = "spawn" /\ UNCHANGED <<claims, spawn, proc, reaper>>
        /\ \A t \in Tasks : run'[t] = IF t \in claims THEN "claimed" ELSE run[t]
        /\ \A t \in Tasks : task'[t] = IF t \in claims THEN "active" ELSE task[t]
        /\ cycle' = IF cycle = "approved" THEN "running" ELSE cycle
    BY <1>7 DEF TickCommit, workers
  <2>2. \A t \in claims : t \in Tasks /\ run[t] = "none" /\ proc[t] = "none"
                          /\ task[t] = "scheduled"
    BY <2>1 DEF TickInv, TablesInv, TypeOK
  <2>3. handler.step # "idle" => handler.run \in Tasks /\ handler.run \notin claims
    BY <2>2 DEF ExitsInv, Exited
  <2>4. spawn.step = "none"
    BY <2>1 DEF TickInv, TypeOK
  <2>5. StepsDone'
    BY <1>3, <1>4, <2>1, <2>3, <2>4 DEF StepsDone, Ended
  <2>6. ASSUME NEW t \in Claimed' PROVE (Underway(t) \/ (task[t] \in Terminal /\ t \in settled))'
    <3>1. CASE t \in claims
      BY <2>1, <2>2, <3>1 DEF Underway
    <3>2. CASE t \notin claims
      <4>1. t \in Claimed /\ task'[t] = task[t]
        BY <2>1, <2>6, <3>2 DEF Claimed
      <4> QED
        BY <1>3, <1>5, <2>1, <3>2, <4>1 DEF Underway, Queued
    <3> QED
      BY <3>1, <3>2
  <2>7. CycleConcludes'
    <3>1. Inserted' = Inserted /\ claims \subseteq Inserted
      BY <2>1, <2>2 DEF Inserted
    <3>2. ASSUME (\A t \in Inserted : task[t] \in Terminal)' PROVE UNCHANGED task
      <4>1. claims = {}
        BY <2>1, <2>2, <3>1, <3>2 DEF Terminal
      <4> QED
        BY <1>7, <4>1 DEF TickCommit, TypeOK
    <3>3. cycle \in Ended => cycle' = cycle
      BY <2>1 DEF Ended
    <3> QED
      BY <1>2, <1>3, <3>1, <3>2, <3>3 DEF FInv, CycleConcludes
  <2> QED
    BY <2>5, <2>6, <2>7 DEF FInv, SlotsReturn
<1>8. ASSUME NEW t \in Tasks, SpawnProcess(t) PROVE FInv'
  <2>1. /\ UNCHANGED <<task, run, cycle, tick, claims>>
        /\ proc' = [proc EXCEPT ![t] = "alive"] /\ reaper' = [reaper EXCEPT ![t] = "waiting"]
        /\ spawn'.step = "record" /\ spawn'.run = t
    BY <1>1, <1>8 DEF SpawnProcess, tables
  <2>2. /\ proc'[t] = "alive" /\ reaper'[t] = "waiting"
        /\ \A u \in Tasks : u # t => proc'[u] = proc[u] /\ reaper'[u] = reaper[u]
    BY <2>1 DEF TypeOK
  <2>3. StepsDone' /\ CycleConcludes'
    BY <1>2, <1>3, <1>4, <2>1, <2>2 DEF FInv, StepsDone, CycleConcludes, Inserted, Ended
  <2>4. SlotsReturn'
    BY <1>3, <1>5, <2>1, <2>2 DEF SlotsReturn, Underway, Queued, Claimed
  <2> QED
    BY <2>3, <2>4 DEF FInv
<1>9. CASE SpawnRecord
  <2>1. /\ ClaimDone(spawn.run) /\ UNCHANGED <<task, run, cycle, proc, reaper>>
        /\ proc[spawn.run] # "none"
    BY <1>1, <1>4, <1>9 DEF SpawnRecord, tables, workers
  <2>2. StepsDone' /\ CycleConcludes'
    BY <1>2, <1>3, <1>4, <2>1
       DEF FInv, StepsDone, CycleConcludes, Inserted, Ended, ClaimDone, NoSpawn
  <2>3. SlotsReturn'
    BY <1>3, <1>5, <2>1 DEF SlotsReturn, Underway, Queued, Claimed, ClaimDone
  <2> QED
    BY <2>2, <2>3 DEF FInv
<1> QED
  BY <1>1, <1>4, <1>6, <1>7, <1>8, <1>9 DEF Scheduling, SpawnSkipped, SpawnFailed

\* Workers and reapers keep FInv: a reaped exit is in the queue.
LEMMA WorkersFlawless ==
  IInv /\ FInv /\ (Crash \/ \E t \in Tasks : WorkerExits(t) \/ Reap(t)) => FInv'
<1> SUFFICES ASSUME IInv, FInv, mishaps' = 0,
                    Crash \/ \E t \in Tasks : WorkerExits(t) \/ Reap(t)
             PROVE  FInv'
  BY DEF FInv, StepsDone, SlotsReturn, CycleConcludes
<1> USE DEF IInv
<1>1. ~Crash
  BY FaultsCount
<1>2. PICK t \in Tasks : WorkerExits(t) \/ Reap(t)
  BY <1>1
<1>3. /\ mishaps = 0
      /\ UNCHANGED <<task, run, cycle, tick, claims, spawn, handler, settled>>
  BY <1>2, FaultsCount DEF WorkerExits, Reap, tables, scheduler
<1>4. \A u \in Tasks : proc'[u] = "none" <=> proc[u] = "none"
  BY <1>2 DEF WorkerExits, Reap, TypeOK, Exited
<1>5. spawn.step = "record" => spawn.run \in Tasks
  BY DEF TickInv, TypeOK
<1>6. StepsDone' /\ CycleConcludes'
  BY <1>3, <1>4, <1>5 DEF FInv, StepsDone, CycleConcludes, Inserted, Ended
<1>7. \A u \in Tasks : reaper[u] = "waiting" => reaper'[u] = "waiting" \/ Queued(u)'
  <2>1. CASE WorkerExits(t)
    BY <2>1 DEF WorkerExits
  <2>2. CASE Reap(t)
    <3>1. Len(exits') = Len(exits) + 1 /\ Len(exits) \in Nat /\ exits'[Len(exits) + 1] = t
      BY <2>2 DEF Reap, TypeOK
    <3>2. Queued(t)'
      BY <3>1 DEF Queued
    <3> QED
      BY <2>2, <3>2 DEF Reap, TypeOK
  <2> QED
    BY <1>2, <2>1, <2>2
<1>8. \A u \in Tasks : Queued(u) => Queued(u)'
  <2>1. CASE WorkerExits(t)
    BY <2>1 DEF WorkerExits, Queued
  <2>2. CASE Reap(t)
    <3>1. /\ Len(exits') = Len(exits) + 1 /\ Len(exits) \in Nat
          /\ \A i \in 1..Len(exits) : exits'[i] = exits[i]
      BY <2>2 DEF Reap, TypeOK
    <3> QED
      BY <3>1 DEF Queued
  <2> QED
    BY <1>2, <2>1, <2>2
<1>9. SlotsReturn'
  BY <1>3, <1>4, <1>7, <1>8 DEF FInv, SlotsReturn, Underway, Claimed
<1> QED
  BY <1>6, <1>9 DEF FInv

\* The reconciler keeps FInv: it changes neither table nor worker.
LEMMA ReconcilingFlawless == IInv /\ FInv /\ Reconciling => FInv'
<1> SUFFICES ASSUME IInv, FInv, Reconciling PROVE FInv'
  OBVIOUS
<1>1. UNCHANGED <<task, run, cycle, tick, claims, spawn, proc, reaper, exits, handler, settled>>
  BY DEF Reconciling, ReconcileBegin, ReconcileEmit, DetectStale, Reattach, FindDead, StaleEmit,
         tables, scheduler, workers
<1>2. mishaps' = mishaps \/ Fault
  BY DEF Reconciling, ReconcileBegin, ReconcileEmit, DetectStale, Reattach, FindDead, StaleEmit
<1>3. mishaps' = 0 => mishaps = 0
  BY <1>2, FaultsCount DEF IInv
<1> QED
  BY <1>1, <1>3, FlawlessFrame DEF IInv

\* The completion handler keeps FInv: it drops no notification, and goes
\* through all its steps for each.
LEMMA HandlingFlawless == IInv /\ FInv /\ Handling => FInv'
<1> SUFFICES ASSUME IInv, FInv, Handling, mishaps' = 0 PROVE FInv'
  BY DEF FInv, StepsDone, SlotsReturn, CycleConcludes
<1> USE DEF IInv, At, GoTo
<1>1. ~Fault
  BY FaultsCount
<1>2. mishaps = 0
  BY <1>1, FaultsCount DEF Handling, HandlerTake, HandlerRun, HandlerTask, HandlerCapacity,
                           HandlerCount, HandlerCycle
<1>3. UNCHANGED <<tick, claims, spawn, proc, reaper>>
  BY DEF Handling, HandlerTake, HandlerRun, HandlerTask, HandlerCapacity, HandlerCount,
         HandlerCycle, scheduler, workers
<1>4. /\ spawn.step # "failed"
      /\ spawn.step = "record" => proc[spawn.run] # "none"
      /\ handler.step # "idle" => handler.known
      /\ handler.step \in {"capacity", "cycle"} \cup Ended => task[handler.run] \in Terminal
      /\ handler.step \in {"cycle"} \cup Ended => handler.run \in settled
  BY <1>2 DEF FInv, StepsDone
<1>5. \A t \in Claimed : Underway(t) \/ (task[t] \in Terminal /\ t \in settled)
  BY <1>2 DEF FInv, SlotsReturn
<1>6. handler.step # "idle" => handler.run \in Tasks /\ run[handler.run] # "none"
  BY DEF ExitsInv, TablesInv, Exited
<1>7. CASE HandlerTake
  <2>1. /\ handler.step = "idle" /\ exits # << >> /\ exits' = Tail(exits)
        /\ handler'.step = "run" /\ handler'.run = Head(exits) /\ handler'.known
        /\ UNCHANGED <<task, run, cycle, settled>>
    BY <1>1, <1>7 DEF HandlerTake, tables
  <2>2. StepsDone' /\ CycleConcludes'
    BY <1>2, <1>3, <1>4, <2>1 DEF FInv, StepsDone, CycleConcludes, Inserted, Ended
  <2>3. /\ Len(exits) \in Nat /\ Len(exits) > 0 /\ Head(exits) = exits[1]
        /\ Len(exits') = Len(exits) - 1
        /\ \A i \in 1..Len(exits') : exits'[i] = exits[i + 1]
    BY <2>1 DEF TypeOK
  <2>4. \A i \in 1..Len(exits) : i = 1 \/ (i - 1 \in 1..Len(exits') /\ exits'[i - 1] = exits[i])
    BY <2>3
  <2>5. ASSUME NEW t \in Tasks, Queued(t) PROVE Queued(t)' \/ handler'.run = t
    <3>1. PICK i \in 1..Len(exits) : exits[i] = t
      BY <2>5 DEF Queued
    <3>2. CASE i = 1
      BY <2>1, <2>3, <3>1, <3>2
    <3>3. CASE i # 1
      <4>1. i - 1 \in 1..Len(exits') /\ exits'[i - 1] = t
        BY <2>4, <3>1, <3>3
      <4> QED
        BY <4>1 DEF Queued
    <3> QED
      BY <3>2, <3>3
  <2>6. SlotsReturn'
    BY <1>3, <1>5, <2>1, <2>5 DEF SlotsReturn, Underway, Claimed
  <2> QED
    BY <2>2, <2>6 DEF FInv
<1>8. CASE HandlerRun
  <2>1. /\ handler.step = "run" /\ handler'.step = "task" /\ handler'.run = handler.run
        /\ handler'.known /\ UNCHANGED <<task, cycle, settled, exits>>
    BY <1>4, <1>8 DEF HandlerRun, TypeOK, workers
  <2>2. \A t \in Tasks : run'[t] = "none" <=> run[t] = "none"
    BY <1>6, <1>8 DEF HandlerRun, TypeOK
  <2>3. StepsDone' /\ CycleConcludes'
    BY <1>2, <1>3, <1>4, <2>1 DEF FInv, StepsDone, CycleConcludes, Inserted, Ended
  <2>4. SlotsReturn'
    BY <1>3, <1>5, <2>1, <2>2 DEF SlotsReturn, Underway, Queued, Claimed
  <2> QED
    BY <2>3, <2>4 DEF FInv
<1>9. CASE HandlerTask
  <2>1. /\ handler.step = "task" /\ handler'.step = "capacity" /\ handler'.run = handler.run
        /\ handler'.known = handler.known /\ UNCHANGED <<run, cycle, settled, exits>>
    BY <1>9 DEF HandlerTask, TypeOK, workers
  <2>2. /\ task'[handler.run] \in Terminal
        /\ \A t \in Tasks : t # handler.run => task'[t] = task[t]
    BY <1>1, <1>6, <1>9 DEF HandlerTask, TypeOK, Terminal
  <2>3. StepsDone' /\ CycleConcludes'
    BY <1>2, <1>3, <1>4, <2>1, <2>2 DEF FInv, StepsDone, CycleConcludes, Inserted, Ended
  <2>4. SlotsReturn'
    BY <1>3, <1>5, <2>1, <2>2 DEF SlotsReturn, Underway, Queued, Claimed
  <2> QED
    BY <2>3, <2>4 DEF FInv
<1>10. CASE HandlerCapacity
  <2>1. /\ handler.step = "capacity" /\ handler'.step = "cycle" /\ handler'.run = handler.run
        /\ handler'.known = handler.known /\ UNCHANGED <<task, run, cycle, exits>>
        /\ settled' = settled \cup {handler.run}
    BY <1>1, <1>10 DEF HandlerCapacity, TypeOK, workers
  <2>2. StepsDone' /\ CycleConcludes'
    BY <1>2, <1>3, <1>4, <2>1 DEF FInv, StepsDone, CycleConcludes, Inserted, Ended
  <2>3. SlotsReturn'
    BY <1>3, <1>5, <2>1 DEF SlotsReturn, Underway, Queued, Claimed
  <2> QED
    BY <2>2, <2>3 DEF FInv
<1>11. CASE HandlerCount
  <2>1. /\ handler.step = "cycle" /\ handler.known /\ UNCHANGED <<task, run, cycle, settled, exits>>
        /\ task[handler.run] \in Terminal /\ handler.run \in settled
    BY <1>4, <1>11 DEF HandlerCount, tables, workers
  <2>2. \/ handler'.step = "idle" /\ \E t \in Inserted : task[t] \notin Terminal
        \/ handler'.step \in Ended /\ handler'.run = handler.run /\ handler'.known
    BY <1>1, <1>11, <2>1 DEF HandlerCount, CycleOutcome, Idle, Ended, TypeOK
  <2>3. StepsDone' /\ CycleConcludes'
    BY <1>2, <1>3, <1>4, <2>1, <2>2 DEF StepsDone, CycleConcludes, Inserted, Ended
  <2>4. SlotsReturn'
    BY <1>3, <1>5, <2>1, <2>2 DEF SlotsReturn, Underway, Queued, Claimed
  <2> QED
    BY <2>3, <2>4 DEF FInv
<1>12. CASE HandlerCycle
  <2>1. /\ handler.step \in Ended /\ handler'.step = "idle" /\ cycle' \in Ended
        /\ UNCHANGED <<task, run, settled, exits>>
        /\ task[handler.run] \in Terminal /\ handler.run \in settled
    BY <1>1, <1>4, <1>12 DEF HandlerCycle, Idle, workers
  <2>2. StepsDone' /\ CycleConcludes'
    BY <1>2, <1>3, <1>4, <2>1 DEF StepsDone, CycleConcludes, Ended
  <2>3. SlotsReturn'
    BY <1>3, <1>5, <2>1 DEF SlotsReturn, Underway, Queued, Claimed
  <2> QED
    BY <2>2, <2>3 DEF FInv
<1> QED
  BY <1>7, <1>8, <1>9, <1>10, <1>11, <1>12 DEF Handling

\* FInv holds next to IInv in every reachable state.
LEMMA Flawless == Spec => []FInv
<1>1. Init => FInv
  BY DEF Init, FInv, StepsDone, SlotsReturn, CycleConcludes, NoSpawn, Idle, Claimed, Inserted,
         Terminal, Ended
<1>2. IInv /\ FInv /\ [Next]_vars => FInv'
  <2> SUFFICES ASSUME IInv, FInv, [Next]_vars PROVE FInv'
    OBVIOUS
  <2>1. CASE UNCHANGED vars
    BY <2>1, FlawlessFrame DEF IInv, vars, tables, scheduler, workers
  <2> QED
    BY <2>1, ApprovingFlawless, SchedulingFlawless, HandlingFlawless, ReconcilingFlawless,
       WorkersFlawless DEF Next
<1> QED
  BY <1>1, <1>2, Invariant, PTL DEF Spec

\* Without a fault or a crash, nobody drops a claimed run before its task has
\* ended and its slot is returned (the safety half of ExitsSettle).
THEOREM RunsAreNotDropped == Spec => []SlotsReturn
<1>1. FInv => SlotsReturn
  BY DEF FInv
<1> QED
  BY <1>1, Flawless, PTL

\* Without a fault or a crash, the cycle whose last task has ended is ended by
\* the handler of that exit.
THEOREM CycleIsConcluded == Spec => []CycleConcludes
<1>1. FInv => CycleConcludes
  BY DEF FInv
<1> QED
  BY <1>1, Flawless, PTL
=============================================================================
