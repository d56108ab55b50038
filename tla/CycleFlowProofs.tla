--------------------------- MODULE CycleFlowProofs ---------------------------
(***************************************************************************)
(* Proofs about CycleFlow, for any task keys, plans, approvals, commands   *)
(* and deliveries: its type invariant, that work is approved, that a cycle *)
(* in planning still has a generator and a running one still has work, and *)
(* that outcomes of tasks are final.                                       *)
(***************************************************************************)
EXTENDS CycleFlow, TLAPS

\* create_cycle inserts its row last, and nothing else makes one.
RowInv == cycle = "none" <=> create # "done"

\* Every delivery is a generator at work, one whose UPDATE was lost, or one
\* that gave the cycle another state than planning.
DeliveriesInv ==
    /\ generators + lost <= deliveries
    /\ cycle \in {"none", "planning"} => deliveries = generators + lost

\* Only after its PlanApproved does an approval go on to insert tasks; and a
\* plan, with all that comes of it, is that of a row.
ApprovalsInv ==
    /\ plan # {} => cycle # "none"
    /\ \A a \in Approvals :
        /\ approve[a].step # "start" => approved
        /\ approve[a].left # {} => cycle # "none"
    /\ \A k \in Keys : task[k] # "none" => approved /\ cycle # "none"
    /\ \A i \in Cli : cli[i] \in {"approve", "cancel"} => cycle # "none"

\* The open tick holds claims on tasks that stay scheduled until it commits.
TickInv ==
    /\ \A k \in tick.tasks : task[k] = "scheduled"
    /\ tick.start => tick.open
    /\ tick.open => approved /\ cycle # "none"

HandlerInv ==
    /\ handler.step # "idle" => approved /\ cycle # "none"
    /\ handler.step = "write" => handler.verdict # "none"

IInv == TypeOK /\ RowInv /\ DeliveriesInv /\ ApprovalsInv /\ TickInv /\ HandlerInv

Creating == CreateEmits \/ CreateInserts \/ CreateDies
Planning == PlanRequestedArrives \/ PlanReady \/ PlanFails \/ PlanLost
Approving(a) ==
    ApproveEmits(a) \/ ApproveUpdates(a) \/ ApproveReads(a) \/ ApproveInserts(a) \/ ApproveDies(a)
Commanding(i) == CliChecks(i) \/ CliApproves(i) \/ CliCancels(i)
Working ==
    \/ TickSelects \/ TickCommits \/ TickAborts
    \/ \E k \in Keys : WorkerExits(k)
    \/ HandlerCounts \/ HandlerWrites

\* The steps of the cycle, by who makes them.
LEMMA NextSteps ==
    Next <=> \/ Creating \/ Planning \/ Working
             \/ \E a \in Approvals : Approving(a)
             \/ \E i \in Cli : Commanding(i)
BY DEF Next, Creating, Planning, Approving, Commanding, Working
-----------------------------------------------------------------------------
\* IInv holds before the cycle is created.
LEMMA InitIInv == Init => IInv
<1> SUFFICES ASSUME Init PROVE IInv
  OBVIOUS
<1>0. MaxDeliveries \in Nat /\ {deliveries, generators, lost} = {0}
  BY CycleAssumption DEF Init
<1>1. TypeOK
  <2>1. {deliveries, generators, lost} \subseteq 0..MaxDeliveries
    BY <1>0
  <2>2. tick \in [open : BOOLEAN, tasks : SUBSET Keys, start : BOOLEAN]
    BY Zenon DEF Init, NoTick
  <2> QED
    BY <2>1, <2>2 DEF Init, TypeOK, Idle
<1>2. RowInv /\ DeliveriesInv
  BY DEF Init, RowInv, DeliveriesInv
<1>3. ApprovalsInv /\ TickInv /\ HandlerInv
  BY DEF Init, ApprovalsInv, TickInv, HandlerInv, NoTick, Idle
<1> QED
  BY <1>1, <1>2, <1>3 DEF IInv

\* create_cycle: RowInv says that its INSERT finds no state to overwrite.
LEMMA CreatingKeeps == IInv /\ Creating => IInv'
<1> SUFFICES ASSUME IInv, Creating PROVE IInv'
  OBVIOUS
<1> USE DEF IInv
<1>1. TypeOK'
  BY DEF Creating, CreateEmits, CreateInserts, CreateDies, TypeOK, planning
<1>2. RowInv'
  BY DEF Creating, CreateEmits, CreateInserts, CreateDies, RowInv
<1>3. DeliveriesInv'
  BY DEF Creating, CreateEmits, CreateInserts, CreateDies, planning, RowInv, DeliveriesInv
<1>4. (ApprovalsInv /\ TickInv /\ HandlerInv)'
  BY DEF Creating, CreateEmits, CreateInserts, CreateDies, planning, RowInv,
         ApprovalsInv, TickInv, HandlerInv
<1> QED
  BY <1>1, <1>2, <1>3, <1>4

\* The generators.
LEMMA PlanningKeeps == IInv /\ Planning => IInv'
<1> SUFFICES ASSUME IInv, Planning PROVE IInv'
  OBVIOUS
<1> USE DEF IInv
<1>0. /\ generators \in Nat /\ lost \in Nat /\ deliveries \in Nat /\ MaxDeliveries \in Nat
      /\ generators + lost <= deliveries /\ deliveries <= MaxDeliveries
  BY CycleAssumption DEF TypeOK, DeliveriesInv
<1>1. CASE PlanRequestedArrives
  <2>1. TypeOK'
    BY <1>0, <1>1 DEF PlanRequestedArrives, TypeOK, requests
  <2>2. (RowInv /\ DeliveriesInv)'
    BY <1>0, <1>1 DEF PlanRequestedArrives, RowInv, DeliveriesInv, requests
  <2>3. (ApprovalsInv /\ TickInv /\ HandlerInv)'
    BY <1>1 DEF PlanRequestedArrives, requests, ApprovalsInv, TickInv, HandlerInv
  <2> QED
    BY <2>1, <2>2, <2>3
<1>2. ASSUME PlanReady \/ PlanFails \/ PlanLost PROVE IInv'
  <2>1. TypeOK'
    BY <1>0, <1>2, CycleAssumption DEF PlanReady, PlanFails, PlanLost, TypeOK, requests, Ended
  <2>2. (RowInv /\ DeliveriesInv)'
    BY <1>0, <1>2 DEF PlanReady, PlanFails, PlanLost, RowInv, DeliveriesInv, requests
  <2>3. (ApprovalsInv /\ TickInv /\ HandlerInv)'
    BY <1>2 DEF PlanReady, PlanFails, PlanLost, requests, ApprovalsInv, TickInv, HandlerInv
  <2> QED
    BY <2>1, <2>2, <2>3
<1> QED
  BY <1>1, <1>2 DEF Planning

\* approve_plan, statement by statement.
LEMMA ApprovingKeeps == ASSUME NEW a \in Approvals, IInv, Approving(a) PROVE IInv'
<1> USE DEF IInv
<1> DEFINE Places == {"start", "update", "read", "insert", "done", "dead"}
<1>1. CASE ApproveEmits(a)
  <2>1. TypeOK'
    BY <1>1 DEF ApproveEmits, TypeOK, planning
  <2>2. (RowInv /\ DeliveriesInv)'
    BY <1>1 DEF ApproveEmits, RowInv, DeliveriesInv, planning
  <2>3. (ApprovalsInv /\ TickInv /\ HandlerInv)'
    BY <1>1 DEF ApproveEmits, ApprovalsInv, TickInv, HandlerInv, planning
  <2> QED
    BY <2>1, <2>2, <2>3
<1>2. CASE ApproveUpdates(a)
  <2>0. approved
    BY <1>2 DEF ApproveUpdates, ApprovalsInv
  <2>1. TypeOK'
    BY <1>2 DEF ApproveUpdates, TypeOK, planning
  <2>2. (RowInv /\ DeliveriesInv)'
    BY <1>2, <2>0 DEF ApproveUpdates, RowInv, DeliveriesInv, planning
  <2>3. (ApprovalsInv /\ TickInv /\ HandlerInv)'
    BY <1>2, <2>0 DEF ApproveUpdates, ApprovalsInv, TickInv, HandlerInv, planning, TypeOK
  <2> QED
    BY <2>1, <2>2, <2>3
<1>3. CASE ApproveReads(a)
  <2>0. approved
    BY <1>3 DEF ApproveReads, ApprovalsInv
  <2>1. TypeOK'
    BY <1>3 DEF ApproveReads, TypeOK, planning
  <2>2. (RowInv /\ DeliveriesInv)'
    BY <1>3 DEF ApproveReads, RowInv, DeliveriesInv, planning
  <2>3. (ApprovalsInv /\ TickInv /\ HandlerInv)'
    BY <1>3, <2>0 DEF ApproveReads, ApprovalsInv, TickInv, HandlerInv, planning
  <2> QED
    BY <2>1, <2>2, <2>3
<1>4. CASE ApproveInserts(a)
  <2>0. approved
    BY <1>4 DEF ApproveInserts, ApprovalsInv
  <2>1. PICK k \in approve[a].left :
          /\ approve[a].step = "insert"
          /\ task' = IF task[k] = "none" THEN [task EXCEPT ![k] = "scheduled"] ELSE task
          /\ approve' = Inserted(a, k)
          /\ UNCHANGED <<cycle, plan, create, planning, cli, approved, tick, handler>>
    BY <1>4 DEF ApproveInserts
  <2>2. k \in Keys
    BY <2>1 DEF TypeOK
  <2>3. TypeOK'
    BY <2>1, <2>2 DEF TypeOK, Inserted, planning
  <2>4. (RowInv /\ DeliveriesInv)'
    BY <2>1 DEF RowInv, DeliveriesInv, planning
  <2>5. ApprovalsInv'
    BY <2>0, <2>1, <2>2 DEF ApprovalsInv, TypeOK
  <2>6. (TickInv /\ HandlerInv)'
    BY <2>1, <2>2 DEF TickInv, HandlerInv, TypeOK
  <2> QED
    BY <2>3, <2>4, <2>5, <2>6
<1>5. CASE ApproveDies(a)
  <2>0. approved
    BY <1>5 DEF ApproveDies, ApprovalsInv
  <2>1. TypeOK'
    BY <1>5 DEF ApproveDies, TypeOK, planning
  <2>2. (RowInv /\ DeliveriesInv)'
    BY <1>5 DEF ApproveDies, RowInv, DeliveriesInv, planning
  <2>3. (ApprovalsInv /\ TickInv /\ HandlerInv)'
    BY <1>5, <2>0 DEF ApproveDies, ApprovalsInv, TickInv, HandlerInv, planning
  <2> QED
    BY <2>1, <2>2, <2>3
<1> QED
  BY <1>1, <1>2, <1>3, <1>4, <1>5 DEF Approving

\* The commands.
LEMMA CommandingKeeps == ASSUME NEW i \in Cli, IInv, Commanding(i) PROVE IInv'
<1> USE DEF IInv
<1>1. TypeOK'
  <2>1. CASE CliChecks(i)
    BY <2>1 DEF CliChecks, TypeOK, planning
  <2>2. CASE CliApproves(i)
    BY <2>2 DEF CliApproves, TypeOK, planning
  <2>3. CASE CliCancels(i)
    BY <2>3 DEF CliCancels, TypeOK, planning, Ended
  <2> QED
    BY <2>1, <2>2, <2>3 DEF Commanding
<1>2. (RowInv /\ DeliveriesInv)'
  BY DEF Commanding, CliChecks, CliApproves, CliCancels, ApprovalsInv, RowInv, DeliveriesInv,
         planning
<1>3. ApprovalsInv'
  BY DEF Commanding, CliChecks, CliApproves, CliCancels, ApprovalsInv, planning, TypeOK
<1>4. (TickInv /\ HandlerInv)'
  BY DEF Commanding, CliChecks, CliApproves, CliCancels, TickInv, HandlerInv
<1> QED
  BY <1>1, <1>2, <1>3, <1>4

\* The verdict of check_cycle_completion.
LEMMA VerdictType == \A t : Verdict(t) \in {"none", "completed", "failed"}
BY DEF Verdict

\* Ticks, workers and the handler.
LEMMA WorkingKeeps == IInv /\ Working => IInv'
<1> SUFFICES ASSUME IInv, Working PROVE IInv'
  OBVIOUS
<1> USE DEF IInv
<1>1. CASE TickSelects
  <2>0. approved
    <3>1. PICK S \in (SUBSET Scheduled) \ {{}} : tick'.tasks = S
      BY <1>1 DEF TickSelects
    <3>2. \E k \in Keys : task[k] = "scheduled"
      BY <3>1 DEF Scheduled
    <3> QED
      BY <3>2 DEF ApprovalsInv
  <2>1. TypeOK'
    BY <1>1 DEF TickSelects, Scheduled, TypeOK, requests, planning
  <2>2. (RowInv /\ DeliveriesInv /\ ApprovalsInv /\ HandlerInv)'
    BY <1>1 DEF TickSelects, RowInv, DeliveriesInv, ApprovalsInv, HandlerInv, requests, planning
  <2>3. TickInv'
    BY <1>1, <2>0 DEF TickSelects, Scheduled, TickInv
  <2> QED
    BY <2>1, <2>2, <2>3
<1>2. CASE TickCommits
  <2>1. TypeOK'
    BY <1>2 DEF TickCommits, NoTick, TypeOK, requests, planning
  <2>2. (RowInv /\ DeliveriesInv)'
    BY <1>2 DEF TickCommits, RowInv, DeliveriesInv, requests, planning
  <2>3. ApprovalsInv'
    BY <1>2 DEF TickCommits, ApprovalsInv, TickInv, requests
  <2>4. (TickInv /\ HandlerInv)'
    BY <1>2 DEF TickCommits, NoTick, TickInv, HandlerInv
  <2> QED
    BY <2>1, <2>2, <2>3, <2>4
<1>3. CASE TickAborts
  BY <1>3 DEF TickAborts, NoTick, TypeOK, RowInv, DeliveriesInv, ApprovalsInv, TickInv, HandlerInv,
              requests, planning
<1>4. ASSUME NEW k \in Keys, WorkerExits(k) PROVE IInv'
  <2>0. approved
    BY <1>4 DEF WorkerExits, ApprovalsInv
  <2>1. TypeOK'
    BY <1>4 DEF WorkerExits, TypeOK, Terminal, requests, planning
  <2>2. (RowInv /\ DeliveriesInv)'
    BY <1>4 DEF WorkerExits, RowInv, DeliveriesInv, requests, planning
  <2>3. (ApprovalsInv /\ HandlerInv)'
    BY <1>4, <2>0 DEF WorkerExits, ApprovalsInv, HandlerInv, requests
  <2>4. TickInv'
    BY <1>4 DEF WorkerExits, TickInv, TypeOK
  <2> QED
    BY <2>1, <2>2, <2>3, <2>4
<1>5. CASE HandlerCounts
  <2>1. TypeOK'
    BY <1>5, VerdictType DEF HandlerCounts, Idle, TypeOK, requests, planning
  <2>2. (RowInv /\ DeliveriesInv /\ ApprovalsInv /\ TickInv)'
    BY <1>5 DEF HandlerCounts, RowInv, DeliveriesInv, ApprovalsInv, TickInv, requests, planning
  <2>3. HandlerInv'
    BY <1>5 DEF HandlerCounts, Idle, HandlerInv
  <2> QED
    BY <2>1, <2>2, <2>3
<1>6. CASE HandlerWrites
  <2>0. approved /\ cycle # "none" /\ handler.verdict \in {"completed", "failed"}
    BY <1>6 DEF HandlerWrites, HandlerInv, ApprovalsInv, TypeOK
  <2>1. TypeOK'
    BY <1>6, <2>0 DEF HandlerWrites, Idle, Ended, TypeOK, requests, planning
  <2>2. (RowInv /\ DeliveriesInv)'
    BY <1>6, <2>0 DEF HandlerWrites, RowInv, DeliveriesInv, requests, planning
  <2>3. (ApprovalsInv /\ TickInv /\ HandlerInv)'
    BY <1>6, <2>0 DEF HandlerWrites, Idle, ApprovalsInv, TickInv, HandlerInv, requests
  <2> QED
    BY <2>1, <2>2, <2>3
<1> QED
  BY <1>1, <1>2, <1>3, <1>4, <1>5, <1>6 DEF Working

\* Every step keeps IInv.
LEMMA NextIInv == IInv /\ [Next]_vars => IInv'
<1> SUFFICES ASSUME IInv, [Next]_vars PROVE IInv'
  OBVIOUS
<1>1. CASE Next
  BY <1>1, NextSteps, CreatingKeeps, PlanningKeeps, ApprovingKeeps, CommandingKeeps, WorkingKeeps
<1>2. CASE UNCHANGED vars
  BY <1>2 DEF vars, requests, planning, IInv, TypeOK, RowInv, DeliveriesInv, ApprovalsInv, TickInv,
              HandlerInv
<1> QED
  BY <1>1, <1>2

\* IInv holds in every reachable state of the cycle.
THEOREM Invariance == Spec => []IInv
BY InitIInv, NextIInv, PTL DEF Spec

-----------------------------------------------------------------------------
\* Every reachable state of the cycle is type correct: no statement writes a
\* state that orch_cycles or orch_tasks does not have.
THEOREM TypeCorrect == Spec => []TypeOK
<1>1. IInv => TypeOK
  BY DEF IInv
<1> QED
  BY <1>1, Invariance, PTL

\* No task exists before a PlanApproved is recorded, for any number of
\* overlapping approvals, commands, plans and ticks.
THEOREM WorkNeedsApproval == Spec => []WorkIsApproved
<1>1. IInv => WorkIsApproved
  BY DEF IInv, ApprovalsInv, WorkIsApproved
<1> QED
  BY <1>1, Invariance, PTL

\* A cycle in planning waits for a generator unless all of them were lost, for
\* any number of deliveries of PlanRequested.
THEOREM PlanningIsWaiting == Spec => []PlanningHasGenerator
<1>1. IInv => PlanningHasGenerator
  BY DEF IInv, DeliveriesInv, PlanningHasGenerator
<1> QED
  BY <1>1, Invariance, PTL

\* The outcome of a task is never overwritten: a tick commits only claims on
\* tasks that are still scheduled, and a row is inserted at most once.
LEMMA OutcomeStep ==
    IInv /\ [Next]_vars => [\A k \in Keys : task[k] \in Terminal => task'[k] = task[k]]_vars
<1> SUFFICES ASSUME IInv, Next, NEW k \in Keys, task[k] \in Terminal
             PROVE  task'[k] = task[k]
  OBVIOUS
<1>0. TypeOK /\ TickInv
  BY DEF IInv
<1>1. CASE Creating \/ Planning \/ \E i \in Cli : Commanding(i)
  BY <1>1 DEF Creating, CreateEmits, CreateInserts, CreateDies, Planning, PlanRequestedArrives,
              PlanReady, PlanFails, PlanLost, Commanding, CliChecks, CliApproves, CliCancels
<1>2. ASSUME NEW a \in Approvals, Approving(a) PROVE task'[k] = task[k]
  BY <1>0, <1>2 DEF Approving, ApproveEmits, ApproveUpdates, ApproveReads, ApproveInserts,
         ApproveDies,
                    Terminal, TypeOK
<1>3. CASE TickCommits
  BY <1>0, <1>3 DEF TickCommits, TickInv, Terminal
<1>4. ASSUME NEW j \in Keys, WorkerExits(j) PROVE task'[k] = task[k]
  BY <1>0, <1>4 DEF WorkerExits, Terminal, TypeOK
<1>5. CASE TickSelects \/ TickAborts \/ HandlerCounts \/ HandlerWrites
  BY <1>5 DEF TickSelects, TickAborts, HandlerCounts, HandlerWrites
<1> QED
  BY <1>1, <1>2, <1>3, <1>4, <1>5, NextSteps DEF Working

\* What a task came to is never written over, in any interleaving.
THEOREM OutcomesAreFinal == Spec => TaskOutcomeFinal
BY Invariance, OutcomeStep, PTL DEF Spec, TaskOutcomeFinal

-----------------------------------------------------------------------------
\* A running cycle has a task that will still exit, or the handler is about to
\* judge it.
RunningHasWork ==
    cycle = "running" =>
        (\E k \in Keys : task[k] \in {"scheduled", "active"}) \/ handler.step # "idle"

\* A tick is only opened for something.
TickHolds == tick.open => tick.tasks # {}

WorkInv == RunningHasWork /\ TickHolds

\* Steps that leave the tick and the handler alone, and neither start the cycle
\* nor take a task away.
LEMMA WorkFrame ==
    ASSUME WorkInv, UNCHANGED <<tick, handler>>, cycle' = cycle \/ cycle' # "running",
           \A k \in Keys : task[k] \in {"scheduled", "active"} => task'[k] = task[k]
    PROVE  WorkInv'
BY DEF WorkInv, RunningHasWork, TickHolds

\* Every step keeps WorkInv.
LEMMA WorkStep == IInv /\ WorkInv /\ [Next]_vars => WorkInv'
<1> SUFFICES ASSUME IInv, WorkInv, [Next]_vars PROVE WorkInv'
  OBVIOUS
<1>0. /\ task \in [Keys -> {"none", "scheduled", "active"} \cup Terminal]
      /\ tick.tasks \subseteq Keys
      /\ tick \in [open : BOOLEAN, tasks : SUBSET Keys, start : BOOLEAN]
  BY DEF IInv, TypeOK
<1>1. CASE Creating \/ Planning \/ \E i \in Cli : Commanding(i)
  BY <1>1, WorkFrame DEF Creating, CreateEmits, CreateInserts, CreateDies, Planning,
        PlanRequestedArrives, PlanReady, PlanFails, PlanLost, Commanding, CliChecks, CliApproves,
        CliCancels
<1>2. ASSUME NEW a \in Approvals, Approving(a) PROVE WorkInv'
  <2>1. UNCHANGED <<tick, handler>> /\ (cycle' = cycle \/ cycle' # "running")
    BY <1>2 DEF Approving, ApproveEmits, ApproveUpdates, ApproveReads, ApproveInserts, ApproveDies
  <2>2. \A k \in Keys : task[k] \in {"scheduled", "active"} => task'[k] = task[k]
    BY <1>0, <1>2 DEF Approving, ApproveEmits, ApproveUpdates, ApproveReads, ApproveInserts,
                      ApproveDies
  <2> QED
    BY <2>1, <2>2, WorkFrame
<1>3. CASE TickSelects
  BY <1>3 DEF TickSelects, WorkInv, RunningHasWork, TickHolds
<1>4. CASE TickCommits
  <2>1. PICK k \in Keys : k \in tick.tasks
    BY <1>0, <1>4 DEF TickCommits, WorkInv, TickHolds
  <2>2. task'[k] = "active" /\ tick' = NoTick
    BY <1>4, <2>1 DEF TickCommits
  <2> QED
    BY <2>1, <2>2 DEF WorkInv, RunningHasWork, TickHolds, NoTick
<1>5. CASE TickAborts
  BY <1>5 DEF TickAborts, NoTick, WorkInv, RunningHasWork, TickHolds
<1>6. ASSUME NEW k \in Keys, WorkerExits(k) PROVE WorkInv'
  BY <1>6 DEF WorkerExits, WorkInv, RunningHasWork, TickHolds
<1>7. CASE HandlerCounts
  <2>1. UNCHANGED <<cycle, task, tick>>
    BY <1>7 DEF HandlerCounts
  <2>2. CASE Verdict(task) = "none"
    <3>1. \E k \in Keys : task[k] # "none" /\ task[k] \notin Terminal
      BY <2>2 DEF Verdict
    <3>2. \E k \in Keys : task[k] \in {"scheduled", "active"}
      BY <1>0, <3>1
    <3> QED
      BY <2>1, <3>2 DEF WorkInv, RunningHasWork, TickHolds
  <2>3. CASE Verdict(task) # "none"
    BY <1>7, <2>1, <2>3 DEF HandlerCounts, WorkInv, RunningHasWork, TickHolds
  <2> QED
    BY <2>2, <2>3
<1>8. CASE HandlerWrites
  <2>1. cycle' # "running" /\ tick' = tick
    BY <1>8 DEF HandlerWrites, IInv, TypeOK
  <2> QED
    BY <2>1 DEF WorkInv, RunningHasWork, TickHolds
<1>9. CASE UNCHANGED vars
  BY <1>9, WorkFrame DEF vars
<1> QED
  BY <1>1, <1>2, <1>3, <1>4, <1>5, <1>6, <1>7, <1>8, <1>9, NextSteps DEF Working

\* A running cycle always has somebody who will end it: a task that has yet to
\* exit, or the handler of the last exit.  It is the safety half of RunningEnds,
\* for any tasks inserted, claimed and ended in any order meanwhile.
THEOREM RunningCyclesGoOn == Spec => []RunningHasWork
<1>1. Init => WorkInv
  BY DEF Init, WorkInv, RunningHasWork, TickHolds, NoTick
<1>2. WorkInv => RunningHasWork
  BY DEF WorkInv
<1> QED
  BY <1>1, <1>2, WorkStep, Invariance, PTL DEF Spec
=============================================================================
