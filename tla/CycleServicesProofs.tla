------------------------- MODULE CycleServicesProofs -------------------------
(***************************************************************************)
(* Proofs about CycleServices, for any tasks, checks, merge calls, retries *)
(* and mishaps: its type invariant, that a completed cycle is merged, and  *)
(* that a merge attempt is held by a call.                                 *)
(***************************************************************************)
EXTENDS CycleServices, TLAPS

\* A call that has passed its guards merges a task that has passed, and what
\* git told it of a success is true.
CallsInv ==
    \A c \in Calls :
        /\ pc[c] # "idle" => task[TaskOf[c]] = "passed"
        /\ outcome[c] # "none" => pc[c] # "idle"
        /\ outcome[c] = "Succeeded" => TaskOf[c] \in merged

\* The log is not ahead of the repository or of the tasks.
RecordedInv ==
    \A t \in Tasks :
        /\ "MergeSucceeded" \in recorded[t] => task[t] = "passed" /\ t \in merged
        /\ "MergeSkipped" \in recorded[t] => task[t] = "unchanged"

\* What check_cycle_completion has counted stays true until it emits.
Done(t) == recorded[t] \cap {"MergeSucceeded", "MergeSkipped"} # {}

JudgeInv == judge = "emit" \/ completed => \A t \in Tasks : Done(t)

IInv == TypeOK /\ CallsInv /\ RecordedInv /\ JudgeInv

PlanStep ==
    \/ RequestPlan \/ EmitRequested \/ ApprovePlan
    \/ \E g \in Generators : GeneratePlan(g) \/ GenerationEnds(g)
TaskStep(t) == Verify(t) \/ TaskSkipped(t) \/ SkipMerge(t)
CallStep(c) == AttemptMerge(c) \/ MergeStep(c) \/ Fails(c)
JudgeStep   == CountTasks \/ CountMerges \/ EmitCompleted

\* The steps, by the service that makes them.
LEMMA NextSteps ==
    Next <=> \/ PlanStep \/ JudgeStep
             \/ \E t \in Tasks : TaskStep(t)
             \/ \E c \in Calls : CallStep(c)
BY DEF Next, PlanStep, TaskStep, CallStep, JudgeStep

-----------------------------------------------------------------------------
\* IInv holds before anything is asked for.
LEMMA InitIInv == Init => IInv
<1> SUFFICES ASSUME Init PROVE IInv
  OBVIOUS
<1>1. TypeOK
  <2>1. 1 \in 1..(MaxRetries + 1) /\ 0 \in 0..MaxMishaps
    BY ServicesAssumption
  <2> QED
    BY <2>1 DEF Init, TypeOK
<1>2. CallsInv /\ RecordedInv /\ JudgeInv
  BY ServicesAssumption DEF Init, CallsInv, RecordedInv, JudgeInv, Done
<1> QED
  BY <1>1, <1>2 DEF IInv

\* The planner service touches neither tasks nor merges.
LEMMA PlanKeeps == IInv /\ PlanStep => IInv'
<1> SUFFICES ASSUME IInv, PlanStep PROVE IInv'
  OBVIOUS
<1> USE DEF IInv
<1>1. /\ UNCHANGED <<task, recorded, pc, attempt, outcome, merged, merging, judge, completed>>
      /\ mishaps' = mishaps \/ Mishap
  BY DEF PlanStep, RequestPlan, EmitRequested, ApprovePlan, GeneratePlan, GenerationEnds,
         GeneratorGoes, calls, repo, judging
<1>2. planLog' \subseteq PlanEvents /\ request' \in {"idle", "emit"}
      /\ generator' \in [Generators -> {"idle", "generating", "over"}]
  BY DEF PlanStep, RequestPlan, EmitRequested, ApprovePlan, GeneratePlan, GenerationEnds,
         GeneratorGoes, PlanEvents, TypeOK
<1>3. mishaps' \in 0..MaxMishaps
  BY <1>1, ServicesAssumption DEF Mishap, TypeOK
<1>4. TypeOK'
  BY <1>1, <1>2, <1>3 DEF TypeOK
<1>5. (CallsInv /\ RecordedInv /\ JudgeInv)'
  BY <1>1 DEF CallsInv, RecordedInv, JudgeInv, Done
<1> QED
  BY <1>4, <1>5

\* A verdict or a skip meets only tasks that nobody merges yet.
LEMMA TaskKeeps == ASSUME NEW t \in Tasks, IInv, TaskStep(t) PROVE IInv'
<1> USE DEF IInv
<1>1. ASSUME Verify(t) \/ TaskSkipped(t) PROVE IInv'
  <2>1. /\ task[t] = "verifying"
        /\ \E s \in {"passed", "failed", "unchanged"} : task' = [task EXCEPT ![t] = s]
        /\ UNCHANGED <<planLog, request, generator, recorded, pc, attempt, outcome, merged,
                       merging, judge, completed, mishaps>>
    BY <1>1 DEF Verify, TaskSkipped, VerdictOf, planning, calls, repo, judging
  <2>2. TypeOK'
    BY <2>1 DEF TypeOK
  <2>3. CallsInv'
    BY <2>1, ServicesAssumption DEF CallsInv, TypeOK
  <2>4. RecordedInv'
    BY <2>1 DEF RecordedInv, TypeOK
  <2>5. JudgeInv'
    BY <2>1 DEF JudgeInv, Done
  <2> QED
    BY <2>2, <2>3, <2>4, <2>5
<1>2. CASE SkipMerge(t)
  <2>1. /\ task[t] = "unchanged"
        /\ recorded' = [recorded EXCEPT ![t] = @ \cup {"MergeSkipped"}]
        /\ UNCHANGED <<planLog, request, generator, task, pc, attempt, outcome, merged,
                       merging, judge, completed, mishaps>>
    BY <1>2 DEF SkipMerge, Record, planning, calls, repo, judging
  <2>2. TypeOK'
    BY <2>1 DEF TypeOK, MergeEvents
  <2>3. CallsInv'
    BY <2>1 DEF CallsInv
  <2>4. RecordedInv'
    BY <2>1 DEF RecordedInv, TypeOK
  <2>5. JudgeInv'
    BY <2>1 DEF JudgeInv, Done, TypeOK
  <2> QED
    BY <2>2, <2>3, <2>4, <2>5
<1> QED
  BY <1>1, <1>2 DEF TaskStep

\* check_cycle_completion.
LEMMA JudgeKeeps == IInv /\ JudgeStep => IInv'
<1> SUFFICES ASSUME IInv, JudgeStep PROVE IInv'
  OBVIOUS
<1> USE DEF IInv
<1>1. /\ UNCHANGED <<planLog, request, generator, task, recorded, pc, attempt, outcome, merged,
                     merging, mishaps>>
      /\ judge' \in {"idle", "merges", "emit"} /\ completed' \in BOOLEAN
  BY DEF JudgeStep, CountTasks, CountMerges, EmitCompleted, Judged, planning, calls, repo, TypeOK
<1>2. judge' = "emit" \/ completed' => \A t \in Tasks : Done(t)
  BY DEF JudgeStep, CountTasks, CountMerges, EmitCompleted, Judged, JudgeInv, Done
<1>3. TypeOK'
  BY <1>1 DEF TypeOK
<1>4. (CallsInv /\ RecordedInv)'
  BY <1>1 DEF CallsInv, RecordedInv
<1>5. JudgeInv'
  BY <1>1, <1>2 DEF JudgeInv, Done
<1> QED
  BY <1>3, <1>4, <1>5

-----------------------------------------------------------------------------
\* Merge calls: what they change, by parts of the state.
Places == {"idle", "attempt", "outcome", "done", "error"} \cup InGit

\* A step of a merge call leaves plan, tasks and completion alone.
LEMMA CallLocal ==
    ASSUME NEW c \in Calls, IInv, CallStep(c)
    PROVE  /\ UNCHANGED <<planLog, request, generator, task, judge, completed>>
           /\ pc' = [pc EXCEPT ![c] = pc'[c]] /\ pc'[c] \in Places \ {"idle"}
           /\ attempt' = [attempt EXCEPT ![c] = attempt'[c]]
           /\ attempt'[c] \in 1..(MaxRetries + 1)
           /\ outcome' = [outcome EXCEPT ![c] = outcome'[c]]
           /\ outcome'[c] \in Outcomes \cup {"none"}
           /\ task[TaskOf[c]] = "passed"
<1> USE DEF IInv, TypeOK, Places, InGit, Outcomes
<1> TaskOf[c] \in Tasks /\ MaxRetries \in Nat /\ 1 \in 1..(MaxRetries + 1)
  BY ServicesAssumption
<1>1. CASE AttemptMerge(c)
  BY <1>1 DEF AttemptMerge, At, planning, judging
<1>2. CASE EmitAttempted(c)
  BY <1>2 DEF EmitAttempted, At, planning, judging, CallsInv
<1>3. CASE Checkout(c)
  BY <1>3 DEF Checkout, At, planning, judging, CallsInv
<1>4. CASE GitMerge(c)
  BY <1>4 DEF GitMerge, At, planning, judging, CallsInv
<1>5. CASE GitAbort(c)
  BY <1>5 DEF GitAbort, At, planning, judging, CallsInv
<1>6. CASE EmitOutcome(c)
  BY <1>6 DEF EmitOutcome, Retried, At, planning, judging, CallsInv
<1>7. CASE Fails(c)
  BY <1>7 DEF Fails, planning, judging, CallsInv
<1> QED
  BY <1>1, <1>2, <1>3, <1>4, <1>5, <1>6, <1>7 DEF CallStep, MergeStep

\* What a step of a merge call may do to the log and the repository.
LEMMA CallShared ==
    ASSUME NEW c \in Calls, IInv, CallStep(c)
    PROVE  /\ recorded' = recorded
              \/ \E type \in MergeEvents \ {"MergeSkipped"} :
                    /\ recorded' = [recorded EXCEPT ![TaskOf[c]] = @ \cup {type}]
                    /\ type = "MergeSucceeded" => TaskOf[c] \in merged
           /\ merged' = merged \/ merged' = merged \cup {TaskOf[c]}
           /\ merging' \in Tasks \cup {NoTask}
           /\ mishaps' \in 0..MaxMishaps
           /\ outcome'[c] = "Succeeded" => TaskOf[c] \in merged'
<1> USE DEF IInv, TypeOK
<1> TaskOf[c] \in Tasks /\ MaxMishaps \in Nat
  BY ServicesAssumption
<1>1. CASE AttemptMerge(c)
  BY <1>1 DEF AttemptMerge, repo, CallsInv
<1>2. CASE EmitAttempted(c)
  <2>1. recorded' = [recorded EXCEPT ![TaskOf[c]] = @ \cup {"MergeAttempted"}]
    BY <1>2 DEF EmitAttempted, Record
  <2>2. "MergeAttempted" \in MergeEvents \ {"MergeSkipped"}
    BY DEF MergeEvents
  <2>3. UNCHANGED <<outcome, merged, merging, mishaps>>
    BY <1>2 DEF EmitAttempted, repo
  <2> QED
    BY <2>1, <2>2, <2>3 DEF CallsInv
<1>3. CASE Checkout(c)
  BY <1>3 DEF Checkout, repo, CallsInv
<1>4. CASE GitMerge(c)
  BY <1>4 DEF GitMerge, Mishap, repo
<1>5. CASE GitAbort(c)
  BY <1>5 DEF GitAbort, Mishap, CallsInv
<1>6. CASE EmitOutcome(c)
  <2> DEFINE type == EventOf(outcome[c])
  <2>1. /\ recorded' = [recorded EXCEPT ![TaskOf[c]] = @ \cup {type}]
        /\ outcome' = [outcome EXCEPT ![c] = "none"]
        /\ UNCHANGED <<merged, merging, mishaps>>
    BY <1>6 DEF EmitOutcome, Record, repo
  <2>2. /\ type \in MergeEvents \ {"MergeSkipped"}
        /\ type = "MergeSucceeded" => TaskOf[c] \in merged
    BY DEF EventOf, MergeEvents, CallsInv
  <2>3. outcome'[c] # "Succeeded"
    BY <2>1
  <2> HIDE DEF type
  <2> QED
    BY <2>1, <2>2, <2>3
<1>7. CASE Fails(c)
  BY <1>7 DEF Fails, Mishap, repo
<1> QED
  BY <1>1, <1>2, <1>3, <1>4, <1>5, <1>6, <1>7 DEF CallStep, MergeStep

\* A step of a merge call keeps IInv.
LEMMA CallKeeps == ASSUME NEW c \in Calls, IInv, CallStep(c) PROVE IInv'
<1> TaskOf \in [Calls -> Tasks]
  BY ServicesAssumption
<1>1. TypeOK'
  BY CallLocal, CallShared DEF IInv, TypeOK, Places, MergeEvents
<1>2. CallsInv'
  BY CallLocal, CallShared DEF IInv, TypeOK, CallsInv, Places, InGit
<1>3. RecordedInv'
  <2>1. task' = task /\ task[TaskOf[c]] = "passed" /\ merged \subseteq merged'
    BY CallLocal, CallShared
  <2>2. CASE recorded' = recorded
    BY <2>1, <2>2 DEF IInv, RecordedInv
  <2>3. ASSUME NEW type \in MergeEvents \ {"MergeSkipped"},
               recorded' = [recorded EXCEPT ![TaskOf[c]] = @ \cup {type}],
               type = "MergeSucceeded" => TaskOf[c] \in merged
        PROVE  RecordedInv'
    BY <2>1, <2>3 DEF IInv, TypeOK, RecordedInv
  <2> QED
    BY <2>2, <2>3, CallShared
<1>4. JudgeInv'
  BY CallLocal, CallShared DEF IInv, TypeOK, JudgeInv, Done
<1> QED
  BY <1>1, <1>2, <1>3, <1>4 DEF IInv

\* Every step keeps IInv.
LEMMA NextIInv == IInv /\ [Next]_vars => IInv'
<1> SUFFICES ASSUME IInv, [Next]_vars PROVE IInv'
  OBVIOUS
<1>1. CASE Next
  BY <1>1, NextSteps, PlanKeeps, TaskKeeps, CallKeeps, JudgeKeeps
<1>2. CASE UNCHANGED vars
  BY <1>2 DEF vars, IInv, TypeOK, CallsInv, RecordedInv, JudgeInv, Done
<1> QED
  BY <1>1, <1>2

\* IInv holds in every reachable state of the services.
THEOREM Invariance == Spec => []IInv
BY InitIInv, NextIInv, PTL DEF Spec

-----------------------------------------------------------------------------
\* Every reachable state is type correct; in particular no call tries more
\* often than MaxRetries allows.
THEOREM TypeCorrect == Spec => []TypeOK
<1>1. IInv => TypeOK
  BY DEF IInv
<1> QED
  BY <1>1, Invariance, PTL

\* A cycle recorded as completed has every task merged, or without changes, for
\* any number of overlapping merge calls, retries, aborts and crashes.
THEOREM CompletedCyclesAreMerged == Spec => []CompletedIsMerged
<1>1. IInv => CompletedIsMerged
  BY DEF IInv, JudgeInv, Done, RecordedInv, CompletedIsMerged
<1> QED
  BY <1>1, Invariance, PTL

-----------------------------------------------------------------------------
\* An open attempt is in the hands of a call that is at git or about to record
\* what git said, unless a call for its task ended in an error.
AttemptHasCall ==
    \A t \in Tasks : Open(t) =>
        \E c \in Calls : TaskOf[c] = t /\ pc[c] \in InGit \cup {"outcome", "error"}

\* Where an attempt is opened, and what a call that has opened one does next.
LEMMA CallHolds ==
    ASSUME NEW c \in Calls, IInv, CallStep(c)
    PROVE  \/ recorded' = recorded /\ (pc[c] \in InGit \cup {"outcome", "error"} =>
                                          pc'[c] \in InGit \cup {"outcome", "error"})
           \/ /\ recorded' = [recorded EXCEPT ![TaskOf[c]] = @ \cup {"MergeAttempted"}]
              /\ pc'[c] = "checkout"
           \/ \E type \in Ends : recorded' = [recorded EXCEPT ![TaskOf[c]] = @ \cup {type}]
<1> pc \in [Calls -> Places]
  BY DEF IInv, TypeOK, Places
<1>1. CASE AttemptMerge(c) \/ Checkout(c) \/ GitMerge(c) \/ GitAbort(c) \/ Fails(c)
  BY <1>1 DEF AttemptMerge, Checkout, GitMerge, GitAbort, Fails, At, InGit
<1>2. CASE EmitAttempted(c)
  BY <1>2 DEF EmitAttempted, Record, At
<1>3. CASE EmitOutcome(c)
  <2>1. EventOf(outcome[c]) \in Ends
    BY DEF EventOf, Ends, MergeEvents
  <2> QED
    BY <1>3, <2>1 DEF EmitOutcome, Record
<1> QED
  BY <1>1, <1>2, <1>3 DEF CallStep, MergeStep

\* Steps that leave the calls alone open no attempt.
LEMMA AttemptFrame ==
    ASSUME IInv, AttemptHasCall, UNCHANGED pc,
           \A t \in Tasks : Open(t)' => Open(t)
    PROVE  AttemptHasCall'
BY DEF AttemptHasCall

\* Every step keeps an open attempt in the hands of a call.
LEMMA AttemptStep == IInv /\ AttemptHasCall /\ [Next]_vars => AttemptHasCall'
<1> SUFFICES ASSUME IInv, AttemptHasCall, [Next]_vars PROVE AttemptHasCall'
  OBVIOUS
<1> recorded \in [Tasks -> SUBSET MergeEvents] /\ pc \in [Calls -> Places]
    /\ TaskOf \in [Calls -> Tasks]
  BY ServicesAssumption DEF IInv, TypeOK, Places
<1>1. CASE PlanStep \/ JudgeStep \/ UNCHANGED vars
  <2>1. UNCHANGED <<pc, recorded>>
    BY <1>1 DEF PlanStep, RequestPlan, EmitRequested, ApprovePlan, GeneratePlan, GenerationEnds,
                GeneratorGoes, JudgeStep, CountTasks, CountMerges, EmitCompleted, Judged, calls, vars
  <2> QED
    BY <2>1, AttemptFrame DEF Open
<1>2. ASSUME NEW t \in Tasks, TaskStep(t) PROVE AttemptHasCall'
  <2>1. UNCHANGED pc /\ \A u \in Tasks : Open(u)' => Open(u)
    BY <1>2 DEF TaskStep, Verify, TaskSkipped, SkipMerge, Record, calls, Open
  <2> QED
    BY <2>1, AttemptFrame
<1>3. ASSUME NEW c \in Calls, CallStep(c), NEW t \in Tasks, Open(t)'
      PROVE  \E d \in Calls : TaskOf[d] = t /\ pc'[d] \in InGit \cup {"outcome", "error"}
  <2>1. \A d \in Calls : d # c => pc'[d] = pc[d]
    BY <1>3, CallLocal
  <2>2. CASE TaskOf[c] # t \/ recorded' = recorded
    <3>1. recorded'[t] = recorded[t]
      BY <1>3, <2>2, CallHolds
    <3>2. PICK d \in Calls : TaskOf[d] = t /\ pc[d] \in InGit \cup {"outcome", "error"}
      BY <1>3, <3>1 DEF AttemptHasCall, Open
    <3>3. recorded' = recorded \/ d # c
      BY <2>2, <3>2
    <3>4. CASE recorded' # recorded
      BY <2>1, <3>2, <3>3, <3>4
    <3>5. CASE recorded' = recorded /\ d # c
      BY <2>1, <3>2, <3>5
    <3>6. CASE recorded' = recorded /\ d = c
      <4>1. \/ pc'[c] \in InGit \cup {"outcome", "error"}
            \/ \E type \in Ends : type \in recorded'[t]
        BY <1>3, <3>2, <3>6, CallHolds DEF InGit
      <4> QED
        BY <1>3, <3>2, <3>6, <4>1 DEF Open
    <3> QED
      BY <3>4, <3>5, <3>6
  <2>3. CASE TaskOf[c] = t /\ recorded' # recorded
    <3>1. ~ \E type \in Ends : recorded' = [recorded EXCEPT ![t] = @ \cup {type}]
      BY <1>3 DEF Open
    <3>2. pc'[c] = "checkout"
      BY <1>3, <2>3, <3>1, CallHolds
    <3> QED
      BY <2>3, <3>2 DEF InGit
  <2> QED
    BY <2>2, <2>3
<1> QED
  BY <1>1, <1>2, <1>3, NextSteps DEF AttemptHasCall

\* An open attempt, which keeps every other task of the cycle from merging, is
\* always about to get its end, or was left behind by a call that ended in an
\* error: the safety half of AttemptsClose, for any number of calls and retries.
THEOREM AttemptsAreHeld == Spec => []AttemptHasCall
<1>1. Init => AttemptHasCall
  BY DEF Init, AttemptHasCall, Open
<1> QED
  BY <1>1, AttemptStep, Invariance, PTL DEF Spec
=============================================================================
