--------------------------- MODULE CycleServices ---------------------------
(***************************************************************************)
(* The services that take one cycle from its plan to its merged tasks by   *)
(* events alone: PlannerService (app/planner.rs), Verifier                 *)
(* (app/verifier.rs) and MergeService (app/merge_service.rs), with the     *)
(* repository it merges in (infra/git.rs).  They keep no state: before a   *)
(* call does anything it asks the instance's row and the log whether it    *)
(* may, and records what it did afterwards, so that other calls, a         *)
(* maintenance window, an error or a crash fall between.                   *)
(*                                                                         *)
(* Only tests call them yet, but for generate_plan_core, which is what     *)
(* follows the guards of generate_plan: openclaw-ui calls it past both     *)
(* (CycleFlow).  Callers are taken to do what the services' comments ask   *)
(* for: plan, approve what was generated, then verify; merge what passed,  *)
(* skip what has no changes, and give the tasks of a cycle one target      *)
(* branch.                                                                 *)
(***************************************************************************)
EXTENDS Naturals

CONSTANTS Tasks,        \* the rows of the cycle in orch_tasks
          Checks,       \* the checks of the verifier
          Required,     \* those that decide
          Calls,        \* calls of attempt_merge_with_retry
          TaskOf,       \* the task each call merges
          MaxRetries,   \* max_retries; 0 for attempt_merge
          Generators,   \* calls of generate_plan
          NoTask,
          MaxMishaps    \* bound: errors and crashes

ASSUME ServicesAssumption ==
    /\ Required \subseteq Checks
    /\ TaskOf \in [Calls -> Tasks]
    /\ NoTask \notin Tasks
    /\ MaxRetries \in Nat /\ MaxMishaps \in Nat

VARIABLES planLog,    \* the types of the plan events recorded for the cycle
          request,    \* where request_plan is
          generator,  \* where each call of generate_plan is
          task,       \* orch_tasks.state: "verifying" until the verdict, "unchanged": passed
                      \* or skipped without changes
          recorded,   \* the types of the merge events recorded for each task
          pc,         \* where each merge call is
          attempt,    \* its attempt number
          outcome,    \* what git told it last
          merged,     \* tasks whose branch is in the target branch
          merging,    \* the task whose conflict lies in the working tree
          judge,      \* where check_cycle_completion is
          completed,  \* CycleCompleted is recorded
          mishaps

planning == <<planLog, request, generator>>
calls    == <<pc, attempt, outcome>>
repo     == <<merged, merging>>
judging  == <<judge, completed>>
vars == <<planLog, request, generator, task, recorded, pc, attempt, outcome,
          merged, merging, judge, completed, mishaps>>

PlanEvents  == {"PlanRequested", "PlanGenerated", "PlanGenerationFailed", "PlanApproved"}
\* MergeFailed stands for MergeConflicted too: no query tells them apart.
MergeEvents == {"MergeAttempted", "MergeSucceeded", "MergeFailed", "MergeSkipped"}
Outcomes    == {"Succeeded", "Conflicted", "Transient", "Permanent"}
InGit       == {"checkout", "merge", "abort"}

TypeOK ==
    /\ planLog \subseteq PlanEvents
    /\ request \in {"idle", "emit"}
    /\ generator \in [Generators -> {"idle", "generating", "over"}]
    /\ task \in [Tasks -> {"verifying", "passed", "failed", "unchanged"}]
    /\ recorded \in [Tasks -> SUBSET MergeEvents]
    /\ pc \in [Calls -> {"idle", "attempt", "outcome", "done", "error"} \cup InGit]
    /\ attempt \in [Calls -> 1..(MaxRetries + 1)]
    /\ outcome \in [Calls -> Outcomes \cup {"none"}]
    /\ merged \subseteq Tasks /\ merging \in Tasks \cup {NoTask}
    /\ judge \in {"idle", "merges", "emit"} /\ completed \in BOOLEAN
    /\ mishaps \in 0..MaxMishaps

Init ==
    /\ planLog = {} /\ request = "idle"
    /\ generator = [g \in Generators |-> "idle"]
    /\ task = [t \in Tasks |-> "verifying"]
    /\ recorded = [t \in Tasks |-> {}]
    /\ pc = [c \in Calls |-> "idle"]
    /\ attempt = [c \in Calls |-> 1]
    /\ outcome = [c \in Calls |-> "none"]
    /\ merged = {} /\ merging = NoTask
    /\ judge = "idle" /\ completed = FALSE
    /\ mishaps = 0

Mishap == mishaps < MaxMishaps /\ mishaps' = mishaps + 1

-----------------------------------------------------------------------------
(***************************************************************************)
(* PlannerService.  An event that is recorded already stays as it is: the  *)
(* keys name the cycle and the attempt.  A request or an approval whose    *)
(* emit fails has changed nothing, as if it had not been made.             *)
(***************************************************************************)
RequestPlan ==
    /\ "PlanApproved" \notin planLog
    /\ request = "idle"
    /\ request' = "emit"
    /\ UNCHANGED <<planLog, generator, task, recorded, calls, repo, judging, mishaps>>

EmitRequested ==
    /\ request = "emit"
    /\ request' = "idle"
    /\ planLog' = planLog \cup {"PlanRequested"}
    /\ UNCHANGED <<generator, task, recorded, calls, repo, judging, mishaps>>

\* approve_plan itself looks at nothing.
ApprovePlan ==
    /\ "PlanGenerated" \in planLog /\ request = "idle"
    /\ planLog' = planLog \cup {"PlanApproved"}
    /\ UNCHANGED <<request, generator, task, recorded, calls, repo, judging, mishaps>>

\* check_in_flight_generation: a request, and no end of a generation.
GenerationInFlight ==
    "PlanRequested" \in planLog /\ planLog \cap {"PlanGenerated", "PlanGenerationFailed"} = {}

GeneratorGoes(g, to) ==
    /\ generator' = [generator EXCEPT ![g] = to]
    /\ UNCHANGED <<request, task, recorded, calls, repo, judging>>

\* Two guards: check_instance_active, whose answer may be either at any time,
\* as the instance enters and leaves maintenance, and the one above, which
\* rejects also the call that request_plan asks its caller for (planner.rs:73).
GeneratePlan(g) ==
    /\ "PlanApproved" \notin planLog
    /\ generator[g] = "idle"
    /\ \/ GeneratorGoes(g, "over")
       \/ ~GenerationInFlight /\ GeneratorGoes(g, "generating")
    /\ UNCHANGED <<planLog, mishaps>>

\* The planner answers, or fails, and the event is recorded.
GenerationEnds(g) ==
    /\ generator[g] = "generating"
    /\ GeneratorGoes(g, "over")
    /\ \/ \E type \in {"PlanGenerated", "PlanGenerationFailed"} : planLog' = planLog \cup {type}
          /\ UNCHANGED mishaps
       \/ Mishap /\ UNCHANGED planLog

-----------------------------------------------------------------------------
(***************************************************************************)
(* Verifier: all checks run; only the required ones decide.  The verdict   *)
(* of a run is recorded once, and projected.                               *)
(***************************************************************************)
VerdictOf(results) ==
    IF \A k \in Required : results[k] = "passed" THEN {"passed", "unchanged"} ELSE {"failed"}

Verify(t) ==
    /\ "PlanApproved" \in planLog
    /\ task[t] = "verifying"
    /\ \E results \in [Checks -> {"passed", "failed"}] : \E verdict \in VerdictOf(results) :
          task' = [task EXCEPT ![t] = verdict]
    /\ UNCHANGED <<planning, recorded, calls, repo, judging, mishaps>>

\* An operator skips a task that has not run.
TaskSkipped(t) ==
    /\ "PlanApproved" \in planLog
    /\ task[t] = "verifying"
    /\ task' = [task EXCEPT ![t] = "unchanged"]
    /\ UNCHANGED <<planning, recorded, calls, repo, judging, mishaps>>

-----------------------------------------------------------------------------
(***************************************************************************)
(* MergeService.                                                           *)
(***************************************************************************)
Ends == MergeEvents \ {"MergeAttempted"}

\* An attempt is open: the task has a MergeAttempted and none of its ends.
Open(t) == "MergeAttempted" \in recorded[t] /\ recorded[t] \cap Ends = {}

Record(t, type) == recorded' = [recorded EXCEPT ![t] = @ \cup {type}]

SkipMerge(t) ==
    /\ task[t] = "unchanged"
    /\ Record(t, "MergeSkipped")
    /\ UNCHANGED <<planning, task, calls, repo, judging, mishaps>>

At(c, from, to) == pc[c] = from /\ pc' = [pc EXCEPT ![c] = to]

\* check_instance_active, then check_in_flight_merge: no other task of the
\* cycle has an open attempt.  The retries that follow ask neither again.
AttemptMerge(c) ==
    /\ task[TaskOf[c]] = "passed"
    /\ \E active \in BOOLEAN :
          LET inFlight == \E t \in Tasks \ {TaskOf[c]} : Open(t)
          IN  At(c, "idle", IF active /\ ~inFlight THEN "attempt" ELSE "done")
    /\ UNCHANGED <<planning, task, recorded, attempt, outcome, repo, judging, mishaps>>

EmitAttempted(c) ==
    /\ At(c, "attempt", "checkout")
    /\ Record(TaskOf[c], "MergeAttempted")
    /\ UNCHANGED <<planning, task, attempt, outcome, repo, judging, mishaps>>

\* Another call runs git in the same working tree: a command may find the
\* index locked.
Contended(c) == \E d \in Calls \ {c} : pc[d] \in InGit

\* git checkout refuses while a conflict lies in the index, and its failure is
\* an error of the whole call: neither recorded nor tried again.
Checkout(c) ==
    /\ \/ merging = NoTask /\ At(c, "checkout", "merge") /\ UNCHANGED attempt
       \/ /\ merging # NoTask \/ Contended(c)
          /\ At(c, "checkout", "error")
          /\ attempt' = [attempt EXCEPT ![c] = 1]
    /\ UNCHANGED <<planning, task, recorded, outcome, repo, judging, mishaps>>

\* git merge.
GitMerge(c) ==
    LET t == TaskOf[c]
        Told(o) == outcome' = [outcome EXCEPT ![c] = o]
    IN  /\ \/ /\ merging = NoTask
              /\ At(c, "merge", "outcome") /\ Told("Succeeded")
              /\ merged' = merged \cup {t}
              /\ UNCHANGED <<merging, mishaps>>
           \/ /\ merging = NoTask /\ t \notin merged
              /\ At(c, "merge", "abort") /\ Told("Conflicted")
              /\ merging' = t
              /\ UNCHANGED <<merged, mishaps>>
           \/ /\ merging # NoTask
              /\ At(c, "merge", "abort") /\ Told("Permanent")
              /\ UNCHANGED <<repo, mishaps>>
           \/ /\ At(c, "merge", "abort")
              /\ \/ Told("Transient") /\ Contended(c) /\ UNCHANGED mishaps
                 \/ \E o \in {"Transient", "Permanent"} : Told(o) /\ Mishap
              /\ UNCHANGED repo
        /\ UNCHANGED <<planning, task, recorded, attempt, judging>>

\* git merge --abort, whosever conflict it finds; its failure is ignored.
GitAbort(c) ==
    /\ At(c, "abort", "outcome")
    /\ \/ merging' = NoTask /\ UNCHANGED mishaps
       \/ Contended(c) /\ UNCHANGED <<merging, mishaps>>
       \/ Mishap /\ UNCHANGED merging
    /\ UNCHANGED <<planning, task, recorded, attempt, outcome, merged, judging>>

EventOf(o) == IF o = "Succeeded" THEN "MergeSucceeded" ELSE "MergeFailed"

\* Variant: one attempt too many.
RetriedOnceMore(c) == outcome[c] = "Transient" /\ attempt[c] <= MaxRetries + 1

Retried(c) == outcome[c] = "Transient" /\ attempt[c] <= MaxRetries

\* Variant: transient failures are not recorded.
EmitOutcomeOfLast(c) ==
    /\ At(c, "outcome", IF Retried(c) THEN "attempt" ELSE "done")
    /\ \/ outcome[c] = "Transient" /\ UNCHANGED recorded
       \/ outcome[c] # "Transient" /\ Record(TaskOf[c], EventOf(outcome[c]))
    /\ outcome' = [outcome EXCEPT ![c] = "none"]
    /\ attempt' = [attempt EXCEPT ![c] = IF Retried(c) THEN @ + 1 ELSE 1]
    /\ UNCHANGED <<planning, task, repo, judging, mishaps>>

\* The outcome is recorded; a transient failure is tried again.
EmitOutcome(c) ==
    /\ At(c, "outcome", IF Retried(c) THEN "attempt" ELSE "done")
    /\ Record(TaskOf[c], EventOf(outcome[c]))
    /\ outcome' = [outcome EXCEPT ![c] = "none"]
    /\ attempt' = [attempt EXCEPT ![c] = IF Retried(c) THEN @ + 1 ELSE 1]
    /\ UNCHANGED <<planning, task, repo, judging, mishaps>>

\* An emit fails, git cannot be run, or the process ends.
Fails(c) ==
    /\ pc[c] \notin {"idle", "done", "error"}
    /\ pc' = [pc EXCEPT ![c] = "error"]
    /\ outcome' = [outcome EXCEPT ![c] = "none"]
    /\ attempt' = [attempt EXCEPT ![c] = 1]
    /\ Mishap
    /\ UNCHANGED <<planning, task, recorded, repo, judging>>

-----------------------------------------------------------------------------
(***************************************************************************)
(* check_cycle_completion: two queries and an event.                       *)
(***************************************************************************)
Judged(to) ==
    /\ judge' = to
    /\ UNCHANGED <<planning, task, recorded, calls, repo, mishaps>>

CountTasks ==
    /\ judge = "idle"
    /\ \A t \in Tasks : task[t] \in {"passed", "unchanged"}
    /\ Judged("merges")
    /\ UNCHANGED completed

\* Variant: a task whose attempt has ended counts as merged.
CountMergesEnded ==
    /\ judge = "merges"
    /\ Judged(IF \A t \in Tasks : recorded[t] \cap Ends # {} THEN "emit" ELSE "idle")
    /\ UNCHANGED completed

CountMerges ==
    /\ judge = "merges"
    /\ Judged(IF \A t \in Tasks : recorded[t] \cap {"MergeSucceeded", "MergeSkipped"} # {}
              THEN "emit" ELSE "idle")
    /\ UNCHANGED completed

EmitCompleted ==
    /\ judge = "emit"
    /\ Judged("idle")
    /\ completed' = TRUE

-----------------------------------------------------------------------------
MergeStep(c) ==
    EmitAttempted(c) \/ Checkout(c) \/ GitMerge(c) \/ GitAbort(c) \/ EmitOutcome(c)

Next ==
    \/ RequestPlan \/ EmitRequested \/ ApprovePlan
    \/ \E g \in Generators : GeneratePlan(g) \/ GenerationEnds(g)
    \/ \E t \in Tasks : Verify(t) \/ TaskSkipped(t) \/ SkipMerge(t)
    \/ \E c \in Calls : AttemptMerge(c) \/ MergeStep(c) \/ Fails(c)
    \/ CountTasks \/ CountMerges \/ EmitCompleted

\* A merge call goes on once it has begun.  This assumes that git commands end:
\* run_git_raw waits for them without a limit.
Fairness == \A c \in Calls : WF_vars(MergeStep(c))

Spec == Init /\ [][Next]_vars /\ Fairness

-----------------------------------------------------------------------------
\* A cycle that is recorded as completed has all its tasks passed or skipped,
\* and the branch of every task with changes is in the target branch: also
\* after retries, calls that overlapped in the working tree, aborts of
\* another's conflict, and a crash between a merge and its event.
CompletedIsMerged ==
    completed => \A t \in Tasks :
        task[t] = "unchanged" \/ (task[t] = "passed" /\ t \in merged)

\* An attempt that is open is what check_in_flight_merge rejects the other tasks
\* of the cycle for.  It gets an end, whatever calls overlap, retry and abort
\* each other, unless a call of its task ended in an error: then it stays open
\* until somebody merges that same task again.
AttemptsClose ==
    \A t \in Tasks :
        Open(t) ~> ~Open(t) \/ \E c \in Calls : TaskOf[c] = t /\ pc[c] = "error"
=============================================================================
