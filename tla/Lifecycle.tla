----------------------------- MODULE Lifecycle -----------------------------
(***************************************************************************)
(* The state machines of domain/states.rs: for each kind of entity the     *)
(* pairs <<from, to>> that its transition() accepts, and, as an abstract   *)
(* specification, tables in which every row follows its machine.  A row    *)
(* that does not exist is "absent".  (Merges have a machine and no table.) *)
(*                                                                         *)
(* transition() is called by the tests only: the SQL of the projectors and *)
(* of the scheduler repeats these rules in its WHERE clauses.              *)
(* Projections.tla is shown to implement this specification.               *)
(***************************************************************************)
CONSTANTS Cycles, Tasks, Runs

VARIABLES instance,   \* state of the instance
          cycles,     \* state of each cycle
          tasks,      \* state of each task
          runs        \* state of each run

InstanceMoves ==
    {<<"absent", "provisioning">>,
     <<"provisioning", "active">>, <<"provisioning", "provisioning_failed">>,
     <<"active", "blocked">>, <<"active", "suspended">>,
     <<"blocked", "active">>, <<"suspended", "active">>}

CycleMoves ==
    {<<"absent", "created">>,
     <<"created", "planning">>, <<"planning", "plan_ready">>, <<"planning", "failed">>,
     <<"plan_ready", "approved">>, <<"plan_ready", "cancelled">>, <<"approved", "running">>,
     <<"running", "blocked">>, <<"running", "completing">>, <<"running", "failed">>,
     <<"running", "cancelled">>, <<"blocked", "running">>,
     <<"completing", "completed">>, <<"completing", "failed">>}

TaskMoves ==
    {<<"absent", "scheduled">>,
     <<"scheduled", "active">>, <<"scheduled", "cancelled">>, <<"scheduled", "skipped">>,
     <<"active", "verifying">>, <<"active", "scheduled">>, <<"active", "failed">>,
     <<"active", "cancelled">>,
     <<"verifying", "passed">>, <<"verifying", "scheduled">>, <<"verifying", "failed">>}

RunMoves ==
    {<<"absent", "claimed">>,
     <<"claimed", "running">>, <<"claimed", "failed">>, <<"claimed", "cancelled">>,
     <<"running", "completed">>, <<"running", "failed">>, <<"running", "timed_out">>,
     <<"running", "cancelled">>, <<"running", "abandoned">>}

StatesOf(moves) == {"absent"} \cup {m[2] : m \in moves}

-----------------------------------------------------------------------------
Init == /\ instance = "absent"
        /\ cycles = [c \in Cycles |-> "absent"]
        /\ tasks  = [t \in Tasks |-> "absent"]
        /\ runs   = [r \in Runs |-> "absent"]

\* Every row of a table stays or makes a move of its machine.
Follow(moves, row, row1) == row1 = row \/ <<row, row1>> \in moves

Step == /\ Follow(InstanceMoves, instance, instance')
        /\ cycles' \in [Cycles -> StatesOf(CycleMoves)]
        /\ tasks' \in [Tasks -> StatesOf(TaskMoves)]
        /\ runs' \in [Runs -> StatesOf(RunMoves)]
        /\ \A c \in Cycles : Follow(CycleMoves, cycles[c], cycles'[c])
        /\ \A t \in Tasks  : Follow(TaskMoves, tasks[t], tasks'[t])
        /\ \A r \in Runs   : Follow(RunMoves, runs[r], runs'[r])

\* Only a rebuild of a blocked instance drops rows, and then all but the instance.
Rebuild == /\ instance = "blocked"
           /\ cycles' = [c \in Cycles |-> "absent"]
           /\ tasks'  = [t \in Tasks |-> "absent"]
           /\ runs'   = [r \in Runs |-> "absent"]
           /\ UNCHANGED instance

Next == Step \/ Rebuild

Spec == Init /\ [][Next]_<<instance, cycles, tasks, runs>>
=============================================================================
