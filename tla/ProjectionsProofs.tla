------------------------- MODULE ProjectionsProofs -------------------------
(***************************************************************************)
(* Proofs about Projections: for any cycles, tasks, runs and budget events *)
(* the tables are type correct, every block has its reason, rows have      *)
(* their parents, and the guards of the SQL implement the state machines   *)
(* of domain/states.rs, whose ends are final.                              *)
(***************************************************************************)
EXTENDS Projections, FiniteSetTheorems, WellFoundedInduction, TLAPS

USE TablesAssumption

\* What the tables of updates give for an event type: a guard and a target
\* that are states, and a target each guarded state may move to.
LEMMA CycleUpdatesSound ==
    ASSUME NEW type \in DOMAIN CycleUpdates,
           NEW s \in CycleUpdates[type].from
    PROVE  /\ CycleUpdates[type].to \in CycleState \ {"absent"}
           /\ <<s, CycleUpdates[type].to>> \in Domain!CycleMoves
BY DEF CycleUpdates, Upd, CycleState, Domain!CycleMoves

\* The same for the updates of tasks.
LEMMA TaskUpdatesSound ==
    ASSUME NEW type \in DOMAIN TaskUpdates,
           NEW s \in TaskUpdates[type].from
    PROVE  /\ TaskUpdates[type].to \in TaskState \ {"absent"}
           /\ <<s, TaskUpdates[type].to>> \in Domain!TaskMoves
BY DEF TaskUpdates, Upd, TaskState, Domain!TaskMoves

\* The same for the updates of runs.
LEMMA RunUpdatesSound ==
    ASSUME NEW type \in DOMAIN RunUpdates,
           NEW s \in RunUpdates[type].from
    PROVE  /\ RunUpdates[type].to \in RunState \ {"absent"}
           /\ <<s, RunUpdates[type].to>> \in Domain!RunMoves
BY DEF RunUpdates, Upd, RunState, Domain!RunMoves

-----------------------------------------------------------------------------
\* The ledger entry that comes last in the ORDER BY exists: the places are
\* numbers up to the number of budget events.
LEMMA LastEntryExists ==
    ASSUME NEW S \in SUBSET BudgetEvents, S # {}
    PROVE  \E e \in S : \A d \in S : Order[d] <= Order[e]
<1> DEFINE n == Cardinality(BudgetEvents)
           T == {n - Order[e] : e \in S}
<1>1. n \in Nat
  BY FS_CardinalityType
<1>2. \A e \in S : Order[e] \in 1..n
  OBVIOUS
<1> HIDE DEF n
<1>3. T \subseteq Nat /\ T # {}
  BY <1>1, <1>2
<1>4. PICK x \in T : \A y \in T : ~(<<y, x>> \in OpToRel(<, Nat))
  BY <1>3, NatLessThanWellFounded, WFMin
<1>5. \A y \in T : ~(y < x)
  BY <1>3, <1>4 DEF OpToRel
<1>6. PICK e \in S : x = n - Order[e]
  BY <1>4
<1>7. ASSUME NEW d \in S PROVE Order[d] <= Order[e]
  <2>1. ~(n - Order[d] < x)
    BY <1>5
  <2>2. Order[d] \in Int /\ Order[e] \in Int
    BY <1>2
  <2> QED BY <1>1, <1>6, <2>1, <2>2
<1> QED BY <1>6, <1>7

\* A balance that was read is an integer.
LEMMA LastBalanceIsInt ==
    ASSUME NEW S \in SUBSET BudgetEvents, NEW f \in [S -> Int]
    PROVE  LastBalance(f) \in Int
<1>1. CASE S = {}
  BY <1>1 DEF LastBalance
<1>2. CASE S # {}
  <2>1. \E e \in S : \A d \in S : Order[d] <= Order[e]
    BY <1>2, LastEntryExists
  <2> QED BY <1>2, <2>1 DEF LastBalance
<1> QED BY <1>1, <1>2

-----------------------------------------------------------------------------
\* The part of the type invariant about the four tables, and about the ledger.
TablesOK == /\ instance \in [state : InstanceState, reason : Reasons]
            /\ cycles \in [Cycles -> CycleState]
            /\ tasks \in [Tasks -> TaskState]
            /\ runs \in [Runs -> RunState]

BudgetOK == /\ \E S \in SUBSET BudgetEvents : ledger \in [S -> Int]
            /\ \E S \in SUBSET BudgetEvents : reading \in [S -> Int]
            /\ charged \in Int
            /\ orderly \in BOOLEAN

\* The steps of the instance row, and those of the other tables.
InstanceStep ==
    \/ InstanceCreated \/ InstanceProvisioned \/ InstanceProvisioningFailed
    \/ InstanceBlocked \/ InstanceUnblocked \/ InstanceSuspended \/ InstanceResumed

CycleStep == \E c \in Cycles :
    CycleCreated(c) \/ \E type \in DOMAIN CycleUpdates : CycleUpdated(c, type)
TaskStep  == \E t \in Tasks :
    TaskScheduled(t) \/ \E type \in DOMAIN TaskUpdates : TaskUpdated(t, type)
RunStep   == \E r \in Runs :
    RunClaimed(r) \/ \E type \in DOMAIN RunUpdates : RunUpdated(r, type)
ClaimStep == \E r \in Runs : SchedulerClaims(r)
BudgetStep == \E e \in BudgetEvents : LedgerRead(e) \/ LedgerInsert(e)

\* The steps, by the table they write.
LEMMA NextSteps ==
    [Next]_vars => \/ InstanceStep \/ CycleStep \/ TaskStep \/ RunStep \/ ClaimStep
                   \/ Truncate \/ BudgetStep \/ UNCHANGED vars
BY DEF Next, InstanceStep, CycleStep, TaskStep, RunStep, ClaimStep, BudgetStep

\* What an event does to the row of the instance: a move of its machine that
\* keeps the reason current, and nothing to the other tables.
LEMMA InstanceStepMoves ==
    ASSUME InstanceStep, TablesOK, ReasonIsCurrent
    PROVE  /\ instance' \in [state : InstanceState, reason : Reasons]
           /\ <<instance.state, instance'.state>> \in Domain!InstanceMoves
           /\ ReasonIsCurrent'
           /\ UNCHANGED <<cycles, tasks, runs, budget>>
<1>1. instance.state \in InstanceState /\ instance.reason \in Reasons
  BY DEF TablesOK
<1>2. CASE InstanceCreated
  BY <1>1, <1>2 DEF InstanceCreated, InstanceState, Reasons, Domain!InstanceMoves,
         ReasonIsCurrent
<1>3. ASSUME NEW from, NEW to \in InstanceState, NEW reason \in Reasons,
             SetInstance(from, to, reason),
             <<from, to>> \in Domain!InstanceMoves,
             reason # "none" <=> to \in {"blocked", "provisioning_failed"}
      PROVE  /\ instance' \in [state : InstanceState, reason : Reasons]
             /\ <<instance.state, instance'.state>> \in Domain!InstanceMoves
             /\ ReasonIsCurrent'
             /\ UNCHANGED <<cycles, tasks, runs, budget>>
  BY <1>3 DEF SetInstance, ReasonIsCurrent
<1>4. CASE InstanceProvisioned
  BY <1>1, <1>3, <1>4 DEF InstanceProvisioned, SetInstance, InstanceState, Domain!InstanceMoves,
         ReasonIsCurrent
<1>5. CASE InstanceProvisioningFailed
  BY <1>3, <1>5 DEF InstanceProvisioningFailed, InstanceState, Reasons, Domain!InstanceMoves
<1>6. CASE InstanceBlocked
  BY <1>3, <1>6 DEF InstanceBlocked, InstanceState, Reasons, Domain!InstanceMoves
<1>7. CASE InstanceUnblocked
  BY <1>3, <1>7 DEF InstanceUnblocked, InstanceState, Reasons, Domain!InstanceMoves
<1>8. CASE InstanceSuspended
  BY <1>1, <1>3, <1>8 DEF InstanceSuspended, SetInstance, InstanceState, Domain!InstanceMoves,
         ReasonIsCurrent
<1>9. CASE InstanceResumed
  BY <1>1, <1>3, <1>9 DEF InstanceResumed, SetInstance, InstanceState, Domain!InstanceMoves,
         ReasonIsCurrent
<1> QED BY <1>2, <1>4, <1>5, <1>6, <1>7, <1>8, <1>9 DEF InstanceStep

\* What the other steps do to the tables: every row stays or moves.
LEMMA CycleStepMoves ==
    ASSUME CycleStep, TablesOK
    PROVE  /\ cycles' \in [Cycles -> CycleState]
           /\ \A c \in Cycles : Domain!Follow(Domain!CycleMoves, cycles[c], cycles'[c])
           /\ UNCHANGED <<instance, tasks, runs, budget>>
<1>1. PICK c \in Cycles :
         CycleCreated(c) \/ \E type \in DOMAIN CycleUpdates : CycleUpdated(c, type)
  BY DEF CycleStep
<1>2. CASE CycleCreated(c)
  BY <1>2 DEF CycleCreated, TablesOK, CycleState, Domain!Follow, Domain!CycleMoves
<1>3. ASSUME NEW type \in DOMAIN CycleUpdates, CycleUpdated(c, type)
      PROVE  /\ cycles' \in [Cycles -> CycleState]
             /\ \A d \in Cycles : Domain!Follow(Domain!CycleMoves, cycles[d], cycles'[d])
             /\ UNCHANGED <<instance, tasks, runs, budget>>
  BY <1>3, CycleUpdatesSound DEF CycleUpdated, TablesOK, Domain!Follow
<1> QED BY <1>1, <1>2, <1>3

\* The same for a task.
LEMMA TaskStepMoves ==
    ASSUME TaskStep, TablesOK
    PROVE  /\ tasks' \in [Tasks -> TaskState]
           /\ \A t \in Tasks : Domain!Follow(Domain!TaskMoves, tasks[t], tasks'[t])
           /\ UNCHANGED <<instance, cycles, runs, budget>>
<1>1. PICK t \in Tasks :
         TaskScheduled(t) \/ \E type \in DOMAIN TaskUpdates : TaskUpdated(t, type)
  BY DEF TaskStep
<1>2. CASE TaskScheduled(t)
  BY <1>2 DEF TaskScheduled, TablesOK, TaskState, Domain!Follow, Domain!TaskMoves
<1>3. ASSUME NEW type \in DOMAIN TaskUpdates, TaskUpdated(t, type)
      PROVE  /\ tasks' \in [Tasks -> TaskState]
             /\ \A u \in Tasks : Domain!Follow(Domain!TaskMoves, tasks[u], tasks'[u])
             /\ UNCHANGED <<instance, cycles, runs, budget>>
  BY <1>3, TaskUpdatesSound DEF TaskUpdated, TablesOK, Domain!Follow
<1> QED BY <1>1, <1>2, <1>3

\* The same for a run.
LEMMA RunStepMoves ==
    ASSUME RunStep, TablesOK
    PROVE  /\ runs' \in [Runs -> RunState]
           /\ \A r \in Runs : Domain!Follow(Domain!RunMoves, runs[r], runs'[r])
           /\ UNCHANGED <<instance, cycles, tasks, budget>>
<1>1. PICK r \in Runs :
         RunClaimed(r) \/ \E type \in DOMAIN RunUpdates : RunUpdated(r, type)
  BY DEF RunStep
<1>2. CASE RunClaimed(r)
  BY <1>2 DEF RunClaimed, TablesOK, RunState, Domain!Follow, Domain!RunMoves
<1>3. ASSUME NEW type \in DOMAIN RunUpdates, RunUpdated(r, type)
      PROVE  /\ runs' \in [Runs -> RunState]
             /\ \A q \in Runs : Domain!Follow(Domain!RunMoves, runs[q], runs'[q])
             /\ UNCHANGED <<instance, cycles, tasks, budget>>
  BY <1>3, RunUpdatesSound DEF RunUpdated, TablesOK, Domain!Follow
<1> QED BY <1>1, <1>2, <1>3

\* A claim moves three rows at once, each along its machine.
LEMMA ClaimStepMoves ==
    ASSUME ClaimStep, TablesOK
    PROVE  /\ cycles' \in [Cycles -> CycleState]
           /\ tasks' \in [Tasks -> TaskState]
           /\ runs' \in [Runs -> RunState]
           /\ \A c \in Cycles : Domain!Follow(Domain!CycleMoves, cycles[c], cycles'[c])
           /\ \A t \in Tasks : Domain!Follow(Domain!TaskMoves, tasks[t], tasks'[t])
           /\ \A r \in Runs : Domain!Follow(Domain!RunMoves, runs[r], runs'[r])
           /\ UNCHANGED <<instance, budget>>
<1>1. PICK r \in Runs : SchedulerClaims(r)
  BY DEF ClaimStep
<1>2. /\ TaskOf[r] \in Tasks
      /\ CycleOf[TaskOf[r]] \in Cycles
  OBVIOUS
<1>3. /\ runs' \in [Runs -> RunState]
      /\ \A q \in Runs : Domain!Follow(Domain!RunMoves, runs[q], runs'[q])
  BY <1>1 DEF SchedulerClaims, TablesOK, RunState, Domain!Follow, Domain!RunMoves
<1>4. /\ tasks' \in [Tasks -> TaskState]
      /\ \A t \in Tasks : Domain!Follow(Domain!TaskMoves, tasks[t], tasks'[t])
  BY <1>1, <1>2 DEF SchedulerClaims, TablesOK, TaskState, Domain!Follow, Domain!TaskMoves
<1>5. /\ cycles' \in [Cycles -> CycleState]
      /\ \A c \in Cycles : Domain!Follow(Domain!CycleMoves, cycles[c], cycles'[c])
  BY <1>1, <1>2 DEF SchedulerClaims, TablesOK, CycleState, Domain!Follow, Domain!CycleMoves
<1> QED BY <1>1, <1>3, <1>4, <1>5 DEF SchedulerClaims

\* A rebuild wipes the three tables; the balances stay numbers.
LEMMA TruncateWipes ==
    ASSUME Truncate, TablesOK PROVE TablesOK' /\ Domain!Rebuild /\ UNCHANGED budget
<1>1. cycles' \in [Cycles -> CycleState] /\ tasks' \in [Tasks -> TaskState]
      /\ runs' \in [Runs -> RunState]
  BY DEF Truncate, CycleState, TaskState, RunState
<1>2. instance.state = "blocked"
  BY DEF Truncate
<1> QED BY <1>1, <1>2 DEF Truncate, TablesOK, Domain!Rebuild

\* A step of the ledger keeps its types.
LEMMA BudgetStepKeeps ==
    ASSUME BudgetStep, BudgetOK PROVE BudgetOK' /\ UNCHANGED tables
<1>1. PICK L \in SUBSET BudgetEvents : ledger \in [L -> Int]
  BY DEF BudgetOK
<1>2. PICK R \in SUBSET BudgetEvents : reading \in [R -> Int]
  BY DEF BudgetOK
<1>3. PICK e \in BudgetEvents : LedgerRead(e) \/ LedgerInsert(e)
  BY DEF BudgetStep
<1>4. DOMAIN ledger = L /\ DOMAIN reading = R
  BY <1>1, <1>2
<1>5. CASE LedgerRead(e)
  <2>1. LastBalance(ledger) \in Int
    BY <1>1, LastBalanceIsInt
  <2>2. reading' = [d \in R \cup {e} |-> IF d = e THEN LastBalance(ledger) ELSE reading[d]]
    BY <1>4, <1>5 DEF LedgerRead
  <2>3. reading' \in [R \cup {e} -> Int]
    BY <1>2, <2>1, <2>2
  <2> QED BY <1>5, <2>3 DEF LedgerRead, BudgetOK
<1>6. CASE LedgerInsert(e)
  <2>1. reading' \in [R \ {e} -> Int] /\ e \in R
    BY <1>2, <1>4, <1>6 DEF LedgerInsert
  <2>2. reading[e] + Amount[e] \in Int
    BY <1>2, <2>1
  <2>3. ledger' = ledger
        \/ ledger' = [d \in L \cup {e} |->
                         IF d = e THEN reading[e] + Amount[e] ELSE ledger[d]]
    BY <1>4, <1>6 DEF LedgerInsert
  <2>4. ledger' = ledger \/ ledger' \in [L \cup {e} -> Int]
    BY <1>1, <2>2, <2>3
  <2>5. charged' \in Int /\ orderly' \in BOOLEAN
    <3>1. charged \in Int /\ orderly \in BOOLEAN
      BY DEF BudgetOK
    <3>2. CASE e \in DOMAIN ledger
      BY <1>6, <3>1, <3>2 DEF LedgerInsert
    <3>3. CASE e \notin DOMAIN ledger
      <4>1. charged' = charged + Amount[e]
        BY <1>6, <3>3 DEF LedgerInsert
      <4>2. orderly' \in BOOLEAN
        BY <1>6, <3>3 DEF LedgerInsert
      <4> QED BY <3>1, <4>1, <4>2
    <3> QED BY <3>2, <3>3
  <2>6. \E S \in SUBSET BudgetEvents : ledger' \in [S -> Int]
    BY <1>1, <2>4
  <2>7. \E S \in SUBSET BudgetEvents : reading' \in [S -> Int]
    BY <2>1
  <2> QED BY <1>6, <2>5, <2>6, <2>7 DEF LedgerInsert, BudgetOK
<1> QED BY <1>3, <1>5, <1>6

-----------------------------------------------------------------------------
\* The invariants hold of empty tables.
LEMMA InitOK == Init => TypeOK /\ ReasonIsCurrent /\ Domain!Init
<1> SUFFICES ASSUME Init PROVE TypeOK /\ ReasonIsCurrent /\ Domain!Init
  OBVIOUS
<1>1. ledger \in [{} -> Int] /\ reading \in [{} -> Int]
  BY DEF Init
<1>2. /\ cycles \in [Cycles -> CycleState]
      /\ tasks \in [Tasks -> TaskState]
      /\ runs \in [Runs -> RunState]
      /\ instance \in [state : InstanceState, reason : Reasons]
  BY DEF Init, CycleState, TaskState, RunState, InstanceState, Reasons
<1>3. TypeOK
  <2>1. charged \in Int /\ orderly \in BOOLEAN
    BY DEF Init
  <2>2. {} \in SUBSET BudgetEvents
    OBVIOUS
  <2> QED BY <1>1, <1>2, <2>1, <2>2 DEF TypeOK
<1>4. ReasonIsCurrent /\ Domain!Init
  BY DEF Init, ReasonIsCurrent, Domain!Init
<1> QED BY <1>3, <1>4

\* TypeOK, cut into tables and ledger.
LEMMA TypeOKParts == TypeOK <=> TablesOK /\ BudgetOK
BY DEF TypeOK, TablesOK, BudgetOK

\* Only the row of the instance matters to ReasonIsCurrent.
LEMMA StepOK == TypeOK /\ ReasonIsCurrent /\ [Next]_vars => TypeOK' /\ ReasonIsCurrent'
<1> SUFFICES ASSUME TablesOK, BudgetOK, ReasonIsCurrent, [Next]_vars
             PROVE  TablesOK' /\ BudgetOK' /\ ReasonIsCurrent'
  BY TypeOKParts DEF TypeOK, TablesOK, BudgetOK
<1>1. ASSUME UNCHANGED budget PROVE BudgetOK'
  BY <1>1 DEF BudgetOK, budget
<1>2. ASSUME UNCHANGED instance PROVE ReasonIsCurrent'
  BY <1>2 DEF ReasonIsCurrent
<1>3. CASE InstanceStep
  BY <1>1, <1>3, InstanceStepMoves DEF TablesOK
<1>4. CASE CycleStep
  BY <1>1, <1>2, <1>4, CycleStepMoves DEF TablesOK
<1>5. CASE TaskStep
  BY <1>1, <1>2, <1>5, TaskStepMoves DEF TablesOK
<1>6. CASE RunStep
  BY <1>1, <1>2, <1>6, RunStepMoves DEF TablesOK
<1>7. CASE ClaimStep
  BY <1>1, <1>2, <1>7, ClaimStepMoves DEF TablesOK
<1>8. CASE Truncate
  BY <1>1, <1>2, <1>8, TruncateWipes DEF Truncate
<1>9. CASE BudgetStep
  BY <1>2, <1>9, BudgetStepKeeps DEF TablesOK, tables
<1>10. CASE UNCHANGED vars
  BY <1>1, <1>2, <1>10 DEF TablesOK, vars, budget
<1> QED BY NextSteps, <1>3, <1>4, <1>5, <1>6, <1>7, <1>8, <1>9, <1>10

\* Types and reasons hold in every reachable state.
LEMMA TypeAndReason == Spec => [](TypeOK /\ ReasonIsCurrent)
BY InitOK, StepOK, PTL DEF Spec

\* Every reachable state of the projection tables is type correct.
THEOREM TypeCorrect == Spec => []TypeOK
BY TypeAndReason, PTL

\* block_reason is set exactly while the instance is blocked, or failed to be
\* provisioned, whatever instance events arrive in whatever order.
THEOREM ReasonsAreCurrent == Spec => []ReasonIsCurrent
BY TypeAndReason, PTL

-----------------------------------------------------------------------------
\* The states a table may hold are those of its machine.
LEMMA StatesAgree ==
    /\ CycleState \subseteq Domain!StatesOf(Domain!CycleMoves)
    /\ TaskState \subseteq Domain!StatesOf(Domain!TaskMoves)
    /\ RunState \subseteq Domain!StatesOf(Domain!RunMoves)
<1>1. CycleState \subseteq Domain!StatesOf(Domain!CycleMoves)
  BY DEF Domain!StatesOf, CycleState, Domain!CycleMoves
<1>2. TaskState \subseteq Domain!StatesOf(Domain!TaskMoves)
  BY DEF Domain!StatesOf, TaskState, Domain!TaskMoves
<1>3. RunState \subseteq Domain!StatesOf(Domain!RunMoves)
  BY DEF Domain!StatesOf, RunState, Domain!RunMoves
<1> QED BY <1>1, <1>2, <1>3

\* Every step of the tables is a step of the machines, a rebuild, or neither.
LEMMA StepFollows ==
    ASSUME TablesOK, TablesOK', ReasonIsCurrent, [Next]_vars
    PROVE  Domain!Step \/ Domain!Rebuild
<1> DEFINE Stays(row) == row' = row
<1>1. /\ cycles' \in [Cycles -> Domain!StatesOf(Domain!CycleMoves)]
      /\ tasks' \in [Tasks -> Domain!StatesOf(Domain!TaskMoves)]
      /\ runs' \in [Runs -> Domain!StatesOf(Domain!RunMoves)]
  <2>1. cycles' \in [Cycles -> CycleState] /\ tasks' \in [Tasks -> TaskState]
        /\ runs' \in [Runs -> RunState]
    BY DEF TablesOK
  <2> QED BY <2>1, StatesAgree
<1>2. ASSUME Domain!Follow(Domain!InstanceMoves, instance.state, instance'.state),
             \A c \in Cycles : Domain!Follow(Domain!CycleMoves, cycles[c], cycles'[c]),
             \A t \in Tasks : Domain!Follow(Domain!TaskMoves, tasks[t], tasks'[t]),
             \A r \in Runs : Domain!Follow(Domain!RunMoves, runs[r], runs'[r])
      PROVE  Domain!Step
  BY <1>1, <1>2 DEF Domain!Step
<1>3. /\ UNCHANGED instance =>
            Domain!Follow(Domain!InstanceMoves, instance.state, instance'.state)
      /\ UNCHANGED cycles =>
            \A c \in Cycles : Domain!Follow(Domain!CycleMoves, cycles[c], cycles'[c])
      /\ UNCHANGED tasks =>
            \A t \in Tasks : Domain!Follow(Domain!TaskMoves, tasks[t], tasks'[t])
      /\ UNCHANGED runs =>
            \A r \in Runs : Domain!Follow(Domain!RunMoves, runs[r], runs'[r])
  BY DEF Domain!Follow
<1>4. CASE InstanceStep
  <2>1. /\ Domain!Follow(Domain!InstanceMoves, instance.state, instance'.state)
        /\ UNCHANGED <<cycles, tasks, runs>>
    BY <1>4, InstanceStepMoves DEF Domain!Follow
  <2> QED BY <1>2, <1>3, <2>1
<1>5. CASE CycleStep
  BY <1>2, <1>3, <1>5, CycleStepMoves
<1>6. CASE TaskStep
  BY <1>2, <1>3, <1>6, TaskStepMoves
<1>7. CASE RunStep
  BY <1>2, <1>3, <1>7, RunStepMoves
<1>8. CASE ClaimStep
  BY <1>2, <1>3, <1>8, ClaimStepMoves
<1>9. CASE Truncate
  BY <1>9, TruncateWipes
<1>10. CASE BudgetStep \/ UNCHANGED vars
  <2>1. UNCHANGED <<instance, cycles, tasks, runs>>
    BY <1>10 DEF BudgetStep, LedgerRead, LedgerInsert, vars, tables
  <2> QED BY <1>2, <1>3, <2>1
<1> QED BY NextSteps, <1>4, <1>5, <1>6, <1>7, <1>8, <1>9, <1>10

\* The guards of the projectors and of the scheduler implement the state
\* machines of domain/states.rs, for any number of cycles, tasks and runs and
\* any order and repetition of events and rebuilds.
THEOREM RowsFollowLifecycle == Spec => FollowsLifecycle
<1>1. Init => Domain!Init
  BY InitOK
<1>2. /\ TypeOK /\ TypeOK' /\ ReasonIsCurrent /\ [Next]_vars
      => [Domain!Next]_<<instance.state, cycles, tasks, runs>>
  <2> SUFFICES ASSUME TablesOK, TablesOK', ReasonIsCurrent, [Next]_vars
               PROVE  Domain!Next
    BY TypeOKParts DEF TypeOK, TablesOK, BudgetOK
  <2> QED BY StepFollows DEF Domain!Next
<1> QED BY <1>1, <1>2, TypeAndReason, PTL DEF Spec, FollowsLifecycle, Domain!Spec

-----------------------------------------------------------------------------
(***************************************************************************)
(* The ledger.  As long as the inserts are orderly, every balance that an  *)
(* INSERT ... SELECT under way has read is still the last one, and it is   *)
(* the sum charged.                                                        *)
(***************************************************************************)
Balanced == orderly => /\ LastBalance(ledger) = charged
                       /\ \A e \in DOMAIN reading : reading[e] = charged

\* Adding an entry that comes after all others makes it the last one.
LEMMA LastOfExtended ==
    ASSUME NEW f, NEW e \in BudgetEvents, NEW b,
           DOMAIN f \subseteq BudgetEvents,
           \A d \in DOMAIN f : Order[d] < Order[e]
    PROVE  LastBalance([d \in DOMAIN f \cup {e} |-> IF d = e THEN b ELSE f[d]]) = b
<1> DEFINE g == [d \in DOMAIN f \cup {e} |-> IF d = e THEN b ELSE f[d]]
<1>1. DOMAIN g = DOMAIN f \cup {e} /\ DOMAIN g \subseteq BudgetEvents
  OBVIOUS
<1>2. \A d \in BudgetEvents : Order[d] \in Int
  OBVIOUS
<1>3. \A d \in DOMAIN g : Order[d] <= Order[e]
  BY <1>1, <1>2
<1>4. ASSUME NEW d \in DOMAIN g, \A c \in DOMAIN g : Order[c] <= Order[d] PROVE d = e
  BY <1>1, <1>2, <1>4
<1>5. e = CHOOSE d \in DOMAIN g : \A c \in DOMAIN g : Order[c] <= Order[d]
  BY <1>1, <1>3, <1>4
<1> QED BY <1>1, <1>5 DEF LastBalance

\* Every step keeps Balanced.
LEMMA BalancedStep == TypeOK /\ Balanced /\ [Next]_vars => Balanced'
<1> SUFFICES ASSUME BudgetOK, Balanced, [Next]_vars PROVE Balanced'
  BY TypeOKParts DEF TypeOK, TablesOK, BudgetOK
<1>1. ASSUME NEW e \in BudgetEvents, LedgerRead(e) PROVE Balanced'
  <2>1. UNCHANGED <<ledger, charged, orderly>>
        /\ reading' = [d \in DOMAIN reading \cup {e} |->
                          IF d = e THEN LastBalance(ledger) ELSE reading[d]]
    BY <1>1 DEF LedgerRead
  <2> QED BY <2>1 DEF Balanced
<1>2. ASSUME NEW e \in BudgetEvents, LedgerInsert(e) PROVE Balanced'
  <2>1. CASE e \in DOMAIN ledger
    BY <1>2, <2>1 DEF LedgerInsert, Balanced
  <2>2. CASE e \notin DOMAIN ledger
    <3> SUFFICES ASSUME orderly' PROVE LastBalance(ledger') = charged' /\ DOMAIN reading' = {}
      BY DEF Balanced
    <3>1. /\ orderly
          /\ DOMAIN reading = {e}
          /\ \A d \in DOMAIN ledger : Order[d] < Order[e]
      BY <1>2, <2>2 DEF LedgerInsert
    <3>2. reading[e] = charged
      BY <3>1 DEF Balanced
    <3>3. DOMAIN ledger \subseteq BudgetEvents
      BY DEF BudgetOK
    <3>4. ledger' = [d \in DOMAIN ledger \cup {e} |->
                        IF d = e THEN reading[e] + Amount[e] ELSE ledger[d]]
      BY <1>2, <2>2 DEF LedgerInsert
    <3>5. LastBalance(ledger') = reading[e] + Amount[e]
      BY <3>1, <3>3, <3>4, LastOfExtended
    <3>6. charged' = charged + Amount[e] /\ DOMAIN reading' = {}
      BY <1>2, <2>2, <3>1 DEF LedgerInsert
    <3> QED BY <3>2, <3>5, <3>6
  <2> QED BY <2>1, <2>2
<1>3. ASSUME UNCHANGED budget PROVE Balanced'
  BY <1>3 DEF Balanced, budget
<1>4. ASSUME ~BudgetStep PROVE UNCHANGED budget
  <2>1. ASSUME NEW c \in Cycles, CycleCreated(c) \/ \E type \in DOMAIN CycleUpdates : CycleUpdated(c, type)
        PROVE  UNCHANGED budget
    BY <2>1 DEF CycleCreated, CycleUpdated
  <2>2. ASSUME NEW t \in Tasks, TaskScheduled(t) \/ \E type \in DOMAIN TaskUpdates : TaskUpdated(t, type)
        PROVE  UNCHANGED budget
    BY <2>2 DEF TaskScheduled, TaskUpdated
  <2>3. ASSUME NEW r \in Runs, RunClaimed(r) \/ SchedulerClaims(r)
                               \/ \E type \in DOMAIN RunUpdates : RunUpdated(r, type)
        PROVE  UNCHANGED budget
    BY <2>3 DEF RunClaimed, SchedulerClaims, RunUpdated
  <2>4. CASE InstanceStep
    BY <2>4 DEF InstanceStep, InstanceCreated, InstanceProvisioned, InstanceProvisioningFailed,
                InstanceBlocked, InstanceUnblocked, InstanceSuspended, InstanceResumed, SetInstance
  <2>5. CASE Truncate \/ UNCHANGED vars
    BY <2>5 DEF Truncate, vars, budget
  <2> QED BY NextSteps, <1>4, <2>1, <2>2, <2>3, <2>4, <2>5
          DEF CycleStep, TaskStep, RunStep, ClaimStep
<1> QED BY <1>1, <1>2, <1>3, <1>4 DEF BudgetStep

\* Budget events handled one at a time and in order keep the running balance
\* exact, however often an event is delivered again.
THEOREM OrderlyLedgerBalances == Spec => []BalanceIsSum
<1>1. Init => Balanced
  BY DEF Init, Balanced, LastBalance
<1>2. Balanced => BalanceIsSum
  BY DEF Balanced, BalanceIsSum
<1> QED BY <1>1, <1>2, BalancedStep, TypeCorrect, PTL DEF Spec

-----------------------------------------------------------------------------
(***************************************************************************)
(* The tables among each other.                                            *)
(***************************************************************************)
\* No row outlives the row it belongs to, though they come by events in any
\* order.
RowsHaveParents ==
    /\ \A c \in Cycles : cycles[c] # "absent" => instance.state # "absent"
    /\ \A t \in Tasks : tasks[t] # "absent" => cycles[CycleOf[t]] # "absent"
    /\ \A r \in Runs : runs[r] # "absent" => tasks[TaskOf[r]] # "absent"

\* A task is active by the scheduler's claim, which leaves a run of it.
ActiveTasksHaveRuns ==
    \A t \in Tasks : tasks[t] = "active" => \E r \in Runs : TaskOf[r] = t /\ runs[r] # "absent"

\* No task is verified or passed.
NobodyVerifies == \A t \in Tasks : tasks[t] \notin {"verifying", "passed"}

TablesInv == RowsHaveParents /\ ActiveTasksHaveRuns /\ NobodyVerifies

\* Steps in which rows that exist stay and none becomes active.
LEMMA TablesFrame ==
    ASSUME TablesInv,
           instance.state # "absent" => instance'.state # "absent",
           UNCHANGED <<cycles, tasks, runs>>
    PROVE  TablesInv'
BY DEF TablesInv, RowsHaveParents, ActiveTasksHaveRuns, NobodyVerifies

\* No update makes a row vanish, and none of a task makes it active, verifying
\* or, as none is verifying, passed.
LEMMA UpdatesKeepRows ==
    /\ \A type \in DOMAIN CycleUpdates :
          CycleUpdates[type].to # "absent" /\ "absent" \notin CycleUpdates[type].from
    /\ \A type \in DOMAIN TaskUpdates :
          /\ TaskUpdates[type].to \notin {"absent", "active", "verifying"}
          /\ "absent" \notin TaskUpdates[type].from
          /\ TaskUpdates[type].to = "passed" => TaskUpdates[type].from = {"verifying"}
    /\ \A type \in DOMAIN RunUpdates :
          RunUpdates[type].to # "absent" /\ "absent" \notin RunUpdates[type].from
<1>1. \A type \in DOMAIN CycleUpdates :
         CycleUpdates[type].to # "absent" /\ "absent" \notin CycleUpdates[type].from
  BY DEF CycleUpdates, Upd
<1>2. \A type \in DOMAIN TaskUpdates :
         /\ TaskUpdates[type].to \notin {"absent", "active", "verifying"}
         /\ "absent" \notin TaskUpdates[type].from
         /\ TaskUpdates[type].to = "passed" => TaskUpdates[type].from = {"verifying"}
  BY DEF TaskUpdates, Upd
<1>3. \A type \in DOMAIN RunUpdates :
         RunUpdates[type].to # "absent" /\ "absent" \notin RunUpdates[type].from
  BY DEF RunUpdates, Upd
<1> QED BY <1>1, <1>2, <1>3

\* Every step keeps the tables in accord.
LEMMA TablesStep == TablesOK /\ ReasonIsCurrent /\ TablesInv /\ [Next]_vars => TablesInv'
<1> SUFFICES ASSUME TablesOK, ReasonIsCurrent, TablesInv, [Next]_vars PROVE TablesInv'
  OBVIOUS
<1> USE DEF TablesInv, RowsHaveParents, ActiveTasksHaveRuns, NobodyVerifies
<1>1. CASE InstanceStep
  <2>1. /\ <<instance.state, instance'.state>> \in Domain!InstanceMoves
        /\ UNCHANGED <<cycles, tasks, runs>>
    BY <1>1, InstanceStepMoves
  <2>2. instance'.state # "absent"
    BY <2>1 DEF Domain!InstanceMoves
  <2> QED BY <2>1, <2>2, TablesFrame
<1>2. ASSUME NEW c \in Cycles, CycleCreated(c) PROVE TablesInv'
  BY <1>2 DEF CycleCreated, TablesOK
<1>3. ASSUME NEW c \in Cycles, NEW type \in DOMAIN CycleUpdates, CycleUpdated(c, type)
      PROVE  TablesInv'
  <2>1. CycleUpdates[type].to # "absent" /\ cycles[c] # "absent"
    BY <1>3, UpdatesKeepRows DEF CycleUpdated
  <2>2. \A d \in Cycles : cycles'[d] # "absent" <=> cycles[d] # "absent"
    BY <1>3, <2>1 DEF CycleUpdated, TablesOK
  <2> QED BY <1>3, <2>2 DEF CycleUpdated
<1>4. ASSUME NEW t \in Tasks, TaskScheduled(t) PROVE TablesInv'
  <2>1. /\ tasks'[t] = "scheduled" /\ cycles[CycleOf[t]] # "absent"
        /\ \A u \in Tasks : u # t => tasks'[u] = tasks[u]
        /\ UNCHANGED <<instance, cycles, runs>>
    BY <1>4 DEF TaskScheduled, TablesOK
  <2> QED BY <2>1
<1>5. ASSUME NEW t \in Tasks, NEW type \in DOMAIN TaskUpdates, TaskUpdated(t, type)
      PROVE  TablesInv'
  <2> DEFINE to == TaskUpdates[type].to
  <2>1. /\ to \notin {"absent", "active", "verifying"} /\ tasks[t] # "absent"
        /\ to # "passed"
    BY <1>5, UpdatesKeepRows DEF TaskUpdated
  <2>2. /\ tasks'[t] = to /\ UNCHANGED <<instance, cycles, runs>>
        /\ \A u \in Tasks : u # t => tasks'[u] = tasks[u]
    BY <1>5 DEF TaskUpdated, TablesOK
  <2> HIDE DEF to
  <2> QED BY <2>1, <2>2
<1>6. ASSUME NEW r \in Runs, RunClaimed(r) PROVE TablesInv'
  <2>1. /\ runs'[r] = "claimed" /\ tasks[TaskOf[r]] # "absent"
        /\ \A q \in Runs : q # r => runs'[q] = runs[q]
        /\ UNCHANGED <<instance, cycles, tasks>>
    BY <1>6 DEF RunClaimed, TablesOK
  <2> QED BY <2>1
<1>7. ASSUME NEW r \in Runs, NEW type \in DOMAIN RunUpdates, RunUpdated(r, type)
      PROVE  TablesInv'
  <2>1. RunUpdates[type].to # "absent" /\ runs[r] # "absent"
    BY <1>7, UpdatesKeepRows DEF RunUpdated
  <2>2. \A q \in Runs : runs'[q] # "absent" <=> runs[q] # "absent"
    BY <1>7, <2>1 DEF RunUpdated, TablesOK
  <2> QED BY <1>7, <2>2 DEF RunUpdated
<1>8. ASSUME NEW r \in Runs, SchedulerClaims(r) PROVE TablesInv'
  <2> DEFINE t == TaskOf[r]
  <2>1. t \in Tasks /\ CycleOf[t] \in Cycles
    OBVIOUS
  <2>2. /\ tasks[t] # "absent" /\ tasks'[t] = "active"
        /\ \A u \in Tasks : u # t => tasks'[u] = tasks[u]
    BY <1>8, <2>1 DEF SchedulerClaims, TablesOK
  <2>3. /\ runs'[r] = "claimed" /\ \A q \in Runs : q # r => runs'[q] = runs[q]
    BY <1>8 DEF SchedulerClaims, TablesOK
  <2>4. \A c \in Cycles : cycles'[c] # "absent" <=> cycles[c] # "absent"
    BY <1>8, <2>1, <2>2 DEF SchedulerClaims, TablesOK
  <2>5. UNCHANGED instance
    BY <1>8 DEF SchedulerClaims
  <2> HIDE DEF t
  <2>6. ActiveTasksHaveRuns'
    BY <2>2, <2>3 DEF t
  <2> QED BY <2>1, <2>2, <2>3, <2>4, <2>5, <2>6 DEF t
<1>9. CASE Truncate
  BY <1>9 DEF Truncate
<1>10. CASE BudgetStep \/ UNCHANGED vars
  BY <1>10, TablesFrame DEF BudgetStep, LedgerRead, LedgerInsert, vars, tables
<1> QED BY NextSteps, <1>1, <1>2, <1>3, <1>4, <1>5, <1>6, <1>7, <1>8, <1>9, <1>10
        DEF CycleStep, TaskStep, RunStep, ClaimStep

\* The tables are in accord in every reachable state.
LEMMA TablesAgree == Spec => []TablesInv
<1>1. Init => TablesInv
  BY DEF Init, TablesInv, RowsHaveParents, ActiveTasksHaveRuns, NobodyVerifies
<1>2. TypeOK /\ ReasonIsCurrent /\ TablesInv /\ [Next]_vars => TablesInv'
  BY TablesStep, TypeOKParts
<1> QED BY <1>1, <1>2, TypeAndReason, PTL DEF Spec

\* Whatever order the events come in and wherever a rebuild cuts in, a row has
\* the row it belongs to, and an active task has a run.
THEOREM TablesHangTogether == Spec => [](RowsHaveParents /\ ActiveTasksHaveRuns)
<1>1. TablesInv => RowsHaveParents /\ ActiveTasksHaveRuns
  BY DEF TablesInv
<1> QED BY <1>1, TablesAgree, PTL

\* No event and no claim takes a task to verifying, the one state that
\* TaskPassed leaves: among the writers of these tables nobody lets a task
\* pass.  tests/lifecycle_integration.rs:499 says so ("not yet built as a
\* projector") and writes the state itself.
THEOREM NoTaskPasses == Spec => []NobodyVerifies
<1>1. TablesInv => NobodyVerifies
  BY DEF TablesInv
<1> QED BY <1>1, TablesAgree, PTL

-----------------------------------------------------------------------------
\* The states a machine does not leave.
Final(moves) == {m[2] : m \in moves} \ {m[1] : m \in moves}

\* A row that has come to its end stays there, but for a rebuild of a blocked
\* instance.
FinalRowsStay ==
    /\ \A c \in Cycles : cycles[c] \in Final(Domain!CycleMoves) => cycles'[c] = cycles[c]
    /\ \A t \in Tasks : tasks[t] \in Final(Domain!TaskMoves) => tasks'[t] = tasks[t]
    /\ \A r \in Runs : runs[r] \in Final(Domain!RunMoves) => runs'[r] = runs[r]

\* The ends are those of domain/states.rs (is_terminal).
LEMMA FinalStates ==
    /\ Final(Domain!CycleMoves) = {"completed", "failed", "cancelled"}
    /\ Final(Domain!TaskMoves) = {"passed", "failed", "cancelled", "skipped"}
    /\ Final(Domain!RunMoves) =
          {"completed", "failed", "timed_out", "cancelled", "abandoned"}
<1>1. Final(Domain!CycleMoves) = {"completed", "failed", "cancelled"}
  BY DEF Final, Domain!CycleMoves
<1>2. Final(Domain!TaskMoves) = {"passed", "failed", "cancelled", "skipped"}
  BY DEF Final, Domain!TaskMoves
<1>3. Final(Domain!RunMoves) =
          {"completed", "failed", "timed_out", "cancelled", "abandoned"}
  BY DEF Final, Domain!RunMoves
<1> QED BY <1>1, <1>2, <1>3

\* A late, repeated or reordered event revives no cycle, task or run that has
\* ended: only a rebuild does away with it, and only while the instance is
\* blocked.
THEOREM EndsAreFinal == Spec => [][instance.state # "blocked" => FinalRowsStay]_vars
<1>1. ASSUME NEW moves, NEW row, NEW row1, Domain!Follow(moves, row, row1), row \in Final(moves)
      PROVE  row1 = row
  BY <1>1 DEF Domain!Follow, Final
<1>2. TypeOK /\ TypeOK' /\ ReasonIsCurrent /\ [Next]_vars
      => [instance.state # "blocked" => FinalRowsStay]_vars
  <2> SUFFICES ASSUME TablesOK, TablesOK', ReasonIsCurrent, [Next]_vars,
                      instance.state # "blocked"
               PROVE  FinalRowsStay
    BY TypeOKParts DEF TypeOK, TablesOK, BudgetOK
  <2>1. Domain!Step
    BY StepFollows DEF Domain!Rebuild
  <2> QED BY <1>1, <2>1 DEF Domain!Step, FinalRowsStay
<1> QED BY <1>2, TypeAndReason, PTL DEF Spec
=============================================================================
