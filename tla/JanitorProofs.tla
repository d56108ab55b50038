---------------------------- MODULE JanitorProofs ----------------------------
(***************************************************************************)
(* Proofs about Janitor, for any runs, budget, sizes and number of         *)
(* mishaps: its type invariant, that one cleanup stays within its budget,  *)
(* that the disk, the rows and the log agree on what was removed, that     *)
(* runs at work keep their worktrees, and that the disk guard blocks an    *)
(* instance once.                                                          *)
(***************************************************************************)
EXTENDS Janitor, FiniteSetTheorems, SequenceTheorems, TLAPS

\* The types, without the bound on total_operations.
Types ==
    /\ working \subseteq Runs /\ dirs \subseteq Runs /\ paths \subseteq Runs
    /\ finished \in Seq(Runs) /\ expired \subseteq ToSet(finished)
    /\ others \in OtherUse
    /\ backlog \in [Kinds -> 0..MaxBacklog]
    /\ ops \in Nat /\ deleted \in Nat
    /\ batch \in Seq(Runs) /\ count \in 0..Len(batch)
    /\ recorded \subseteq Runs
    /\ mishaps \in 0..MaxMishaps

GuardOK ==
    /\ state \in {"active", "blocked"}
    /\ guard \in {"idle"} \cup GuardEvents
    /\ keys \subseteq GuardEvents

\* What was deleted is charged to the budget, or will be by the phase that is
\* under way; rows are held only within a transaction and until their events.
Charged ==
    \/ /\ pc \in {"idle", "artifacts", "logs", "worktrees", "disk"}
       /\ deleted = ops /\ batch = <<>>
       /\ pc = "idle" => ops = 0
    \/ /\ pc \in {"artifactsEvent", "logsEvent"}
       /\ ops <= deleted /\ batch = <<>>
    \/ /\ pc \in {"remove", "evict"}
       /\ deleted = ops + count /\ ops + Len(batch) <= MaxOps
    \/ /\ pc \in {"removeEvent", "evictEvent"}
       /\ deleted = ops + Len(batch)

BudgetInv == Charged /\ deleted <= MaxOps

\* The rows that the open transaction has dealt with.
Dealt == {batch[i] : i \in 1..count}
Uncommitted == IF pc \in {"remove", "evict"} THEN Dealt ELSE {}

\* A run that works has its path and has not finished; the rows of a batch are
\* those of finished runs.
RowsInv ==
    /\ working \subseteq paths /\ working \cap ToSet(finished) = {}
    /\ ToSet(batch) \subseteq ToSet(finished)

\* Worktrees on disk that no row will name when the open transaction commits.
Lost == (dirs \ paths) \cup (dirs \cap Uncommitted)

LostInv == Cardinality(Lost) <= mishaps

\* The events of a batch follow its commit in order.
EventsInv ==
    /\ pc \in {"removeEvent", "evictEvent"} => Dealt \subseteq recorded
    /\ EvictionsRecorded

IInv == Types /\ GuardOK /\ BudgetInv /\ RowsInv /\ LostInv /\ EventsInv

-----------------------------------------------------------------------------
(***************************************************************************)
(* The worktrees that are lost.                                            *)
(***************************************************************************)
\* What is lost are runs, of which there are finitely many.
LEMMA LostFinite == ASSUME Types PROVE IsFiniteSet(Lost) /\ Cardinality(Lost) \in Nat
<1>1. Lost \subseteq Runs
  BY DEF Lost, Types
<1>2. IsFiniteSet(Lost)
  BY <1>1, JanitorAssumption, FS_Subset
<1> QED
  BY <1>2, FS_CardinalityType

\* A step that loses nothing keeps the bound.
LEMMA NothingLost ==
    ASSUME Types, LostInv, Types', Lost' \subseteq Lost, mishaps <= mishaps'
    PROVE  LostInv'
<1>1. Cardinality(Lost') <= Cardinality(Lost) /\ Cardinality(Lost') \in Nat
  BY LostFinite, FS_Subset, FS_CardinalityType
<1> QED
  BY <1>1, LostFinite DEF LostInv, Types

\* A step that loses one worktree keeps the bound when it is a mishap.
LEMMA OneLost ==
    ASSUME Types, LostInv, NEW b, Lost' \subseteq Lost \cup {b}, Mishap
    PROVE  LostInv'
<1>1. /\ IsFiniteSet(Lost \cup {b})
      /\ Cardinality(Lost \cup {b}) \in Nat
      /\ Cardinality(Lost \cup {b}) <= Cardinality(Lost) + 1
  BY LostFinite, FS_AddElement, FS_CardinalityType
<1>2. Cardinality(Lost') <= Cardinality(Lost \cup {b}) /\ Cardinality(Lost') \in Nat
  BY <1>1, FS_Subset, FS_CardinalityType
<1> QED
  BY <1>1, <1>2, LostFinite DEF LostInv, Types, Mishap

\* The rows dealt with are rows of the batch.
LEMMA DealtInBatch == ASSUME Types PROVE Dealt \subseteq ToSet(batch)
BY DEF Dealt, ToSet, Types

\* A batch is non-empty, within the budget, and consists of the given rows.
LEMMA OldestType ==
    ASSUME Types, ops <= MaxOps, NEW rows \in SUBSET Runs, NEW b \in Oldest(rows)
    PROVE  /\ b \in Seq(Runs) /\ ToSet(b) \subseteq rows
           /\ ops + Len(b) <= MaxOps
<1> DEFINE left == MaxOps - ops
           n == IF left <= Cardinality(rows) THEN left ELSE Cardinality(rows)
<1>1. left \in Nat /\ Cardinality(rows) \in Nat
  BY JanitorAssumption, FS_Subset, FS_CardinalityType DEF Types
<1>2. b \in [1..n -> rows] /\ n \in Nat /\ n <= left
  BY <1>1 DEF Oldest
<1> HIDE DEF n
<1>3. b \in Seq(rows) /\ Len(b) = n /\ DOMAIN b = 1..n
  BY <1>2
<1>4. b \in Seq(Runs)
  BY <1>3, SeqMonotonic
<1>5. ToSet(b) \subseteq rows
  BY <1>2, <1>3 DEF ToSet
<1> QED
  BY <1>1, <1>2, <1>3, <1>4, <1>5, JanitorAssumption DEF Types

-----------------------------------------------------------------------------
(***************************************************************************)
(* The steps of a cleanup.                                                 *)
(***************************************************************************)
\* The invariant holds before the first cleanup.
LEMMA InitIInv == Init => IInv
<1> SUFFICES ASSUME Init PROVE IInv
  OBVIOUS
<1>1. <<>> \in Seq(Runs) /\ Len(<<>>) = 0 /\ ToSet(<<>>) = {}
  BY DEF ToSet
<1>2. 0 \in 0..MaxBacklog /\ 0 \in 0..MaxMishaps /\ 0 <= MaxOps
  BY JanitorAssumption
<1>3. Types /\ GuardOK
  BY <1>1, <1>2 DEF Init, Types, GuardOK
<1>4. BudgetInv
  BY <1>2 DEF Init, BudgetInv, Charged
<1>5. RowsInv /\ EventsInv
  BY <1>1 DEF Init, RowsInv, EventsInv, EvictionsRecorded
<1>6. Lost = {}
  BY DEF Init, Lost
<1>7. LostInv
  BY <1>6, FS_EmptySet DEF LostInv, Init
<1> QED
  BY <1>3, <1>4, <1>5, <1>7 DEF IInv

\* A cleanup starts; the purge of a kind of rows moves to its event or to the
\* next phase; its event charges the budget.
LEMMA PurgeKeeps ==
    ASSUME IInv, Start \/ \E k \in Kinds : Purge(k) \/ EmitPurged(k)
    PROVE  IInv'
<1> USE DEF IInv
<1>1. UNCHANGED <<runRows, dirs, paths, others, batch, count, recorded, guarded, mishaps>>
  BY DEF Start, Purge, EmitPurged
<1>2. /\ pc \notin {"remove", "evict", "removeEvent", "evictEvent"}
      /\ pc' \notin {"remove", "evict", "removeEvent", "evictEvent"}
  BY DEF Start, Purge, EmitPurged, EventOf, After, Kinds
<1>3. /\ backlog' \in [Kinds -> 0..MaxBacklog]
      /\ ops' \in Nat /\ deleted' \in Nat
      /\ BudgetInv'
  <2>1. CASE Start
    BY <2>1 DEF Start, BudgetInv, Charged, Types
  <2>2. ASSUME NEW k \in Kinds, Purge(k)
        PROVE  /\ backlog' \in [Kinds -> 0..MaxBacklog]
               /\ ops' \in Nat /\ deleted' \in Nat
               /\ BudgetInv'
    <3> DEFINE left == MaxOps - ops
               n == IF left <= backlog[k] THEN left ELSE backlog[k]
    <3>1. pc = k /\ pc \in {"artifacts", "logs"} /\ deleted = ops /\ batch = <<>>
      BY <2>2 DEF Purge, Kinds, BudgetInv, Charged
    <3>2. left \in Nat /\ n \in Nat /\ n <= left /\ n <= backlog[k]
      BY <3>1, JanitorAssumption DEF Types, BudgetInv
    <3>3. /\ backlog' = [backlog EXCEPT ![k] = @ - n] /\ deleted' = deleted + n
          /\ pc' = IF n = 0 THEN After(k) ELSE EventOf(k)
          /\ ops' = ops
      BY <2>2 DEF Purge
    <3>4. backlog[k] - n \in 0..MaxBacklog
      BY <3>2, JanitorAssumption DEF Types
    <3>5. backlog' \in [Kinds -> 0..MaxBacklog]
      <4> HIDE DEF n
      <4> QED
        BY <3>3, <3>4 DEF Types
    <3>6. deleted' \in Nat /\ deleted' <= MaxOps /\ ops <= deleted'
      <4>1. MaxOps \in Nat /\ ops \in Nat /\ left = MaxOps - ops
        BY JanitorAssumption DEF Types
      <4> HIDE DEF n, left
      <4> QED
        BY <3>1, <3>2, <3>3, <4>1
    <3>7. CASE n = 0
      <4>1. pc' \in {"logs", "worktrees"} /\ deleted' = ops'
        BY <3>1, <3>3, <3>7 DEF After, Types
      <4> QED
        BY <1>1, <3>1, <3>3, <3>5, <3>6, <4>1 DEF BudgetInv, Charged, Types
    <3>8. CASE n # 0
      <4>1. pc' \in {"artifactsEvent", "logsEvent"}
        BY <3>1, <3>3, <3>8 DEF EventOf
      <4> QED
        BY <1>1, <3>1, <3>3, <3>5, <3>6, <4>1 DEF BudgetInv, Charged, Types
    <3> QED
      BY <3>7, <3>8
  <2>3. ASSUME NEW k \in Kinds, EmitPurged(k)
        PROVE  /\ backlog' \in [Kinds -> 0..MaxBacklog]
               /\ ops' \in Nat /\ deleted' \in Nat
               /\ BudgetInv'
    <3>1. pc \in {"artifactsEvent", "logsEvent"} /\ pc' \in {"logs", "worktrees"}
      BY <2>3 DEF EmitPurged, EventOf, After, Kinds
    <3>2. batch = <<>>
      BY <3>1 DEF BudgetInv, Charged
    <3> QED
      BY <2>3, <3>1, <3>2 DEF EmitPurged, BudgetInv, Charged, Types
  <2> QED
    BY <2>1, <2>2, <2>3
<1>4. Types' /\ GuardOK' /\ RowsInv'
  BY <1>1, <1>3 DEF runRows, guarded, Types, GuardOK, RowsInv
<1>5. LostInv'
  <2>1. Uncommitted = {} /\ Uncommitted' = {}
    BY <1>2 DEF Uncommitted
  <2>2. Lost' = Lost /\ mishaps <= mishaps'
    BY <1>1, <2>1 DEF Lost, Types
  <2> QED
    BY <1>4, <2>2, NothingLost
<1>6. EventsInv'
  BY <1>1, <1>2 DEF runRows, EventsInv, EvictionsRecorded
<1> QED
  BY <1>3, <1>4, <1>5, <1>6

\* A phase locks its rows, which are those of finished runs with a path.
LEMMA SelectKeeps ==
    ASSUME IInv, NEW rows \in SUBSET (paths \cap ToSet(finished)),
           pc \in {"worktrees", "disk"}, NEW next \in {"remove", "evict"}, Select(rows, next)
    PROVE  IInv'
<1> USE DEF IInv
<1>1. /\ UNCHANGED <<runRows, dirs, paths, others, backlog, ops, deleted, count, recorded,
                     guarded, mishaps>>
      /\ pc' = next
  BY DEF Select
<1>2. deleted = ops /\ count = 0 /\ ops <= MaxOps
  <2>1. deleted = ops /\ batch = <<>> /\ ops <= MaxOps
    BY DEF BudgetInv, Charged
  <2>2. count \in 0..0
    BY <2>1 DEF Types
  <2> QED
    BY <2>1, <2>2
<1>3. /\ batch' \in Seq(Runs) /\ ToSet(batch') \subseteq rows
      /\ ops + Len(batch') <= MaxOps
  <2>1. rows \in SUBSET Runs /\ batch' \in Oldest(rows)
    BY DEF Select, Types
  <2> QED
    BY <1>2, <2>1, OldestType
<1>4. Types' /\ GuardOK'
  BY <1>1, <1>2, <1>3 DEF runRows, guarded, Types, GuardOK
<1>5. BudgetInv'
  <2>1. deleted' = ops' + count' /\ deleted' <= MaxOps /\ pc' \in {"remove", "evict"}
    BY <1>1, <1>2 DEF Types
  <2> QED
    BY <1>1, <1>3, <2>1 DEF BudgetInv, Charged
<1>6. RowsInv'
  BY <1>1, <1>3 DEF runRows, RowsInv
<1>7. LostInv'
  <2>1. Uncommitted' = {}
    BY <1>1, <1>2 DEF Uncommitted, Dealt
  <2>2. Lost' \subseteq Lost /\ mishaps <= mishaps'
    BY <1>1, <2>1 DEF Lost, Types
  <2> QED
    BY <1>4, <2>2, NothingLost
<1>8. EventsInv'
  BY <1>1 DEF runRows, EventsInv, EvictionsRecorded
<1> QED
  BY <1>4, <1>5, <1>6, <1>7, <1>8

\* A transaction deals with its next row: the worktree is removed, or a
\* failure may have left it there.
LEMMA DealKeeps ==
    ASSUME IInv, pc \in {"remove", "evict"}, count < Len(batch),
           count' = count + 1, deleted' = deleted + 1,
           \/ dirs' = dirs \ {batch[count + 1]} /\ UNCHANGED mishaps
           \/ dirs' \in {dirs, dirs \ {batch[count + 1]}} /\ Mishap,
           UNCHANGED <<runRows, paths, others, backlog, pc, ops, batch, recorded, guarded>>
    PROVE  IInv'
<1> USE DEF IInv
<1> DEFINE b == batch[count + 1]
<1>1. Types' /\ GuardOK'
  BY JanitorAssumption DEF runRows, guarded, Types, GuardOK, Mishap
<1>2. BudgetInv'
  <2>1. deleted = ops + count /\ ops + Len(batch) <= MaxOps
    BY DEF BudgetInv, Charged
  <2>2. ops \in Nat /\ count \in Nat /\ Len(batch) \in Nat /\ MaxOps \in Nat
    BY JanitorAssumption DEF Types
  <2>3. deleted' = ops' + count' /\ deleted' <= MaxOps
    BY <2>1, <2>2
  <2> QED
    BY <2>1, <2>3 DEF BudgetInv, Charged
<1>3. RowsInv'
  BY DEF runRows, RowsInv
<1>4. Uncommitted' = Uncommitted \cup {b}
  BY DEF Uncommitted, Dealt, Types
<1>5. LostInv'
  <2>1. CASE dirs' = dirs \ {b} /\ UNCHANGED mishaps
    <3>1. Lost' \subseteq Lost /\ mishaps <= mishaps'
      BY <1>4, <2>1 DEF Lost, Types
    <3> QED
      BY <1>1, <3>1, NothingLost
  <2>2. CASE dirs' \in {dirs, dirs \ {b}} /\ Mishap
    <3>1. Lost' \subseteq Lost \cup {b}
      BY <1>4, <2>2 DEF Lost
    <3> QED
      BY <2>2, <3>1, OneLost
  <2> QED
    BY <2>1, <2>2
<1>6. EventsInv'
  <2>1. mishaps' = 0 => mishaps = 0
    BY DEF Mishap, Types
  <2>2. UNCHANGED <<finished, paths, recorded, pc, batch>>
    BY DEF runRows
  <2> QED
    BY <2>1, <2>2 DEF EventsInv, EvictionsRecorded
<1> QED
  BY <1>1, <1>2, <1>3, <1>5, <1>6

\* A sequence of the rows dealt with.
ListsDealt(s) == s \in Seq(Runs) /\ Len(s) = count /\ ToSet(s) = Dealt

\* A transaction clears the paths of the rows that it has dealt with.
LEMMA CommitKeeps ==
    ASSUME IInv, pc \in {"remove", "evict"}, pc' \in {"removeEvent", "evictEvent"},
           ListsDealt(batch'), paths' = paths \ ToSet(batch'), count' = 0,
           UNCHANGED <<runRows, dirs, others, backlog, ops, deleted, recorded, guarded, mishaps>>
    PROVE  IInv'
<1> USE DEF IInv
<1>1. /\ batch' \in Seq(Runs) /\ Len(batch') = count /\ ToSet(batch') = Dealt
      /\ paths' = paths \ Dealt
  BY DEF ListsDealt
<1>2. Dealt \subseteq ToSet(finished)
  BY DealtInBatch DEF RowsInv
<1>3. Types' /\ GuardOK'
  <2>1. batch' \in Seq(Runs) /\ Len(batch') = count /\ count \in Nat /\ count' = 0
    BY <1>1 DEF Types
  <2>2. count' \in 0..Len(batch')
    BY <2>1
  <2> QED
    BY <1>1, <2>1, <2>2 DEF runRows, guarded, Types, GuardOK
<1>4. BudgetInv'
  BY <1>1 DEF BudgetInv, Charged
<1>5. RowsInv'
  BY <1>1, <1>2 DEF runRows, RowsInv
<1>6. LostInv'
  <2>1. Uncommitted = Dealt /\ Uncommitted' = {}
    BY <1>1 DEF Uncommitted
  <2>2. Lost' \subseteq Lost /\ mishaps <= mishaps'
    BY <1>1, <2>1 DEF Lost, Types
  <2> QED
    BY <1>3, <2>2, NothingLost
<1>7. EventsInv'
  <2>1. Dealt' = {}
    <3>1. count' = 0
      BY <1>1
    <3> QED
      BY <3>1 DEF Dealt
  <2> QED
    BY <1>1, <2>1 DEF runRows, EventsInv, EvictionsRecorded
<1> QED
  BY <1>3, <1>4, <1>5, <1>6, <1>7

\* The next event of the batch is recorded.
LEMMA RecordKeeps ==
    ASSUME IInv, NEW at \in {"removeEvent", "evictEvent"}, RecordEvicted(at)
    PROVE  IInv'
<1> USE DEF IInv
<1> DEFINE b == batch[count + 1]
<1>1. /\ pc \in {"removeEvent", "evictEvent"} /\ count < Len(batch)
      /\ recorded' = recorded \cup {b} /\ count' = count + 1
      /\ UNCHANGED <<runRows, dirs, paths, others, backlog, pc, ops, deleted, batch, guarded,
                     mishaps>>
  BY DEF RecordEvicted
<1>2. b \in Runs /\ count + 1 \in 0..Len(batch)
  BY <1>1 DEF Types
<1>3. Types' /\ GuardOK'
  BY <1>1, <1>2 DEF runRows, guarded, Types, GuardOK
<1>4. BudgetInv' /\ RowsInv'
  BY <1>1 DEF runRows, BudgetInv, Charged, RowsInv
<1>5. LostInv'
  <2>1. Uncommitted = {} /\ Uncommitted' = {}
    BY <1>1 DEF Uncommitted
  <2>2. Lost' \subseteq Lost /\ mishaps <= mishaps'
    BY <1>1, <2>1 DEF Lost, Types
  <2> QED
    BY <1>3, <2>2, NothingLost
<1>6. EventsInv'
  <2>1. Dealt' = Dealt \cup {b}
    BY <1>1 DEF Dealt, Types
  <2> QED
    BY <1>1, <2>1 DEF runRows, EventsInv, EvictionsRecorded
<1> QED
  BY <1>3, <1>4, <1>5, <1>6

\* After the last event every row of the batch is recorded, and the batch is
\* charged to the budget.
LEMMA DoneKeeps == ASSUME IInv, RemoveDone \/ EvictDone PROVE IInv'
<1> USE DEF IInv
<1>1. /\ pc \in {"removeEvent", "evictEvent"} /\ count = Len(batch)
      /\ batch' = <<>> /\ count' = 0 /\ pc' \in {"disk", "idle"}
      /\ UNCHANGED <<runRows, dirs, paths, others, backlog, recorded, guarded, mishaps>>
  BY DEF RemoveDone, EvictDone, Return
<1>2. deleted = ops + Len(batch) /\ deleted <= MaxOps /\ deleted \in Nat
  BY <1>1 DEF BudgetInv, Charged, Types
<1>3. /\ ops' = deleted' /\ deleted' \in Nat /\ deleted' <= MaxOps
      /\ pc' = "idle" => ops' = 0
  <2>1. MaxOps \in Nat
    BY JanitorAssumption
  <2> QED
    BY <1>2, <2>1 DEF RemoveDone, EvictDone, Return
<1>4. Types' /\ GuardOK' /\ RowsInv'
  <2>1. batch' \in Seq(Runs) /\ count' \in 0..Len(batch') /\ ToSet(batch') = {}
    BY <1>1 DEF ToSet
  <2> QED
    BY <1>1, <1>3, <2>1 DEF runRows, guarded, Types, GuardOK, RowsInv
<1>5. BudgetInv'
  BY <1>1, <1>3 DEF BudgetInv, Charged
<1>6. LostInv'
  <2>1. Uncommitted = {} /\ Uncommitted' = {}
    BY <1>1 DEF Uncommitted
  <2>2. Lost' \subseteq Lost /\ mishaps <= mishaps'
    BY <1>1, <2>1 DEF Lost, Types
  <2> QED
    BY <1>4, <2>2, NothingLost
<1>7. EventsInv'
  <2>1. ToSet(batch) \subseteq recorded
    BY <1>1 DEF EventsInv, Dealt, ToSet, Types
  <2> QED
    BY <1>1, <2>1 DEF runRows, EventsInv, EvictionsRecorded
<1> QED
  BY <1>4, <1>5, <1>6, <1>7

\* A cleanup that ends for want of rows, with its budget used up, or by an
\* error: what was removed in an open transaction stays removed.
LEMMA ReturnKeeps ==
    ASSUME IInv, Return, UNCHANGED <<runRows, dirs, paths, others, backlog, recorded, guarded>>,
           Mishap \/ (pc = "disk" /\ UNCHANGED mishaps)
    PROVE  IInv'
<1> USE DEF IInv
<1>1. /\ pc' = "idle" /\ ops' = 0 /\ deleted' = 0 /\ batch' = <<>> /\ count' = 0
      /\ UNCHANGED <<working, finished, expired, dirs, paths, others, backlog, recorded, state,
                     guard, keys>>
  BY DEF Return, runRows, guarded
<1>2. mishaps <= mishaps' /\ mishaps' \in 0..MaxMishaps /\ mishaps \in Nat
  BY JanitorAssumption DEF Mishap, Types
<1>3. Types' /\ GuardOK' /\ RowsInv'
  <2>1. batch' \in Seq(Runs) /\ count' \in 0..Len(batch') /\ ToSet(batch') = {}
    BY <1>1 DEF ToSet
  <2> QED
    BY <1>1, <1>2, <2>1 DEF Types, GuardOK, RowsInv
<1>4. BudgetInv'
  <2>1. 0 <= MaxOps
    BY JanitorAssumption
  <2> QED
    BY <1>1, <2>1 DEF BudgetInv, Charged
<1>5. LostInv'
  <2>1. Uncommitted' = {}
    BY <1>1 DEF Uncommitted
  <2>2. Lost' \subseteq Lost
    BY <1>1, <2>1 DEF Lost
  <2> QED
    BY <1>2, <1>3, <2>2, NothingLost
<1>6. EventsInv'
  <2>1. CASE Mishap
    <3>1. mishaps' # 0
      BY <2>1 DEF Mishap, Types
    <3> QED
      BY <1>1, <3>1 DEF EventsInv, EvictionsRecorded
  <2>2. CASE pc = "disk" /\ UNCHANGED mishaps
    BY <1>1, <2>2 DEF EventsInv, EvictionsRecorded
  <2> QED
    BY <2>1, <2>2
<1> QED
  BY <1>3, <1>4, <1>5, <1>6

-----------------------------------------------------------------------------
(***************************************************************************)
(* The steps around the cleanup.                                           *)
(***************************************************************************)
\* Runs start, finish and expire: a new run is not in a batch, and one that
\* finishes still has its path.
LEMMA RunsKeep ==
    ASSUME IInv, NEW r \in Runs, Spawn(r) \/ Finish(r) \/ Expire(r)
    PROVE  IInv'
<1> USE DEF IInv
<1>1. UNCHANGED <<others, cleanup, guarded, mishaps>>
  BY DEF Spawn, Finish, Expire
<1>2. BudgetInv' /\ GuardOK' /\ UNCHANGED Dealt
  BY <1>1 DEF cleanup, guarded, BudgetInv, Charged, GuardOK, Dealt
<1>3. CASE Spawn(r)
  <2>1. /\ r \notin working /\ r \notin ToSet(finished)
        /\ working' = working \cup {r} /\ dirs' = dirs \cup {r} /\ paths' = paths \cup {r}
        /\ UNCHANGED <<finished, expired>>
    BY <1>3 DEF Spawn
  <2>2. Types' /\ RowsInv'
    BY <1>1, <2>1 DEF cleanup, Types, RowsInv
  <2>3. LostInv'
    <3>1. r \notin Uncommitted /\ Uncommitted' = Uncommitted
      BY <1>1, <1>2, <2>1, DealtInBatch DEF cleanup, Uncommitted, RowsInv
    <3>2. Lost' \subseteq Lost /\ mishaps <= mishaps'
      BY <1>1, <2>1, <3>1 DEF Lost, Types
    <3> QED
      BY <2>2, <3>2, NothingLost
  <2>4. EventsInv'
    BY <1>1, <1>2, <2>1 DEF cleanup, EventsInv, EvictionsRecorded
  <2> QED
    BY <1>2, <2>2, <2>3, <2>4
<1>4. CASE Finish(r)
  <2>1. /\ r \in working /\ working' = working \ {r} /\ finished' = Append(finished, r)
        /\ UNCHANGED <<dirs, paths, expired>>
    BY <1>4 DEF Finish
  <2>2. finished' \in Seq(Runs) /\ ToSet(finished') = ToSet(finished) \cup {r}
    <3>1. /\ finished' \in Seq(Runs) /\ Len(finished') = Len(finished) + 1
          /\ \A i \in 1..Len(finished) : finished'[i] = finished[i]
          /\ finished'[Len(finished) + 1] = r
      BY <2>1, AppendProperties DEF Types
    <3>2. /\ DOMAIN finished = 1..Len(finished) /\ Len(finished) \in Nat
          /\ DOMAIN finished' = 1..(Len(finished) + 1)
      BY <3>1 DEF Types
    <3> QED
      BY <3>1, <3>2 DEF ToSet
  <2>3. Types' /\ RowsInv'
    BY <1>1, <2>1, <2>2 DEF cleanup, Types, RowsInv
  <2>4. LostInv'
    <3>1. Lost' \subseteq Lost /\ mishaps <= mishaps'
      BY <1>1, <1>2, <2>1 DEF cleanup, Lost, Uncommitted, Types
    <3> QED
      BY <2>3, <3>1, NothingLost
  <2>5. EventsInv'
    <3>1. r \in paths
      BY <2>1 DEF RowsInv
    <3> QED
      BY <1>1, <1>2, <2>1, <2>2, <3>1 DEF cleanup, EventsInv, EvictionsRecorded
  <2> QED
    BY <1>2, <2>3, <2>4, <2>5
<1>5. CASE Expire(r)
  <2>1. /\ r \in ToSet(finished) /\ expired' = expired \cup {r}
        /\ UNCHANGED <<working, finished, dirs, paths>>
    BY <1>5 DEF Expire
  <2>2. Types' /\ RowsInv'
    BY <1>1, <2>1 DEF cleanup, Types, RowsInv
  <2>3. LostInv'
    <3>1. Lost' \subseteq Lost /\ mishaps <= mishaps'
      BY <1>1, <1>2, <2>1 DEF cleanup, Lost, Uncommitted, Types
    <3> QED
      BY <2>2, <3>1, NothingLost
  <2>4. EventsInv'
    BY <1>1, <1>2, <2>1 DEF cleanup, EventsInv, EvictionsRecorded
  <2> QED
    BY <1>2, <2>2, <2>3, <2>4
<1> QED
  BY <1>3, <1>4, <1>5

\* Backlog, other users of the disk, the operator and the disk guard touch
\* nothing that the cleanup has removed or holds.
LEMMA OthersKeep ==
    ASSUME IInv,
           \/ \E k \in Kinds : Accumulate(k)
           \/ OthersUse \/ Resume \/ GuardCheck \/ GuardEmit \/ GuardFails
           \/ UNCHANGED vars
    PROVE  IInv'
<1> USE DEF IInv
<1>1. /\ UNCHANGED <<working, finished, expired, dirs, paths, pc, ops, deleted, batch, count,
                     recorded>>
      /\ UNCHANGED mishaps \/ Mishap
  <2>1. ASSUME NEW k \in Kinds, Accumulate(k)
        PROVE  UNCHANGED <<runRows, dirs, paths, pc, ops, deleted, batch, count, recorded, mishaps>>
    BY <2>1 DEF Accumulate
  <2>2. CASE OthersUse \/ Resume \/ GuardCheck \/ GuardEmit \/ GuardFails \/ UNCHANGED vars
    <3>1. /\ UNCHANGED <<runRows, dirs, paths, pc, ops, deleted, batch, count, recorded>>
          /\ UNCHANGED mishaps \/ Mishap
      BY <2>2 DEF OthersUse, Resume, GuardCheck, GuardEmit, GuardFails, vars, cleanup, runRows
    <3> QED
      BY <3>1 DEF runRows
  <2> QED
    BY <2>1, <2>2 DEF runRows
<1>2. mishaps <= mishaps' /\ mishaps' \in 0..MaxMishaps /\ (mishaps' = 0 => mishaps = 0)
  BY <1>1, JanitorAssumption DEF Types, Mishap
<1>3. backlog' \in [Kinds -> 0..MaxBacklog]
  <2>1. CASE UNCHANGED backlog
    BY <2>1 DEF Types
  <2>2. ASSUME NEW k \in Kinds, Accumulate(k) PROVE backlog' \in [Kinds -> 0..MaxBacklog]
    <3>1. /\ backlog["artifacts"] \in 0..MaxBacklog /\ backlog["logs"] \in 0..MaxBacklog
          /\ backlog["artifacts"] + backlog["logs"] < MaxBacklog
          /\ k \in {"artifacts", "logs"} /\ MaxBacklog \in Nat
      BY <2>2, JanitorAssumption DEF Accumulate, Types, Kinds
    <3>2. backlog[k] + 1 \in 0..MaxBacklog
      BY <3>1
    <3> QED
      BY <2>2, <3>2 DEF Accumulate, Types
  <2> QED
    BY <2>1, <2>2 DEF OthersUse, Resume, GuardCheck, GuardEmit, GuardFails, vars, cleanup
<1>4. others' \in OtherUse
  BY DEF Accumulate, OthersUse, Resume, GuardCheck, GuardEmit, GuardFails, vars, Types
<1>5. GuardOK'
  BY DEF Accumulate, OthersUse, Resume, GuardCheck, GuardEmit, GuardFails, vars, guarded, GuardOK,
         GuardEvents
<1>6. Types'
  BY <1>1, <1>2, <1>3, <1>4 DEF Types
<1>7. BudgetInv' /\ RowsInv' /\ UNCHANGED Dealt
  BY <1>1 DEF BudgetInv, Charged, RowsInv, Dealt
<1>8. LostInv'
  <2>1. Lost' \subseteq Lost
    BY <1>1, <1>7 DEF Lost, Uncommitted
  <2> QED
    BY <1>2, <1>6, <2>1, NothingLost
<1>9. EventsInv'
  BY <1>1, <1>2, <1>7 DEF EventsInv, EvictionsRecorded
<1> QED
  BY <1>5, <1>6, <1>7, <1>8, <1>9

-----------------------------------------------------------------------------
\* The rows dealt with, as the sequence that the commit takes.
LEMMA FirstRowsAreDealt ==
    ASSUME Types
    PROVE  /\ ListsDealt(SubSeq(batch, 1, count))
           /\ count = Len(batch) => ListsDealt(batch)
<1> DEFINE s == SubSeq(batch, 1, count)
<1>1. count \in Nat /\ count <= Len(batch) /\ batch \in Seq(Runs)
  BY DEF Types
<1>2. /\ s \in Seq(Runs) /\ Len(s) = count
      /\ \A i \in 1..count : s[i] = batch[i]
  <2>1. \A i \in 1..count : batch[i] \in Runs
    BY <1>1
  <2>2. /\ s \in Seq(Runs) /\ Len(s) = IF 1 <= count THEN count - 1 + 1 ELSE 0
        /\ \A i \in 1..(count - 1 + 1) : s[i] = batch[1 + i - 1]
    BY <1>1, <2>1, SubSeqProperties
  <2> HIDE DEF s
  <2> QED
    BY <1>1, <2>2
<1>3. ListsDealt(s)
  <2> HIDE DEF s
  <2> QED
    BY <1>2 DEF ListsDealt, ToSet, Dealt
<1>4. count = Len(batch) => ListsDealt(batch)
  BY <1>1 DEF ListsDealt, ToSet, Dealt
<1> QED
  BY <1>3, <1>4

\* Every step keeps the invariant.
LEMMA NextIInv == IInv /\ [Next]_vars => IInv'
<1> SUFFICES ASSUME IInv, [Next]_vars PROVE IInv'
  OBVIOUS
<1>1. CASE \E r \in Runs : Spawn(r) \/ Finish(r) \/ Expire(r)
  BY <1>1, RunsKeep
<1>2. CASE \/ \E k \in Kinds : Accumulate(k)
           \/ OthersUse \/ Resume \/ GuardCheck \/ GuardEmit \/ GuardFails
           \/ UNCHANGED vars
  BY <1>2, OthersKeep
<1>3. CASE Start \/ \E k \in Kinds : Purge(k) \/ EmitPurged(k)
  BY <1>3, PurgeKeeps
<1>4. CASE SelectExpired
  <2>1. CASE Select(paths \cap expired, "remove")
    <3>1. paths \cap expired \in SUBSET (paths \cap ToSet(finished))
      BY DEF IInv, Types
    <3> QED
      BY <1>4, <2>1, <3>1, SelectKeeps DEF SelectExpired
  <2>2. CASE /\ pc' = "disk"
             /\ UNCHANGED <<runRows, dirs, paths, others, backlog, ops, deleted, batch, count,
                            recorded, guarded, mishaps>>
    <3>1. pc = "worktrees"
      BY <1>4 DEF SelectExpired
    <3>2. Types' /\ GuardOK' /\ BudgetInv' /\ RowsInv'
      BY <2>2, <3>1 DEF runRows, guarded, IInv, Types, GuardOK, BudgetInv, Charged, RowsInv
    <3>3. LostInv'
      <4>1. Uncommitted = {} /\ Uncommitted' = {}
        BY <2>2, <3>1 DEF Uncommitted
      <4>2. Lost' \subseteq Lost /\ mishaps <= mishaps'
        BY <2>2, <4>1 DEF Lost, IInv, Types
      <4> QED
        BY <3>2, <4>2, NothingLost DEF IInv
    <3>4. EventsInv'
      BY <2>2, <3>1 DEF runRows, IInv, EventsInv, EvictionsRecorded
    <3> QED
      BY <3>2, <3>3, <3>4 DEF IInv
  <2> QED
    BY <1>4, <2>1, <2>2 DEF SelectExpired
<1>5. CASE RemoveNext \/ EvictNext
  BY <1>5, DealKeeps DEF RemoveNext, EvictNext
<1>6. CASE CommitRemoved \/ CommitEvicted
  BY <1>6, FirstRowsAreDealt, CommitKeeps DEF CommitRemoved, CommitEvicted, CommitPaths, IInv
<1>7. CASE RecordEvicted("removeEvent") \/ RecordEvicted("evictEvent")
  BY <1>7, RecordKeeps
<1>8. CASE RemoveDone \/ EvictDone
  BY <1>8, DoneKeeps
<1>9. CASE CheckDisk
  <2>1. CASE Select(paths \cap ToSet(finished), "evict")
    BY <1>9, <2>1, SelectKeeps DEF CheckDisk
  <2>2. CASE /\ Return
             /\ UNCHANGED <<runRows, dirs, paths, others, backlog, recorded, guarded, mishaps>>
    BY <1>9, <2>2, ReturnKeeps DEF CheckDisk
  <2> QED
    BY <1>9, <2>1, <2>2 DEF CheckDisk
<1>10. CASE Abort
  <2>1. /\ Return /\ Mishap
        /\ UNCHANGED <<runRows, dirs, paths, others, backlog, recorded, guarded>>
    BY <1>10 DEF Abort
  <2> QED
    BY <2>1, ReturnKeeps
<1> QED
  BY <1>1, <1>2, <1>3, <1>4, <1>5, <1>6, <1>7, <1>8, <1>9, <1>10 DEF Next, CleanupStep

\* IInv holds in every reachable state.
THEOREM Invariance == Spec => []IInv
BY InitIInv, NextIInv, PTL DEF Spec

\* Every reachable state is type correct: counters and rows stay within the
\* budget, and a batch within what was selected.
THEOREM TypeCorrect == Spec => []TypeOK
<1>1. IInv => TypeOK
  <2> SUFFICES ASSUME IInv PROVE TypeOK
    OBVIOUS
  <2>1. pc \in {"idle", "artifacts", "artifactsEvent", "logs", "logsEvent", "worktrees", "remove",
                "removeEvent", "disk", "evict", "evictEvent"}
    BY DEF IInv, BudgetInv, Charged
  <2>2. ops \in 0..MaxOps
    <3>1. /\ MaxOps \in Nat /\ ops \in Nat /\ count \in Nat /\ Len(batch) \in Nat
          /\ deleted <= MaxOps
      BY JanitorAssumption DEF IInv, Types, BudgetInv
    <3>2. deleted = ops \/ ops <= deleted \/ deleted = ops + count \/ deleted = ops + Len(batch)
      BY DEF IInv, BudgetInv, Charged
    <3> QED
      BY <3>1, <3>2 DEF IInv, Types
  <2> QED
    BY <2>1, <2>2 DEF IInv, Types, GuardOK, TypeOK
<1> QED
  BY <1>1, Invariance, PTL

\* Over its four phases one cleanup deletes no more than max_deletions_per_tick.
THEOREM CleanupIsRateLimited == Spec => []RateLimited
<1>1. IInv => RateLimited
  BY DEF IInv, BudgetInv, RateLimited
<1> QED
  BY <1>1, Invariance, PTL

\* Every worktree that no row names any more is one whose removal failed, or
\* was cut off, and every cleared path has its event in the log but for
\* mishaps.
THEOREM RemovalsStayInStep == Spec => []RemovalsAgree
<1>1. IInv => RemovalsAgree
  <2> SUFFICES ASSUME IInv PROVE RemovalsAgree
    OBVIOUS
  <2>1. Cardinality(dirs \ paths) <= Cardinality(Lost) /\ Cardinality(dirs \ paths) \in Nat
    BY LostFinite, FS_Subset, FS_CardinalityType DEF IInv, Lost
  <2>2. LeaksAreFailures
    BY <2>1, LostFinite DEF IInv, Types, LostInv, LeaksAreFailures
  <2> QED
    BY <2>2 DEF IInv, EventsInv, RemovalsAgree
<1> QED
  BY <1>1, Invariance, PTL

-----------------------------------------------------------------------------
\* The log holds one InstanceBlocked of the disk guard at most: after it, and
\* once the instance is active again, no shortage blocks it any more.
NeverBlocksAgain == [](("InstanceBlocked" \in keys /\ state = "active")
                        => [](state = "active"))

\* What disk_guard_emit_events cannot do: its key is a constant of the
\* instance, so that the second event of a type is taken for the first.
THEOREM GuardBlocksOnce == Spec => NeverBlocksAgain
<1> DEFINE A == "InstanceBlocked" \in keys /\ state = "active"
<1>1. IInv /\ A /\ [Next]_vars => A'
  <2> SUFFICES ASSUME IInv, A, [Next]_vars PROVE A'
    OBVIOUS
  <2>1. CASE GuardEmit
    BY <2>1, Zenon DEF GuardEmit
  <2>2. CASE UNCHANGED keys /\ (UNCHANGED state \/ state' = "active")
    BY <2>2, Zenon
  <2>3. GuardEmit \/ (UNCHANGED keys /\ (UNCHANGED state \/ state' = "active"))
    BY DEF Next, vars, guarded, Spawn, Finish, Expire, Accumulate, OthersUse, Resume, Start, Abort,
           GuardCheck, GuardFails, CleanupStep, Purge, EmitPurged, SelectExpired, Select,
           RemoveNext, CommitRemoved, CommitEvicted, CommitPaths, RecordEvicted, RemoveDone,
           CheckDisk, EvictNext, EvictDone
  <2> QED
    BY <2>1, <2>2, <2>3
<1>2. A => state = "active"
  OBVIOUS
<1> HIDE DEF A
<1>3. Spec => [](A => [](state = "active"))
  BY <1>1, <1>2, Invariance, PTL DEF Spec
<1> QED
  BY <1>3 DEF A, NeverBlocksAgain

-----------------------------------------------------------------------------
\* A run at work has its worktree, on the disk and in its row.
WorkKeepsItsTree == working \subseteq dirs \cap paths

\* The phases of a cleanup select among finished runs and remove directories
\* while the transaction is open, and workers start and finish in between: no
\* directory is taken from under a worker, by retention or by disk pressure.
THEOREM WorkIsSafe == Spec => []WorkKeepsItsTree
<1>1. Init => working \subseteq dirs
  BY DEF Init
<1>2. IInv /\ working \subseteq dirs /\ [Next]_vars => (working \subseteq dirs)'
  <2> SUFFICES ASSUME IInv, working \subseteq dirs, [Next]_vars PROVE (working \subseteq dirs)'
    OBVIOUS
  <2>1. ASSUME NEW r \in Runs, Spawn(r) \/ Finish(r) \/ Expire(r)
        PROVE  (working \subseteq dirs)'
    BY <2>1 DEF Spawn, Finish, Expire
  <2>2. CASE RemoveNext \/ EvictNext
    <3>1. working' = working /\ count < Len(batch)
      BY <2>2 DEF RemoveNext, EvictNext, runRows
    <3>2. batch[count + 1] \notin working
      <4>1. count + 1 \in DOMAIN batch
        BY <3>1 DEF IInv, Types
      <4> QED
        BY <4>1 DEF IInv, RowsInv, ToSet
    <3>3. dirs' = dirs \/ dirs' = dirs \ {batch[count + 1]}
      BY <2>2 DEF RemoveNext, EvictNext
    <3> QED
      BY <3>1, <3>2, <3>3
  <2>3. CASE UNCHANGED <<working, dirs>>
    BY <2>3
  <2>4. \/ \E r \in Runs : Spawn(r) \/ Finish(r) \/ Expire(r)
        \/ RemoveNext \/ EvictNext \/ UNCHANGED <<working, dirs>>
    BY DEF Next, vars, runRows, Accumulate, OthersUse, Resume, Start, Abort, GuardCheck, GuardEmit,
           GuardFails, CleanupStep, Purge, EmitPurged, SelectExpired, Select, CommitRemoved,
           CommitEvicted, CommitPaths, RecordEvicted, RemoveDone, CheckDisk, EvictDone
  <2> QED
    BY <2>1, <2>2, <2>3, <2>4
<1>3. IInv /\ working \subseteq dirs => WorkKeepsItsTree
  BY DEF IInv, RowsInv, WorkKeepsItsTree
<1> QED
  BY <1>1, <1>2, <1>3, Invariance, PTL DEF Spec
=============================================================================
