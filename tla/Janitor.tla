------------------------------ MODULE Janitor ------------------------------
(***************************************************************************)
(* The janitor (app/janitor.rs): one run_cleanup at a time, with its four  *)
(* phases, its transactions, and the directories it removes while a        *)
(* transaction is open; and the disk guard, which blocks the instance when *)
(* space is short and unblocks it with hysteresis.  Around them: workers   *)
(* that create worktrees and finish, other users of the disk, retention    *)
(* times that pass, an operator who resumes the instance, and mishaps: a   *)
(* directory that cannot be removed, a failed `df`, an error or a crash.   *)
(* Space is counted in worktrees.                                          *)
(***************************************************************************)
EXTENDS Integers, FiniteSets, SequencesExt

CONSTANTS Runs,        \* runs, each with a worktree of its own
          MaxOps,      \* max_deletions_per_tick
          Threshold,   \* disk_threshold_bytes
          Recovery,    \* what must be free to unblock: 1.5 times the threshold
          Space,       \* size of the data partition
          OtherUse,    \* the amounts others may use of it
          MaxBacklog,  \* bound: expired artifacts and logs at a time
          MaxMishaps   \* bound: errors, crashes and failed removals

ASSUME JanitorAssumption ==
    /\ IsFiniteSet(Runs) /\ OtherUse \subseteq Nat
    /\ {MaxOps, Threshold, Recovery, Space, MaxBacklog, MaxMishaps} \subseteq Nat
    /\ Threshold <= Recovery

VARIABLES
    working,   \* runs with a worker
    finished,  \* terminal runs, in the order of finished_at
    dirs,      \* the worktrees on disk
    paths,     \* the runs whose worktree_path is not NULL
    expired,   \* the finished runs whose retention time has passed
    others,    \* space in use by others
    backlog,   \* expired artifacts and logs not purged yet
    pc,        \* where run_cleanup is
    ops,       \* its total_operations
    deleted,   \* what it has deleted so far
    batch,     \* the rows its transaction holds, oldest first
    count,     \* how many of them it has dealt with
    recorded,  \* the idempotency keys of WorktreeEvicted in the log
    state,     \* orch_instances.state: "active" or "blocked"
    guard,     \* the event the disk guard is about to emit, or "idle"
    keys,      \* the disk guard's idempotency keys in the log
    mishaps

runRows == <<working, finished, expired>>
cleanup == <<backlog, pc, ops, deleted, batch, count, recorded>>
guarded == <<state, guard, keys>>
vars == <<working, finished, dirs, paths, expired, others, backlog, pc, ops, deleted,
          batch, count, recorded, state, guard, keys, mishaps>>

Kinds == {"artifacts", "logs"}
GuardEvents == {"InstanceBlocked", "InstanceUnblocked"}

TypeOK ==
    /\ working \subseteq Runs /\ dirs \subseteq Runs /\ paths \subseteq Runs
    /\ finished \in Seq(Runs) /\ expired \subseteq ToSet(finished)
    /\ others \in OtherUse
    /\ backlog \in [Kinds -> 0..MaxBacklog]
    /\ pc \in {"idle", "artifacts", "artifactsEvent", "logs", "logsEvent",
               "worktrees", "remove", "removeEvent",
               "disk", "evict", "evictEvent"}
    /\ ops \in 0..MaxOps /\ deleted \in Nat
    /\ batch \in Seq(Runs) /\ count \in 0..Len(batch)
    /\ recorded \subseteq Runs
    /\ state \in {"active", "blocked"}
    /\ guard \in {"idle"} \cup GuardEvents
    /\ keys \subseteq GuardEvents
    /\ mishaps \in 0..MaxMishaps

Init ==
    /\ working = {} /\ finished = <<>> /\ expired = {}
    /\ dirs = {} /\ paths = {}
    /\ others \in OtherUse
    /\ backlog = [k \in Kinds |-> 0]
    /\ pc = "idle" /\ ops = 0 /\ deleted = 0 /\ batch = <<>> /\ count = 0
    /\ recorded = {}
    /\ state = "active" /\ guard = "idle" /\ keys = {}
    /\ mishaps = 0

Free == Space - others - Cardinality(dirs)

Mishap == mishaps < MaxMishaps /\ mishaps' = mishaps + 1

-----------------------------------------------------------------------------
(***************************************************************************)
(* What goes on around the janitor.                                        *)
(***************************************************************************)
\* A run of an active instance starts in a worktree of its own.
Spawn(r) ==
    /\ state = "active"
    /\ r \notin working \cup ToSet(finished)
    /\ working' = working \cup {r}
    /\ dirs' = dirs \cup {r} /\ paths' = paths \cup {r}
    /\ UNCHANGED <<finished, expired, others, cleanup, guarded, mishaps>>

Finish(r) ==
    /\ r \in working
    /\ working' = working \ {r}
    /\ finished' = Append(finished, r)
    /\ UNCHANGED <<dirs, paths, expired, others, cleanup, guarded, mishaps>>

\* The retention times of successful and of failed runs differ: runs expire
\* in any order.
Expire(r) ==
    /\ r \in ToSet(finished) \ expired
    /\ expired' = expired \cup {r}
    /\ UNCHANGED <<working, finished, dirs, paths, others, cleanup, guarded, mishaps>>

Accumulate(k) ==
    /\ backlog["artifacts"] + backlog["logs"] < MaxBacklog
    /\ backlog' = [backlog EXCEPT ![k] = @ + 1]
    /\ UNCHANGED <<runRows, dirs, paths, others, pc, ops, deleted, batch, count, recorded,
                   guarded, mishaps>>

OthersUse ==
    /\ others' \in OtherUse \ {others}
    /\ UNCHANGED <<runRows, dirs, paths, cleanup, guarded, mishaps>>

\* openclaw orch resume: any blocked instance, event and row in one transaction.
Resume ==
    /\ state = "blocked"
    /\ state' = "active"
    /\ UNCHANGED <<runRows, dirs, paths, others, cleanup, guard, keys, mishaps>>

-----------------------------------------------------------------------------
(***************************************************************************)
(* run_cleanup.                                                            *)
(***************************************************************************)
Start ==
    /\ pc = "idle"
    /\ pc' = "artifacts"
    /\ UNCHANGED <<runRows, dirs, paths, others, backlog, ops, deleted, batch, count, recorded,
                   guarded, mishaps>>

\* run_cleanup returns: its counters and rows are gone.
Return == pc' = "idle" /\ ops' = 0 /\ deleted' = 0 /\ batch' = <<>> /\ count' = 0

\* Variant: the phase of the expired worktrees is left out.
AfterSkips(k) == IF k = "artifacts" THEN "logs" ELSE "disk"

After(k) == IF k = "artifacts" THEN "logs" ELSE "worktrees"
EventOf(k) == IF k = "artifacts" THEN "artifactsEvent" ELSE "logsEvent"

\* purge_expired_artifacts and purge_expired_logs: as many rows as the budget
\* allows, tombstoned in one transaction.
Purge(k) ==
    /\ pc = k
    /\ LET left == MaxOps - ops
           n == IF left <= backlog[k] THEN left ELSE backlog[k] IN
       /\ backlog' = [backlog EXCEPT ![k] = @ - n]
       /\ deleted' = deleted + n
       /\ pc' = IF n = 0 THEN After(k) ELSE EventOf(k)
    /\ UNCHANGED <<runRows, dirs, paths, others, ops, batch, count, recorded, guarded, mishaps>>

\* Variant: what was purged is not charged to the budget.
EmitPurgedForgets(k) ==
    /\ pc = EventOf(k)
    /\ pc' = After(k)
    /\ UNCHANGED <<runRows, dirs, paths, others, backlog, ops, deleted, batch, count, recorded,
                   guarded, mishaps>>

\* One event without a key; the counters move only after it is recorded.
EmitPurged(k) ==
    /\ pc = EventOf(k)
    /\ ops' = deleted
    /\ pc' = After(k)
    /\ UNCHANGED <<runRows, dirs, paths, others, backlog, deleted, batch, count, recorded,
                   guarded, mishaps>>

\* ORDER BY finished_at.
Older(q, r) ==
    \E i, j \in DOMAIN finished : i < j /\ finished[i] = q /\ finished[j] = r

\* The oldest rows of a set, as many as the budget has room for (there is one
\* such sequence).
Oldest(rows) ==
    LET left == MaxOps - ops
        n == IF left <= Cardinality(rows) THEN left ELSE Cardinality(rows)
    IN  {b \in [1..n -> rows] :
            /\ \A i, j \in 1..n : i < j => Older(b[i], b[j])
            /\ \A i \in 1..n, r \in rows \ ToSet(b) : Older(b[i], r)}

Select(rows, next) ==
    /\ batch' \in Oldest(rows) \ {<<>>}
    /\ pc' = next
    /\ UNCHANGED <<runRows, dirs, paths, others, backlog, ops, deleted, count, recorded, guarded,
                   mishaps>>

\* No row, or no budget.
NothingToSelect(rows) == rows = {} \/ MaxOps = ops

\* clean_expired_worktrees opens a transaction and locks its rows.
SelectExpired ==
    /\ pc = "worktrees"
    /\ \/ Select(paths \cap expired, "remove")
       \/ /\ NothingToSelect(paths \cap expired)
          /\ pc' = "disk"
          /\ UNCHANGED <<runRows, dirs, paths, others, backlog, ops, deleted, batch, count,
                         recorded, guarded, mishaps>>

\* git worktree remove, for the next row: when it fails the row is treated
\* as cleaned all the same.
RemoveNext ==
    /\ pc = "remove" /\ count < Len(batch)
    /\ count' = count + 1
    /\ deleted' = deleted + 1
    /\ \/ dirs' = dirs \ {batch[count + 1]} /\ UNCHANGED mishaps
       \/ batch[count + 1] \in dirs /\ Mishap /\ UNCHANGED dirs
    /\ UNCHANGED <<runRows, paths, others, backlog, pc, ops, batch, recorded, guarded>>

\* The transaction commits what it did; the events follow it.
CommitPaths(at, next, done) ==
    /\ pc = at
    /\ batch' = done
    /\ paths' = paths \ ToSet(done)
    /\ count' = 0
    /\ pc' = next
    /\ UNCHANGED <<runRows, dirs, others, backlog, ops, deleted, recorded, guarded, mishaps>>

CommitRemoved ==
    /\ count = Len(batch)
    /\ CommitPaths("remove", "removeEvent", batch)

\* Variant: one idempotency key for all the evictions.
RecordEvictedOneKey(at) ==
    /\ pc = at /\ count < Len(batch)
    /\ recorded' = IF recorded = {} THEN {batch[count + 1]} ELSE recorded
    /\ count' = count + 1
    /\ UNCHANGED <<runRows, dirs, paths, others, backlog, pc, ops, deleted, batch, guarded,
                   mishaps>>

\* WorktreeEvicted for each row, under a key of that run.
RecordEvicted(at) ==
    /\ pc = at /\ count < Len(batch)
    /\ recorded' = recorded \cup {batch[count + 1]}
    /\ count' = count + 1
    /\ UNCHANGED <<runRows, dirs, paths, others, backlog, pc, ops, deleted, batch, guarded,
                   mishaps>>

\* Variant: the running total added to itself.
RemoveDoneTwice ==
    /\ pc = "removeEvent" /\ count = Len(batch)
    /\ ops' = ops + deleted
    /\ batch' = <<>> /\ count' = 0
    /\ pc' = "disk"
    /\ UNCHANGED <<runRows, dirs, paths, others, backlog, deleted, recorded, guarded, mishaps>>

\* After the last event the counters move.
RemoveDone ==
    /\ pc = "removeEvent" /\ count = Len(batch)
    /\ ops' = ops + Len(batch)
    /\ batch' = <<>> /\ count' = 0
    /\ pc' = "disk"
    /\ UNCHANGED <<runRows, dirs, paths, others, backlog, deleted, recorded, guarded, mishaps>>

EvictDone ==
    /\ pc = "evictEvent" /\ count = Len(batch)
    /\ Return
    /\ UNCHANGED <<runRows, dirs, paths, others, backlog, recorded, guarded, mishaps>>

\* disk_guard_check(path, false); a failed `df` ends the cleanup.
CheckDisk ==
    /\ pc = "disk"
    /\ \/ /\ Free < Threshold
          /\ Select(paths \cap ToSet(finished), "evict")
       \/ /\ Free >= Threshold \/ NothingToSelect(paths \cap ToSet(finished))
          /\ Return
          /\ UNCHANGED <<runRows, dirs, paths, others, backlog, recorded, guarded, mishaps>>

\* disk_cap_evict_worktrees: space is measured before each removal, and taken
\* for 0 when `df` fails; a removal that fails is ignored.
EvictNext ==
    /\ pc = "evict" /\ count < Len(batch)
    /\ count' = count + 1
    /\ deleted' = deleted + 1
    /\ \/ Free < Threshold /\ dirs' = dirs \ {batch[count + 1]} /\ UNCHANGED mishaps
       \/ Mishap /\ dirs' \in {dirs, dirs \ {batch[count + 1]}}
    /\ UNCHANGED <<runRows, paths, others, backlog, pc, ops, batch, recorded, guarded>>

\* Variant: the rows it did not get to are cleared with the others.
CommitEvictedAll ==
    /\ count = Len(batch) \/ Free >= Threshold
    /\ CommitPaths("evict", "evictEvent", batch)

CommitEvicted ==
    /\ count = Len(batch) \/ Free >= Threshold
    /\ CommitPaths("evict", "evictEvent", SubSeq(batch, 1, count))

\* An error or a crash: the open transaction rolls back, what was removed
\* from the disk stays removed.
Abort ==
    /\ pc # "idle"
    /\ Mishap
    /\ Return
    /\ UNCHANGED <<runRows, dirs, paths, others, backlog, recorded, guarded>>

CleanupStep ==
    \/ \E k \in Kinds : Purge(k) \/ EmitPurged(k)
    \/ SelectExpired \/ RemoveNext \/ CommitRemoved \/ RecordEvicted("removeEvent") \/ RemoveDone
    \/ CheckDisk \/ EvictNext \/ CommitEvicted \/ RecordEvicted("evictEvent") \/ EvictDone

-----------------------------------------------------------------------------
(***************************************************************************)
(* disk_guard_emit_events, called with the instance's present state.       *)
(***************************************************************************)
\* Variant: the blocks df counts taken for twice their size.
GuardCheckWrongUnit ==
    /\ guard = "idle"
    /\ \/ state = "active" /\ 2 * Free < Threshold /\ guard' = "InstanceBlocked"
       \/ state = "blocked" /\ 2 * Free >= Recovery /\ guard' = "InstanceUnblocked"
    /\ UNCHANGED <<runRows, dirs, paths, others, cleanup, state, keys, mishaps>>

GuardCheck ==
    /\ guard = "idle"
    /\ \/ state = "active" /\ Free < Threshold /\ guard' = "InstanceBlocked"
       \/ state = "blocked" /\ Free >= Recovery /\ guard' = "InstanceUnblocked"
    /\ UNCHANGED <<runRows, dirs, paths, others, cleanup, state, keys, mishaps>>

\* Emit, and the projector for what is recorded.  The key of each event is a
\* constant of the instance: a second event of the same type is taken for a
\* repetition of the first, and neither recorded nor projected.
GuardEmit ==
    /\ guard # "idle"
    /\ guard' = "idle"
    /\ keys' = keys \cup {guard}
    /\ state' = IF guard \in keys THEN state
                ELSE IF guard = "InstanceBlocked" THEN "blocked" ELSE "active"
    /\ UNCHANGED <<runRows, dirs, paths, others, cleanup, mishaps>>

GuardFails ==
    /\ guard # "idle"
    /\ Mishap
    /\ guard' = "idle"
    /\ UNCHANGED <<runRows, dirs, paths, others, cleanup, state, keys>>

Next ==
    \/ \E r \in Runs : Spawn(r) \/ Finish(r) \/ Expire(r)
    \/ \E k \in Kinds : Accumulate(k)
    \/ OthersUse \/ Resume
    \/ Start \/ CleanupStep \/ Abort
    \/ GuardCheck \/ GuardEmit \/ GuardFails

\* The janitor and its guard are called again and again, and what they
\* started goes on; nothing else has to happen.
Fairness ==
    /\ WF_vars(Start) /\ WF_vars(CleanupStep)
    /\ WF_vars(GuardCheck) /\ WF_vars(GuardEmit)

Spec == Init /\ [][Next]_vars /\ Fairness

-----------------------------------------------------------------------------
\* max_deletions_per_tick bounds what one cleanup deletes over its four
\* phases, also when disk pressure comes on top of retention.
RateLimited == deleted <= MaxOps

\* A worktree on disk that no row names is never cleaned again.  There are no
\* more of these than removals that failed: a rollback, a crash or a
\* recovered disk in the middle of a batch leaks none.
LeaksAreFailures == Cardinality(dirs \ paths) <= mishaps

\* Every path that was cleared has its WorktreeEvicted in the log, or is
\* about to: only a mishap between the commit and the emit loses one.
EvictionsRecorded ==
    mishaps = 0 => \A r \in ToSet(finished) \ paths :
        \/ r \in recorded
        \/ pc \in {"removeEvent", "evictEvent"} /\ r \in ToSet(batch)

\* What a removal changes in three places agrees: the disk, the rows and the
\* log.
RemovalsAgree == LeaksAreFailures /\ EvictionsRecorded

\* Once nothing new expires, an expired worktree is cleaned in the end: the
\* phases before it do not use up the budget for ever.
ExpiredAreCleaned ==
    <>[][\A k \in Kinds : backlog'[k] <= backlog[k]]_vars =>
        \A r \in Runs : r \in expired /\ r \in paths ~> r \notin paths

\* The first shortage blocks the instance or ends by itself.  (A second one
\* need not: its event has the key of the first.)
FirstShortageBlocks ==
    Free < Threshold /\ "InstanceBlocked" \notin keys
        ~> state = "blocked" \/ Free >= Threshold
=============================================================================
