# A TLA+ model of the openclaw orchestrator and gateway

This directory is a verification development of this repository: of the
autonomous development orchestrator (`crates/openclaw-orchestrator`: domain,
services, Postgres and process adapters; `crates/openclaw-ui`: the server that
runs its loops and its API; the `orch` commands of `crates/openclaw-cli`) and of
the agent turns of the chat gateway (`crates/openclaw-gateway`,
`crates/openclaw-agent`). It holds TLA+ modules translated from that source, TLC
configurations that check them on small instances, and TLAPS proofs that hold
for every instance.

Run a check with `tlc -workers 2 -config X.cfg M`, a proof with `tlapm M.tla`.

## 1. The system

An *instance* is a project that the orchestrator works on. A human asks for a
*cycle* with a prompt; a planner (a Claude process) turns it into *tasks*; the
plan is approved; the scheduler claims tasks, each claim a *run* with a worker
process of its own; the exit of the worker settles run, task and, in the end,
cycle. Everything is recorded in an append-only event log per instance, from
which clients follow along.

    REST API / CLI --emit--> event store --broadcast, NOTIFY--> listener
        |                        ^   ^                             | replay, broadcast
        | inline UPDATEs         |   |                             v
        v                        |   +---- reconciler     dispatcher, WebSocket sessions
     orch_cycles, orch_tasks <---+---- scheduler tick              | PlanRequested
        ^                              | claims                    v
        |                              v                      plan generator
     completion handler <--exit-- worker processes                 | UPDATE orch_cycles

Next to these loops the orchestrator crate holds services that only its tests
call: projectors that write the tables from events under guards, the guarded
calls of `PlannerService`, `Verifier`, `MergeService`, the maintenance service and
the janitor. The inline statements of openclaw-ui do part of their work.

The gateway is a system of its own: each chat message is a tokio task that runs
an agent turn, cancels the turn before it, and may delegate to subagents.

    polling loop --permit--> handler --register--> task_registry <--/cancel
                                | spawns                  ^ unregister
                                v                         |
                             watchdog --token--> agent turn --delegate--> subagents
                                ^-- events --------'                  (own watchdog)

| Component (source) | State | Operations | Interacts through |
|---|---|---|---|
| event store (`infra/event_store.rs`) | `orch_events`, a broadcast channel of 1024 | `emit`, `replay`, `head_seq` | called by all; NOTIFY and broadcast after a commit |
| listener (`infra/event_stream.rs`) | the LISTEN connection | replay on a notification | the broadcast channel |
| dispatcher (`openclaw-ui/dispatch.rs`) | the last 256 event ids | receive, skip, handle | broadcast; starts plan generators |
| plan generator (`dispatch.rs`, `infra/planner.rs`) | a task per request | `plan_ready` or `failed` | `orch_cycles` |
| WebSocket sessions (`routes/ws.rs`) | `last_sent_seq`, a receiver of the channel | subscribe, backfill, live loop, reconnect | broadcast as a wake-up, the log as the source |
| cycle API (`routes/cycles.rs`) | - | `create_cycle`, `approve_plan`, `trigger_merge` | emits, then writes `orch_cycles`, `orch_tasks` |
| CLI (`openclaw-cli` `orch.rs`) | - | cycle approve and cancel; maintenance, resume | a transaction, then NOTIFY |
| scheduler (`app/scheduler.rs`, `app/tick_coordinator.rs`) | `orch_server_capacity` | tick: claim, then spawn | a transaction; the worker manager |
| worker manager (`infra/worker.rs`, `app/worker_service.rs`) | entries in memory and in `worker_state.json` | spawn, reap, reattach, cancel, kill | processes; exit notifications |
| completion handler (`dispatch.rs`) | a queue of exits | `handle_worker_exit` | runs, tasks, capacity, cycles, one statement each |
| reconciler (`app/reconciler.rs`) | - | reattach, report the dead, stale claims | emits |
| state machines (`domain/states.rs`) | - | `transition` for five kinds of entity | called by tests; repeated in the SQL of the projectors |
| projectors, budget ledger (`app/*_projector.rs`) | the projection tables, `orch_budget_ledger` | one guarded statement per event | events; foreign keys between the tables |
| maintenance service (`app/maintenance_service.rs`) | `block_reason`, an advisory lock | enter, exit, drift detection, rebuild | emits; truncates and replays into the projectors |
| planner service (`app/planner.rs`) | - | `request_plan`, `generate_plan`, `approve_plan` | guards are queries over the log; emits |
| verifier (`app/verifier.rs`) | - | run checks, record the verdict | commands, artifacts, emits |
| merge service (`app/merge_service.rs`, `infra/git.rs`) | the working tree | attempt, retry, skip, `check_cycle_completion` | git; guards are queries over the log; emits |
| janitor (`app/janitor.rs`) | - | four clean-up phases, the disk guard | rows under transactions, the file system, `df`, emits |
| gateway (`handler.rs`, `discord_handler.rs`, `main.rs`, `task_registry.rs`, `subagent_registry.rs`) | permits, entries per chat, status per subagent | message, `/cancel`, background delegation | tokens, channels of agent events |
| agent runtime (`openclaw-agent`: `runtime.rs`, `subagent.rs`, `tools/delegate.rs`, `llm/`) | a turn: messages and rounds | LLM call, tool calls, cancellation | the token, the events, the delegate channel |
| REST reads, MCP, core, db, front-end | - | reads, configuration, views | see section 5 |

**Where it is hard.** Nothing but two unique indexes orders concurrent emits; a
tick holds a sequence number in an open transaction; every event arrives twice
or more, and channels overrun; the tables are written by inline statements
without guards, separately from the events they go with, with errors ignored; a
crash can fall between any two of them while worker processes live on;
bookkeeping of slots is a counter moved by different parties. The services look
before they leap: each guard is a query whose answer may be old when it is used,
and what they did (a merge, a removed directory) is recorded only afterwards. In
the gateway any task may hang in an LLM call or panic, and turns of one chat
overlap around a registry with one entry per chat.

**What makes each part correct.** The log: gapless, each key once, an Ok never
about a lost event. Delivery: lost only where loss is announced, repeated only
where it was forgotten; a client sees the wanted events exactly once and in
order, across sessions. Scheduling: no more workers than slots, no slot drifts,
an outcome is the worker's, a cycle ends as its tasks did. Cycles: work only
when approved, an outcome is final, a running cycle ends, a cycle in planning
waits for somebody. Projections: rows move as the state machines say whatever
arrives. Services: a completed cycle is merged, an attempt is closed. Janitor:
no more deletions than allowed, and disk, rows and log agree on them. Gateway:
a live turn can be found and cancelled, a cancelled one begins no other round,
and no LLM keeps anything at work for ever.

The hazards of this code, each at its line, are in `PROJECT.json`.

## 2. Modules

| Module | Models | Role |
|---|---|---|
| `EventLog` | the contract of the `EventStore` port | abstract specification |
| `EventStore` | `PgEventStore::emit` statement by statement, next to the appending transactions of the scheduler and the CLI | implements `EventLog` |
| `EventFeed` | commit, NOTIFY, LISTEN, replay, broadcast | extended by its two receivers |
| `EventDispatcher` | the dispatcher's end of the channel | composes with `EventFeed` |
| `ClientSession` | a client and its sessions | composes with `EventFeed` |
| `Orchestrator` | scheduler tick, worker manager, completion handler, reconciler, crashes | composition of the loops |
| `CycleFlow` | one cycle from its creation to its last task | composition of API, CLI, generator, scheduler, handler |
| `Lifecycle` | `transition()` of the state machines, and tables that follow it | abstract specification |
| `Projections` | the projectors, the scheduler's claim, the truncation of a rebuild, the ledger | implements `Lifecycle` |
| `CycleServices` | `PlannerService`, `Verifier`, `MergeService`, git | composition of the services over one cycle |
| `Janitor` | `run_cleanup`, the disk guard, and what goes on around them | |
| `Gateway` | messages, turns, registries, watchdogs, subagents | composition of gateway and agent |
| `*Proofs` | theorems about the module of that name; `EventDeliveryProofs` about `EventFeed`, `EventDispatcher` and `ClientSession` | |
| `*MC` | constants for TLC | |

**EventStore.** `log` is the set of committed rows of `orch_events` of one
instance; `pending[t]` the rows of an open transaction. A call of `emit` is
`EmitRead` (SELECT MAX), `EmitInsert` (one atomic INSERT with its conflict
clause), `EmitLookup` and `EmitReturn`; an INSERT that finds a row of an open
transaction in its way waits, as Postgres makes it. `Die` and `TxAbort` are
database errors and the end of a process, at any step. The key of a call is given
by the constant `KeyOf`; which key goes with which event is the callers' affair.
`Log == INSTANCE EventLog WITH events <- events, answer <- answer` is the
refinement mapping, where `events` turns the rows into the function from numbers
to events.

**EventFeed, EventDispatcher, ClientSession.** Here an append is one step, which
is what `EventStore` is shown to provide. `notes` is the LISTEN connection,
`relay` the rest of the listener's current replay. A receiver's end of the
broadcast channel is a bounded queue that overwrites its oldest entry. The
dispatcher keeps the ids themselves, and the last `Window` of them in `seen`
(`Remember` pushes the oldest out); for a session a broadcast is only a wake-up,
so its end is a counter. `Restart` empties everything that is in memory.

**Orchestrator.** The tables are functions from tasks (`task`, `run`), a counter
(`activeRuns`) and the state of the one cycle. The request that approves the
cycle runs beside the loops: `ApproveInsert` is one turn of the loop of
`approve_plan`, which begins when the state is `approved` already, and
`ApproveDies` a request that is cut off. A tick is `TickSelect`, then
`TickCommit` or `TickAbort`, then a spawn per claim: `SpawnProcess`, `SpawnRecord`
and `SpawnFailed` with every early return. `Reap` is the task that awaits a
worker (a failed wait is an exit with -1), and `HandlerTake`, `HandlerRun`,
`HandlerTask`, `HandlerCapacity`, `HandlerCount`, `HandlerCycle` are the
statements of `handle_worker_exit`, each of which may fail and be ignored.
`late` is a ghost: the tasks that were inserted when the handler had counted.
`Crash` ends the process and leaves processes, tables and the state file. A run
is identified with its task: a failed task is never scheduled again by this
code, so a task has at most one run.

**CycleFlow.** Only the rows of one cycle, but all their writers: each statement
of `create_cycle`, `approve_plan`, the plan generator, `cycle approve`, `cycle
cancel`, the tick and the end of `handle_worker_exit` is a step of its own, with
the guard it has in the source, which is most often none. A task is named by its
`task_key`, unique in a cycle. `lost` counts the generators whose UPDATE failed
or came before the row it was to update: `create_cycle` emits `PlanRequested`
first and inserts the row afterwards.

**Lifecycle, Projections.** `Lifecycle` has a set of pairs per state machine. In
`Projections` every handler of the five projectors is an action with the states
of its WHERE clause (`CycleUpdates`, `TaskUpdates`, `RunUpdates`: a guard and a
target per event type), the conflict clause of its INSERT and the foreign key it
needs. Any event may arrive at any time and again: the projectors have no memory
of what they applied, and a rebuild delivers the log again. `SchedulerClaims` is
the transaction that writes three of these tables outside any projector,
`Truncate` the start of a rebuild. The ledger's `INSERT ... SELECT` is two steps,
`LedgerRead` of a snapshot and `LedgerInsert`. `charged` and `orderly` are ghosts:
the sum of what was inserted, and whether inserts ever overlapped or came out of
the order of `created_at`. The mapping is `Domain == INSTANCE Lifecycle WITH
instance <- instance.state, ...`.

**CycleServices.** The services keep nothing in memory between calls, so the
state is what they ask: `planLog` and `recorded[t]`, the types of the events of
the cycle and of each task, the tasks themselves, and the repository (`merged`,
and `merging`, the conflict that lies in the working tree). A merge call is
`AttemptMerge` (both guards), `EmitAttempted`, `Checkout`, `GitMerge`, `GitAbort`,
`EmitOutcome`, and back for a retry, without the guards. Two calls in the one
working tree may find the index locked (`Contended`), abort each other's
conflict, or merge next to it. `check_cycle_completion` is two counts and an
emit. `check_instance_active` may answer either way at any time: the instance
enters and leaves maintenance meanwhile. What the model takes of the callers is
in the module's header.

**Janitor.** One `run_cleanup` at a time, phase by phase: the purges, each
a transaction and then an event, the expired worktrees, the check of the disk and
the eviction, whose directories are removed while the transaction that will clear
their paths is open. `ops` is the number the budget is computed from, `deleted`
what was really deleted: the two move at different places. The disk guard has a
check and an emit of its own. Around them are workers that create worktrees and
finish, retention times, other users of the disk, `orch resume`, and `Abort`, an
error or crash at any step.

**Gateway.** A message is a handler `h` with a place in `pc`, and a turn with a
place in `agent`; `registry[c]` is the entry of a chat, `cancelled` the turns
whose token is cancelled. The handler, the turn, its watchdog and a subagent are
tasks of their own, and each may panic (`HandlerPanics`, `AgentPanics`,
`SubPanics`). A handler keeps its permit until its answer is sent (`reply`, then
`Answer`). A subagent in the background is registered (`RegisterSubagent`), says so
in its chat, and only then starts with its watchdog (`StartSubagent`); a
delegation on Discord is one of the tools. `unregister_task` removes by chat key
whatever entry is there: `orphans` remembers whose was taken by somebody else.

## 3. What TLC checks

| Run | Instance | Shows |
|---|---|---|
| `event_store` | 3 emits (2 share a key), a tick and a CLI transaction of up to 2 events | the log's invariants, that an open transaction freezes it, and that `EventStore` implements `EventLog` |
| `event_dispatcher` | 2 emits with one key, 1 command, channel of 2, window of 2, 1 restart | `RepeatsAreApart`, `HandledUnlessMissed` |
| `client_session` | an emit, a command and a tick, a client that wants some of them, channel of 1, 1 broken connection, 1 restart | `ClientStreamExact`, `PublishedReachesClient` |
| `client_session_tick` | the same without faults | *violation* of `TickReachesClient` |
| `orchestrator` | 2 tasks that are inserted one by one, 1 slot, 1 mishap | `WorkersWithinCapacity`, `SlotsAccounted`, `OutcomeIsWorkers`, `CycleFollowsTasks`, `ExitsSettle` |
| `orchestrator_early` | the same without mishaps | *violation* of `CompletedWhenAllEnded` |
| `cycle_flow` | 2 task keys, 2 plans, 2 approvals, 1 CLI command, 2 deliveries | `WorkIsApproved`, `PlanningHasGenerator`, `TaskOutcomeFinal`, `RunningEnds` |
| `cycle_flow_end` | the same | *violation* of `EndIsFinal` |
| `projections` | one cycle, task and run, 2 budget events | `FollowsLifecycle` (the refinement), `ReasonIsCurrent`, `BalanceIsSum` |
| `cycle_services` | 2 tasks, 3 merge calls (2 for one task), 1 retry each, 1 generator, 2 checks of which 1 is required, 1 mishap | `CompletedIsMerged`, `AttemptsClose` |
| `janitor` | 2 runs, a budget of 2, a backlog of 1, threshold 2 and recovery 3 of 5 units of disk, 1 mishap | `RateLimited`, `RemovalsAgree`, `ExpiredAreCleaned`, `FirstShortageBlocks` |
| `gateway` | a chat on each platform, 2 messages, 2 permits, 2 rounds, 1 subagent | `RegistryMatchesTurns`, `NoRoundAfterCancel`, `WorkEnds` |

**Properties that say what is left.** Some of this code's hazards are not
excluded by it. There the property states the exact extent, so that any change
that widens it shows:

- `RepeatsAreApart`: an event is handled again only when as many others as the
  window holds were handled in between.
- `CycleFollowsTasks` excepts the tasks that `approve_plan` inserts when the
  handler has counted (`late`), and nothing else: neither a lost write nor the
  order of exits makes the cycle end otherwise than its tasks did.
- `PlanningHasGenerator`: a cycle stays in planning for nobody only if every
  generator so far was lost, which includes one that was quicker than the INSERT
  of `create_cycle`. It does not say that no cycle is stuck; some are.
- `BalanceIsSum` holds as long as budget events neither overlap nor come out of
  order; without `orderly` the balance is wrong.
- `RegistryMatchesTurns` excepts `orphans`: a turn that was superseded ends after
  its successor has registered, removes the successor's entry
  (`task_registry.rs:44`), and from then on neither `/cancel` nor the next message
  finds the successor. Its watchdog still does.
- `WorkEnds` says what the watchdogs do: no LLM and no sequence of rounds keeps a
  turn or a subagent at work for ever. A tool may, and so may the message
  to the chat that is awaited between the registration of a subagent and its
  watchdog. That permits come back is not among the properties:
  a handler that hangs in a message keeps its own.
- `AttemptsClose`: after an error between a merge and its event the attempt stays
  open until somebody merges the same task again.
- `FirstShortageBlocks` is about the first one: the guard's events have a key per
  instance, so that a second `InstanceBlocked` is a duplicate.

**Bounds, and why they are enough.** Three emits are the least with which two can
race while a third carries the key of the first; two events per transaction let a
transaction see its own first row. A channel of one or two slots overruns with
the three events there are, where the code's holds 1024; a window of two,
for the code's 256, is full when the third event comes, so that the oldest is
pushed out and a replay can bring it back. `RepeatsAreApart` is proved for every
window. Two tasks and one slot make a claim wait for the return of a slot. One
mishap (`MaxMishaps`) is one crash, failed spawn, failed write, failed wait or
failed lookup at any step. `ExitsSettle` holds of what no mishap befell: there the
hazards are requests that are cut off, errors of emits, and false reports of the
reconciler. The rows of a projection table meet only through foreign keys and
the scheduler's claim, which one row of each shows; two budget events are the
least that overlap. Two merge calls of one task can both pass the guard, which
looks at other tasks only; the third, of the other task, is what the guard is
about. Two runs under a budget of two fill one phase of the janitor or leave
something for the next; others use so much of the disk that it is short with two
worktrees, with one, or not at all. Of two messages of one chat the second
supersedes the first, or cancels it, at every step. Nearly every system here may
come to rest, so deadlock is checked for the janitor only.

**Fairness.** The loops of openclaw-ui are `tokio` tasks that never end while the
process lives: the listener, the dispatcher, the session, the tick, the reapers,
the handler and the reconciler are weakly fair; their statements are taken to
return, with a result or an error. Callers and their requests, commands, faults,
crashes and restarts owe nothing, nor do workers in `Orchestrator`. In
`CycleFlow` workers do exit (the subject is what happens then), and a tick
commits in the end although it may lose any number of races: both under strong
fairness, because other steps disable them again and again. A merge call goes on
once it has begun, which assumes that git commands end: `run_git_raw`
(`git.rs:18-54`) waits for them without a limit. Planners owe nothing. The
janitor and its guard are called again and again.

In `Gateway` only what nothing outside the process can hold up is fair: the steps
of an agent between its LLM calls and its tools, the end of a call whose token is
cancelled, the taking up of a delegation, and the watchdogs, which fire by the
wall clock. Tools owe nothing: most have a timeout, but a read to the end of a
process's output (`tools/process.rs:223-232`) and a write to an MCP server
(`mcp_bridge.rs:212`) have none, and a delegation on Discord is a tool that runs
a whole turn. Nor do handlers, as the bots send with clients that have no
timeout (`telegram.rs:128`, `discord.rs:120`), nor the start of a subagent, which
awaits such a message (`handler.rs:317`), nor LLM calls.

**Violations.** Each is a statement of the repository's own that its code does
not keep, quoted in `PROJECT.json`:

- `TickReachesClient`: ARCHITECTURE.md promises a fan-out after every commit, and
  the scheduler's commit has none. A connected client sees a `RunClaimed` only
  when a later event wakes its session.
- `EndIsFinal`: the state machine's tests say that a terminal state rejects every
  trigger. The statements that write `orch_cycles.state` do not look at it: a
  late plan reopens a cycle that was cancelled or had failed.
- `CompletedWhenAllEnded`: ARCHITECTURE.md says that "CycleCompleted requires ALL
  tasks in terminal state". `approve_plan` sets the state before it inserts the
  tasks, and the handler judges those that are there: a cycle is completed with a
  task still scheduled.

Other comments claim more than the code does, without a run of their own:

- `dispatch.rs:26`: events older than the window may be forgotten "because
  duplicates arrive within milliseconds of each other". A repeated key notifies
  its old number, and the listener replays all since then, at any time:
  `RepeatsAreApart` is what remains.
- `tick_coordinator.rs:106`: the reconciler "detects anomalies and repairs state". It
  records events, which change no table, as no projector runs in openclaw-ui: a
  task whose worker never started stays active, its slot taken.
- `watchdog.rs:9` and `:86`: the wall clock "prevents truly runaway tasks", by the look
  at the token "at the next round boundary". A turn whose tools do not return never
  comes to that boundary.
- `planner.rs:73`: the caller of `request_plan` should then invoke `generate_plan`, whose
  guard takes the `PlanRequested` it is to answer for a generation in flight and
  rejects the call. openclaw-ui does not meet it: its dispatcher calls
  `generate_plan_core`, past both guards.

## 4. What TLAPS proves

Every theorem has the form `Spec => []Inv`, or `Spec =>` an action property, a
temporal formula or a specification, for all values of the constants, from the
module's named assumptions:

| Assumption | Says |
|---|---|
| `ConstantsAssumption` of `EventStore` | keys are keys, a batch has at least one event |
| `FeedAssumption` | calls, commands and ticks are different appenders; keys belong to calls; the channel has a place |
| `DispatcherAssumption`, `SessionAssumption` | the window has a place; a filter is a set of events |
| `OrchestratorAssumption` | finitely many tasks, a positive maximum |
| `OrdinalAssumption` of `Orchestrator` | tasks are ordinals (no proof needs it) |
| `CycleAssumption`, `ServicesAssumption`, `GatewayAssumption` | the kinds of the constants; a chat belongs to one platform |
| `TablesAssumption` | foreign keys, an order of the ledger |
| `JanitorAssumption` | finitely many runs, recovery no lower than the threshold |

Any number of mishaps and restarts is allowed. Every safety property and every
action property that a run checks and finds true is stated by one of the
theorems. Of the liveness properties, which the prover cannot reach, five have a
safety half that is a theorem: that what is waited for is never dropped, so that
only its being slow is left to fairness (`NothingIsLost`, `SessionNeverSleeps`,
`RunsAreNotDropped`, `RunningCyclesGoOn`, `AttemptsAreHeld`).

**EventStore** (`EventStoreProofs`). `Gapless` alone is not inductive: an INSERT
uses a number read in an earlier statement, when another writer may have been in
between. `IInv` therefore says what every party holds. With n the last committed
number, the committed rows are numbered exactly 1..n (`Dense`); at most one
transaction has uncommitted rows, and these are n+1..n+m; a number that was read
and not yet used lies in 1..n+1, so that its INSERT either takes the next free
number or meets the unique index. `Keyed` says the same of the idempotency keys,
of a log and of what an open transaction would add to it. `Answered` follows a
call from the row it inserted, or found, to its return. From `IInv` follow
`LogIsGapless`, `KeysAreOnce`, `AnswersAreRecorded`, and the action property
`OpenTxFreezes`. `RefinesEventLog` maps `log` to the function from numbers to
events of `EventLog`: a commit is `Append` (a batch when it is a transaction's),
a return is `Answer`, every other step stutters. The two lemmas it rests on are
that growth above n is appending at the end, and that a returned number is the
position of an event of the call or of its key.

**Orchestrator** (`OrchestratorProofs`). The properties are about counters and
tables written by loops that do not wait for each other, so `IInv` says where
each slot and each exit is:

| Part | Says | Needed because |
|---|---|---|
| `TablesInv` | a task is scheduled as long as it has no run; only a claimed task has a worker | a tick must not claim, nor a spawn start, twice |
| `SlotsInv` | a returned slot is one of a worker that has exited; the counter is within the maximum | otherwise a return could free a slot in use |
| `TickInv` | an open tick has room for what it holds; a claim left to spawn has no worker yet | the count is read before the commit that uses it |
| `ExitsInv` | an exit is with its reaper, in the queue or with the handler, and nowhere twice | the handler decrements without looking whether it already did |
| `ReapersInv` | as long as its reaper waits, no end of a run is recorded | a wait that fails reports an exit that is not the worker's |
| `CycleInv` | what the handler has decided agrees with the tasks it counted | tasks are inserted between its count and its write |

`SlotsDoNotDrift` and `CapacityRespected` follow from `SlotsInv` with the
library's facts on cardinality, `OutcomesAreWorkers` and `CycleEndsWithTasks`
follow from `TablesInv` and `CycleInv`. The proof that a step keeps `IInv` is cut
by part of the invariant and by loop (the request, scheduling, workers,
reconciling, handling), a step per action.

Two theorems are about runs in which nothing failed or crashed (`mishaps = 0`,
which is where `ExitsSettle` has its claim). `RunsAreNotDropped`: between its
claim and the return of its slot a run is always with one party that will go on
with it, the tick, its reaper, the queue or the handler. `CycleIsConcluded`: when
the tasks inserted so far have all ended, the handler of the last exit is never
past its look at the cycle without having ended it. `StepsDone` is what makes them inductive: how much spawn and handler
have done by each step.

**Event delivery** (`EventDeliveryProofs`). Dispatcher and session hang at the
same feed (and share no name but those of the feed, so that one module extends
both), whose facts are proved once (`FeedInv`): numbers of the log are in use
(`NumberedInv`), keys are recorded once (`KeyedInv`), the log only grows at its
end (`LogGrows`). From them `DispatcherIsFedByLog` and `SessionIsFedByLog`: with
either receiver the feed implements `EventLog`, so that what `EventStore` was
shown to provide is what delivery relies on.

- `RepeatsPastWindow` is about eviction: the log is unbounded, the window is not.
  The window is the end of what was handled (`WindowInv`), and two handlings of
  an event are more than `Window` places apart (`FarApart`); the last `Window` of
  the places between them are all different, by the pigeonhole principle as many
  events. Nothing more can be said: a replay brings
  back what was pushed out.
- `NothingIsLost` is the safety half of `HandledUnlessMissed`: in a process that did
  not restart, an event that was announced is handled, overwritten in a full
  channel, or still in a notification, a replay or the channel.
- `StreamIsExact`: what is still to be sent continues the cursor without a hole
  (`OutInv`), and a client that goes off, in whatever state its session was, has
  all that is wanted up to the last number it got, which is where its next
  session begins (`ExactInv`).
- `SessionNeverSleeps` is the safety half of `PublishedReachesClient`: a session
  that is live, with no wake-up pending and the listener at rest, has given its
  client every wanted event that was announced (`Reached`). Nothing is stranded
  until the next event comes, but for commits that announce nothing, which is what
  the run `client_session_tick` shows.

**CycleFlow** (`CycleFlowProofs`). That work is approved needs to know how far
each party has come: an approval that is past its emit, a tick that is open and
a handler that is counting all imply `approved` (`ApprovalsInv`, `TickInv`,
`HandlerInv`). `PlanningHasGenerator` is an equation that only holds while
nobody has written the state, so `DeliveriesInv` keeps the inequality beside it,
and `RowInv` says that the INSERT of `create_cycle` finds no row. That outcomes
are final (`OutcomesAreFinal`) is `TickInv`: what an open tick is about to write
is still scheduled. `RunningCyclesGoOn`, the safety half of `RunningEnds`: a
running cycle has a task that will still exit, or the handler is about to judge
it; the step to look at is the handler's count, which may be older than the exit
of another task, whose own handling then follows.

**Projections** (`ProjectionsProofs`). `RowsFollowLifecycle` is the refinement:
for each table a lemma that guard and target of every event type are a move of
the machine, then a step of the module is a `Step` or a `Rebuild` of
`Lifecycle`, or stutters. `ReasonsAreCurrent` is inductive with the types. For
`OrderlyLedgerBalances` the invariant adds that while all is orderly at most one
insert is under way and what it has read is the last balance; the last entry
exists by the well-foundedness of the order. Three theorems are about all the
tables together. `TablesHangTogether`: rows have their parents and active tasks
a run, wherever a rebuild cuts in. `EndsAreFinal`: no late event revives a row
that has ended, as the machines demand; the writers of openclaw-ui look at no
state, and the run of `EndIsFinal` shows the difference. `NoTaskPasses`: no
projector and no claim takes a task to `verifying`, so that `TaskPassed` finds
none; the tests say as much (`lifecycle_integration.rs:499`) and write that
state themselves. That part of the task machine is therefore not exercised by
`Projections`.

**CycleServices** (`CycleServicesProofs`). `CompletedIsMerged` relates an event
to the repository by way of three others: git's success to the working tree
(`CallsInv`), the record to git's success (`RecordedInv`), the count to the
record (`JudgeInv`). Each is stable, because neither records nor merges are
undone, and this is why the stale counts of `check_cycle_completion` do no harm.
`AttemptsAreHeld`, the safety half of
`AttemptsClose`: an open attempt is in the hands of a call at git or about to
record what git said, unless a call for its task ended in an error.

**Gateway** (`GatewayProofs`). The two halves of `RegistryMatchesTurns` are
inductive together once it is known that a handler which has not registered has
no turn yet and has a chat (`HandlersInv`), and that orphans and cancelled
tokens belong to turns that have begun (`OrphansInv`): so a new turn is neither.
`RoundsInv` bounds the rounds. Steps are cut into those of messages, turns and
subagents. `CancelledTurnsStop` is an action property: only `Round` counts, and
it looks at the token first. `TurnsAreSerial` follows from the registry's one
entry for each chat: two live turns of a chat are one, but for orphans.
`LiveSubsAreKnown` is about the other registry: `cancel_all_for_chat` goes by
the status, which cancels, watchdogs and ends write in any order, and still no
subagent that is registered and works is out of its reach; one that is queued is,
and so a delegation that comes between two cancels.

**Janitor** (`JanitorProofs`). A cleanup keeps its counters in two places, and
what it removes shows in three. `BudgetInv` says for each phase what of
`deleted` is in `ops` already, and that a batch fits into what is left;
`CleanupIsRateLimited` follows, and `ops` in its range. `LostInv` counts the
worktrees that no row will name when the open transaction commits: a failed
removal, a crash or a failed `df` adds one at most, whether the transaction
commits later or rolls back, hence `RemovalsStayInStep` with the library's facts
on cardinality. Its other half is `EventsInv`. `RowsInv` keeps batches apart
from runs at work: from it `WorkIsSafe`, that no directory is taken from under a
worker. `GuardBlocksOnce` is temporal: once the first `InstanceBlocked` is
recorded and the instance is active again, it stays active for ever, however
short the disk is, because the key is a constant. This is why
`FirstShortageBlocks` is about the first one.

**Only model-checked.** Liveness under fairness (`HandledUnlessMissed`,
`PublishedReachesClient`, `ExitsSettle`, `RunningEnds`, `AttemptsClose`,
`ExpiredAreCleaned`, `FirstShortageBlocks`, `WorkEnds`), which is out of this
prover's reach as is ENABLED, and the three violations, which are traces.

## 5. What is not modelled

- One instance. Instances share no rows but the broadcast channel, whose other
  events only fill it sooner. For the loops of openclaw-ui its state is taken to
  be `active`; maintenance meets the projections in `Projections` and the services
  in `CycleServices`.
- The rest of maintenance: the advisory lock (which no other writer takes), drift
  detection, and the `orch maintenance` and `resume` commands, which write
  `orch_instances` with no guard in the WHERE clause and put "Maintenance: ..."
  with details into `block_reason`, where `is_maintenance_mode` looks for the bare
  word. Their appended events are in `EventStore` and `EventFeed`.
- Contents of events, prompts, plans and outputs, beyond what decides a branch;
  costs; log files. Output that is cut
  at a byte count counts as a panic in `Gateway`; the verifier's is left out.
- `RunStarted` and its order with `RunCompleted`; `is_alive`, `cancel` and `kill`
  of the worker manager, which nothing in the source calls.
- The parsing and normalisation of proposals (`infra/planner.rs`,
  `domain/planner.rs`): strings to records, without state. Nothing there checks
  that dependencies are acyclic, so there is no such property.
- Of the merge service: worktree set-up, diff statistics, the choice of a
  conflict's text. Of the janitor: the early return in maintenance mode, which is
  a parameter of the caller.
- Of gateway and agent: what tools do; sessions and their storage; the webhook; the
  debouncer, to which no loop feeds anything; cron; the rate limiter's arithmetic;
  loop detection, which replaces the output of a call by a message; the provider
  fallback, whose circuit breaker never closes again once open. `LlmReplies` and
  `CallTool` let a reply and a call be anything.
- Postgres itself: a statement is atomic (but for the ledger's, whose reading half
  uses a snapshot), a transaction reads committed rows and its own, a unique index
  makes a writer wait for the open one.
- REST reads, MCP server, core and db crates, front-end, configuration,
  authentication, pagination: reads and views, no state the properties could tell
  apart.

## 6. Plan

In order of what matters most; the first four and the last are done.

1. Event store and its abstract log with proofs; delivery to dispatcher and
   clients; the orchestrator's loops; the flow of a cycle.
2. `Lifecycle`, `Projections` and the ledger, with the refinement proved.
3. `CycleServices`, `Janitor`, `Gateway` with the agent's turns.
4. Proofs of the safety properties of all of these.
5. `Instance`: instance states, maintenance enter and exit by service and by CLI,
   resume, the gate of the two ticks, drift detection and rebuild, composed with
   the disk guard; whether the reason that a replay of the log gives is the one in
   the row.
6. `Cron`: the gateway's jobs, their file and missed ticks; the connection of the
   Discord gateway (heartbeats, resume); the provider fallback.
7. The front-end's store over `ClientSession`: debounced refetches that overlap.
8. Proofs of the safety halves of the liveness properties; the cancelling of
   subagents, the worktrees of runs at work, the ends of rows.
