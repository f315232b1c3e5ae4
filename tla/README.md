# TLA+ models of logos-fs

logos-fs is a kernel (Rust, tokio) that serves everything an agent runtime
needs behind `logos://` URIs over gRPC: memory, tasks, sandboxes, tools, users,
services. Requests run concurrently on a multi-threaded runtime; state lives in
SQLite databases, in a LanceDB database, in files and in maps behind locks.
The models say what happens when its handlers interleave between two
statements or two awaits, fail half way, or are cut short by a restart.

Paths below are relative to `src/crates/`.

## Inventory

| component | state | operations | interacts with | hard behaviour | what makes it correct | modelled in |
|---|---|---|---|---|---|---|
| task table, `system.complete` (`logos-system/src/{tasks,complete,lib}.rs`) | SQLite `tasks`: status, plan_todo, plan_parent | create, delete, transition_status, set_plan_todo; `complete::execute` strings up to eight of them together | called by the `system.complete` tool, by `logos://system/tasks`, by the dispatcher; creates anchors | each statement commits by itself; calls run concurrently; every statement can fail; the process may stop between two | the life cycle of a task; a checked transition is the one made; a reported success is real | `TaskSystem` |
| plan dispatcher (`logos-kernel/src/cron.rs`) | none (a snapshot per tick) | tick, tick_plans | reads and writes the task table | works on a stale snapshot beside the calls; pop and insert are separate | steps dispatched in order, at most once, none lost; sleeping plans move on | `TaskSystem` |
| cron jobs, scheduler loop (`logos-kernel/src/{cron,consolidator}.rs`) | a map of jobs, an interval | add, remove, tick, fire | creates tasks | nothing records what was fired; ticks that catch up; restarts | every due fires once | `Scheduler` |
| descriptions, anchors, search (`logos-system/src/{tasks,anchors,search}.rs`) | columns of `tasks`, `anchors`, two FTS5 tables joined by rowid | create, describe, patch, delete, create anchor with marks, search | written by `complete` and by `logos://system` | two statements per write whose errors are ignored; rowids are reused; read-modify-write of facts | what is stored is found; one current anchor, no cycles | `SearchIndex` |
| session store (`logos-session/src/lib.rs`) | maps L0, L1 and msg_index behind a mutex; LanceDB tables `sessions`, `msg_index` | observe, get_session_for_msg, get_session, get_active_session | told of every message by the message store | the mutex is released around every L2 operation; failures, dropped calls, restarts | reply chains stay together and apart from others; capacity; index agrees with the layers | `SessionStore` |
| message store (`logos-mm/src/{lib,messages,views}.rs`) | one SQLite database per chat, with FTS | insert, get, search, range fetch, views | calls observe | insert and FTS in two statements, then observe; ids that callers choose; paging beside insertions | the archive only grows; what is acknowledged is found; pages miss nothing | `MemoryModule` |
| summaries, graph (`logos-mm/src/{summaries,graph,plugin}.rs`) | tables per chat | read, write, patch | consolidator jobs | read-modify-write; a write of several triples; late summaries | the latest summary never goes back; a graph write is complete | `MemoryModule` |
| tokens, handshake (`logos-kernel/src/{token,grpc}.rs`) | maps of pending tokens and sessions | register, revoke, handshake, resolve, expiry | every request | await between removal and insertion | a token is used once; a session is that of its token | `Gateway` |
| sandbox (`logos-kernel/src/sandbox.rs`) | map of containers, containerd or host directories | ensure, exec, read, write, patch | tools | check and insert under separate locks | the files the kernel writes are those of the running container | `Gateway` |
| process calls (`logos-kernel/src/{proc,proc_store}.rs`) | a slot per tool and call_id; an input file per external tool | submit, logos_call, read output, expiry of slots | tools, sandbox | calls share the input file; output is removed when read; callers go away | a caller gets the result of its own params, once | `ProcCalls` |
| users, services, external tools (`logos-kernel/src/{users,services,proc_store}.rs`) | files; the registry map | read, write, append to persona/short, patch, register, update; restore at boot | consolidator, boot | read-modify-write of a file; a write is truncate, then fill; restarts in between | no entry is lost; what is declared comes back | `FileStores` |
| VFS (`logos-vfs/src/*`) | routing table | route, middleware, deep merge | everything | pure | a patch changes what it names | `FileStores` (merge) |
| builtin tools, boot (`logos-kernel/src/{builtin_tools,main}.rs`) | none | single calls; straight-line start | everything | | | the restarts of each module, `Call` of `TaskSystem` |
| tmp, devices, web tools, context injection, MCP bridge | maps or none | single steps, pure I/O | | | | not modelled |

The hazards of this code, each at its line, are the `hazards` of `PROJECT.json`.

## Plan

Order: the most important shared state first.

1. `TaskLifecycle` (abstract), `TaskSystem` (tasks + complete + dispatcher + anchors'
   insert), `MCTaskSystem`, `TaskSystemProofs`. Done.
2. `SessionClusters` (abstract), `SessionStore`, `MCSessionStore`,
   `SessionStoreProofs`. Done.
3. `Gateway` (tokens, handshake, exec, sandbox containers), `MCGateway`,
   `GatewayProofs`. Done.
4. `MemoryModule` (messages, their index, summaries, graph), `MCMemoryModule`,
   `MemoryProofs`. Done.
5. `ProcCalls` (slots, logos_call, the shared input file, both executors),
   `MCProcCalls`, `ProcCallsProofs`. Done.
6. `Scheduler` (the loop, its interval, jobs, restarts) with `SchedulerProofs`;
   `SearchIndex` (descriptions, anchors, both full-text tables) with
   `SearchIndexProofs`; `FileStores` (users, service registry, external tools,
   restore at boot) with `FileStoresProofs`. Done.

Left, if the project grows: the routing of the VFS as an operator.

Every module is one component with its own state. They are tied together at the
points where the code ties them: `SearchIndex.Activate` and `Discard` are the
statements of `TaskSystem` that its index depends on, `MemoryModule.observed` is
what `SessionStore` is told, `Scheduler` ends each tick with the visit of the plans
that `TaskSystem` models, and `FileStores` declares the tools that `ProcCalls` calls.

| run | kind | properties |
|---|---|---|
| `TaskSystem_Completion`, `TaskSystem_Drain` | pass | `TypeOK`, `CheckStillHolds`, `DispatchInOrder`, `LifecycleSpec`, `SuccessIsReal`; `PlanMoves`, `StepsConserved` |
| `TaskSystem_OneExecutor` | violation | `OneExecutorPerPlanner` |
| `SessionStore_Layers`, `SessionStore_Overlap` | pass | `TypeOK`, `Retrievable`, `ClustersSpec`; `WithinCapacity`, `IndexLive`, `CopiesAgree`, `ChainsApart`, `HeldBinding` |
| `Gateway_Sessions` | pass | `TypeOK`, `SessionScoped`, `OneTime`, `MappedIsEnsured`, `HostPathLive`, `Recovers` |
| `Gateway_Overlap` | violation | `HostPathIsUpperdir` |
| `Memory_Stores` | pass | `TypeOK`, `AppendOnly`, `SearchSound`, `AckedIsComplete`, `PagesMissNothing`, `LatestMovesForward` |
| `Scheduler_Ticks` | pass | `AtMostOnce`, `NoneMissed` |
| `SearchIndex_Calls` | pass | `Found`, `SearchWorks`, `PatchKeepsDescription`, `SupersededByLater`, `SupersededStays` |
| `ProcCalls_Slots` | pass | `OwnResult`, `DeliveredOnce`, `ResultKept` |
| `FileStores_Writes` | pass | `EntriesKept`, `FieldsKept`, `DeclaredComesBack` |

The type invariants of the last four modules are proved (`TypeCorrect` in each
proof module) rather than listed in their runs.

Where a claim only holds on one side of a discipline that the code does not
enforce, the discipline is a constant (`OneCallPerTask`, `OneAtATime`) or a
history variable (`outdated`, `overlapped`, `orphaned`, `disturbed`, `early`, `late`)
and the property says so; what happens on the other side is under
[Divergences](#divergences).

## Task system

Modules: `TaskLifecycle`, `TaskSystem`, `MCTaskSystem`, `TaskSystemProofs`.

`TaskLifecycle` is the contract: a task is created pending and moves along
`VALID_TRANSITIONS`, one step at a time; it may be discarded.

`TaskSystem` is the code at the granularity at which it runs: one action per
SQL statement, because each commits by itself and nothing holds a lock or a
transaction from one to the next.

| model | code |
|---|---|
| `status`, `todo`, `parent`, `anchors` | the columns status, plan_todo, plan_parent of `tasks`; the rows of `anchors` |
| `pc`, `req` and the locals of a client | where a call of `complete::execute` is, its arguments, what it has read |
| `ActivateRead/Write`, `DiscardCurrent`, `ResumeRead/Write`, `SetPlan`, `StatusRead/Write`, `CreateAnchor`, `CreateRegenTask`, `Abort` | the statements of `complete.rs:36-134` in their order; a failing statement ends the call (`?`) except the activation, whose error is ignored |
| `TickStart`, `SkipPlanner`, `VisitPlanner`, `PopRead`, `PopWrite`, `CreateExecutor`, `TickEnd`, `DispatchAborts` | `tick_plans` in `cron.rs:93-122` |
| `AdvanceClock` | the clock that ids of anchors, executors and regenerated tasks are made of |
| `Crash` | the process stops; the tables stay, calls and the tick are gone |

The history variables record what plans were submitted and what was dispatched.
`CONSTANTS` say who calls what (`Requests` translates the tool's arguments),
whether statements may fail, whether clients come back, and whether calls that
touch one task overlap. The last is a caller's discipline, not something the
code enforces, so it is a constant and every claim says on which side of it it
holds.

| run | what it shows | bounds |
|---|---|---|
| `TaskSystem_Completion` | `TypeOK`, `CheckStillHolds`, the refinement `LifecycleSpec`, `SuccessIsReal`, `DispatchInOrder` | 2 clients, one call of every kind, plans of 2 steps and of 1, 2 seconds, failures, restarts; calls on one task kept apart |
| `TaskSystem_Drain` | `PlanMoves` under `FairSpec`; `StepsConserved`: without failures and revisions a step is lost only to a taken executor id | 1 planner, a plan of 2 steps, 2 seconds |
| `TaskSystem_OneExecutor` | a sentence of the documentation that the code does not keep: a finding in `PROJECT.json` | the smallest instance that reaches it |

Two clients suffice because a check is made stale by one other writer, and the
dispatcher is a third. Plans have two steps because order and loss need a
second one.

Fairness (`FairSpec`): a handler that has begun runs to its end, because tokio
polls every ready task; and the scheduler's loop ticks, because it is an
interval loop. Nothing is assumed of callers beyond what the run's `about`
says: that an executor that runs eventually reports.

Proofs (`TaskSystemProofs`), for any tasks, clients, requests, failures and restarts:

- `TypeCorrect`: the type invariant is inductive as it stands, once the program
  counters are tied to the locals.
- `DispatchOrder`, calls on one task kept apart or not: a revision may overlap
  the dispatcher's pop, or another revision.
- `LifecycleImplemented`: the invariant is that a call that has read a status, and
  has not written yet, is the only one to touch that task; hence what it read
  still holds (`CheckStillHolds`), every UPDATE is an allowed move of
  `TaskLifecycle` and every other statement is a stutter, an insertion or a
  discard. Assumption: `OneCallPerTask`. It cannot be dropped: two calls on one task
  can both read `active`, and the second UPDATE then leaves a final state.
- `ChecksGoStale` has no hypothesis and says that this is the only way: the check
  before an UPDATE of a status (`Checked`) goes stale (`Stale`) only where another
  call that names the same row writes its status or discards it. The dispatcher, the
  regeneration of tasks, failures and restarts cannot do it.
- `SuccessReal` (`SuccessIsReal`; also under `OneCallPerTask`): the invariant `UnderwayInv`
  says what a call at each statement has already brought about, and that no other
  call has undone it.
- The steps of a plan. `NoStepLost` proves `StepsConserved` of every behaviour without
  failures in which no todo with steps in it is revised (`[]NoRevision`, a hypothesis
  on what callers do, stated as such). Its invariant `HandsInv` says that the
  dispatcher's hand is a copy of what the table holds, until the pop, and of what it
  held, after.
- `LossesAccounted` has no hypothesis, failures and overlapping calls included. What
  is submitted, and waits or has been popped or dispatched (`StepsUnderway`), is lost
  only where a call revises or discards the todo, where a pop writes back what
  it has read over a revision, or where the tick ends between pop and INSERT. Each
  of the three can happen.

Model-checked only: `PlanMoves`, since the prover has no liveness under fairness.

## Session store

Modules: `SessionClusters`, `SessionStore`, `MCSessionStore`, `SessionStoreProofs`.

`SessionClusters` is the contract: a partition of the messages observed; a reply
joins the cluster of its target. Layers do not exist there.

`SessionStore` has one action per locked section of `observe` and one per L2
operation around them:

| model | code (`logos-session/src/lib.rs`) |
|---|---|
| `hasL2` | `l2: Option<L2Store>`, decided when the kernel starts (`main.rs:53-61`) |
| `index`, `l0`, `l1` | `Inner`: msg_index and the two maps |
| `l2`, `l2index` | the LanceDB tables |
| `pc`, `msg`, `found`, `held` | where a call of observe is; `held` is `page_fault_session`, `semantic_match` or `evicted` |
| `Check` | the first locked section, 515-520 |
| `Find`, `Load`, `Search`, `Delete`, `DeleteIndex` | load_by_msg, load_by_id, semantic_search, delete |
| `Restore`, `JoinInMemory`, `StartSession` with `EvictCollect` | the second locked section, 575-631, its eviction included |
| `PersistDelete`, `PersistAdd`, `PersistUnindex`, `PersistIndex` | persist and update_msg_index |
| `Cancel`, `Crash` | the future is dropped at an await; the kernel restarts |

`seen` and `home` are history: the order of clustering stands for last_active
(every insertion touches the session), and `home` remembers where a message was
put. A session is named by its first message, as session_id is. Both runs give the
messages of different chats different ids (`Id <- UniqueId`), which the code does not
(see [Divergences](#divergences)); the proofs say which claims need it.

| run | what it shows | bounds |
|---|---|---|
| `SessionStore_Layers` | `TypeOK`, `Retrievable`, `ClustersSpec`: the layers are invisible to one caller at a time | 6 messages in 2 chats, capacities 1 and 1, so a third session goes to L2 and comes back |
| `SessionStore_Overlap` | `WithinCapacity`, `IndexLive`, `CopiesAgree`, `ChainsApart`; `HeldBinding` whenever LanceDB did not open | 5 messages, two of them replies to a third, 2 overlapping calls, failures, restarts with and without L2 |

Observers are interchangeable in the safety runs with two of them, so they are
declared symmetric; no temporal property is checked with symmetry on beyond
`HeldBinding`, an action property that treats observers alike. The runs end when
all messages have been observed, hence `CHECK_DEADLOCK FALSE`.

Proofs (`SessionStoreProofs`), for any messages, capacities, calls and faults:

- `TypeCorrect`; `IndexIsLive`: `IndexLive` is inductive given `TypeOK`. The step that
  matters is `EvictLive`: evict_collect purges the index of exactly the session it
  throws out, and what it moves from L0 to L1 replaces only a copy of the same session.
- `CopiesAgreeAlways`, `ChainsAreApart`: assume `UniqueIds` (no two messages share a
  msg_id; see [Divergences](#divergences) for what happens otherwise). The invariant `ChainInv`
  adds to the two properties that a message under way has not been put anywhere
  and is observed by one call (`InFlight`), and that the session a call has read is
  the one in which the target of its message was put (`ReadsAgree`). Without them a
  restored session could get a message that belongs elsewhere.
- `NeverInTwoSessions` assumes nothing, msg_ids may be shared: copies of sessions,
  in the layers and in the hands of calls, that have a message in common are copies
  of one session. The invariant `HomeInv` says that every copy has its messages where
  `home` says they were put; an index entry that another chat has overwritten can
  send a reply astray, but only to one place.
- `CapacityHolds` (`WithinCapacity`, for any msg_ids too): the oldest session of a
  layer is one session (`OldestIsOne`), since sessions of a layer have different ids,
  hence by `HomeInv` no message in common, hence different last messages; and a
  call adds at most one session, so one round of eviction is enough.
- `RepliesAreBound` (`HeldBinding`, under `UniqueIds`): a kernel that runs without L2
  reads no session from it (`MemoryOnly`), so a reply's target is found in the index;
  the session that has just got a message is the newest of its layer and eviction
  takes the oldest (`NewestStays`), so it is still in memory afterwards, in L1 if
  the capacity of L0 is 0.
- `LayersInvisible` (the refinement `ClustersSpec`) and `AlwaysRetrievable`
  (`Retrievable`) assume `Quiet`: `UniqueIds`, one call at a time, no failures, and an
  L2 that opens. The invariant `SeqInv` says where each session is: in one layer or in
  the hand of the running call (`Apart`, `HandOK`), with the index of memory naming
  exactly the sessions of memory (`InIndex`), and the rows of the L2 index exactly those
  of L2, give or take the session in hand, depending on how far the call has got
  (`Archived`). All L2 operations then leave the set of copies as it is, and the second
  locked section changes one session of it or adds one (`EnterJoins`, `EvictSeq`).

## Tokens, sessions, sandboxes

Modules: `Gateway`, `MCGateway`, `GatewayProofs`.

`Gateway` has one action per lock and per containerd call on the way from a
token to a container:

| model | code (`logos-kernel/src/`) |
|---|---|
| `pending`, `sessions`, `counter` | `TokenRegistry` |
| `containers`, `task_agent` | the two maps of `SandboxNs`; a host path is the number of the snapshot whose upperdir it is, `Tmp` the fallback |
| `record`, `snap`, `proc`, `started` | containerd: container records, active snapshots, tasks; `proc` is the snapshot a task was created on (`CreateTask`), `started` the agents whose task was started by a call of its own (`Start`); `GetTask` accepts either |
| `pc`, `who`, `slot`, `path` | where the request of a client is, and its locals; `slot` is the key that a handshake will answer, so it is absent in an exec |
| `Handshake`, `Bind`, `Reply` | the two locks of `consume`, and the answer, given whatever came of the sandbox |
| `Known`, `Insert`, `Map` | the locks of `ensure_container` and `ensure_container_for` |
| `GetContainer` ... `Start` | the containerd calls of `ContainerdExecutor::ensure_container`; `Lookup` are those whose error means "absent", `Attempt` those whose error ends the call |
| `Cancel`, `Crash`, `Reboot` | a dropped handler, a restart of the kernel, of the machine |

containerd is modelled as the code uses it: names are unique, a snapshot can be
removed though a task runs on it, a task survives the kernel but not the
machine, and a call that is dropped has or has not taken effect by the time the
next one begins. Snapshots that nothing refers to are renumbered; that bounds
them (`MaxSnapshots` is one more than can be referred to at once). `MaxFaults`
bounds failures, cancellations and restarts together. `disturbed` is history:
agents two of whose ensures overlapped, or one of whose lookups failed. So is
`outdated`: clients whose key is of a run of the kernel that is over. They keep it, as
the MCP bridge does, and go on calling with it, though keys start over. A task that
dies by itself is not modelled.

| run | what it shows | bounds |
|---|---|---|
| `Gateway_Sessions` | `TypeOK`, `SessionScoped`, `OneTime`, `MappedIsEnsured`, `HostPathLive`; `Recovers` under `FairSpec`: a client with a session gets a running container, unless a fault has left its task created and not started (`Stranded`) | 2 clients, 2 tokens, 2 tasks of one agent, 2 faults: an ensure can be cut and its repair cut again |
| `Gateway_Overlap` | the host path is not always the container's: two ensures for one agent and no fault | no faults |

Agents do not interact (every name in containerd carries the agent's), hence
one agent. Fairness: tokio runs a handler that can run, and a client that has a
session keeps calling exec; `Recovers` is about such a client.

Proofs (`GatewayProofs`), for any number of everything:

- `TypeCorrect`, `TokensAreOneTime`, `MappedAreEnsured`.
- `HostPathAlwaysLive`: the invariant `Quiet(a)` says that an undisturbed agent has
  one ensure at most, that its container mounts the agent's snapshot and has a
  record, and that what the ensure has learnt (no task before it creates one,
  a task on its snapshot after that) is still so. A step of another agent's
  ensure is `Frame`, a step of its own is `OwnStep`.
- `SessionsAreScoped` has no assumption; what it leaves out are the keys of `outdated`
  clients, which are in the behaviours all the same. The others' keys, and those
  promised to handshakes, are below the counter (`KeysFresh`), and each was drawn
  once by the kernel that runs (`ScopeInv`).
- `EnsuresRepair` is the safety part of `Recovers`: an ensure that no other overlaps,
  and whose lookups and deletions do not fail, ends with an error only where a call of
  its own fails or it is cut short, whatever earlier calls have left in containerd;
  and the container it registers runs, unless it has found a task that was never
  started. `Ready` says what such an ensure has cleared away or made by each step.
- That exception is real. `StrandedByFaults`: a task is left created and not started
  only by a fault. `StrandedForGood`: once it is, no call of this kernel or of a later
  one starts or removes it, however often its container is ensured; a restart of the
  machine does.

Model-checked only: `Recovers` (liveness under fairness).

## Memory

Modules: `MemoryModule`, `MCMemoryModule`, `MemoryProofs`.

`MemoryModule` is the database of one chat. Chats share nothing but the map of
pools, which a pool enters under a lock after its schema is there. One action is
one SQL statement:

| model | code (`logos-mm/src/`) |
|---|---|
| `messages`, `messages_fts`, `summaries`, `triples` | the tables |
| `observed` | what `SessionStore::observe` was told; what it does then is `SessionStore`'s |
| `WriteMessage`, `InsertMessage` or `IdTaken`, `SyncFts`, `Observe` | `MemoryModule::write` of a message: `messages.rs:58-101`, `lib.rs:177-191` |
| `WriteSummary`, `PatchSummary`, `PatchRead`, `InsertSummary` | `HierarchicalPlugin`: a patch reads, merges and then inserts |
| `WriteGraph`, `InsertTriple`, `GraphDone` | `GraphPlugin::write`, one INSERT per triple |
| `Abort` | a statement fails, the caller is gone, or the kernel restarts: whatever is lost then is the locals of calls |
| `StartReading`, `NextPage` | a caller of `memory.range_fetch` that adds the size of each page to its offset |
| `SearchHits`, `Recent`, `ReadSummary` | the queries |

`acked` is history: the messages and triples whose write returned Ok. A text is
a model value and a query matches the text it equals; ranking and the limit of
a search are left out. A summary has the columns layer, period_start and content.
`ReadSummary` picks the row that SQLite picks: with `ORDER BY period_start DESC` the
index is walked backwards, without it forwards. A month is looked up by a prefix,
which is all of the period it is written under.

| run | what it shows | bounds |
|---|---|---|
| `Memory_Stores` | `TypeOK`, `AppendOnly`, `SearchSound`, `AckedIsComplete`, `PagesMissNothing`, `LatestMovesForward` | 2 clients, 4 calls, 3 message ids, given and chosen, 2 periods, a write of 2 triples, pages of one message over overlapping ranges |

Three ids are enough for a caller's id to lie above, below and at the one the
database would choose, and four calls for an insertion below the reader's offset
after it has moved. Callers may stop for good, hence `CHECK_DEADLOCK FALSE`; nothing
here has to happen, so there is no liveness.

Proofs (`MemoryProofs`), for any callers, texts, ids, ranges, limits and
interleavings, each property of `Memory_Stores`:

- `TypeCorrect`; `MessagesAreAppendOnly`.
- `SearchIsSound` and `AckedStaysComplete` rest on `ArchiveInv`, which adds that a call
  between its first statement and its last has stored the row it holds the
  id of (`WriterInv`), and that only stored rows are indexed, under their own
  text (`IndexInv`).
- `PagedReadsMissNothing`: `PagesInv` says that what the reader has not got has a rank,
  among the rows in its ranges, at or above its offset. A row never goes away,
  so ranks only grow (`RankGrows`), and a page that is empty means that no rank is
  at or above the offset (`NoGap`).
- `LatestNeverGoesBack`: rows of a layer only get more, and `Newest` is the largest of
  them, which exists because it is the one with the fewest rows before it.

## Scheduler

Modules: `Scheduler`, `MCScheduler`, `SchedulerProofs`.

`Scheduler` is the loop of `CronScheduler::start` and the jobs that
`register_consolidator_jobs` adds at boot. The code keeps no record of what has been
fired: a job fires if its next due is less than a period away from the tick. So
whether a due is fired once rests on how far apart the ticks are, and that is what
the two properties are about.

| model | code (`logos-kernel/src/`) |
|---|---|
| `jobs`, `Disabled`, `Remove` | the map of `CronScheduler`, `enabled`, `remove` |
| `deadline`, `Wake` | tokio's interval, which catches up: a late tick is followed by those that were missed |
| `now`, `Collect` | `Utc::now()` at the beginning of tick, then `upcoming` under the lock, which looks at the clock again |
| `Fire`: `FireCreates` or `FireFails` | `fire`: the id is made of the job and the second; errors are logged and the next job is tried |
| `Boot`, `Crash` | the start and the end of a process; a new interval is ready at once |

`AtMostOnce`: while no tick came less than a period after another, no due has two
tasks. `NoneMissed`: while no tick came later than that, or read the schedules in a
later second, each due from the first tick on has its task, or firing it has failed,
or the job is gone. Both hazards are real in this code: a restart within the minute
fires a due again, and a tick that stalls for longer than a period misses one.

Run `Scheduler_Ticks`: a period of 3 seconds instead of 60, a job that is due
twice, one that is due once and may be removed, a disabled one, 7 seconds, 2 faults:
so two periods, with a restart and a failing INSERT in any place, and both `early`
and `late` become true on some behaviours and stay false on others.

Proofs, for every period, schedule, delay and number of restarts: `TypeCorrect`,
`FiredAtMostOnce` and `NoDueIsMissed`. Assumed is `DuesApart`: a job's dues are at
least a period apart (those of the kernel are hours apart). The invariant bounds
what was fired by `last + PERIOD`, so that a tick a period later, which looks only
at dues behind its own time, cannot see it again; conversely what lies before
`last + PERIOD` has been collected.

## Tasks and anchors, searched

Modules: `SearchIndex`, `MCSearchIndex`, `SearchIndexProofs`.

| model | code (`logos-system/src/`) |
|---|---|
| `tasks`, `anchors` | the rows, with rowid, description, facts |
| `tasks_fts`, `sized`, `anchors_fts` | the external-content FTS5 tables: postings, and document sizes |
| `CreateTask`, `UpdateDescription`, `DeleteFts`, `InsertFts`, `FtsFails` | create, update_description: a statement for the row, and one or two for the index whose errors are ignored |
| `Patch`, `Merged` | patch of `logos://system/tasks`: read, merge, write back |
| `Activate`, `Discard` | statements of `TaskSystem` |
| `CreateAnchor`, `ReadFacts`, `WriteFacts`, `SkipTarget`, `InsertAnchor`, `AnchorTaken`, `SyncAnchorFts` | anchors::create with mark_superseded of each URI before the INSERT |
| `Abort` | a failing statement whose error is returned, a dropped call, a restart |

FTS5 is external and modelled as SQLite documents external-content tables: a DELETE
removes the postings of the text the row has *at that time*, and a MATCH that meets a
posting whose document has no size is an error. `Found` and `SearchWorks` say how
far this goes wrong and no further: only for a call that is between its two
statements or was left there. An anchor is found by the facts it was created with,
which its postings keep when a mark changes the row. `PatchKeepsDescription` is about a patch that writes
back what it has read. `SupersededByLater` (a mark names an anchor inserted after the
one it is on) and `SupersededStays` keep the chain of anchors free of cycles and make
its ends final. A call marks before it inserts, so the anchor that a mark names may not
be there yet, or never: `marks` records the anchors whose mark a call has made that has
not inserted, `orphaned` those whose mark is of a call that ended without. Only these
are left out of `SupersededByLater`.

Run `SearchIndex_Calls`: 2 callers, 4 calls among eight requests, 2 tasks, 3
descriptions (one empty), 2 minutes. Four calls reach: create, discard, create
another in the same row, update; two calls that mark one anchor, which
a third has created; and chains of two marks, whose middle anchor is marked after it
was inserted.

Proofs, for any callers, tasks, texts and minutes, wherever calls are cut short:

- `TypeCorrect` (with: rows belong to one task each), `SupersededForGood`.
- `SuccessorsAreLater`: `ChainInv` adds that an anchor's number is below the number of
  those inserted (`NrsBelow`), that each mark a call has made names the anchor it is
  about to insert (`MarksOK`), and that a mark which is neither of such a call nor
  orphaned names an anchor with a larger number (`Chained`).
- `StoredIsFound` and `SearchesWork`: `IndexInv` ties each row's posting and size to what
  the task says (`Indexed`, `Sized`), with the calls between their DELETE and their
  INSERT and the rows they left behind as the only exceptions.
- `DescriptionsStay`: `AskedInv` adds that a task outside `overlapped` has one call at
  most (`Alone`), and that what a patch has read is still what the row says (`BaseHolds`).

## Process calls

Modules: `ProcCalls`, `MCProcCalls`, `ProcCallsProofs`.

| model | code (`logos-kernel/src/`) |
|---|---|
| `call_slots`, `Store`, `Retained`, `ReadOutput` | `call_slots` of proc.rs; the end of `execute_call`, with its `retain`; the read of output, which removes the slot |
| `Begin`, `RunBuiltin` | lookup of the tool; a builtin tool |
| `input_json`, `FillInput`, `FillOrphan` | `sandbox.write` of input.json: truncate (in `Begin`), then fill, in a thread that a caller who goes away does not stop |
| `StartExec`, `ReadInput`, `Exit`, `GiveUp` | `sandbox.exec`; the command reads its file; the reader of the FIFO returns what it has after half a second of silence |
| `executor`, `Shipped` | host executor or containerd: in a container the command does not see the kernel's file, only what the tool's repository ships |
| `Answer` | logos_call |
| `Abort`, `Restart` | the caller goes away; slots are lost, files stay |

`disturbed` is history: calls whose input file another call touched before the
command read it. `OwnResult` says that this, and the container's own file system, are
the only ways for a result to be another call's. `DeliveredOnce` and `ResultKept`
are about `call_slots`: ids are used again, expire and are read while calls overlap.

Run `ProcCalls_Slots`: 2 callers, 3 calls, a builtin and an external tool, with
and without a call_id (one id, so that it is used again), 2 params, both executors,
a life of 2 ticks in a time of 2, 1 restart.

Proofs, for any callers, tools, ids and restarts: `TypeCorrect`, `ResultsAreOwn`,
`ReadOnce`, `ResultsStay`. `ResultsAreOwn` rests on: the file holds the params of
a call that has filled it and is undisturbed, until it is read. `ReadOnce` on:
the number of a call is in at most one place - under way, or in a slot - and its
count is zero while it is there.

## Files: users, services, tools

Modules: `FileStores`, `MCFileStores`, `FileStoresProofs`.

| model | code (`logos-kernel/src/`) |
|---|---|
| `files`: a document, or `Blank`, `Mixed`, missing | tokio::fs::write: truncate, then fill, on a thread of its own |
| `ReadAppend`, `ReadPatch`, `Open`, `Fill` | append_persona_short, patch and write of users.rs; write of svc-store and proc-store |
| `Patched` | json_deep_merge of `logos-vfs` |
| `registry`, `Register`, `Update` | the registry of services.rs: write and patch of `logos://services/{name}` |
| `Restart`: `RestoreServices`, `RestoreTools` | restore_from_store, restore_tools: whatever a directory holds by then |
| `Fails`, `Abort` | an I/O error; the caller is gone, the write goes on |

A document is what the properties tell apart: its kind, its entries or the values of
its fields (the number of the call that gave them), the name in a compose.yaml.
`due` is history: what a file must hold after the calls that were acknowledged.
`disturbed` calls overlapped another on their file or could not read it. As the code
has no lock on a file, the properties speak of calls that did not overlap; but
failures, abandoned calls and restarts may happen at any step of theirs.

Run `FileStores_Writes`: 2 callers, 3 calls, 1 restart; a file of persona/short,
a profile, a compose.yaml whose name is not its directory's, and a tool: three calls
are enough for two acknowledged writes and one that spoils or keeps them.

Proofs, for any callers, files, calls and restarts: `TypeCorrect`, `EntriesStay`,
`FieldsStay`, `DeclarationsComeBack`. The invariant says of each file that it is
damaged or agrees with `due`, and of each draft that is not disturbed that it agrees
with what will be due once it is written.

## Divergences

Two disagreements between the code and what the repository says of it are runs:
`TaskSystem_OneExecutor` and `Gateway_Overlap` (`findings` of `PROJECT.json`). Met
while reading, and not checked by a run here:

- `complete.rs:32` calls the steps atomic; a resume deletes the current task (`:49`)
  before it knows that the task it resumes can be.
- `logos-session/src/lib.rs:6` calls reply chains hard bindings, but msg_index is keyed
  by msg_id alone (`:85`) and chats number their messages alike.
- Session keys start over with the process (`token.rs:70`) while the MCP bridge keeps
  the one it has (README.md:39): after a restart it may be another task's.
- An ensure that fails or is cut between tasks.create and tasks.start
  (`sandbox.rs:667`, `:676`) leaves a task that exists and does not run. Later ensures
  accept whatever task they find (`:552`) and say that the container is running
  (`:28`, `:75`), but nothing starts it: every command of that agent fails until the
  machine restarts. `Recovers` leaves this case out, `StrandedForGood` states it.
- A summary that is written again under its period is inserted as a second row, and a
  read of the period returns the first (`summaries.rs:67`, README.md:67).
- update_description deletes from the index after it has changed the row
  (`tasks.rs:126`), so that the postings of the old text stay and a search
  (README.md:192) finds the task by it.
- params of an external tool are written on the host (`proc_store.rs:170`) and read by
  a command in the container (`:193`), which has another file system
  (`sandbox.rs:98`).
- Overlapping appends to persona/short lose entries (`users.rs:54`; README.md:111
  calls it append-only), and a patch of such a file replaces the array
  (`users.rs:140`).
- The task_log tool writes to a path that the sandbox namespace does not resolve
  (`builtin_tools/system.rs:180`, README.md:168).
- restore_tools looks on the host for a directory that was cloned in the container
  (`proc_store.rs:67`).

## Not modelled

- Web tools, the MCP bridge, context injection: requests to others and formatting,
  no state of their own. tmp and devices: a map behind a lock with single-step
  operations, and file I/O on devices.
- The access rules (`check_access`, `resolve_uri` in `grpc.rs`) and the routing and parsing of URIs: decisions on
  the text of one request that change no state.
- The contents of sandbox files and the output of commands, beyond what `ProcCalls`
  says of input.json and of a reader that gives up.
- Ranking and limits of searches, embeddings and distances (a nondeterministic
  choice), the schema of facts and of entries of services.
- Hazards without a property (each with its reason in `PROJECT.json`), and details
  next to the models that no property reaches: an unbounded wait for a command
  (`sandbox.rs:762`), the last line of a log without newline (`:244`), a container
  lookup whose error counts as absence (`:548`) and the fallback of the host path to
  /tmp (`:556`) beyond what `HostPathLive` excludes, a failed call whose slot no read
  of its output removes (`proc.rs:142`) and whose age is that of the first use
  (`proc.rs:78`), an external tool that replaces a builtin one of its name
  (`main.rs:120`).

## Limits

Out of the prover's reach: liveness under fairness and ENABLED (`PlanMoves`,
`Recovers`); induction over recursive data; RECURSIVE operators. No module with
theorems uses them. All theorems need the assumptions on constants that their module
names `ConstantsOK`, and those named above.
