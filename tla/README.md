# A TLA+ model of Cartógrafo

Cartógrafo is a control plane for work done by coding agents. Jobs travel a
versioned graph of nodes; a runner on somebody's machine leases a job, runs an
agent session for the node the job stands on, reports how it ended and moves the
job on. The control plane (`src/packages/core`) is one Node.js process over one
SQLite database; runners (`src/packages/runner`) are separate processes that talk
to it over HTTP and keep nothing on disk that a model would need.

This directory models the parts of that system where order matters. Every
definition is translated from the source; `PROJECT.json` says, definition by
definition, from which lines, which hazard each property is about, and which
plausible bug each property was seen to notice.

```
tlc -workers 2 -config MCLeaseTable.cfg MCLeaseTable     # one run
tlapm Holding_proofs.tla                                 # the proofs of one module
```

## 1. The system

### Components

Paths are under `src/packages/`.

| component | source | state it keeps | operations | modelled in |
|---|---|---|---|---|
| Lease table | `core/src/repositories/leases.ts`, `routes/leases.ts` | `lease` rows: status, granted/heartbeat/expires/released instants, TTL, reason | grant, heartbeat, release, list; the sweep at the head of each | `LeaseTable`, abstractly `JobTenure` |
| Jobs and rounds | `core/.../repositories/job.ts`, `routes/jobs.ts`, `domain/job-state.ts` | `job`, `job_parent`, `job_dependency`, `job_cancellation` | create, transition, block, unblock, cancel; the derived hold; `execution.finished` | `JobBoard` |
| Sessions | `core/.../repositories/session.ts`, `routes/sessions.ts` | `session`: status, verdict, live draft | open, write draft, finish (which may await the artifact store) | `JobBoard` |
| Questions | `core/.../repositories/input-request.ts` | `input_request` | ask, answer, auto-resolve; all raise or lower the job's flag | `JobBoard` |
| Database lock | `core/src/db/lock.ts`, `index.ts` | a sidecar file with a pid | acquire, release | `OwnerLock` |
| Startup and migrations | `core/src/index.ts`, `db/migrate.ts`, `db/connection.ts` | the schema, the ledger of what ran, the first credential | open, reconcile, apply, listen, mint, announce, shut down | `Startup` |
| Event stream | `core/src/routes/events.ts`, `db/events.ts` | the log; per connection a cursor | record, connect, poll, hang up | `EventStream` |
| Surveyor's watcher | `surveyor/src/stream.ts`, `watch.ts` | the last event it processed | subscribe, run two lenses per round, reconnect | `EventStream`, composed with `Startup` in `ControlPlane` |
| Webhook and hook delivery | `core/.../repositories/webhooks.ts`, `repositories/hooks.ts`, `webhooks/`, `hooks/`, `util/polling-dispatcher.ts` | two delivery tables, subscriptions, the cursor derived from them | fan-out, select, claim, attempt, success, failure, deactivate | `Delivery` |
| Runner controller | `runner/src/controller/controller.ts`, `control-plane-client.ts` | a snapshot of candidates, one lease | poll, request, dispatch under heartbeats, release | `Dispatch` |
| Session dispatch | `runner/src/dispatch/` | where it is; counts and waits between dispatches | checks, engine, report, blocks, deliveries, transition | `Dispatch` |
| External outputs | `runner/src/mcp/write-external-outputs.ts`, `core/.../repositories/external-calls.ts` | `external_call`: intents and outcomes | intend, call, close, ask, settle what a person answered | `Dispatch` |
| Subgraphs | `runner/src/dispatch/subgraph-*.ts`, `controller/watch-children.ts` | nothing between dispatches | reconcile, open children, wait, resume; block the parent of a stopped child | `Subgraph` |
| Engine process lifecycle | `runner/src/engine/process-lifecycle.ts` | a child process, its buffers, its timers | start, read, stop, escalate, safety net, exit backstop | `SessionProcess` |
| Runner process | `runner/src/cli/run.ts`, `cli/index.ts` | loop, live session, stop requested, grace | start up, loop, hear a signal, force down, deregister, leave | `RunnerHost` |
| Worktrees, test bench and prune | `runner/src/dispatch/session-worktree.ts`, `advance-main-line.ts`, `cli/prune.ts` | directories, `ticket-<id>` branches, a shared checkout | acquire, release; check, merge, install; scan, ask, remove, delete | `Worktrees` |
| Graph documents | `core/src/domain/graph.ts`, `operations.ts`, `diff.ts` | none (pure) | validate, classify contracts, apply operations, diff | `GraphDocument` |
| Proposals and graph versions | `core/.../repositories/proposals.ts`, `graphs.ts`, `skill.ts` and their routes | versions, pointers, proposals, registered skills | register, fork, promote, offer, propose, decide, apply, revert, re-check | `GraphVersions` |
| Intake, runners and probes, artifacts, the other credentials, command line, authoring sessions, the other satellite packages | | | | not modelled, §8 |

### How they interact

* Every handler of the control plane is synchronous JavaScript between `await`s,
  and nearly all of them have none inside: one request is one transaction and one
  action of a model. The exceptions are several steps: finishing a session whose
  transcript goes to the artifact store (`BeginFinish`, then `ResumeFinish`), and
  the delivery daemons, which await an HTTP call per attempt.
* Runners share nothing but the control plane's tables, and no request of a
  dispatch names the lease it is made under. A runner learns that it lost its
  lease from a refused heartbeat, if at all, and goes on all the same.
* A dispatch is a sequence of requests, each of which may fail, before or after it
  had its effect; whatever it ends with, the lease is given back, or expires.
* The lease table, the jobs, the sessions and the questions meet in the
  `execution.finished` event: it is derived from all four and written, in the same
  transaction, by whichever mutation makes it true.
* A subgraph's parent and its children meet only in the parent's hold, which is
  derived, and in two readings of the board: the dispatch's and the watcher's.
* An engine is a process group under the runner; the two meet in signals, pipes
  and timers, and a session ends in whichever callback comes first.
* A session's directory, its branch and the bench are shared by every dispatch of a
  machine and by `prune`, through git alone: nothing locks them, and `prune` learns
  from the control plane only whether a job is completed.
* The delivery daemons read the event log and write their own tables, while the
  routes deactivate subscriptions under them.
* A job walks the graph version it was created under, so that applying or
  reverting a proposal moves a pointer and nothing that is under way.
* The file lock is what lets all of the above assume one control plane.
* A stream ends with the control plane that serves it; the log is on disk, and the
  watcher, with its cursor, outlives both and comes back to the next one.

### What is hard

* **Lazy expiry.** No timer expires leases. Between two requests an overdue lease
  still reads `active`; each route has to sweep before it reads.
* **Late calls.** A heartbeat or release sent in time may arrive after the deadline.
* **A derived fact, written once.** Four callers may complete a round's last
  condition in any order, and a completed job may leave and come back.
* **Overlapping sessions.** Nothing stops two sessions of one job, and two
  finishes of one session may both have passed the route's check.
* **No fencing.** A runner whose lease lapsed still reports, blocks and advances.
* **A dispatch that fails in the middle**: an engine that is up and not on record,
  a call that was made and not written down, a job with two owners of one flag.
* **Stateless reconciliation**: what exists has to say what is missing.
* **An engine that outlives its runner**: it is in a process group of its own, and a
  SIGKILL of the runner leaves it at work on a job that will be leased again.
* **Stopping**: four parties may end a session, and a session may come up after
  the runner was told to stop.
* **git between awaits**: the bench is checked, merged and installed in three
  commands, and `prune` lists, asks and removes in as many as there are jobs.
* **Two approved proposals** over one version, and reverts below later versions.
* **Two processes starting at once**, or dying between any two file-system calls.
* **A start over what another build left**: killed between two migrations, before
  the ledger had checksums, or after the first token was minted.
* **A cursor on each side**: what the server pushed, what arrived and what was
  processed are three positions, and a drop may fall between any two.
* **At-least-once delivery**: a crash between a claim and its outcome, an attempt
  that outlives its claim, a subscriber that leaves while its row is in a batch.

`PROJECT.json` lists each hazard at its line, with the properties that watch it,
or with the reason none does.

### What correct means, per component

* *Lease table*: one owner per job at any time, also over time (no two tenures of
  a job overlap); ceilings that no declaration exceeds; dead leases stay dead; one
  event per fact, with the reason that is true of the row.
* *Rounds*: the end is declared at most once, only when true, and by the step that
  makes it true.
* *Sessions*: a session ends once; no draft survives it; the failure ceiling stops a
  node that keeps failing, never later than it should and only behind an unbroken tail
  of failures.
* *Jobs*: a cancel reaches every open descendant and spares everybody else.
* *Questions*: one answer each.
* *Lock*: a control plane that is up and named by the file stays the only one,
  whoever starts beside it; a dead one refuses nobody. (That at most one is ever up
  is what the lock is for, and not what it keeps: §7.)
* *Startup*: who answers stands on exactly its build's schema; nothing is applied
  over a ledger known to be wrong; no first token is spent without being told.
* *Event stream and watcher*: every finished round is looked at once with each
  lens, in order, from the first the watcher heard of.
* *Delivery*: one attempt per claim; closed rows stay closed; nothing is skipped,
  nothing waits for ever, a hook that is given up is reported exactly once.
* *Dispatch*: one engine per job while it is leased; a dispatch blocks its job or
  moves it, once; what may not be repeated is not repeated; every lease comes back; no
  job starves.
* *Subgraph*: one child per element, across crashes; one whole report; a parent
  that waits is waiting for something, or a person is told.
* *Engine and runner processes*: one end per session, and the true one; one signal
  stops the runner and leaves no engine.
* *Worktrees*: no work is removed from under a session, no commit leaves every
  branch; a job goes on only over a main line that has its commit; what finished
  work leaves behind is collected in the end.
* *Graph versions*: what is in force is what was applied and not reverted; what a
  version says of its contracts is true; a diff does what it says.

## 2. The modules

| module | lines | what it is |
|---|---|---|
| `LeaseTable` | 312 | the table, its four routes, the sweep; its properties; the refinement mapping to `JobTenure` |
| `JobTenure` | 56 | the abstract promise: a job has an owner until it yields or its deadline passes |
| `JobBoard` | 494 | jobs, sessions, questions and the leases as they see them, in one state |
| `OwnerLock` | 166 | `acquireLock` and `release`, one file-system call per step |
| `Startup` | 259 | from the lock to an answering process: migrations, ledger, first credential; extends `OwnerLock` |
| `EventStream` | 159 | the log, one connection, the watcher |
| `ControlPlane` | 65 | control planes that come and go over one database, and a watcher that outlives them; composes the two |
| `Delivery` | 379 | both outgoing queues: tables, routes and the two daemons |
| `Dispatch` | 729 | runners: the controller's pass, the dispatch of a session, external outputs. Uses `JobBoard`'s definitions of completion and verdicts (`INSTANCE`) |
| `Subgraph` | 423 | one subgraph call, its children, the watcher |
| `SessionProcess` | 264 | an engine's process under the runner: one session's row and every callback on it |
| `RunnerHost` | 198 | the runner's own process; extends and composes `SessionProcess` |
| `Worktrees` | 400 | the directory of a session, the test bench, and `prune` |
| `GraphDocument` | 193 | documents, contracts, operations and diff, as operators |
| `GraphVersions` | 314 | versions, pointers, proposals and the skill registry; extends `GraphDocument` |
| `Holding_proofs` | | theorems about what a runner holds: `LeaseTable` and `RunnerHost` with its `SessionProcess` (§5.1, §5.9) |
| `JobBoard_proofs`, `Dispatch_proofs`, `ControlPlane_proofs`, `Delivery_proofs`, `Subgraph_proofs`, `GraphVersions_proofs`, `Worktrees_proofs` | | theorems about the module each is named for and those it extends (§5) |
| `MC*` | | small instances |

A definition whose comment starts with "Fault" or "A faulty" is a plausible bug in
the definition below it. No specification uses it; it is there so that each
property can be shown to notice it (`PROJECT.json`, "mutants").

### LeaseTable

`lease` maps an id to a row with the columns the code decides by; `clock` is the
instant `POST /leases` and its siblings read; `grantedLog` and `expiredLog` count
the events the log carries for a row. `Swept` is `expireOverdue`'s UPDATE and
`SweptLog` its loop over the events. `Grant`, `Refuse`, `Heartbeat`, `Release` and
`Reconcile` are the handlers, each with the sweep as its first effect; `Tick` is
time. A claim declares a project and two caps: a job that exists only accepts its
own project (`Claimable`), an id that names no row accepts any, and the caps are
clamped to this process's ceilings (`Least`). Refusals before the sweep write
nothing and are stuttering steps. `OwnerOf` and `DeadlineOf` read the abstract
tenure off the table: a lease past its deadline owns nothing whether or not the
sweep has found it, so that the sweep itself is invisible to `JobTenure`, and time
is what takes a job back.

### JobBoard

`row` joins `job`, `job_parent` and `job_dependency`; `cancelled` is
`job_cancellation`; `session` and `question` are sequences because id order is what
the streak is counted by; `lease` keeps only whether the job's last lease is
active, since the table itself is `LeaseTable`'s; `announced` counts
`execution.finished` per round. `Completed` is `hasArrived`, `Ended` what
`announceFinishedExecution` asks, and `Announce` is called exactly where the code
calls it: on creation, transition, session finish and lease release. `Block`,
`Unblock`, `Answer`, `Cancel` and the sweep do not call it. `DispatchHold` keeps
the code's order of reasons. `Cascade` is `cancelJob`'s breadth-first descent,
stated as the least closed set it computes.

The transition does not ask the graph for an edge, the lease for an owner or the
row for a flag, because the route does not either. The gates a graph version may
declare (required fields, hooks on edges) are not modelled: they only remove
behaviours.

### OwnerLock

`file` is absent, or has a maker and either names it or is still empty. Each step
is one call: `openSync(wx)`, `writeSync`, `readFileSync`, the liveness check,
`unlinkSync`. Any number of processes may be inside `acquireLock` at once, and any may
die between any two calls. A pid is never reused, and the liveness check is taken at
its word.

### Startup

`schema` is what the database ran, in order and with the content that ran;
`ledger` is `schema_migrations`, with a null checksum for rows older than the
column; `boot` is where each process stands in `start`. A build is what its
migrations directory holds, file to content; `Open` picks one per start, so that a
database meets builds that add, edit and rename files. `Reconcile` is one row of
`reconcileChecksums` and `Apply` one migration, because each is a statement or a
transaction of its own and the process may die between any two. `Fail` is the
`catch` of `start`: the handle is closed, then the lock let go (`LetGo`).

### EventStream and ControlPlane

`log` keeps of an event only whether it says that a round finished, which is the
watcher's filter. `conn` is the server's side, its cursor and the bytes on their
way; `watch` is the client's, with its own cursor, the last event processed, which
is what a reconnection presents. `Poll` and `Connect` drain everything past the
server's cursor; `Hear`, `RunFlow` and `RunCost` are the consumer's turn, and only
the last moves the watcher's cursor. `Sever` keeps any prefix of what was on the
way.

`ControlPlane` puts one behind the other: `Served` steps need a process that
answers, `Alone` steps need nobody, and a host that stops answering severs the
stream (`Hangs`).

### Delivery

`row` joins the two delivery tables, `UNIQUE (target, event)` being its domain. A
row's `next_attempt_at` is kept as `wait`, what is left of it, and of a tick's
moment only `ripe` is kept, the rows that were due at it: absolute instants would
make the state space unbounded and the code only ever compares them with the
moment of a tick. `flying` are the attempts in the air with what is left of their
claim. `BeginTick`, `Select`, `Claim`, `Succeed`, `Fail` and `Settle` are the
daemon; `Record`, `Subscribe` and `Deactivate` the routes; `Crash` loses a host's
ticks with their answers and starts it again. An answer may come after its claim
ran out: `flying` keeps the attempt at zero, and time does not wait for it.

Simplifications, each of which leaves more behaviours than the code has: the batch
may be any of the due rows, not the oldest (`ORDER BY id`); two hosts may run over
one database, which the lock forbids and the claim is written for. Two that leave
fewer: `job.hook_failed` does not re-enter the log as an event to be delivered,
and a tick's fan-out over all subscriptions is one step, where the code commits
after each.

### Dispatch

The board is cut down to the rows a runner moves: `job` has a node, a flag and
what a person was asked and said about an output; `session` has a verdict;
`journal` is `external_call`; `landed` counts what the outside tool really did, per
job and node.
`run` is one runner's pass and the dispatch it is in, `pc` naming the next request;
`memory` is what that process remembers between dispatches (`PreSessionFailureTracker`,
`QuotaCooldownTracker`); `engine` the job its engine works on, and `orphan` the
engines that outlived a killed runner. Completion and the
failure streak are `JobBoard`'s own definitions, instantiated.

One action is one request of the dispatch, or the steps between two of them that
nobody else can see. `Write` and `Lost` give every request its three outcomes: it
answers, it fails with no effect, it fails although it had its effect. Which of
these the dispatch survives is the code's: most failures reject the promise
(`Lost` goes to `releasing`); those of the upload, the worktree, the denials and
the finish are kept until the end (`fault`). No guard after `Take` asks for the
lease, because no request carries it; `Lapse` takes it from under a beating
dispatch, `Expire` from one that no longer beats.

`Crash` ends a runner and its memory. A runner that exits tells its engine to stop in
its exit hook; one that is SIGKILLed does not, and its engine, which was spawned
detached (`process-lifecycle.ts:324`), goes on as an orphan (`held` while the lease of
its dispatch has not run out) until it ends by itself (`OrphanEnds`). `Call` is
answered, times out, or fails; an error may have had its effect, because a connection
lost and a tool process that died in the call are closed as errors like a refusal
(`write-external-outputs.ts:401`, `:685`). Whether a lease request is refused for a
cap or for an owner decides between the end of the pass and the next candidate, as in
the code.

`Entry`, `Exits`, `Working` and `Delivers` are the graph; `Delivers` are the nodes
that declare an output and are `unsafe_to_retry`. The endings a session may have
are a set of rows, because what the code writes depends on their combination. One
of them is a declared artifact whose upload throws: then nothing of the session is
written at all (§7).

Left out: the project cap (which `LeaseTable` has), what an orphaned engine writes
outside its directory, prompts, permission denials and
the safe node's bounded attempts. The routing of a branching node is a choice among
its edges or a question.

### Subgraph

The parent, its children of this node in position order, the reports recorded for
the node, the parent's lease, the tick of each runner. Children are named by the
element they were opened for, so that a missing or doubled one shows. `ReadJob` to
`Route` are `runSubgraphNode` request by request; every read of several children is
one step per child, so that the family moves in between. `WatchBoard` and
`WarnParent` are the watcher, a reading and a block with an await between them.
`Start`, `Arrive`, `StopChild`, `StopParent` and `Rework` are the rest of the world:
the children's own dispatches, people, and a later node that sends the work back.

### SessionProcess and RunnerHost

A row of `session` has both sides: what `process-lifecycle.ts` keeps, and the
engine, its helper and the bytes in its pipes. `Tempers` are the four engines that
make a stop hard: one that ends on SIGTERM, one that ignores it, one that leaves a
helper outside its group holding the pipes, one the runner may not signal. Each
action is one callback of the event loop; an armed timer may fire at any moment.
`Finish`, `Pump`, `Drain`, `Complete`, `Signal` and `Stop` are functions of a row,
because the code's methods are functions of a session and call each other.
`Channels` are drained in the order given, as `#complete` does; what it leaves of
the other channels is proved for any number of them (§5.9), and the run has one.

`RunnerHost` extends it with the loop (`runRunner`), the signal handlers and the
shutdown's grace (`runRunnerCli`), over the one session a dispatch may have. The
process ends when nothing keeps it up (`Quiet`), because the command never calls
`process.exit`.

### Worktrees

A history is the set of its commits, and a git command is one step over it.
`branch` is the `ticket-<id>` of each job, `bench` the shared checkout with the
branch it is on, `repo` the main line of a repository the bench is a clone of;
`apart` says which of the two deployments this is. A row of `tree` is a directory
together with the dispatch it was minted for, whose `pc` goes from `acquire`
(`Begin`, `Add`) through what an engine does there (`Edit`, `Commit`) to `Release`,
`Remove`, the closure (`Finish`), the bench (`Check`, `Merge`, `Install`) and the
transition (`Move`), or a block. A crash may end the engine with its dispatch or leave
it at work in the directory (`pc` "orphan", until `OrphanEnds`), while the job is free
to be dispatched again. `base` is what the directory was last in agreement
with, so that a branch moved by another directory shows as dirt, as `git status`
shows it. `prune` keeps what one `runPrune` read, and takes one step per listing,
per job asked and per git command. Which dispatch may begin is the lease's; one
that begins although it should not, because a lease lapsed or the board was read
earlier, marks its job (`stray`) and is one of the bounded events.

Left out: contents and conflicts, directories `prune` does not recognise, the age
window and the dry run, which collect less; a repository whose git is broken.

### GraphDocument and GraphVersions

A document is its nodes and edges in order; a skill is a pinned manifest, and what
it requires and produces are sets of paths. `Sound` and `Available` are the
traversals and the fixpoint of `graph.ts`, as recursive functions; `ClassifyContracts`
is what the registry's skills make of a document. `Kept` is a filter, which the
code's passes over nodes and edges are. `Applied` is the set of documents
a list of operations may yield: none when one of them is refused.
`DiffGraphs` gives the operations in the code's order. That documents and operations
are lists of records of their kinds (`Listed`, `ListedOperations`) is assumed of the
documents and changes people write, and proved of those the system makes.

`GraphVersions` runs them: `version` is `graph_version` by hash, `pointer` what is in
force in each lineage of each project, `proposal` the proposals, `registry` the
skills. Every handler has no await and is one step. Apply and revert read the
default project whatever the proposal's, as the code does.

## 3. The runs

Ten runs that pass, with forty properties between them, and two that TLC finds
violated by what the code does.

| run | instance | what it shows |
|---|---|---|
| `leases` | 2 runners; 3 jobs (one an unknown id), 2 projects, 3 leases, ceilings 2 and 2, declared cap 3, TTL 1, clock to 3 | one owner per job, in the table and over time; ceilings; true events; late calls change nothing; the table implements `JobTenure` |
| `board` | four scenes: 2 jobs of one round, 2 sessions, dependencies; 1 job, 3 sessions, 2 finishes waiting, ceiling 2; 2 jobs, 2 questions; 3 jobs, any parents | the end of a round is declared once, truly, and at the right step; a session ends once and its draft with it, and a failing node stops; one answer per question; a cancel reaches exactly the open family |
| `refusals` (violated) | 1 job, 3 sessions that fail or are refused, ceiling 2 | a refusal is counted in the streak: `RefusalsAreNotCounted` (§7) |
| `control_plane` | 3 processes, each of any of 5 builds, failing or dying anywhere; 2 events, 1 drop, fairness | a named owner stays the only one; no dead process refuses; every start is sound; every finished round is looked at once |
| `two_starts` (violated) | 2 of those processes, started together | both own the database: `OneOwner` (§7) |
| `deliveries` | 2 hosts, 1 webhook, 1 hook, 3 events, one retry, 1 crash, fairness | claims, closed rows, the schedule; the fan-out is exact; deliveries and ticks end |
| `dispatch_race` | 2 runners, 1 job, 2 sessions, one of each: failing request, lapse, crash with or without the engine, answer of a person | one engine per leased job, one way out of a dispatch, no second delivery but behind an error |
| `dispatch_live` | 1 runner, 2 jobs, 3 sessions, a failing request, a crash, fairness | leases come back; a job that cannot run does not stall the next |
| `subgraph` | 2 runners, calls of 0, 1, 2 elements, fanned or chained, 2 troubles, fairness | one child per element, one whole report, nobody silently stuck, the call settles |
| `versions` | 2 projects, base and variant, 2 proposals, 3 skills, a cycle in the changed graph | what is in force, what contracts say, what a diff does |
| `worktrees` | two scenes, bench apart or not, one event: 1 job, 3 directories, 1 commit, `prune` at any moment; 2 jobs, a directory each, 2 commits, nobody pruning; fairness | nothing is lost, orphaned engines or not, the main line is true, leftovers go |
| `runner_host` | 1 runner, 1 session of any temper, 2 chunks, fairness | one true end per session; one signal ends the runner and its engine |

The bounds are numbers of rows, sessions, events, crashes and failures; each is the
smallest at which the case the run is about can happen.

* *Leases.* Three leases let a job be leased, lost and leased again while another
  job fills a ceiling; a declared cap of 3 over a ceiling of 2 makes the clamp
  matter; a clock of 3 with TTL 1 lets a lease be renewed and still die, with one
  dead and one alive in the same sweep. Runners and lease ids are symmetric: no
  operator tells them apart, and the `CHOOSE` of `OwnerOf` is over a set that
  `OneOwnerPerJob` keeps to one element.
* *JobBoard.* Small scenes rather than one large instance: the end of a
  round needs two jobs and the sessions that complete a working final node; the
  streak needs a ceiling of 2 and three sessions, so that two close out of order
  around a third; the cascade needs three generations, and a child may be born
  under a job already cancelled. `board` explores the four as scenes (`Scene`
  of `MCJobBoard`, a state constraint): a state outside all of them is not explored
  further, so that rounds, sessions, questions and families each meet every order of
  their own steps and not those of the others. `refusals` needs only the sessions of
  one job.
* *ControlPlane.* Three processes are a start that is cut short, a start that meets
  what it left, and a third that meets what the repair left; the five builds are
  an old one, one that adds files, one that edits a file that ran, one that renames
  it, and one whose directory is ambiguous. Two events and one drop are a round
  processed, a drop or a restart, and a round that has to be caught up with. The run
  has two scenes (`Scene` of `MCControlPlane`): any number of starts beside each other
  while nothing is recorded and nobody watches; and under a watcher one control plane
  at a time, with another starting against it while it serves or shuts down. It looks
  no further where two own the database, which `two_starts` shows can happen. What is
  cut off so is a start, an append or a watch, of which no fairness is asked.
* *Delivery.* Webhook and hook share only the log and the death of a host, so that one
  is looked at after the other (`Scene` of `MCDelivery`): the hook while nobody has
  subscribed, the subscription over the events before the hook's. A fan-out ceiling
  and a batch ceiling of 1 make every batch a full one, which is where the loops could
  go wrong; two events make the cursor pass one and not the other; one retry has the
  first, the middle and the exhausted outcome; a timeout of 1 lets an attempt overstay
  its claim. The bound in `AttemptsAreBounded` grows with `crashes`: a process that
  dies during an attempt already counted leaves its row pending, so a crash buys one
  attempt beyond the schedule, also after the last one.
* *Dispatch.* One crash leaves at most one orphaned engine, and one is all that a
  later dispatch has to meet; two orphans of one job are in the theorem (`EngineAlone`)
  and not in the run. One failing request is enough for each request of the
  dispatch to be the one that fails; a second session is what a repeated delivery, a
  second engine or a streak needs; two runners are what a lapse needs. The endings
  include each pair of reasons to stop that the code ranks. For liveness two jobs, one
  ahead of the other, and three sessions: enough for a streak of two and one more.
* *Subgraph.* Two elements are the smallest fan-out that can be half open, and the
  smallest chain; four children leave room for the surplus a lapse can cause; two
  troubles are a crash between two `POST`s and one more thing going wrong after it.
* *RunnerHost.* Two chunks are a line in two parts. Channels share nothing but the
  end of their session, and sessions nothing but the runner, which dispatches one
  at a time.
* *Worktrees.* Three directories are one that a crash left, one that a failure kept
  and one that goes on; two commits on two branches are what `--ff-only` has to
  refuse. One event is one thing out of the ordinary in a behaviour: a crash that
  leaves the engine at work or ends it, a stray dispatch, a refused removal, an
  unanswered question, a job moved back, a branch switched or a commit made in the
  bench; two do not fit the time of a run. The two scenes (`Scene` of `MCWorktrees`)
  are `prune` beside one job, and two integrations beside each other: `prune` does not
  touch the bench, and a job's directories and branch are its own.
* *GraphVersions.* Two proposals over one version are what can drop each other's
  change; three skills of which one is registered from the start leave a version
  waiting for two, so that the first to come must not decide for both; the added
  node has an edge back, so that the fixpoint of contracts needs more than one
  round.

Deadlock is checked everywhere but in `ControlPlane`, where all processes may be gone;
`RunnerHost`, whose process ends; `Worktrees`, where every directory may have been
used; and `GraphVersions`, where every proposal may be
decided, every lineage born and every skill registered.

## 4. Fairness

* `Delivery`. `WF(Pass)`: time passes. `WF(DaemonStep(dm))`: a daemon that can step
  does. The timer of `polling-dispatcher.ts` fires while the process lives; a crash
  is followed by a restart, and crashes are bounded; every attempt ends because of
  `AbortSignal.timeout`. Nothing is assumed of the receiver.
* `ControlPlane`. `WF(Served(Poll))`: the interval of the stream fires while the
  process lives. `WF(Served(Connect))`: `fetch` is answered while somebody listens.
  `WF(Alone(WatcherStep))`: the watcher's own awaits and its fixed pause end.
  Nothing makes anybody start a control plane, so `RoundsAreWatched` speaks of the
  behaviours in which one stays up in the end.
* `Dispatch`. `WF(RunnerStep(r))`: the loop of a runner goes on, because every
  request has a timeout and every session two clocks. The install over the bench and
  the git commands have none (`advance-main-line.ts:205`) and are taken to end: one
  that hangs keeps its lease for as long as it does. `WF(Expire(j))`: a lease
  that nobody renews is swept by the next request. `WF(WarmUp(r, j))`: a cool-down
  ends. Nothing is assumed of people, nor of how a session ends, nor of
  an orphaned engine, which may work for ever.
* `Subgraph`. `WF(Tick(r) \/ Dispatch(r))` and `WF(Expire)`, for the same reasons. The
  children may never arrive.
* `RunnerHost`. `WF(Loop)`: as above, the steps of a dispatch after its session
  included, which are taken to end. Weak fairness of each timer and of reading a
  pipe: the event loop runs what is due. `WF(Exit)` of an engine that was told to
  end and heeds it. Nothing is assumed of an engine nobody signalled.
* `Worktrees`. `WF(PruneStep)`: `prune` is run again and again, as on a cron, and
  ends. No dispatch has to move: a job that is never released is never collectable.

In the other modules a runner may stop for ever, a person may never answer and a
request may never arrive, so nothing is fair and only safety is stated.

## 5. What is proved

Eight modules hold the forty-seven theorems that `PROJECT.json` lists, each for
every value of the constants that the module's assumptions allow. The assumptions
are those each module declares, which TLC evaluates on every run, and four that a
theorem names itself (§5.10). Below, `P` is short for `Spec => []P` where P is an
invariant.

The proofs all have the same shape. An invariant that a run checks is seldom
inductive; what it needs beside it is a statement about *what an actor holds of
what it has read*, namely where that is still true when the actor acts on it. Each
module's inductive invariant was checked with TLC on the module's own instance
before it was proved. A lemma per action says what the step does to one row, or to
one actor, so that the long case split over `Next` is made once.

### 5.1 LeaseTable

For any sets of runners, jobs, projects, TTLs and declared caps, any ceilings and
any clock bound.

* `TypeCorrect`: `TypeOK`.
* `Exclusive`: `TenureIsExclusive`, one owner at a time (`OneOwner`) and no overlap
  over time (`Disjoint`).
* `Ceilings`: `CeilingsHold`, both ceilings (`RunnerCap`, `ProjectCap`).
* `LateCalls`: `Spec => LateCallsChangeNothing`.
* `Events`: `EventsAreTrue`.
* `Implements`: `Spec => ImplementsTenure`, the refinement of `JobTenure`.

`DisjointTenure` is not inductive. In a state that satisfies it and nothing else, a
lease of the job may begin exactly where an active one of the same job is due to
end, and the next heartbeat stretches the active one over it. `TenureInv` adds what
rules that state out. `Timely`: every row was granted in the past and every ended
row ended in the past. `ActiveIsLatest`: whatever else the job had was over when its
active lease was granted. With these a heartbeat only moves the end of the latest
tenure forward, and a grant, which the sweep and the owner check precede, starts
after all the others. `SweptTenure` shows that the sweep alone keeps all of it, so
that each route's proof deals only with the row it writes.

`CeilingInv` is both ceilings: only `Grant` makes either count grow, by one row,
after comparing the swept table's count with a cap no larger than the ceiling
(`OneMore`), and the sweep only shrinks them (`FewerActive`).

The refinement rests on `OneOwnerPerJob`: it makes the `CHOOSE` of `OwnerOf` and
`DeadlineOf` a choice among one, so that the sweep and a late call change neither,
and each route changes them for the one job it names.

### 5.2 JobBoard

For any jobs, rounds, graph, ceiling, outcomes and bounds.

* `BoardTypeCorrect`: `TypeOK`.
* `RoundEnds`: `RoundEndsOnce`. `EndTrue`: `Spec => EndIsTrue`. `EndAnnounced`:
  `Spec => EndIsAnnounced`.
* `SessionEnds`: `Spec => SessionEndsOnce`. `DraftsDie`: `DraftOnlyWhileOpen`.
* `AnsweredOnce`: `OneAnswerPerQuestion`.
* `CancelExact`: `Spec => CancelIsExact`. `CeilingExact`: `Spec => CeilingIsExact`.

`TypeOK` is not inductive: `blockOnRepeatedFailure` and an answer write the flag of
the job their session or question names, which in an arbitrary well-typed state may be
a job that has no row. `BoardInv` adds that every session and every question names a
job that exists; no handler removes one. `CloseWrites` says once what the transaction
of `finishSession` writes, and the synchronous and the awaited finish both rest on it.
`AnnounceCounts` says that whoever looks at a round, over whatever state of the
tables, writes at most its first event. For `EndIsTrue` and `EndIsAnnounced` each
handler is shown either to look at the round in the very state it leaves behind, or to
leave the round's end as it was, or to be one of the exceptions those formulas name.
`CancelIsExact` needs that the cascade is the least set closed under open children,
and that a child is only ever born under a parent that is not cancelled.
`CeilingIsExact` is two promises: the plain failure that makes a ceiling's worth of
them in the tail leaves the job blocked in that step (`FailingNodeStops`), and a block
comes only behind an unbroken tail, made of plain failures unless a refusal stands in
it (`StreakIsUnbroken`). `CeilingExact` needs that the streak the code counts, over
the newest sessions of a pair and up to the ceiling, is full exactly when the tail of
failures is that long.

### 5.3 Dispatch

For any runners, jobs, graph, endings, and any number of sessions, failing requests,
lapses, crashes and cool-downs.

* `TypeCorrect`: `TypeOK`.
* `OneWayOutAlways`: `OneWayOut`.
* `EngineAlone`: `OneEnginePerJob`.
* `DeliveredOnceAlways`: `DeliveredOnce`.

`Known` says what the row of a runner may hold where its dispatch stands: nothing is
decided before the session is judged, and one thing is decided after it
(`RowMakesSense`, `OneWay`). `Covered` says that an engine works on the job of its
runner's dispatch, that the job is leased to that runner unless the lease lapsed
(`LeaseCovers`), and that the job of an orphan whose lease still runs is leased in the
dead runner's name, which came back and is not in a dispatch of it (`OrphanCovered`);
two engines on one job would be two holders of one lease. `Once` says that the journal
knows of every call the tool carried out: as one closed as an error, and one more that
is open or settled (`Remembered`); and a call about to be made is written down, and
every one before it was closed as an error (`CallTrue`). It leans on `Covered`, for
while no lease lapsed the holder is the only one who writes either. So `DeliveredOnce`
bounds what the tool did by one more than the calls the log closed as errors, and a
call that never reported is never repeated by itself.

Two things the model took for granted became assumptions: an adapter that
reports a refusal or an exhausted quota does not report completion
(`runner/src/engine/types.ts:372`), and there are finitely many runners.

### 5.4 ControlPlane, Startup, OwnerLock, EventStream

For any processes, files, builds and contents, and any number of starts at once.

* `LockAlone`: `OwnerLock`'s `Spec => LockIsSound`. `LockSound`: the same of
  `ControlPlaneSpec`.
* `StartsSound`: `ControlPlaneSpec /\ []OneOwner => StartsAreSound`, assuming
  `AddedBehind`.
* `RoundsOnceEach`: `ControlPlaneSpec => [](StreamTypeOK /\ EachRoundOnce)`, the safety
  half of `WatchIsExact`, for any log, number of drops and starts.

`LockIsSound` is what the lock keeps however many start together. A control plane that
has settled, so that the file names it, no start is past judging another file and
nobody is about to write one, stays the only one and named until it goes itself
(`SettledOwnerStays`); and a start is refused only while some control plane is up, or
after it has cleared the path twice (`OnlyAnOwnerRefuses`). `LockInv` is what these
need: a file that names somebody was written by one who got as far as owning, and so
did whoever a start is about to judge (`NamedHasOwned`, `JudgedHasOwned`).

The lock does not keep `OneOwner` (§7), and the rest of a start assumes it: two owners
migrate one database beside each other. So `StartsSound` takes `[]OneOwner` as a
hypothesis, of the behaviours in which no two came up together. `StartupInv` adds
where each process stands in `start` and what the ledger may therefore say
(`Standing`, `LedgerIsTrue`). `InOrder`: what ran is, up to some number, all that some
build has, which is why a build that may take the database up only appends;
`AddedBehind` is needed because a build that adds a file with a lower number runs it
late (§7).

`StreamInv` says that three lists of rounds go on from each other with none left out
between them (`Follows`): what the watcher wrote ends where it stands
(`LinesFollow`, `StandsWhereItWrote`), what is on the wire begins there, and the
server's cursor is where the wire ends (`WireGoesOn`). A severed connection keeps a
first part of the wire, and a new one begins where the watcher stands, so neither
breaks it. `SinceLists` says what the query returns, by the least place at which it
would not; it is why `FinishedSince` is a recursive function and not a `SelectSeq`.

### 5.5 Delivery

For any hosts, targets, events, ceilings, schedules and crashes.

* `TypeCorrect`: `TypeOK`.
* `ClosedForGood`: `Spec => ClosedIsFinal`.
* `ScheduleKept`: `ScheduleIsKept`.
* `ClaimsExclude`: `ClaimExcludes`, assuming `RetriesOutlastAttempts`.
* `FanoutLeavesNoGap`: `NoGapBehindCursor`; `NoStepLeavesAGap`: the first half of
  `FanoutIsExact`.

`Sense` says what a row and a tick may look like. `ClaimHolds` and `OneInside`: a
row is held for as long as any attempt on it may last. `GivingUpIsTold` and
`Overtime`: behind the end of its schedule a row has only the attempts that are
still in the air, and those that crashed. For the fan-out, that what a tick enqueues
is the next part of what the subscription wants, in order, up to the ceiling.

`ClaimExcludes` is false of some settings. The outcome of an attempt replaces the
claim's deadline by the retry's; if that comes sooner than the claim would have run
out while a second attempt made after an overstay is in the air, a third begins
beside it. With `DeliveryTimeout = 2` and `Backoff = <<2, 1>>` TLC finds it. The
shipped schedule starts at the timeout and grows
(`core/src/webhooks/dispatcher.ts:81`), so that it cannot happen; both are options of
the dispatchers, and nothing compares them.

### 5.6 Subgraph

For any runners, any length of the list, fanned or chained, any number of children
and troubles.

* `TypeCorrect`: `TypeOK`.
* `ChildrenMatch`: `ChildrenMatchElements`.
* `ReportWhole`: `ReportIsWhole`.

What a dispatch has read of the control plane is there for ever, even after its
lease is gone, because children and reports are only added and a child that arrived
stays so (`Fits`, `Known`). While its lease holds it is also all there is (`Exact`,
`Alone`), because only the holder writes either. `Family` and `Told` are what follows
of children and reports.

### 5.7 GraphVersions

For any projects, lineages, skills, documents and changes; the hash may be any that
is never the sign for none (`NoVersionIsNone`).

* `TypeCorrect`: `TypeOK`.
* `InForceAlways`: `AppliedIsInForce`.
* `ContractsClassified`: `ContractsAreClassified`: a version's contracts are what
  `ClassifyContracts` makes of its document and of the skills registered *now*,
  whichever came first.
* `ContractsTrue`: `ContractsAreTrue`.
* `DiffsLand`: `DiffLands`.
* `HistoryIsKept`: `Spec => [][VersionsStay]_vars`.

A version is written once and its parent never moves, so the way back from a version
is the same for ever; a proposal is applied on top of what is in force and reverted
from the top. `Traced` says so of each lineage: there is a way back, it does not go
round, and what leads to the version in force is the first one and the applied
proposals. `Written` is what it needs of the rows: that a hash is written once, and
that no two proposals share an applied version.

The other two are about documents. `DocumentsAreGood` says that every version's
document passed the gate and that every proposal's operations are operations, a
diff's included (`DiffIsListed`); `AppliedIsListed` keeps it through an apply.

`ContractsTrue` is then `ContractsClassified` and a fact about `Available` alone,
`AvailableIsSupplied`: after so many rounds as there are nodes times paths, what a
node can count on is what every way from the initial node to it supplies. A path
missing at the end of a way is missing from every round later than the way is long
(`MissingAlong`). Conversely, the nodes at which a path is missing grow round by
round outward from the initial node, each along an arrow out of one already missing
it that does not produce it, so that a way can be read back off the rounds
(`Outward`, `MissingSomewhere`). There are enough rounds because a way repeats no
node, so none is longer than there are nodes (`RoundsAreMany`), and because
soundness gives every node a way (`EveryNodeHasAWay`).

`DiffsLand` is a lemma about any two documents that may be written (`DiffDoes`). A
diff is five lists of operations, and each is followed through its application by
one lemma that says of which document it makes which: nodes taken away
(`RemovesLand`), added (`AddsLand`, which needs the ids free, hence the order),
pins moved (`ChangesLand`), edges taken away one at a time and always the first
between their ends (`CutsLand`, which holds because whole groups go), edges laid
(`LaysLand`). `NodesChange` and `PinsChange` put the first three together: what
stays, what comes and what moves are the other document's nodes. `EdgesMeet` is the
same of the edges between two ends, which are all kept or all replaced.

### 5.8 Worktrees

For any jobs, directories, deployments of the bench, commits, crashes, stray
dispatches and people's doings, with `prune` run at any moment. The runs explore two
scenes (§3); the theorems need neither.

* `TypeCorrect`: `TypeOK`.
* `NothingIsLostAlways`: `Spec => NothingIsLost`.
* `MainLineAlways`: `Spec => MainLineIsTrue`.

`prune` reads the directories, then asks about the jobs, then removes: what it acts on
is old twice over. `FoundIsTheirs`: a directory is only ever one job's, so that the
one found is still that job's if it is still there. `AskedAtRest`: nobody works any
more in a directory that was there at the scan once its job is heard to be completed,
for its dispatch was under way at both and a completed job has none (`OneAtATime`),
unless a stray one came, or its runner was killed and the engine left there (`Ended`:
such a dispatch moves its job no more, while another completes it). That is why the
order of the two readings matters: looked up only when it is about to be removed, as
the property's mutant does, the directory could be a later dispatch's. `Sound` keeps a
branch for as long as a directory has it checked out, and `NoCommitGoes` says that the
one branch that is ever deleted holds nothing that `HEAD` lacks.

For the bench, `Carried`: what a dispatch has seen of it (the branch it is on, its
commit on it, the install over it) stays so until the transition, because the main
line only grows (`MainGrows`) and only a person switches the branch.

### 5.9 SessionProcess and RunnerHost

For any sessions, any channels drained in any order, any number of chunks and any
mix of engines; in `Holding_proofs`, since a session is the other thing a runner
holds.

* `SessionsKept`: `HostSpec => []SessionInv`.
* `EndsOnce`: `HostSpec => []OneEnd`.

`OneEnd` is not inductive: it says nothing of a session that runs. `SessionInv` has a
row's bookkeeping. `Ordered`: an order is in flight exactly while the escalation is
on, so that the first order is the one that will be told. `ToldOnce`: only lines are
told before the end. `Blank`: a session that never came up has armed and told nothing.
`Bytes`: while a session runs, what was told of a channel, what waits for its end of
line and what is in its pipe are together all that was written, in order: a callback
only moves bytes from one to the next, and what a forced end loses is what was still
in the pipe. `DrainRow` says of `Drain`, which folds over the channels, that it tells
the tail of each and nothing else, and `HeardOut` follows when the pipes are empty.

### 5.10 What the theorems assume

| assumption | where | why it may be assumed |
|---|---|---|
| `[]OneOwner` | `StartsSound` | what the lock is for; not true of every behaviour, as `two_starts` shows (§7) |
| `AddedBehind` | `StartsSound` | what `migrate.ts:7` wants of migrations and the shipped ones do; TLC evaluates it on the run's builds |
| `RetriesOutlastAttempts` | `ClaimsExclude` | false otherwise; the shipped settings satisfy it, and TLC evaluates it on the runs |
| `NoVersionIsNone` | `GraphVersions_proofs` | a version is named by a record, or a hash of one; the sign for none is `null` |

Everything else is in an `ASSUME` of the module concerned.

## 6. What the properties leave out

Each exception below is written into the formula of the property it belongs to,
and is what the code does, not what the model cannot say.

* *Disjoint tenures hold in the table; two engines may still work on one job* once
  a lease lapsed under a dispatch, or once the lease of a killed runner ran out while
  its engine lives on (`OneEnginePerJob`). After a lapse the output that may not be
  repeated may be delivered twice (`DeliveredOnce`): nothing fences the first runner's
  writes. Surplus children come the same way (`ChildrenMatchElements`);
  the next dispatch then stops with more children than elements.
* A call that fails with anything but a timeout is closed as an error, and may have had
  its effect (a connection lost, a tool process that died in the call); so may one that
  a person's "retry" closes. Each allows one more delivery (`DeliveredOnce`), asked for
  or not (§7).
* A refusal in the tail of failures may bring the flag up early (`CeilingIsExact` leaves
  that to `RefusalsAreNotCounted`, §7).
* Two starts beside each other may both come up (`OneOwner`); `LockIsSound` says what
  is kept all the same, and `StartsAreSound` is checked and proved where they did not.
* A session that asked a question and was then refused by its engine stops its job
  twice (`OneWayOut`): the refusal is decided last.
* A release that fails leaves its lease until the TTL; with a runner cap of 1 that
  runner works on nothing else meanwhile (`LeaseComesBack` says it ends).
* *A claim excludes only where no retry is due before the attempt it follows may be
  over* (`RetriesOutlastAttempts`, §5.5). The shipped settings are of that kind and
  nothing requires it of others.
* *A job whose sessions do not fail may stall those behind it for ever.* One that
  completes and stays due (an edge back to its node), is stopped by its clocks again
  and again, or throws in the upload of an artifact is first in every poll, and no
  count ever stops it: the controller takes the lowest id that is released
  (`controller.ts:211`). `NobodyStarves` names it (`HeldUp`). The model cuts such a
  behaviour off where the sessions it may open run out, so that the exception holds
  there and not before; a larger bound only moves that point.
* A child that is cancelled while its session runs may still arrive, and then
  counts as arrived.
* A change that was reverted cannot be applied again by an identical proposal: its
  version exists, and the gate refuses it as one without effect. An approved
  proposal that went stale becomes applicable again when a revert brings its target
  back (`AppliedIsInForce` covers it).
* *A directory may go from under an engine* whose dispatch had lost its lease, or
  was taken from a reading of the board older than the job's completion
  (`NothingIsLost`); or whose runner was killed: the job is leased again after the
  TTL, another dispatch completes it, and `prune` forces the directory away from under
  the orphan. And what was not committed goes with a job that the control
  plane reported completed: a job that was unblocked with its directory left dirty,
  or one seen by `prune` between the closure of a session on a final node
  (`finishSession`) and the block for what it left behind
  (`blockForUncommittedWork`), or after a crash between the two.
* *The bench is checked once.* Whoever switches its branch between the check and
  the install has that branch fast-forwarded instead (`MainLineIsTrue`). Nothing
  serialises two integrations: the commit of each is on the main line, but the
  install a gate meets may be the other's, still under way or failed.
* A branch that was merged elsewhere than in the repository's `HEAD` stays
  (`LeftoversAreCollected`): that is what `branch -d` is for.
* `AppliedIsInForce` and `ContractsAreTrue` speak of the default project (§7).
* `DiffLands` compares documents up to the order of their nodes and of the groups of
  edges between two ends, which no operation carries: two that differ in nothing else
  have an empty diff, although `core/src/domain/diff.ts:33` says that the arrays' order
  makes the round trip reproduce `to`.
* `EndIsTrue` and `EndIsAnnounced` name the two gaps of the round's end (§7).
* *Startup.* The order of migrations is that of their numbers for builds whose new
  files carry the highest numbers, as the shipped ones do: `migrate` applies what is
  pending in order, and a lower number that arrives later runs later (§7). Rows older
  than the checksum column are trusted, as documented (`RanUnrecorded`). A kill
  between minting the first credential and printing it loses the token, and no later
  start mints another. A start that refuses may first have filled the null checksum
  of an earlier row from its own file; when that file was the edited one, the right
  build is refused afterwards too. It takes a crash between the migration that adds
  the column and the back-fill.
* *Watcher.* `EachRoundOnce` begins at the first round the watcher heard of: until
  then it has no cursor, and a drop skips what finishes before it is back (§7). The
  death of the watcher itself, which starts over at the present, is not modelled.
* A killed runner orphans its engine; one that crashes can only send SIGTERM, so an
  engine that ignores it stays; an engine the runner may not signal stays
  (`StoppingEnds`). The documentation says so of the first two.

## 7. Where the code and its documentation disagree

Met while modelling. The two that contradict a property stated in the repository's own
words are runs that TLC finds violated (`refusals`, `two_starts`). Of the others, where
a property would be false it names the exception, and removing it gives the
counterexample.

* **A refusal counts in the streak.** The query of `blockOnRepeatedFailure`
  (`core/src/repositories/job.ts:2050`) reads only `status`, and a refusal by the
  engine or the quota is stored as `failed`, so one refusal and one plain failure
  meet a ceiling of 2. `docs/spec/runner-and-controller.md:569`: "A refusal does not
  enter the count"; `job.ts:2016` and `core/test/jobs.test.ts:1777` and `:1802` say the
  same. Only the session being closed is spared. Run `refusals`: a refused session, then
  one that fails, and the job is blocked.
* **A round may end in silence.** Lowering a flag can be the mutation that makes a
  round's end true, and `unblockJob` (`job.ts:2135`) and `answer` do not look at the
  round. `job.ts:1018`: "It is written in the SAME transaction as the mutation that
  made the condition true"; the gap it admits is the sweep only.
* **A round may be declared over while a job of it is blocked.** `finishSession`
  looks at the round before it counts the streak (`session.ts:882`), which
  `job.ts:1063` says never happens.
* **Two control planes started together may both come up.** The lock file is created
  by one call and named by the next, and one that exists and is still empty is taken for
  an abandoned one (`core/src/db/lock.ts:287`) and removed; `lock.ts:254` promises a
  throw when a live process owns the file, and `index.ts:242` that a second control
  plane finds out that it is second. Run `two_starts`.
* **A drop while the watcher works replays nothing.** `surveyor/src/stream.ts:12`
  and `:265` say that a drop in the middle of a lens run replays that event. The
  generator only notices the drop when the consumer comes back, after both lenses
  ran, and then moves the cursor past the event: nothing is replayed, and
  `EachRoundOnce` holds as it stands. Only the watcher's own death cuts a lens run
  short, and it takes the cursor along.
* **Keeping the last processed id does not close every gap.** Before the first event
  is processed there is no id to give back, so that a client that drops meanwhile
  resumes at the present. `docs/spec/events-stream.md:193` says of the header that
  "It is what closes the gap without duplicating anything".
* **"The number decides the order"** (`core/src/db/migrate.ts:7`) of the files that
  are pending at one start. A file with a lower number that a later build adds runs
  after higher ones, without a word.
* **Apply and revert read the default project** for the lineage, its versions and
  the skills (`core/src/routes/proposals.ts:626` and `:641`), and write to the
  proposal's. The proposals of any other project are judged by the wrong pointer.
* **"Two runners holding the same job is not a state this system produces"**
  (`runner/src/mcp/write-external-outputs.ts:660`): it is, after a lapse, and beside
  the engine of a runner that was killed.
* **A step that cannot be repeated may be, with nobody asked.** RF-36, at the head of
  `write-external-outputs.ts` (`:31`), has a person asked after a refusal, a deadline or
  a crashed attempt. Between the row closed as an error and the question a crash or a
  failing request leaves an error on record and no question; the next dispatch looks
  only for settled and open rows, and calls again. And `settleAnsweredOutputWrite` acts
  on the last decision about the node for as long as an output is unsettled, so that a
  call cut short after the retry it was authorised by is closed and made again without
  a second answer. `DeliveredOnce` counts both as errors on record.
* **A stopped runner may stay up.** `docs/spec/runner-and-controller.md:707` says
  stopping always ends. When a helper outside the engine's group holds the pipes,
  the safety net reports the session's end, the loop returns and the listeners go,
  but nothing destroys the child's streams, so the process lives as long as the
  helper does. A dispatch that ends blocked after the first signal lets the same
  pass lease and start another session, which the comment in `cli/index.ts` ("nothing
  new is scheduled") does not say. `RunnerHost` has one session, so that the second
  of a pass is not in it. An install over the bench that never ends keeps the runner
  up too: it has no timeout.
* **No declared artifact can be uploaded.** The route answers a numeric id
  (`core/src/repositories/artifacts.ts:47`; `core/test/artifact-store.test.ts:690`
  asserts it) and the runner takes a string only
  (`runner/src/dispatch/upload-artifacts.ts:241`), where `dispatch.ts:467` says "The
  report comes back with an artifact id". Each upload therefore throws, after the
  engine ended and before the closure: the session's row stays open, its tree is
  kept, and the job, unblocked, comes first in the queue again. The runner's
  tests stub the route, with string ids. Both runs of `Dispatch` have that ending;
  such a job may be leased for ever before those behind it (`HeldUp`).
* **"Nothing that is still in flight is touched"** (`runner/src/cli/prune.ts:91`):
  `prune` asks the control plane only whether a job is completed, once, before it
  removes; the exceptions of `NothingIsLost` in §6 are in flight.

The gaps in a round's end are seen by stating `EndIsAnnounced` and `EndIsTrue` without
their last disjunct; the rest by removing the named exception from `DeliveredOnce`,
`OneEnginePerJob`, `NobodyStarves`, `AppliedIsInForce`, `StoppingEnds` or
`NothingIsLost`.

## 8. What is only model-checked, and what is not modelled

Liveness under fairness is out of the prover's reach: the second halves of
`WatchIsExact` and `FanoutIsExact`, `QueueDrains`, `LeaseComesBack`, `NobodyStarves`,
`NeverSilentlyStuck`, `CallSettles`, `StoppingEnds` and `LeftoversAreCollected` stay
with TLC.

What a recursive function computes for every input is an induction over data, for
which the library's theorems cannot be used here. Where a safety property needs it,
it is proved by hand: that the least number with a property exists comes from
well-foundedness (`LeastNatural`), induction up to a bound from that (`CountUp`),
that a recursive function over `0..n` is what its equations say from both
(`Unrolled`), and induction over sequences likewise (`SequencesGrow`). No safety
property that a passing run checks is without a theorem; of `WatchIsExact` and
`FanoutIsExact` it is the safety half.

Not modelled:

* *Intake*: a draft is edited, confirmed or discarded in synchronous handlers with
  guarded updates; no second actor can come between two steps of one.
* *Runners and probes*: one row per runner, written by its own requests.
* *Artifacts*: content-addressed files; that a write is awaited is in `JobBoard`, and
  an upload that throws in `Dispatch`.
* *Credentials and settings*, but for the operator's first token: every caller is
  authorised. Foreign runners and projects are refusals that write nothing.
* *Command line, authoring sessions, satellite packages but the watcher*: clients of
  the routes, prompts and parsers, with no state of the system.
* Of modelled components: field amendments of a job, permission denials, usage,
  transcripts and output validation, which add data to a row no decision modelled here
  reads, except that a validated output is the verdict `completed` and an unvalidated
  one `no_output`; prompts and the content of files in a worktree; the bounded
  attempts of a safe output; the Windows stop; buckets, external surface, custom
  fields and hooks of a graph document; deprecation of skills.
* Three things that can go wrong have no property: two questions over one job, where
  the first answer lowers the flag the second still needs; a child that depends on its
  own parent; a crash between the release of a lease and the look at the round. The
  code accepts the first two by decision or omission and repairs the third nowhere, so
  a property about them would only restate that they happen.

## 9. What is left to prove

Every safety property the passing runs check is stated by a theorem. What stays with
TLC is liveness (§8). What the theorems assume by name (§5.10) is either false
otherwise, and §7 says what happens then, or a fact about hashes and shipped settings.
Of what the model leaves out, the parts nearest to what is proved are the project cap
in `Dispatch`, which `LeaseTable` has, and the watcher's own death.
