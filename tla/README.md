# TLA+ models of agent-remnote

agent-remnote lets programs write into RemNote. A command (or the HTTP API)
enqueues a *write transaction* in a local SQLite store; a daemon hands its *ops*
over a WebSocket to a plugin that runs inside RemNote; the plugin executes them
and acknowledges each one. This directory models the parts of that way where
concurrency, failure and time decide whether a write is done, done twice, or
lost, model-checks them with TLC and proves the central invariants with TLAPS.

Paths below are relative to `packages/agent-remnote/src` (A) and
`packages/plugin/src/bridge` (P).

## 1. The system

| component | state | operations | who calls it |
|---|---|---|---|
| store queue, A `internal/queue/dao.ts` | tables `queue_txns`, `queue_ops`, `queue_op_attempts`, `queue_op_results`, `queue_id_map` | enqueueTxn, peekEligibleOps, claimSelectedOpsBatch, claimOpById, ackSuccess / ackRetry / ackDead, extendLease, recoverExpiredLeases, upsertIdMap | CLI and HTTP API (enqueue, wait), the WS bridge (all the rest) |
| store database, A `internal/store` | the file, its schema version and tables | open, create, migrate | every process that needs the queue |
| WS bridge, A `lib/wsBridgeCore*.ts`, `kernel/ws-bridge`, `runtime/ws-bridge` | clients, active worker, quarantines, kick and progress timestamps, pending searches | one event loop: Connected, Disconnected, Pong, HeartbeatTick, KickTick, SearchTimeout, and a handler per message | plugins and CLI clients, timers |
| plugin runtime, P `runtime.ts`, `ops/executeOp.ts`, `opConcurrency.ts` | sync loop, sockets, waiting acks, idempotency memory, op locks | runSyncLoop, runOne, executeOp, sendAckWithConfirm, startLeaseExtend, OpLockManager | StartSync, its own timers, the user |
| op handlers, P `ops/handlers`, `remnote` | none of their own; RemNote's Rems | one per op type: create, move, replace, delete ... | executeOp |
| control channel and UI of the plugin, P `runtime.ts` | the connection, what each forwarder read and sent last | forwardSelection, forwardUiContext, polling, reconnecting | RemNote's events, the user |
| supervisor, A `runtime/supervisor`, `kernel/supervisor`, `services/ChildProcess.ts` | event queue, child fiber, restart fiber, state file, pid file | ChildSpawned, ChildOutcome, RestartDue, Stop | the daemon process, signals |
| process management, runtime ownership, doctor, A `commands/{ws,api,plugin,stack}`, `lib/runtime-ownership`, `lib/pidTrust.ts`, `lib/doctor` | pid, lock and claim files | ensure, start, stop, restart, take over, fix | CLI |
| write plans, op catalog, A `commands/_applyEnvelope.ts`, `kernel/write-plan`, `kernel/op-catalog`, `kernel/conflicts` | none of their own: the ops of the plan, and what RemNote's outline becomes | merge actions, compile, substitute ids, derive conflict keys | CLI, HTTP API, dispatcher |
| `rem create` and `rem move`, A `commands/write/rem` | none of their own: a plan, and the receipt of the caller | place, normalize sources, plan, wait, report | CLI |
| scenarios, business semantics | none (data conversions) | resolve, lower to a plan | CLI, HTTP API |
| read tools, HTTP API, workspace bindings, status line, CLI | RemNote's database (read only), bindings, configuration | queries, requests, rendering | users |

What is hard about it:

* **Time and leases.** An op in flight has a lease. The plugin extends it while
  it works; when it lapses, the heartbeat makes the op pending again, and the
  op is dispatched once more, while the first execution may still be running.
* **Messages.** Batches are lost with their connection; acks are repeated until
  they are answered; both may arrive after the op has moved on. Searches are
  forwarded under an id of the bridge's own, and their timers, answers and
  disconnections race each other.
* **Two clocks of progress.** The queue knows attempts and leases, the plugin
  knows idempotency keys, and the two must agree on what has been done.
* **Restarts.** A reload of the plugin forgets its memory, in the middle of a
  handler as well; the daemon is restarted by a supervisor with a restart
  budget, and may stop between two commits.
* **Several processes.** Commands open the same store, write the same pid files
  and want the same ports; any of them may be killed between two steps.

What makes each component correct, in one sentence each: the queue settles
every op and transaction once, in order, and its tables never contradict each
other; a temporary id gets one meaning, and whoever waits is told it; the
dispatcher never runs conflicting ops together and leaves nothing behind that
could go along; the plugin does an op once however often it is delivered, and
goes on asking for more whatever hangs; the locks exclude, keep the order and
wake; the handlers lose nothing; the supervisor looks after one child, stops
cleanly and gives up on a crash loop; the bridge always has the right active
worker and wakes it when there is work, and gives every search one answer, its
own; commands signal only their own services and do not lose sight of them; a
store is whole once it is open; a plan does what its actions say, one by one,
however they are merged, ordered and named; a portal fills the slot its Rem has left, and
the receipt says so only then; and what the command line is told of the user's
selection is what is selected.

## 2. Modules

| module | models | kind |
|---|---|---|
| `WriteLedger` | what the queue promises: ops settle once and in order, the verdict falls with the deciding op | abstract specification |
| `QueueStore` | A `internal/queue/dao.ts`, with the dispatch conditions of A `lib/wsBridgeCoreDispatch.ts` | component, implements `WriteLedger` |
| `QueueStoreProofs` | theorems about `QueueStore`, its refinement of `WriteLedger` | proofs |
| `MCQueueStore` | two small transactions | TLC |
| `IdMap` | `queue_id_map`: A `lib/wsBridgeCoreAck.ts`, `wsBridgeCoreDispatch.ts`, `commands/_waitTxn.ts` | component, extends `QueueStore` |
| `DispatchSelection` | `selectOpsForDispatch`, `chooseLookaheadSeed` of A `lib/wsBridgeCoreDispatch.ts` | component |
| `PluginExecutor` | P `runtime.ts` (runOne), P `ops/executeOp.ts` | component, uses `OpLocks` |
| `OpLocks` | `OpLockManager` of P `opConcurrency.ts` | component |
| `OpLocksLoop` | the loop of `drain` as written, compared with `OpLocks!Granted` | algorithm |
| `OpLocksProofs` | theorems about `OpLocks` and the loop | proofs |
| `MCOpLocks` | six requests | TLC |
| `WriteDelivery` | `QueueStore` and `PluginExecutor` joined by a WebSocket | composition |
| `DeliveryProofs` | theorems about `WriteDelivery`, from those about the queue and the locks | proofs |
| `MCWriteDelivery` | one op and its deliveries | TLC |
| `SyncLoop` | P `runtime.ts` (runSyncLoop, startControlChannel), `ws.ts` | component |
| `Replace` | P `ops/handlers/markdownOps.ts` | component |
| `SafeDelete` | P `remnote/safeDeleteSubtree.ts` | component |
| `WsBridge` | election, kick and escalation of A `lib/wsBridgeCore.ts`, `kernel/ws-bridge/election.ts`, the timers of `runtime/ws-bridge` | component |
| `WsBridgeHistory` | `WsBridge` with the window that was used last | history variable |
| `UiFeed` | P `runtime.ts` (the forwarders of the selection and the UI context), A `lib/wsBridgeCore.ts` (their messages), what a client reads of them | component |
| `SearchRpc` | A `lib/wsBridgeCoreReadRpc.ts` | component |
| `Supervisor` | A `runtime/supervisor/runSupervisorRuntime.ts`, `kernel/supervisor/restartPlan.ts`, `services/ChildProcess.ts` | component |
| `Stack` | A `commands/{ws,api,plugin,stack}`, `lib/pidTrust.ts`, `lib/runtime-ownership`, `lib/doctor/fixes.ts` | component |
| `MCStack` | a transfer that starts the daemon and the API | TLC |
| `ClaimLock` | `withFixedOwnerClaimLock` of A `lib/runtime-ownership/claim.ts` | component |
| `StoreOpen` | A `internal/store/db.ts`, `internal/store/migrations` | component |
| `ApplyPlan` | A `commands/_applyEnvelope.ts`, `kernel/write-plan/compile.ts`, `kernel/op-catalog`, `kernel/conflicts`; P `opConcurrency.ts` (computeOpLockKeys), `ops/handlers` (rems, portals, tags, sources, todo) | component |
| `MCApplyPlan` | plans on a small outline | TLC |
| `Promotion` | A `commands/write/rem` (`rem create`, `rem move`, `_promotion.ts`, receipts) | component, extends `ApplyPlan` |
| `PromotionProofs` | theorems about `Promotion` | proofs |
| `MCPromotion` | requests for three Rems under one page | TLC |
| `LocalParts` | `Stack`, `ClaimLock`, `StoreOpen`, `DispatchSelection` and `UiFeed` side by side | instances |
| `LocalPartsProofs` | an inductive invariant of each part of `LocalParts` | proofs |
| `HostParts`, `HostProgress`, `PluginParts` | several of the above, one at a time | composition |
| `HostPartsProofs`, `HostProgressProofs`, `PluginPartsProofs` | theorems about the parts, for the whole | proofs |
| `MCHostParts`, `MCHostProgress` | small instances of them | TLC |

`HostParts`, `HostProgress` and `PluginParts` put instances of components side
by side. A variable `part`, chosen in the initial state, says which of them
runs; the others stay as they are. They share no variable, so the behaviours are
exactly those of the single components, and the states add up instead of
multiplying. A property of a part that would not hold of a part that never runs
says for which `part` it is meant, and the fairness of a part is demanded only
while it is the one that runs. In `HostParts` the variables of the parts that do
not run have the value `Off`, of which nothing is said.

Definitions named "Slip" in a comment (`SameAttempt`, `GrantedFirst`, ...) are
plausible mistakes in the code. Nothing uses them in a specification; put in
the place of the definition they follow, they make TLC find the property that
guards against the mistake (`PROJECT.json`, "mutants").

### QueueStore

Each operation of the DAO is one SQLite transaction and one action. The rows of
an op are the functions `opStatus`, `attemptId`, `attemptCount`, `lockedBy`,
`waitLeft` (next_attempt_at), `leaseLeft` (lease_expires_at), `attempts` (the
audit table) and `result`. Times are kept relative to now and floored at 0,
because the code only ever compares them with now: `Tick` brings them nearer.
An `attempt_id` is a fresh UUID per claim and is modelled by the ordinal of the
claim, so "the current attempt" and "an earlier one" stay distinguishable.

| action | code |
|---|---|
| `EnqueueTxn` | `enqueueTxn` (createTxn, addOps, commitTxn in one transaction) |
| `ClaimBatch` | `selectOpsForDispatch` and `claimSelectedOpsBatch`: any selectable subset, so the result does not depend on priorities, budgets or the lookahead |
| `ClaimOversize` | `claimOpById` of an oversize op; its `ackDead` is a step of its own, because the daemon may stop in between |
| `AckSuccess`, `AckRetry`, `AckDead` | the DAO functions of the same names, including the compare-and-set on attempt, holder and status and the verdict of the transaction |
| `ExtendLease` | `extendLease` |
| `RecoverExpiredLeases` | `recoverExpiredLeases`, from the heartbeat |
| `Tick` | the clock |

Acks and extensions may name any attempt handed out so far and arrive on any
connection at any time: late, repeated and reordered messages are all there.
`queue_op_dependencies` is read by the dispatch filter but no code of the
repository writes it, so it is left out. One daemon works on a store at a time.
`RetryBudget` ties `attempt_count` to the rows of the audit table, and the limit of
attempts to the end of an op; the other properties leave open when that end comes.

### IdMap

An op that refers to a Rem that is still to be created names it by a temporary
id. `DispatchReady` dispatches only ops all of whose ids are known
(`DepsReady`); `AckOf` commits the success, `StoreMappings` the id map, as two
transactions with nothing of the daemon in between (`unstored`), but with other
processes, and with `DaemonStops`. `Drifts` is upsertIdMap's check that an id
keeps its meaning: the later op's mappings are refused, all of them, and its
attempt says so; the op itself stays succeeded. When the daemon stops between the
two commits the mapping is lost for good, and the ops that name the id wait for ever
(`Stranded`): the code does nothing against it, and `EveryTxnSettles` leaves their
transactions out. `PollTxn` and `Decide` are the
two reads of waitForTxn: the status, then the rows of the id map; `Complete` is
its count. The count is of rows and not of names: rows that a result reports
beyond the `client_temp_id`s of the transaction could make it up before the
expected ones are there. The results of the handlers are such that they do not,
and the instance has none that do (`Reports` and `Names` agree for the
transaction that is waited for).

### DispatchSelection

The ops in their order, their statuses, and `Selection` for what a RequestOps is
given. Candidates, the window, the seed and the batch are sets of positions in
the order. `Packings` are the sets of positions of the lookahead window that the
search of chooseLookaheadSeed may reach within its limits, `Seed` the one it
prefers, `Selection` the loop that fills the batch up behind it, one position a
turn (`Takes`), and `Oversize` the op that is buried instead. Keys, sizes and
needed ids are constants of the ops. A batch is judged by its own window: that ops
with unmet needs may fill the window, and that an op may be passed over again and
again for its size, no property forbids.

### PluginExecutor, OpLocks, WriteDelivery

A *delivery* is an op dispatched under one attempt. Its `stage` follows runOne:
received (lock keys being computed), locking, running, answered (the ack is
being sent until it is confirmed), done. `Start` is executeOp up to its first
await, `Finish` the rest with its `finally`, `LetGo` the `finally` of runOne.
`OpLocks` keeps the waiters as a set with arrival numbers; `Granted` says in one
formula what the loop of `drain` does, and `OpLocksLoop` has the loop itself, a
turn for every waiter in the order of the array, and compares the two in every
state. JavaScript runs each of these to its next
await, hence one step each.

`WriteDelivery` joins them: `DispatchBatch` claims in the queue and brings the
batch to the plugin or loses it; `AckArrives` is handleOpAckMessage, and leaves
the ack in the outbox or removes it (a repetition may be under way);
`Reconnect` replaces the connection and drops the acks waiting on the old one;
`ReloadPlugin` also erases the plugin's memory.

### SyncLoop

`phase` is the await a run stands at: the first toast of one that the user has
started (`toast`), dialling (`dialing`), about to ask (`pull`), waiting for the
answer (`asked`), waiting for an execution (`race`), the last toast (`farewell`);
`stuck` is a run that its first toast has failed, outside of the `try`. The flags
`syncing`, `activeRun`, `watchdog`, `cooldown` are those of the runtime.
`inFlight` and `racing` are the run's map and the promises it awaits, which come
apart when an op is delivered again. `Trip` is the watchdog: it gives the flags
back without the run and closes the sockets; the run itself goes on when its
await settles, which is why there may be two. Of such a run only its phase and its
socket are kept, and its races end at any time or never. Requests on a socket are
answered by the bridge (`Server`), in time or after the run's own timeout.

The watchdog is set before the first toast (`runtime.ts:1319`, `:1336`), for which
nothing bounds the wait. A run that is given up there chooses its socket after
the trip, and takes the control channel that has been opened again, on which the
current run may be waiting: both then take the same batch and execute it. The
module has these runs (`mode` is `late`); `TakenOnce` is not true of them and
leaves them out. No document promises that only one run pulls.

### Replace, SafeDelete

`Replace` has a step per call to RemNote, each of which may fail, and `at` names
the next one; `Reload` may come after any of them and starts the handler anew
on what it finds. A move that fails may have moved some of the Rems, an import
that fails may have made some. The Rems
are names; the trees below them are not modelled. How many Rems there are before,
among and after those to be replaced, and how many new roots, are constants.

An import may also make less than the Markdown has and not say so (the fault
`quiet`): RemNote's own may return fewer Rems or none, and the import by headings
passes over what fails in the preface and the bodies and over headings that come
to nothing (`markdownOps.ts:388-403`, `:417-432`). `created` is what has been made.
The handler for children does not look (`:935-988`): it puts the old children away
and reports a success, although `docs/ssot/agent-remnote/tools-write.md:191` has
the old content deleted only after the new one is in place. The one for a
selection refuses an import that has made nothing, and only that (`:698`). The
properties say exactly what holds then: a success means that what is in place is
all that the import has made (`SuccessReplaces`), and until an execution has
succeeded the old children are there (`ChildrenNotLost`).

`SafeDelete` has the plan as an operator (`PlanDeleteRoots`: `PlanOf` a Rem, given
the plans of its children, and the table of sums, `Sums`, all as recursive
functions) and then one step per removal, in between which the user may remove
Rems. How large a tree and a limit may be are constants (`LargestTree` and
`LargestBatch` of `PluginParts`).

### Supervisor

The event queue is a sequence; the child's fiber and the restart timer only
append to it, and the loop takes one event at a time, as in the code.
`windowAge`, `timer` and `uptime` are times relative to now. `Return` is the
release of the child: SIGTERM, SIGKILL after a grace period, then the pid file.

### Stack, ClaimLock

A command is a process with a list of tasks (`todo`) and a place in the current
one (`at`), because every probe, file and signal may meet what another process,
a crash or a reboot has done in between. `Ensure`, `Check`, `Start`, `Probe`,
`SpawnDetached`, `WritePidFile`, `WaitForHealth` are the start of a service,
`Stop` to `Erase` the end of one; a transfer is a list of both with `WriteClaim`,
and `Fails` turns to the rollback where there is one. `MayUsePort` is the rule
of the canonical ports. `Reboot` leaves the pid files, whose pids then belong to
anybody ("stranger").

`ClaimLock` is the lock of transfers, with a step per file system call;
`Stack` takes it in one.

### StoreOpen

`Stores` are all the stores there can be: none, those of versions 1 to 4 under
the tables' old names, with or without the columns that later migrations add
(version 0 with tables is one from before versions were kept), those of versions 5 to
10, and one of a version to come. `Look` reads what decides about the way,
`Migrate` is the transaction of all migrations, with the version read again;
`MakeTable` and `Stamp` make a new store, a statement at a time. `Ends` may come
anywhere.

### ApplyPlan

From the actions of an `apply` envelope to the outline. A step of a plan is an
action, its alias, the ids of its input by path, and what else its op looks at;
`Actions` is the table of the compiler (op, whether `as` is allowed, where an
alias may stand, what must be there), `AllIdFields` that of the op catalog.
`Coalesce` merges neighbours (`MayJoin`, `Alike`, `Merged`), `Accepted` says
what compilation refuses, `Compiled` makes the ops and turns aliases into
temporary ids. `Submit` is all of that; `Send` the dispatcher's condition:
every temporary id is known (`Unknown`) and no conflict key is in use (`Keys`:
those of the payload before and after substitution). `Perform` is the handler:
`Apply` gives the outline, `Children`, `Tagged`, `Sourced` and `Todo` its parts.
`Throw` and `CutOff`, a reload of the plugin, break it off at any of its items:
what the first items did stays, and after a reload all of it is done again. In
the queue the op is in flight all this time (`InFlight`), until `Ack` commits the
outcome, or `Lapse` puts it back.

Two things are worth knowing. The compiler accepts a step that refers to its own
alias, and steps that refer to each other's (`compile.ts:824-831` only asks
whether the alias exists): their ops wait for ever, although
`specs/024-agent-first-composite-writes/contracts/cli.md:42` allows earlier
aliases only; `PlanSettles` leaves such plans out (`Grounded`), and shows that
every other plan settles, forward references included. And conflicting ops of a
plan are kept apart but not in order, as transactions are parallel unless they
ask for the contrary; what a plan means one by one is therefore compared with
the ops after merging, not with the order in which they happened to be
dispatched.

### Promotion

`rem create` and `rem move` read the places from the outline they find
(`RangesOf`, `Slot`), write a plan, which `ApplyPlan` takes from there, wait,
and tell the caller what became of it (`receipt`). `PortalFillsSlot` says that a
portal "in place" stands where the sources stood, `ReceiptTellsTruth` that a
receipt tells of the sources and the portal what the outline has. The look after
a wait that has ended may itself fail, or come too late to find a part missing,
so that a plain failure may be told at any time. The
properties leave out, because no document promises otherwise or the code plainly
decides otherwise:

* a new Rem that is put above its sources in their own parent shifts the slot, of
  which the in-place portal has the old number
  (`specs/029-write-command-surface-reset/contracts/cli.md:99`);
* `at:parent[n]:P` of a portal loses its `n` (`_promotion.ts:93`), and portals
  before or after a Rem use the place it had before the sources left;
* a `rem.move` that leaves a portal, done again after a lapse, leaves another one;
* a portal to an existing durable Rem that fails is reported as plain failure;
* a caller whose patience ends is told `partial_success` and `created: false` from
  what the queue knows (`create.ts:192`, `receiptBuilders.ts:39-71`). While the op
  of the portal is in flight, the portal may still come, or may stand already and
  only its ack is missing; after a delivery that was cut off nobody knows. The
  document speaks of a portal that has failed
  (`docs/ssot/agent-remnote/cli-contract.md:249-253`). `ReceiptTellsTruth` therefore
  says that there is none when the queue has given its op up or not begun it
  (`PortalUnderWay`).

### UiFeed

The two forwarders of the plugin, each run of which takes the open socket, reads
RemNote call by call, compares what it has read with what it sent last (`sent`,
the signature) and sends it on the socket it took. `Act`, what the user does,
may come between any two calls, `due` are the events that have not been
delivered, and `again` is the flag that makes a run repeat. The bridge keeps
what it is told of each connection (`known`) and the command line reads the
entry of the session.

Two things are worth knowing. A forwarder that began on an older socket notes the
signature of what went there, so that the new connection is told nothing until
something changes (`runtime.ts:1145`); `crossed` marks these behaviours for the
UI context, where nothing repeats the run. And a selection that is newer than the
UI context it is read with is cleared rather than shown
(`docs/ssot/agent-remnote/ui-context-and-persistence.md:44`); the properties
therefore say that what is shown is what is selected, or nothing.

### WsBridge

The bridge is an actor: one event at a time, each an action. Clients are kept in
the order in which `electActiveWorker` prefers them: `idle` by connection,
`used` by the last report of their selection or context, so `Elected` is the
last eligible one of `idle \o used`. `Recompute` is recomputeActiveWorker and is
a conjunct of every handler that calls it, the last one. Timestamps are ages:
`seenAge`, `progressAge` (since the last ack, dispatch or first sight of work),
`kickAge`, `escalateAge`; quarantines, leases and the two timers count down.
Ages are capped where the code stops telling them apart.

| action | code |
|---|---|
| `Connect`, `Register`, `Activity`, `Pong`, `Disconnect` | the handlers; a plugin also reports its selection right after it registered, which is an `Activity` like any other |
| `SocketCloses` | the socket goes, the `Disconnected` event is still in the queue: a batch sent in between is lost |
| `HeartbeatTick`, `KickTick` | the handlers; `KickTick` with `Escalate` or `NoEscalation`, then `Kick`, to the worker read before the escalation |
| `RequestOps`, `Ack`, `RejectedAck`, `LeaseExtend`, `TriggerStartSync` | the parts of the handlers that the election and the kick look at; what they do to the queue is in `QueueStore` |
| `Enqueue`, `ComesDue` | the queue as `queueStats` sees it |

Of the plugin there is only whether its sync loop asks for ops (`pulling`):
StartSync starts it unless it runs, and NoWork ends it. `AutoSync` says whether
a plugin pulls when it connects: by its setting, which is on by default, except
in the 120 s after its watchdog has tripped.

### SearchRpc

The inbox of the bridge is a sequence. `Close`, `Respond` and `Fire` happen
outside the loop and append to it; `Loop` takes the first event. An id is what
the code makes it of: connection, millisecond and number of pending searches.
The number goes down with an answer, so of three searches within a millisecond
two can get the same id; the later then replaces the earlier in the map and gets
its result, although `specs/003-ws-identity/spec.md:36` promises that searches
are kept apart. `Waits` leaves such a caller out of `EveryCallerHeard`.

## 3. Runs

| run | question | bounds, and why they are enough | states |
|---|---|---|---|
| `QueueStore` | are the tables consistent and does the queue implement the ledger? | a serial and a parallel transaction of two ops, one op oversize, a conflict across them, two connections (symmetric), two attempts, one unnoticed lapse: every ack can be late, repeated or from the wrong worker | 323,729 |
| `HostParts` | safety of the host's parts, of an op's way to the plugin and back, and of what the user selects on its way | see below | 954,988 |
| `HostProgress` | safety and liveness of supervisor, id map, kick and plans | see below | 81,817 |
| `PluginParts` | safety and liveness of the plugin's parts and the searches | see below | 320,625 |
| `QueueStoreConflicts` | can conflicting ops hold live leases together? **violated** | three ops, one connection | |
| `WriteDeliveryUnlocked` | is an op without lock keys executed once? **violated** | one lapse, no reload | |
| `SupervisorDefaults` | do the default parameters detect a crash loop? **violated** | the real values, in units of 500 ms | |
| `WsBridgeDefaults` | is a backlog consumed with the default escalation? **violated** | one window, the default timings in units of 15 s | |
| `PromotionOrder` | do sources keep their order below a new Rem? **violated** | two sources under one page, no lapse | |
| `StackTakeover` | does a successful transfer leave one owner? **violated** | one command, daemon and API, three pids | |
| `ReplaceSelection` | is the selection still there when calls fail? **violated** | two targets, two executions | |
| `StoreOpenFirst` | can a store always be opened again? **violated** | two processes | |

The parts:

| run, part | properties | bounds, and why they are enough |
|---|---|---|
| `HostParts`, bridge | `ActiveIsServing`, `UsersWindowWorks` | two windows, one job, timings of one tick, with escalation; a third window would only be one more that is passed over |
| `HostParts`, delivery | `AtMostOncePerLife`, `VerdictIsTrue` | one op with lock keys, two counted attempts, two lapses, two connections, one reload; the ops of the queue only meet in the plugin by their deliveries, so one op with several deliveries is the interesting case |
| `HostParts`, processes | `OnlyOurDaemon` | daemon and API of both installs, every kind of command but one at a time (two that start the daemon at once can lose one: nothing locks them out), two pids: one process may replace another |
| `HostParts`, transfers | `OneTransfer` | three commands: a holder and two that compete for what it leaves |
| `HostParts`, store | `StoreServes` | two processes (one to finish what the other has begun), every version of the store |
| `HostParts`, selecting | `GoodBatches` | five ops: conflicts, an unmet need, one oversize; one to three wanted, a budget that fits all and one that does not, a window smaller than the list |
| `HostParts`, feed | `NoLeftover`, `ContextIsCurrent` | two Rems, two places, two acts of the user, two connections, one id sent (200 in the code): enough for a truncated selection, and for a reconnection at every call |
| `HostParts`, promotion | `PortalFillsSlot`, `ReceiptTellsTruth` | three Rems under one page and another page, 53 requests, plans of at most four ops, one lapse |
| `HostProgress`, daemon | `OneCleanLife`, `CrashLoopEnds` | two restarts, backoffs 1, 2 in a window of 8 |
| `HostProgress`, ids | `IdsAreTrue`, `NoDrift`, `EveryTxnSettles` | three ops: one needs another's id, a third claims the same ids; one stop of the daemon |
| `HostProgress`, bridge | `HeldEnds`, `KickConsumesBacklog` | one window that never pulls by itself, no escalation (with it, see `WsBridgeDefaults`) |
| `HostProgress`, plans | `OpsWaitTheirTurn`, `MergingKeepsWork`, `PlanSettles` | two pages, two Rems, one lapse; an alias at every place where one may stand, forward, cyclic and refused references, all pairs of eleven actions that may be merged, and all triples of them as dry runs: groups of one to three next to others |
| `PluginParts`, locks | `MutualExclusion`, `NoLostWakeup`, `DrainIsLoop`, `WaitersInOrder`, `EveryoneServed` | six requests on three keys: a chain of overlaps, two equal ones, one without keys |
| `PluginParts`, puller | `TakenOnce`, `KeepsPulling` | two runs, two sockets, one op, concurrency 2, one retry after an error, one late answer; the watchdog needs two runs to do harm |
| `PluginParts`, search | `AnsweredOnce`, `EveryCallerHeard` | two callers, one worker, one millisecond in which they ask and one in which timers fire |
| `PluginParts`, replace | `ReplacesOrKeeps` | two targets between two others, two new roots, two executions, every call may fail, an import may quietly make less |
| `PluginParts`, delete | `FewSmallBatches` | all trees of at most five Rems, all limits up to four |

Bounds that are not in the code: `MaxLapses` (how many leases of an op lapse
without the heartbeat having counted a retry; the clock stops where a further
lapse would exceed it), `MaxReloads`, `MaxStops`, `MaxPid`, `MaxMs`, `MaxLate`,
`Runs` and `Sockets` of the sync loop, `Executions` (`MaxAttempts` of `Replace`),
`MaxActs` and `MaxConns` of `UiFeed`, and `MaxSteps` and `MaxOps` (of a plan; the
code's limit is 500).
`Permutations(Conns)` is used as a symmetry only in `QueueStore`, which has no
liveness.

Fairness, each stated with its component and repeated in the run for the part (that
of the sync loop as a condition in `KeepsPulling`, so that TLC evaluates it for that
property only):

* `IdMap!MapFairness`: the clock runs; a connected worker keeps pulling
  (StartSync, sync loop); it answers for the ops it holds (sendAckWithConfirm
  repeats); a handler that has begun goes on; the heartbeat runs. Enqueueing,
  lease extension and the waiting command are never forced.
* `OpLocks!FairSpec`: an op that runs ends.
* `Supervisor!Fairness`: its own fibers and the clock run; neither an exit nor a
  signal ever has to come.
* `WsBridge!Fairness`: the clock and the two timers run, the bridge takes its
  events, a sync loop that has begun goes on asking, and the plugin answers for
  an op while it is connected (it gives up after a timeout); connections, pongs,
  user activity and notifications are never forced, so `BacklogIsConsumed` says
  itself (`Settled`) that workers are online in the end.
* `SyncLoop!Fairness`: timers fire, the socket is dialled again, StartSync is
  repeated (the bridge's kick), the awaits of a run are bounded, the bridge
  answers. No execution ever has to end, and no toast. `KeepsPulling` is about
  behaviours in which in the end connections are no longer lost, and the watchdog
  trips no more on runs that have not got beyond their first toast or the socket
  they dial after it: a user who starts such runs for ever keeps the others out.
* `ApplyPlan!FairSpec`: ops that may go are sent, performed and acknowledged, and
  a lease ends (`Progress`); none has to throw, and the plugin is reloaded
  `MaxLapses` times at most.
* `SearchRpc!Fairness`: the clock, the loop and the timers run; no plugin has to
  answer.
* `Stack`, `ClaimLock`, `StoreOpen`, `DispatchSelection`, `Replace`,
  `SafeDelete`, `WriteDelivery`, `UiFeed`, `Promotion` state none: their
  properties are safety.

Deadlock is checked in `QueueStore`, whose acks, extensions and clock never stop.
In the composed runs a part that has done all it was asked to may stop, as the
configurations say; that nothing waits for ever there is what the liveness
properties are for.

### What the violations show

* `QueueStoreConflicts`: `extendLease` accepts an extension of a lease that has
  lapsed. In between, `listInFlightOps` ignored the op, so a conflicting one
  could be dispatched; afterwards both are in flight with live leases
  (`docs/ssot/agent-remnote/queue-schema.md:264` says they are not).
* `WriteDeliveryUnlocked`: the `finally` of `executeOp` also runs for the
  delivery that was told "in-flight; retry later", and removes the key of the
  execution that is still running. Ops with lock keys are protected by them.
* `SupervisorDefaults`: the ten default backoffs take 65.5 s, longer than the
  window of 60 s, so the count always starts anew and "failed" is never reached.
* `WsBridgeDefaults`: the progress clock runs while no worker is there and is
  not restarted by an escalation. After 90 s, each kick quarantines the worker
  it finds, even one that has only just registered, and sends StartSync to that
  very connection, which is then told it is not active. The quarantine is over
  when another kick is due, which does the same again. Only a plugin that pulls
  by itself breaks the circle (`specs/004-sync-reliability/spec.md:75` promises
  the consumption without it). `KickConsumesBacklog` shows that escalation is to
  blame: without it the promise is kept.
* `PromotionOrder`: `rem create` with several sources writes a move for each, in
  the order the sources have, none of them with a position. Each move puts its
  Rem first below the new one, so that the last source ends up first
  (`specs/029-write-command-surface-reset/spec.md:189`, FR-015C, promises their
  order). Moves that stand next to each other in an `apply` are merged into a
  bulk move, which counts its place up and keeps the order: merging reverses
  what the same actions do one by one
  (`specs/031-query-scenario-package-and-command-taxonomy/contracts/selector-action-compilation.md:61`
  allows merging only where it means the same). `MergingKeepsWork` shows that
  all else is kept.
* `StackTakeover`: a transfer to the source tree ensures each service, and a
  service that answers is left alone whoever it belongs to; the claim then names
  one install and the port belongs to the other
  (`specs/033-fixed-runtime-owner/spec.md:254`).
* `ReplaceSelection`: when the move of the selection into its backup fails, the
  Rems are moved back as far as possible and the backup is removed, whether or
  not it is empty. The variant for children looks first
  (`docs/ssot/agent-remnote/tools-write.md:191`).
* `StoreOpenFirst`: the schema of a new store is executed outside a transaction
  and its version written last; a process killed in between leaves tables with
  version 0, which every later open takes for a store of version 1 and fails to
  migrate (`specs/017-queue-db-generalize/spec.md:84`).

## 4. Proofs

The proofs are about the specifications the runs check, for every value of the
constants that satisfies the assumptions. What the runs check of the parts is
stated of `HostParts`, `HostProgress` and `PluginParts`, and so is what is proved:
each `...Runs` lemma shows that a behaviour of the whole, of which `part` is the
part that runs, is one of the part's own specification, and the theorem about the
part carries over.

| theorems | of | say |
|---|---|---|
| `AlwaysRecoverable`, `SerialExecution`, `VerdictsAgree`, `AuditIsTruthful`, `RetriesAreCounted`, `HistoryStays`, `Refinement` | `QueueStore` | the tables agree with each other, retries are counted once and bounded, finished attempts stay, ops and transactions settle as `WriteLedger` says |
| `IdsUseQueue`, `IdsStayTrue`, `MeaningStays` | `IdMap` | the queue in it is `QueueStore`; what an id means, that it never changes, and what a caller is told |
| `DeliveryUsesQueue`, `DoneOncePerLife`, `VerdictsAreTrue` | `WriteDelivery` | the queue in it is `QueueStore`; an op with lock keys has its effect once in a life of the plugin; the queue's word is what has happened |
| `LocksExclude`, `LocksAccounted`, `WakeupsNotLost`, `ServedInOrder`, `DrainGrantsGranted` | `OpLocks`, `OpLocksLoop` | exclusion, no lost key, no lost wakeup, order, and that the loop of `drain` does what these say of a set |
| `ActiveWorkerServes`, `WorkFollowsTheUser` | `WsBridge` | the active worker is one that can work, and the one the user works in |
| `BatchesTakenOnce` | `SyncLoop` | two runs never wait on one open socket, unless the watchdog has given one up before it had a socket |
| `CallersAnsweredOnce` | `SearchRpc` | no search is answered twice |
| `BatchesAreGood` | `DispatchSelection` | no two ops in flight conflict; a batch keeps its budgets and leaves nothing out it has room for |
| `OpsHeldInTurn` | `ApplyPlan` | no op reaches RemNote before the Rems it names; what the host keeps apart the plugin locks |
| `PortalsFillSlots`, `ReceiptsAreTrue` | `Promotion` | a portal left in place fills the slot of what was moved; what the caller of `rem create` and `rem move` is told is so, but for a portal still under way |
| `ChildLivesOnce` | `Supervisor` | one child, and none after a stop |
| `SupervisorsAreFiled` | `Stack` | one command at a time signals only its own, and loses no supervisor |
| `TransfersExclude` | `ClaimLock` | two transfers never run at once while nobody dies |
| `StoresServe` | `StoreOpen` | whoever has opened the store has all of it, and one with ops can always be opened |
| `ReplacementsHold` | `Replace` | a success has replaced all, and only that, by what the import has made; of children nothing is lost before |
| `DeletionsHold` | `SafeDelete` | no batch is larger than the limit, a success leaves nothing, and as much as possible stays together |
| `SelectionsAreCurrent`, `ContextsAreCurrent` | `UiFeed` | what the command line is shown is what the user came to rest on |

### Assumptions

The queue's constants satisfy `TxnShape` (transactions of ops with distinct
numbers), `Durations` and `Limits` (natural numbers, one attempt at least) and
`NullConn`; `DeliveryConstants` and `IdConstants` say the same of those of the
parts. `IdShape` adds that there are finitely many temporary ids, that names and
reports are such ids, and that the ops of the transaction a caller waits for
report no others than those they name: under any other condition its two counts
say nothing about each other (see `IdMap` above). `LockKeysType` types the keys
of requests, `Sets`, `Timing` and `Policy` the constants of the bridge and the
supervisor, `CommandConstants` the jobs of commands, `NullRival` and
`RunNumbers` say that "nobody" is nobody, `FeedConstants` that there is
something to select, and `BatchConstants` that sizes, budgets and the limits of
the search are natural numbers. `PlanConstants` says what a caller writes: the
ids of Rems and aliases, never a temporary id, and of an action that may be
merged one id for each of its paths, which are strings there and not lists.
`PromotionConstants` (`RequestShape`, `OutlineShape`) says of a request that it has
one of the kinds the commands parse, with at most one position for a place, and
that `rem move` has one Rem to move; of the outline that each Rem has one place at
most; and of both that no Rem in them is one that is still to be made.
`ReplaceCounts` says
that Markdown has a root at least and an op is executed once at least,
`DeleteBounds` that the largest tree has a Rem at least and the largest limit is a
natural number. Conflict keys, orders, delays, policies and reports are arbitrary.

### Inductive invariants

* **Queue** (`QueueStoreProofs`). `IInv` adds to what the runs check
  `AbsentUntouched` (nothing happens to an op before its transaction is there,
  or `TxnVerdict` could not survive an enqueue) and `ClaimBudget` (the ordinal of
  a claim stays within the audit table, which the bound `MaxLapses` needs). There is
  a lemma per action, with a step per conjunct for acks and claims.
  `HistoryIsFinal` needs that an ack or an extension only touches the row of the
  current, open attempt, which `AttemptAudit` says. `RetryBudget` is shown on top of
  it: a row that becomes a retry was none, so that the rows counted are one more,
  and any other step changes neither the rows nor the count. The refinement maps `Outcome`
  and `Verdict`: acks map to `Succeed` and `GiveUp`, an enqueue to `Accept`,
  everything else stutters.
* **Id map** (`HostProgressProofs`). `MapInv` is the queue's invariant read through `Rows`,
  in which an attempt that was in conflict about an id counts as the success it
  is: `StoreMappings` then stutters and every other step is one of the queue.
  `MappedTruly` gives a mapping its accepted ack, from which it cannot be
  parted because an op succeeds once (`QueueStore` again). `WaiterInv` relates
  what the waiting command has read to what is still so: a verdict is final, and
  rows are never removed; that as many rows as names are the rows of the names is a
  fact about finite sets.
* **Delivery** (`DeliveryProofs`). `DInv` takes the invariants of the queue and
  of the locks and ties them to the plugin: `OpPlaces` (the stage of a delivery
  and its place in the locks agree), `Handed` (only what was claimed is there),
  `Successes` (a success, wherever it is noted, is an effect), `Counted` (in one
  life an effect is counted once, because the op whose key is noted is not run
  again, and while it runs nobody else of it holds its locks), and, for the
  failures, `Turns` (deliveries of an op that keeps its turn are behind each
  other) and `Failures`. An op keeps its turn (`KeepsItsTurn`) when its keys are
  known at once and no other op has one of them: else a later delivery may take
  the fast path of `acquire` past an earlier one that waits for the other op, so
  that the queue's last word can be "dead" of an op that is done after it. That
  half of `VerdictIsTrue` is stated of such ops, and while the plugin has not
  been reloaded, which forgets what is done.
* **Locks** (`OpLocksProofs`). `IInv` needs exclusion, accounting and no lost wakeup
  together, and `Numbered`: nobody is missed by `drain` because a waiter is
  blocked by a locked key or by an earlier waiter. `ServedInOrder` needs that nobody
  waits for what it holds. The loop is shown right turn by turn: after those met
  up to a number, what is granted, what is locked and which keys are remembered
  are what `Granted` says of them (`Turned`).
* **Bridge** (`HostPartsProofs`). The election only chooses connected workers without
  a quarantine (`ElectedServes`); the invariant adds that the ranks are sequences
  of connections and the quarantines numbers, for a quarantine that has ended
  must not come back by the passage of time. `TouchedLeads`: the window touched
  last is the last of `used` until it closes, and a closed one never returns.
* **Sync loop, searches** (`PluginPartsProofs`). `SocketsApart`: the current run has a
  worker socket of its own or the control channel, and no run that has been given
  up and was not late has a socket that is open, for the watchdog closes those it
  had; `CurrentRun` says what the flags say of the run and of what it executes.
  `InOnePlace`: a search is in the inbox, or pending, or answered.
* **Replacing** (`PluginPartsProofs`). The facts about sequences are shown first, by
  appending (`ByAppending`): leaving Rems out of a sequence commutes with joining
  sequences and with leaving out others (`WithoutConcat`, `WithoutBoth`), and a move
  puts together what is left and what is moved (`MovedIs`). `ReplaceInv` then says,
  of children, what the parent shows at each step of an execution that goes well
  (`InStep`), and that what there was before the execution is there until it has
  succeeded (`EarlierKept`); for that, nothing is in this execution's backup but
  what it replaces, what it has created is its own (`Made`), and what later
  executions will create is nowhere yet (`Untouched`). A lemma (`Frame`) leaves of
  each step what it does to the Rems. Of a selection it says, for the first execution, what the parent has, in order
  (`SelInv`).
* **Deleting** (`PluginPartsProofs`). Of the table of sums: up the items, it has the
  sums of all choices that fit (`AllChoices`), and following it down from a sum gives a
  choice with that sum (`BackSums`); so the choice is one that keeps the most
  (`KeepFacts`). Up the tree, the plan of a Rem is good (`PlanIsGood`): what stays
  with it is no more than its residual says, and each batch is small given what goes
  before it (`SmallFrom`). `DeleteInv` says that what is there is one tree, and that
  what remains of the plan is small from what is gone and ends with the root; the
  user's deletions only make batches smaller (`SmallMonotone`).
* **Selection of a batch** (`LocalPartsProofs`). The state is simple (`SelInv`), the
  step is not: the seed is a fullest packing of its window, and `Good` is the
  invariant of the loop behind it, that what was chosen up to a position fits, is
  free of conflicts and contains the seed so far, and what was passed over could
  not be added. A loop is a function of the positions; that it exists, and what it
  comes to, is shown by there being no least position at which it fails
  (`LeastNat`, `UpTo`), which is how induction is done in all of these proofs.
* **Plans** (`HostProgressProofs`). `PlansInv` says that an op names Rems, and
  temporary ids only where the catalog has an id field (`IsOp`), and that what is in
  flight knows all of its ids. That `IsOp` holds of compiled ops is three facts: for
  every action, each place at which the compiler allows an alias is, in the payload,
  an id field of its op (`ActionsFit`, by cases over both tables); groups of
  neighbours are of one action and all of it may be merged (`GroupsAreGroups`, up
  the positions of the plan); so that merged steps hold the ids of their parts and no
  others (`MergedIds`). That the locks cover the conflict keys is a fact about the
  two tables of keys (`KeysLocked`).
* **Promotion** (`PromotionProofs`). First the plans: whatever is asked for, the ops are
  the new Rem, what goes below it and the portal last (`OpsOfCreate`), or a move and
  perhaps a portal (`OpsOfMove`), none of them merged. `PromoInv` then says of the
  outline, whichever ops have been performed, acknowledged, thrown or cut off:
  nothing that names the new Rem begins before it has been made (`MadeOK`), each source whose move succeeded is
  below it and nowhere else (`MovedOK`), and there is a portal exactly if the op that
  makes it is done, or the move has left one, unless a delivery lapsed (`NoPortalOK`,
  `PortalOK`, `LeftOK`). The slot needs most (`SlotOK`): the parent's children can be
  cut where the first source stood. Unless the new Rem is above the cut, what was
  before the sources is above it as it was, and below it, once sources and the new
  Rem are left out, what was after them (`Halves`). Once there is a portal, it is at
  the cut. That each move keeps this, wherever
  the sources stand between, rests on lemmas about sequences (leaving members out,
  joining, inserting), shown by appending as for replacing.
* **Supervisor** (`HostProgressProofs`). `SupervisorInv` adds to `OneCleanLife` that no
  ChildSpawned comes after a ChildOutcome in the queue (`InOrder`), so that a child
  is not taken for alive after its end.
* **Processes** (`LocalPartsProofs`). `CommandsInv`: a supervisor is named by the pid file
  of its install, unless the command that started it is about to, or it has just
  been started and tells the file itself (`Filed`); and at the places where a
  command removes the file or starts another, there is none (`Expected`).
* **Transfers**. `Locked`: the directory is there exactly while one command owns
  it, and is not old without an owner. All of it only as long as nobody has died: a
  dead owner's lock is meant to be taken.
* **Store**. A store without ops has some of today's tables, made by those who are at
  it (`Empty`); one with ops is always as the migrations up to its version leave it
  and nobody takes it for a new one (`Holding`, with a lemma per migration).
* **Feed**. While the socket is open, what a forwarder sent last is what the bridge
  has, and it is what the user came to rest on unless an event is on its way or a run
  is to repeat (`SelectionInv`, `ContextInv`, the latter unless `crossed`).

### What is only model-checked

* All liveness (`EveryTxnSettles`, `KeepsPulling`, `KickConsumesBacklog` and the
  others with a `~>` or `<>`).
* `MergingKeepsWork` of plans: that a merged op does to the outline what its parts do
  one by one, in two runs of one plan that are never in step.
* Of `OneTransfer` nothing after a death, of `AtMostOncePerLife` nothing for ops
  without lock keys (`WriteDeliveryUnlocked` shows why), of `OnlyOurDaemon` nothing
  for two commands at once, of `ReplacesOrKeeps` nothing for a selection after a
  failed call or a reload: the properties themselves say so.

## 5. Plan

1. Raw ops of `apply`: op types that only they reach (delete, tables), their
   rows in the catalog, their keys and their handlers; what `table` and `powerup`
   commands read before they write.
2. Enqueueing with an idempotency key, by several commands at once.
3. Workspace bindings: which RemNote database a command reads, and what a
   discovery may overwrite.
4. The log writer of the supervisor (rotation), the state file of the bridge.

## 6. Not modelled

* The handlers of tables and of the daily note, and what text and Markdown
  become in RemNote, which is not in the repository: steps with any result in
  `PluginExecutor`. In the models of the queue, the dispatcher and the locks the
  keys and sizes of ops are constants; `ApplyPlan` computes the keys.
* A daemon whose supervisor was killed outright keeps its port and is named by no
  pid file (`Killed` in `Stack` has the step); no document promises that it is
  found. The sync loop's map of running ops counts too few after a redelivery
  (`SyncLoop` has it); no document promises `maxConcurrency`.
* Read tools (queries on RemNote's database, which this program never writes),
  HTTP plumbing, the status line, scenarios, and the commands that call one
  service each and print: they keep no state the parts above share, other than
  through the operations that are modelled.
* Logs, state files and configuration; the import of a legacy queue file (it
  depends on how far a file copy has come); checksums of migrations.
* `queue_op_dependencies`, which nothing fills, and `queue_consumers` and the
  automation tables, which nothing reads for a decision.
