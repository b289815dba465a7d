# A verification development of kai-brain

`src/kai-brain` is an agent gateway: users and Slack talk to sessions, sessions
run agents, and agents, cron jobs, subagents and background commands talk back.
What it must not do is lose such a message, show it twice, run a command nobody
approved, or leave a row, a slot or a queue entry that nobody will ever look at
again. Its state is in PostgreSQL tables that several asynchronous loops of one
process, or of two processes around a restart, work on at the same time, and in
maps of one process that handlers read before an `await` and write after it.
This directory models those handlers in TLA+, checks them with TLC on small
instances, and proves their safety properties with TLAPS for instances of any
size.

Paths below are relative to `src/kai-brain/src` unless they start otherwise.

- [1. The system](#1-the-system)
- [2. What is modelled, and how](#2-what-is-modelled-and-how)
- [3. The runs](#3-the-runs)
- [4. The proofs](#4-the-proofs)
- [5. Where the code and its documents disagree](#5-where-the-code-and-its-documents-disagree)
- [6. What is not modelled](#6-what-is-not-modelled)
- [7. Plan](#7-plan)

## 1. The system

`PROJECT.json` lists the same components with their source files and, under
`hazards`, the places where each is hard to test.

### Outbound delivery
`services/outbound-delivery-queue.service.ts`,
`services/outbound-idempotency.service.ts`,
`gateway/services/outbound-delivery-pump.ts`, `agent/delivery.ts`,
`gateway/services/delivery-router.ts`.

*State.* The table `ava_outbound_delivery_jobs` (status, attempt_count,
next_attempt_at, claim, expires_at), the table `ava_outbound_idempotency` (one
row per idempotency key: pending or sent, an owner, an expiry), and in each
process the pump's `running`, `needsAnotherRun` and timer.
*Operations.* Enqueue, claim a batch, mark sent, dead or retried, recover
stuck claims, drop expired jobs, cancel the jobs of a session; reserve, look
up, mark sent and release a key; wake the pump, run a pass, send one job.
*Interactions.* `routeDelivery` is called by subagent announcements, the
heartbeat, cron and exec approvals, directly or durably; the pump calls it
again for each job, and it calls Slack.
*Hard.* Two pumps on one table; claims that lapse under a slow pass; a crash
or a failed statement between the post and `markSent`; lost acknowledgements;
a direct and a durable call under one key; a wake-up during a pass.
*Correct when* nothing is posted twice without a cause one can name, a job has
one worker, attempts are bounded, nothing waits unknown to the pump, jobs
settle, and closed sessions are left in peace.

### System events and heartbeat
`services/system-events.service.ts`, `gateway/services/system-events.ts`,
`gateway/services/heartbeat.service.ts`, `heartbeat-wake.ts`,
`heartbeat-lifecycle.ts`, `core/heartbeat-reason.ts`.

*State.* `ava_system_events` (lifecycle_state, claim token and expiry), the map
of running heartbeat services, the wake module's pending map, timer, `running`
and handler.
*Operations.* Create, claim, release, finalize, purge and clear events; request
a wake-up; run one heartbeat: claim, find a route or a subscriber, run the
agent, deliver, then release or finalize; start and stop a session's service.
*Interactions.* A background command or subagent that completes creates an
event and wakes the session; subscribing clients, agent runs and the lifecycle
guard start and stop services.
*Hard.* A run has a dozen ways out between claim and end; registering the
handler anew lets two loops overlap; a wake-up that comes during a run; a claim
that lapses under a long agent run; a crash with events claimed.
*Correct when* claims are always given back, an event is relayed once, and a
wake-up is never forgotten.

### Session queue and its processor
`gateway/services/queue.ts`, `gateway/services/queue-processor.ts`,
`db/schema/queue.ts`.

*State.* `ava_queue`; `QueueService.processing` and `collectTimers`;
`QueueProcessor.activeSessions` and its `draining` flag.
*Operations.* Enqueue in one of five modes, cancel, dequeue an item or a batch,
execute, complete or fail, recover what is stuck at the start.
*Interactions.* Gateway methods, cron and the Slack monitor enqueue; the
processor starts agent runs; the heartbeat asks whether a session is busy.
*Hard.* `dequeue` is check, SELECT and UPDATE in three awaits; a drain and a
poll run side by side; items of a batch arrive while it is taken; a failed
statement or a crash leaves an item in processing.
*Correct when* an item runs once, a session runs one agent at a time, nothing
stays in processing without a worker, nothing is completed unseen, and what is
pending is taken in the end.

### Session lifecycle guard, cleanup, startup and shutdown
`gateway/services/session-lifecycle-guard.ts`,
`services/event-cleanup.service.ts`, `index.ts`. No state of their own: they act
on the tables above (archive, delete, purge, recover) and appear as actions of
each model.

### Cron
`gateway/services/cron.ts`. *State:* `ava_cron_jobs` with a 300 s lease, and one
timer. *Operations:* arm the timer, claim due jobs, run them, reschedule,
trigger by hand. *Hard:* `armTimer` awaits between clearing and setting the
timer, so that calls overlap and leak timers; an update of the job while it runs;
a refused statement in the middle of a batch. *Correct when* a job that awaits a run is
always watched by a timer that goes off in time, no occurrence is run by two
timers at once, and a due job is claimed and its payload queued.

### Subagent registry and announcements
`agent/tools/subagent.tool.ts`, `agent/subagent-executor.ts`,
`agent/tools/subagent-registry.ts`, `agent/subagent-announce.ts`,
`services/subagent-runs.service.ts`.

*State.* The map of runs, mirrored to `ava_subagent_runs` by upserts nobody
awaits; a count of children for each session; timers that retry announcements;
the sessions of the children.
*Operations.* Spawn, steer (abort and start again in the same session), kill
with descendants; an executor with a slot and a session; complete; announce by
post, followup or event, with retries; restore at the start.
*Interactions.* Announcements go through outbound delivery, the queue of the
parent, or its event table; archiving a session kills its subagents.
*Hard.* A kill while a spawn awaits; an executor that returns after its run was
killed or replaced; the unordered upserts; a crash between posting and
recording it; announcements that wait for children.
*Correct when* slots are given back, a working child keeps its session, a killed
parent leaves no child, and a completion is told, once, and never after a kill.

### Exec approvals and background commands
`agent/tools/exec.tool.ts`, `agent/tools/process-registry.ts`,
`services/exec-approval-manager.ts`, `services/exec-approval.service.ts`,
`gateway/methods/exec-approval.ts`.

*State.* Pending approvals with their timers, and the rows that record them; the
allowlist; the maps of running and finished commands with their limits, and the
children themselves.
*Operations.* Ask, prompt, decide, time out, abort, record, run or deny; start,
yield to the background, kill, evict.
*Interactions.* The agent calls the tool; approvers click in Slack or call the
gateway; ends are told as events to the heartbeat or by broadcast.
*Hard.* A decision, a timeout, an abort and a failed prompt race for one
approval; an abort before anybody listens; an exit that races the yield and the
net of a kill.
*Correct when* an approval has one verdict which the row, the command and the
approvers agree on, and every call and every command is accounted for.

### Gateway runtime and chat
`gateway/runtime.ts`, `gateway/server.ts`, `gateway/methods/chat.ts`,
`subscriptions.ts`, `powers.ts`, and the runs of `queue-processor.ts`.

*State.* Connections with their subscriptions, runs under their ids with timers
that forget them, and the idempotency cache, all in memory.
*Operations.* Connect, subscribe, leave; `chat.send` with its key, `chat.abort`,
the run of a power, the run of a queued item.
*Hard.* A retry between the look-up of a key and its storing; an abort before
the run is marked as running; a run that outlives the map's memory of it; the
last client that leaves while a run is created.
*Correct when* a message has one run, an abort is final, and every account of the
end of a run says the same.

### Slack monitor
`slack/monitor/runtime.ts`, `lib/queue/queue-helpers.ts`.

*State.* For each session a queue of pending messages, at most one run with its
abort controller, a cached queue mode; and a count of all runs.
*Operations.* A message starts a run or is queued in one of five modes; a run
ends and drains; `/stop`, `/queue clear`, `/queue mode`, `/new`.
*Hard.* The drain reads the queue, awaits the mode, and writes the queue back;
messages at the limit on all runs; commands between the two halves of a drain.
*Correct when* the count is right, a message runs once, what waits is looked
after, followups keep their order, and a stop holds.

### Sandbox containers, agent executor
`sandbox/container-manager.ts`, `agent/executor-pi.ts` and the tools: calls of the
Docker command line, and a language model that drives tools. What the other
parts see of them is an input of their models.

## 2. What is modelled, and how

A step of a model is what one asynchronous call does between two `await`s: in
Node nothing else of the process runs meanwhile, and everything else may run
at the await itself. An SQL statement is one atomic step (each is a single
UPDATE, INSERT ... ON CONFLICT or DELETE, and `claimReadyJobs` uses FOR UPDATE
SKIP LOCKED). A loop of the code that awaits several statements is several
actions, chained by a program counter named after the statement that comes
next. Messages, keys, sessions and tokens are model values; texts, routes and
payloads are not modelled beyond what a property tells apart.

Faults are explicit actions, enabled by the constant `Faults` and limited by
`MaxFaults`: `crash` (a process dies between two steps and is started again),
`db` (a statement throws), `lostAck` and `lostAnswer` (the other side did it, the
caller is told otherwise), `slow` (a claim lapses under its worker), `keyLapse`
(an idempotency row outlives its TTL). A history variable, `cause`, records on
the key, event or item which of them struck it, so that an invariant can say
"unless a named fault explains it" instead of leaving faults out. Lapses of
time that the properties need not blame on anything (a due time, an expiry, an
interval) are actions that may happen at any moment.

| Module | What it is | Code |
| --- | --- | --- |
| `OutboundStore` | rows of the two outbound tables and what each statement does to one | the two `outbound-*.service.ts` |
| `OutboundDelivery` | the pumps, the durable and direct callers, the processes, the clock, the sessions | `outbound-delivery-pump.ts`, `delivery.ts`, `delivery-router.ts` |
| `OutboundInvariant` | the inductive invariant of the above | |
| `OutboundDeliveryProofs` | its theorems | |
| `SystemEvents` | rows of `ava_system_events` and their statements | `system-events.service.ts` |
| `Heartbeat` | wake requests, loops, runs, services, subscribers | `heartbeat*.ts` |
| `HeartbeatProofs` | its inductive invariant and theorems | |
| `SessionQueue` | `ava_queue`, the calls, the drain, the poll and their workers | `queue.ts`, `queue-processor.ts` |
| `SessionQueueInvariant`, `SessionQueueProofs` | its inductive invariant and theorems | |
| `Cron` | `ava_cron_jobs`, the overlapping timers, `executeJob`, the requests | `cron.ts` |
| `CronProofs` | its inductive invariant and theorems | |
| `SubagentRegistry` | the calls, executors, registry, rows and announcements | `subagent.tool.ts`, `subagent-executor.ts`, `subagent-registry.ts`, `subagent-announce.ts` |
| `SubagentRegistryProofs` | its inductive invariant and theorems | |
| `ProcessRegistry` | the commands of a process and what happens to them | `process-registry.ts` |
| `ExecApproval` | the exec tool, the gateway's request, the approvals and their records | `exec.tool.ts`, `exec-approval*.ts` |
| `ApprovalContract` | what exec approvals promise | |
| `ExecApprovalProofs` | that they keep it, what it is worth, and their invariants | |
| `GatewayRuntime` | connections, subscriptions, the map of runs | `runtime.ts` |
| `ChatRuns` | chat.send and chat.abort, powers, queued items, clean-up of connections | `chat.ts`, `powers.ts`, `server.ts`, `queue-processor.ts` |
| `ChatRunsProofs` | its inductive invariants and theorems | |
| `SlackQueue` | the queue of Slack messages, its modes and commands | `slack/monitor/runtime.ts` |
| `SlackQueueProofs` | its inductive invariant and theorems | |
| `MC...` | the small instances TLC checks | |

The modules `OutboundStore`, `SystemEvents`, `ProcessRegistry` and `GatewayRuntime`
hold state and what each statement or method does to it; the component modules
EXTEND them and add control. The components are composed where they share
state: outbound delivery with the lifecycle guard, the heartbeat with sessions
and subscribers, the queue with chat runs, approvals with the process registry,
chat runs with connections, powers and queued items.

### Outbound delivery

Senders are the pumps (`Procs`, one for each process), durable callers and
direct callers. A durable caller's enqueue creates the job that bears its name.
`pc`, `res`, `try`, `cur`, `batch` and `seen` are the local variables of
`runOutboundPumpPass`, `processJob`, `routeDelivery` and `deliverDirect`. `wake`
is the pump's module state. `posts` counts the messages Slack took.

- `Sweep`, `Claim`, `CheckSession`, `Mark`, `LookAhead`, `EndPass` and
  `PassThrows` are a pass. `recoverStuckJobs` and `dropExpiredJobs` are merged
  into `Sweep`: no other step tells their order apart.
- `RouteFound`, `RouteEnds` and `RouteRetargeted` are hooks and the choice of the
  target; `ReserveInsert`, `ReserveSelect` and `ReserveRefresh` are the three
  statements of `reservePending`; `Post` and `Settle` follow. Pumps and direct
  callers share them, as they share the code.
- `DurableRoute`, `LookUp`, `Enqueue`, `MarkDuplicate` and `WakePump` are
  `enqueueDurable`.
- The owner of a reservation is `<<job, 0>>` for a job, and `<<caller, try>>` for a
  direct call: the code makes up a new owner for each attempt.

Abstractions: the reason kept with a queued job (`queuedReason`) is not modelled;
a job whose session is absent or not a UUID skips the session check, and every
job here has one; durable delivery may be switched off by the environment, which
leaves direct calls only. An empty payload is refused before anything happens
and is left out. Graceful shutdown is a crash: each drain it waits for may time
out.

### System events and heartbeat

`Loops` are the executions of the wake module's timer callback. Normally there
is one; `setHeartbeatWakeHandler` resets `running`, and then a second can start
while the first waits for a run. `run[l].at` walks through `runHeartbeatOnce`:
`gate` (is the service running, may it deliver, is the queue busy), `claim`,
`route`, `fallback`, `start`, `answer`, `deliver`, then `release` or `finalize`.
`EndsAs` names each of the early returns by its reason; `ClaimEnd` says which of
them release and which finalize; `Result` says what the wake loop is told.

Abstractions: kinds and delays of timers; the flag `scheduled` (redundant); the
handler is there exactly when some service beats; the catch around the loop is
unreachable, since a run catches everything itself; the checks at the gate are
one step; `Tokens` are the fresh claim tokens, reused when no row bears one any
more; a session's attempts stop counting at the limit plus one.

### Session queue

A worker is `processSession` as one of the two scanners has started it, and its
program counter names the statement that comes next in `dequeue`, `dequeueBatch`,
`executeItem`, `complete` or `fail`. `Start` is the filter and the synchronous
first step of all sessions of a scan, after which `activeSessions` is up to date.

Abstractions: items have no priority; each session has at most one chat run
(`Chatting`) and one cancel call (`Cancelling`), as bounds; the list of
`processNextItems` merges `getStats` and the SELECT of the sessions; a failed
statement of a scan is a crash, because nobody handles the rejection and Node
ends the process. A call whose INSERT throws leaves what it did before: a `collect`
has stopped the timer of its session by then, and the stopped timer stays in
`collectTimers` (`InsertFails`, `Dead`), which shuts the session until another
`collect` sets one. What `recoverStuck` will find (older than five minutes) is any subset of what is
processing when the process dies.

### Cron

A *chain* is one thread of control that is in turn a call of `armTimer`
(`asking`, `told`), a timer (`set`) and a call of `onTimer` (`claiming`,
`running`, and armed again). `timer` is `this.timer`: the chain whose timer is
remembered, which may have fired already. A call of `armTimer` from a request
starts another chain; `Arm` clears the remembered timer only, so that two
timers can be alive, as in the code. `run[a]` is the `executeJob` of a chain or
of a `triggerJob`, with the row it began with: `Mapped` for `getJob`, `Raw` for
`claimDueJobs` (section 5). The jobs of a batch are run one after the other,
since they share one undefined session.

Abstractions: time is a number of ticks up to `Horizon`, and the process and the
database have the same clock; a cron expression is a schedule like `every`; run
counts, the last status and the sorting by id are left out; a refused
statement of a request is a request that was never made. A refused SELECT of
`findNextJob` or `initializeJobs` rejects a promise without a handler, which
ends the process. `stop` and `listJobs` are left out: the former runs at
shutdown only, the latter changes nothing. `byHand` is a history variable: the
jobs whose next run a `triggerJob` moved since the last call of `armTimer`,
which `triggerJob` does not make; they may wait for somebody else to make it.
`revived` is another: the jobs that `initializeJobs` gave a next run while a chain held
them. There is a chain for the start and one for each request; `ChainsSuffice` proves
that nobody who arms the timer ever lacks one.

### Subagents

`exec[r].at` is where the call that makes the run, and then `spawnSubagent`, is:
`flow` or `settling` (the await before `registerRun`), `identity`, `work`, `clean`.
`exec[r].prompt` is a prompt of the agent that goes on: one that lost the race with a
timeout or an abort, or that asks for a summary, may still spawn when the run is over.
`ann[r]` names the next statement of `handleAnnounceCleanup` and of the way the
announcement goes: `reserve`, `post`, `mark`, then `followup` or `event`. A run's
rows are the *set* of what `ava_subagent_runs` may hold by now: as nobody awaits
the upserts, a restart may find any of them.

Abstractions: the statuses completed, failed and timeout are one, `ended`; the
supervisor flow, the hourly sweep, the depth of spawning, list and status are left
out, as is the notice of an `onComplete` callback; a delivery is one key with its
statements, and the pump behind a durable one is the outbound model. An executor
may work for ever, since the default timeout is none.

### Exec approvals

An approval bears the name of its call. `call` is where the tool is, up to its
answer; `verdict` what the manager holds, `rec` and `row` how far
`recordResolvedOutcome` got, `after` what follows a decision. The event of a catch block is a statement of its own, which
may be refused as well (`TellError`). Commands are steps
of `ProcessRegistry`: a `child` is dead when the shell is gone and closed when its
pipes are, which what it started may delay. `ImplementsContract` maps `verdict`,
the started children and the confirmed clicks to `ApprovalContract`.

Abstractions: policies, patterns and who may approve are choices; the notice of a
running command, output buffers, stdin and listings are left out, as are read-only
methods and the timers that forget settled approvals; timeouts of host commands
are part of `Death`; asking `always` is a call that is not free and has no pattern.

### Chat runs

A work is a send, a queued item or a power; its id is its key. `pc` names the
statement its handler awaits; `run` and `runs` are the objects and the map, which
differ once a timer has forgotten a run or an id is used again. `Cancel` is
`cancelRunsForSession` and `cancelRun`: what is pending then is blamed as `early`,
for `updateRun("running")` overwrites the cancelled status without a look. A power ends
in two steps: its run is over first (`PowerEnds`), then its row says so, unless the
statement fails, and the event is sent all the same (`PowerIsTold`).

Abstractions: a client uses a key for one session; a single statement takes less
than ten minutes; deltas, who hears a broadcast, history, the handshake and the
table of powers beyond a status are left out; the runs of `gateway/methods/agent.ts`
are not modelled. The agent is outside: it throws at once when aborted before
its prompt and may return all the same when the abort comes later.

### Slack queue

A message is one that was deduplicated and debounced. `at` and `look` are its
handler up to `withSessionQueue`; an entry of a queue is the sequence of the
messages whose texts `collect` joins. `RunEnds` is the synchronous first half of
the `finally` block, which gives the place back and takes the queue in hand
(`drains`), `Drain` the second, after the await of the mode. `mishap` records
which races a session met: `raced` (something came between the two halves),
`limited` (it met the limit on all runs), `db`, `mode`.

Abstractions: `dedupeByKey` does nothing, for no two entries have one key; posting of
replies, reactions, typing, the statements of `/new` before it cuts the session off
and the commands that read or set other options are left out; a restart loses all
of it and is not modelled; `enqueueSlackMessage` is never called. Since an await of
a cached mode lasts only until the next microtask, races there are rare; the model
admits them and names them.

## 3. The runs

All runs finish within five minutes with two workers. `-config <cfg>` with the
module of the table.

| Run | Module, cfg | Checks | Expected |
| --- | --- | --- | --- |
| outbound_pumps | `MCOutbound`, `OutboundPumps` | `NoUnexplainedDuplicate`, `OneWorkerPerJob`, `AttemptsBounded` | holds |
| outbound_settles | `MCOutbound`, `OutboundSettles` | `NoLostWake`, `JobsSettle`, `ClosedStaysQuiet` | holds |
| heartbeat_claims | `MCHeartbeat`, `HeartbeatClaims` | `ClaimsHeld`, `RelayedOnce`, `WakeKept` | holds |
| heartbeat_notices | `MCHeartbeat`, `HeartbeatNotices` | `EventNoticed` | holds |
| queue_batches | `MCQueue`, `QueueBatches` | `RanOnce`, `NothingLeftBehind`, `NothingSwallowed` | holds |
| queue_drains | `MCQueue`, `QueueDrains` | `QueueDrains` | holds |
| cron_timer | `MCCron`, `CronTimer` | `TimerKept`, `OneHolder`, `DueIsClaimed` | holds |
| cron_due | `MCCron`, `CronDue` | `DueIsQueued` | violated |
| subagents | `MCSubagents`, `Subagents` | `SlotsBalanced`, `SessionKept`, `NoneOutlives`, `KilledStaysQuiet`, `ToldOnce`, `HandledMeansTold`, `AnnounceSettles` | holds |
| exec_approvals | `MCExec`, `ExecApprovals` | `ImplementsContract`, `RecordedFirst`, `AbortHonoured`, `Accounted`, `ClientsTold`, `Answered` | holds |
| chat_runs | `MCChat`, `ChatRuns` | `OneRunPerKey`, `AbortSticks`, `EndsAgree`, `NoOrphans`, `Settles` | holds |
| slack_runs | `MCSlack`, `SlackRuns` | `RunsCounted`, `Attended`, `InOrder`, `StopHolds` | holds |

Every property of a passing run is accompanied by a mutated definition (`Mut...`
in the modules, `mutants` in `PROJECT.json`): a plausible slip in the code under
which the same run finds the property violated. The type invariants are proved
(section 4) and are in no run: none of them tells a bug from the code.

**Outbound.** *outbound_pumps* puts a durable and a direct call under one key, in
two processes with a pump each and one fault of any kind: the reservation decides
who posts, no job is posted twice without a cause, held by two workers or tried
too often. *outbound_settles* lets the job expire and its session be archived,
without faults: no ready job is without a pump that will look, every job is
settled, and a job of a closed session, even one that a late mark has brought back
to `retry`, is never taken to Slack again.

**Heartbeat.** *heartbeat_claims* has two completions of one session, a batch
limit of one, two loops and a fault: no early return forgets a claim, no event
is relayed twice unless an enqueue succeeded and was reported as failed, and a
pending wake-up always has a timer or a loop. *heartbeat_notices* is the liveness
side, with two sessions on one loop, subscribers that leave and a session that
is archived; it assumes that agents end, for one that does not stops the only loop.

**Queue.** *queue_batches* has two collect calls of one batch, an interrupt and a cancel
call in one session, both scanners and a fault. *queue_drains* has two calls of three
(`FewInit`): two collect calls in one session, the second of which may find the
timer of the first set, fired or dead; or one, and a steer, which tells nobody, in
another session that a chat run may keep busy. A scan lists one session, any of those
with items, and there is one crash or failed statement at any point. `QueueDrains`
excuses the session the fault struck: without the excuse for a dead timer TLC finds
the session that is shut. It excuses the other sessions where struck ones fill the list
of a scan (section 5), which takes a third call and does not occur here.

**Cron.** *cron_timer* starts over jobs of an earlier process, with one request of
any kind and one crash or refused statement. The start and the request arm the timer at
the same time, so that two timers live, answers arrive in either order and two
onTimers meet; a lease can lapse while its batch still runs. The state in which two
onTimers hold one job after a lapsed lease is reachable, as is the one with two
timers set. `OneHolder` excepts the jobs a request touched and those in `revived`, to
which a slow start gave a next run while a timer held them (section 5): it was the
proof, with its clock of any length, that asked for the second exception. *cron_due* needs one job and no fault (section 5); in a copy of the
module in which claimed rows are mapped, the same run finds no error.

**Subagents.** *subagents* has a run, a run nested in it and a replacement of the
first in the same session, two slots, a fault of any kind (a lost
acknowledgement, an executor slower than a steer waits for, a restart that
finds any row), kills and the archiving of the user's session at any await.

**Exec approvals.** *exec_approvals* has two calls of the tool and a request of the
gateway about one command, three clicks of which one allows always, one place in
each map of commands, and two faults. It checks the refinement of
`ApprovalContract` and, beyond what the contract says, the record, aborts, the
broadcasts, and that the end of each command and call is told.

**Chat.** *chat_runs* has a message and its retry from another connection, a queued
item and a power in one session, any two of them; clients that subscribe and leave,
aborts, timeouts and a refused statement.

**Slack.** *slack_runs* has four messages in one thread and one in another, one place
for a run and two in a queue, and two of: a command, a failed statement, a lapse of
the window. The thread begins in mode `followup`, and `/queue mode` makes it `collect`
or `steer`, before or between its messages. `interrupt` differs from `steer` in the
reason given to the aborted run only and does not occur; `steer-backlog` is the mode of
the session with one message, where nothing waits to be dropped. The theorems are about
all modes in all sessions.

### Bounds, and why they are enough

| Bound | Values | Reason |
| --- | --- | --- |
| processes with a pump | 1 or 2 | a claim is contended by two; the proofs cover the rest |
| durable, direct calls | 1, 0 or 1, on one key | all conflicts are about one key, or about a job that is not in the batch |
| `MaxAttempts`, `BatchLimit` | 2, 1 | one retry and exhaustion; a direct call's job beside the batch |
| events, sessions, loops, tokens | 1 or 2, 1 or 2, 1 or 2, 3 | a second loop is the smallest overlap; each of two events may hold a token while a run makes a third |
| `ClaimLimit`, `MaxFailures` | 1 or 2, 0 or 1 | an event beyond the limit; giving up at once or after a retry |
| items, sessions of the queue | 2 or 3, 1 (*queue_batches*) or 2 (*queue_drains*, where two of three items are called) | two items make a batch, a third interrupts it; two collect calls share a timer; a chat run keeps a second session busy |
| `MaxSessions` of a scan | 1 | the code's 10: two sessions with items do not fit in a scan |
| jobs, requests of cron | 2, 1 | the second job is the sooner one an older answer overlooks; the request's `armTimer` overlaps the start's |
| `Horizon`, `Lease`, `MaxDelay` of cron | 3, 2, 2 | a job due at 1 is claimed and its lease lapses within the horizon; a delay of 3 is cut |
| `BatchLimit` of cron | 2 | the code's is at least 4, above the two jobs here |
| `Runs` of subagents, `MaxAtCrash` | 3, 2 | a nested run and a replacement; a restart with two runs to restore and one still to begin |
| `MaxRunning`, `MaxChildren`, `MaxArchived`, `MaxRetries` of subagents | 2 | the third run is refused, evicts or waits; one retry and giving up |
| `MaxCalls`; `MaxRunning`, `MaxFinished` of commands | 2 of 3; 1 | two calls meet in each way two kinds of call can; the second command evicts the first |
| `MaxWorks` of chat | 2 of 4 | a run and what interferes with it; clients and timers come on top |
| `MaxRuns`, `MaxPending` of Slack | 1, 2 | the second session meets the limit; a running message and two that wait are overflowed by a fourth |
| `MaxSpent` of chat and Slack | 2 | a command or fault in each half of a race |
| `MaxFaults` | 0, 1 or 2 | one fault at every point, two for approvals; the theorems cover any number |

### Fairness, and why the code justifies it

Every liveness run uses a specification that states its fairness.

- A step of an asynchronous function that has begun is taken: the event loop and
  the database go on (`WF` of `PumpStep`, `CallStep`, `RunStep`, `WorkerStep`, the
  scans, `Announces`, `Owes`, `ChatStep`, `ItemStep`, `PowerStep`).
- Armed timers fire: the pump's, the wake timer, the debounce timer, the poll,
  the retry of an announcement, the timer of an approval, the yield of a command.
- Time passes: a due time comes, a claim lapses, the cleanup interval comes round,
  a dead process is started again, an announcement expires.
- Calls from outside (an enqueue, a subscription, an archive, a click, a kill, an
  abort) are never fair.
- `Heartbeat` assumes strong fairness of the gate: a session's queue is not busy
  *every* time a run looks. The retry of a busy queue has no other end.
- The queue's calls, its debounce timers and the steps of a scan with its workers are
  each fair as one action: some call goes on, not each call for itself, which is
  enough since each comes to an end.
- That agents end is an assumption, not a fact: `agent.timeoutMs` is 0 by default, which
  is no timeout. `AgentsEnd` states it, apart from `Fairness`, for *queue_drains* and
  *heartbeat_notices* (the heartbeat gives its agent neither a
  signal nor a timeout of its own), and the three fairness conditions of
  `ChatRuns` contain it. It is not assumed of subagents: `AnnounceSettles` is about runs
  that have ended, whatever their children do.
- A command in a container ends (it has a timeout); a command on the host may run
  for ever, and `Answered` holds because its call yields.

`SlackQueue` states no fairness and no liveness: what waits in it may wait for ever
(section 5), and `Attended` says where.

Deadlock is checked in the runs of the heartbeat and of the queue, where a timer,
a poll or an agent can always go on. `CHECK_DEADLOCK FALSE` stands in the others,
because those instances do stop: when all calls are over and all faults spent, the
pump sleeps until the next enqueue; without jobs, or when the clock has reached
`Horizon`, no cron timer is left to fire; when every subagent, command, run or
message of the instance is over, nothing is left to do.

## 4. The proofs

All theorems hold for every value of the constants that satisfies the named
assumptions (`CallersAssumption`, `PlacementAssumption`, `BoundsAssumption`,
`HeartbeatAssumption`, `TokensSuffice`, `NoneIsNoToken`, `QueueAssumption`,
`CronAssumption`, `SubagentAssumption`, `RegistryAssumption`, `ExecAssumption`,
`RuntimeAssumption`, `ChatAssumption`, `SlackAssumption`): disjoint names, things
placed in sessions, batches inside a session, positive limits, and finitely many
items, by which the rank of a row is bounded. Three stand for something the code has
without end: there are tokens for all claims that can exist at once (the code makes
a fresh uuid for each), chains for all calls of `armTimer` that can overlap (proved
to be enough, `ChainsSuffice`), and a name of its own for every spawn. Faults of all
kinds and any number of them are covered.

| Theorem | Module | Says |
| --- | --- | --- |
| `TypeCorrect` | `OutboundDeliveryProofs` | `[]TypeOK` |
| `WakeNeverLost` | `OutboundDeliveryProofs` | `[]NoLostWake`, assuming `"db" \notin Faults` |
| `OnceInvariant` | `OutboundDeliveryProofs` | `[]OnceInv` |
| `PostedOnce` | `OutboundDeliveryProofs` | `[]NoUnexplainedDuplicate` |
| `OneWorker` | `OutboundDeliveryProofs` | `[]OneWorkerPerJob` |
| `AttemptsAreBounded` | `OutboundDeliveryProofs` | `[]AttemptsBounded` |
| `ClosedSessionsStayQuiet` | `OutboundDeliveryProofs` | `ClosedStaysQuiet` |
| `HeartbeatInvariant` | `HeartbeatProofs` | `[]Inv`, its inductive invariant |
| `EventsRelayedOnce` | `HeartbeatProofs` | `[]RelayedOnce` |
| `EveryClaimIsHeld` | `HeartbeatProofs` | `[]ClaimsHeld` |
| `WakesAreKept` | `HeartbeatProofs` | `[]WakeKept` |
| `OneLoopAtATime` | `HeartbeatProofs` | `[]OneLoop` |
| `QueueInvariant` | `SessionQueueProofs` | `[]QueueInv` |
| `QueueTypes` | `SessionQueueProofs` | `[]TypeOK` |
| `OneRun` | `SessionQueueProofs` | `[]OneRunPerSession` |
| `GivenOnce` | `SessionQueueProofs` | `[]RanOnce` |
| `AllAttended` | `SessionQueueProofs` | `[]NothingLeftBehind` |
| `AllSeen` | `SessionQueueProofs` | `[]NothingSwallowed` |
| `TimersAreKept` | `CronProofs` | `[]TimerKept` |
| `LeasesKeepApart` | `CronProofs` | `[]OneHolder` |
| `ChainsSuffice` | `CronProofs` | `[]FreeWhenNeeded`: the bound on chains leaves nothing out |
| `RegistryInvariant` | `SubagentRegistryProofs` | `[]Inv`, its inductive invariant |
| `SlotsAreBalanced` | `SubagentRegistryProofs` | `[]SlotsBalanced` |
| `SessionsAreKept` | `SubagentRegistryProofs` | `[]SessionKept` |
| `KillsReachAll` | `SubagentRegistryProofs` | `[]NoneOutlives` |
| `KilledAreQuiet` | `SubagentRegistryProofs` | `[]KilledStaysQuiet` |
| `AnnouncedOnce` | `SubagentRegistryProofs` | `[]ToldOnce` |
| `HandledWasTold` | `SubagentRegistryProofs` | `[]HandledMeansTold` |
| `Implements` | `ExecApprovalProofs` | `ImplementsContract`: the refinement |
| `Worth` | `ExecApprovalProofs` | what the contract gives to whoever relies on it |
| `RecordsComeFirst` | `ExecApprovalProofs` | `[]RecordedFirst` |
| `AbortsAreHonoured` | `ExecApprovalProofs` | `[]AbortHonoured` |
| `ClientsAreTold` | `ExecApprovalProofs` | `[]ClientsTold` |
| `EndsAreTold` | `ExecApprovalProofs` | `[]Accounted` |
| `RunningIsReachable` | `ExecApprovalProofs` | `[]Reachable` |
| `ChatBooks` | `ChatRunsProofs` | `[](TypeOK /\ Books)` |
| `OneRun` | `ChatRunsProofs` | `[]OneRunPerKey` |
| `AbortsStick` | `ChatRunsProofs` | `[]AbortSticks` |
| `EndsAgreed` | `ChatRunsProofs` | `[]EndsAgree` |
| `NoOrphansLeft` | `ChatRunsProofs` | `[]NoOrphans` |
| `SlackInvariant` | `SlackQueueProofs` | `[]Inv`, its inductive invariant |
| `RunsAreCounted` | `SlackQueueProofs` | `[]RunsCounted` |
| `NoneForgotten` | `SlackQueueProofs` | `[]Attended` |
| `OrderIsKept` | `SlackQueueProofs` | `[]InOrder` |
| `StopsHold` | `SlackQueueProofs` | `[]StopHolds` |

### Why a message is posted once

`NoUnexplainedDuplicate` is not inductive: that a key has been posted says
nothing of the sender that is about to post it again. `OnceInv` adds, in
`OutboundInvariant`:

- `TypeInv`: types, and that a pump that works has a job in hand.
- `Bookkeeping`: a job has no row before it is enqueued, and a pump holds it in
  one place. Without it, an enqueue could recreate a job some pump holds.
- `Exclusive`: as long as no claim lapsed, a job that is held is not claimable and
  its claim is live, so neither `Claim` nor the recovery gives it away.
- `Counted`: the attempt count a worker read is the one in the row, so that what it
  writes back is one more. Needs `Exclusive`.
- `Reserved`: whoever is about to post, or to settle a post, has the reservation
  of a clean key. Needs `Exclusive`, because a job's owner is the same for every
  worker of it: two workers of one job would share a reservation.
- `Once`: a clean key that was posted is sent, or its poster is about to record
  that, or its poster is over and has left the reservation pending.

A step preserves `Once` since only `Post` counts, `Reserved` makes the poster the
owner, and `OnRecord` of a posted key contradicts that: it is sent, or another
poster has it, or the owner is done.

`WakeNeverLost` assumes that no statement throws. With such faults it is false,
and *partial_failure* at `agent/delivery.ts:187` in the list of hazards says
how: `MarkDuplicate` throws and nobody wakes the pump.

`ClosedStaysQuiet` says what is true from some moment on, so its proof is of another
shape: at that moment `Hushed` holds of the job, no step ends it (`HushedStep`: a pump
takes a job in hand in `CheckSession` alone, after it has looked at the session, and
leaves "mark" by giving the job up), and it implies what is claimed.

### Why an event is handed on once

A run of the heartbeat addresses its events by a token: `release` and `finalize` change
"every row with the token" and ask nothing else of a row. The invariant says that those
are the rows of that run. `RunsClaim`: a run has a token exactly while it has events.
`RunsHold`: what it got bears the token until it is deleted, and what bears the token
was got by it. `RunsApart`: two runs share no event and no token, which also says that
the fresh token of a claim is nobody's. `EventsPlain`: only a claimed event has a token.
From these, `HandedOn` (what was handed on is not pending, and whoever has it is about to
finalize) survives every release, and `RelayedOnce` and `ClaimsHeld` follow. `WakeKept`
and `OneLoop` need one thing besides: a loop under way holds the running flag unless the
handler was registered anew (`FlagHeld`).

### Why an item runs once

`SessionQueueInvariant` says what holds of a worker at each statement, and of an
item. `Alone`: a worker's session is active and has no other worker; `Start`
filters by `activeSessions` and adds to it in one step, and only `Finish` takes
from it. `Clear`: from the check to the mark, nothing in the session is being
processed; nobody but a worker marks, and the worker is alone. `Owns`: from the
mark on, whatever is processing in the session is the worker's, or came late
into its batch; so `complete` and `fail` leave nothing behind. `Fresh`: what is
held before the run has not run. `Once` of an item: one that has run is not
pending again unless it was recovered after a crash. The steps of workers are
proved in a frame (`StepOthers`, `StepGoesOn`, `StepFinishes`): a worker that
touches its own session leaves the rest of the invariant alone, so that each
action only speaks of one worker and its session's items.

`InterruptCancels` and `CancelPending` may cancel an item between its SELECT and
its UPDATE; the proof shows that this is harmless for the properties above, and
section 6 says what it is not harmless for.

### Why a cron job keeps its timer, and runs apart

`TimerKept` needs `Threads`, which says what a call of `armTimer` or `onTimer` and a
request know at each of their awaits: what is being run stems from a batch or from a
request, and a timer that is about to be set has a time. A timer that replaces another
is never too late, because each change of the table that brings a run nearer is made by
somebody who will ask again: a chain under way, a request on its way to `armTimer`, the
start; only the run of a `triggerJob` is not, which is `byHand`. `OneHolder` is
strengthened by `Leases`: as long as a chain holds a job nobody else touches, the job is
not due before its lease is over, and a claim takes only jobs that are due. Without
`revived` that is false; the instances TLC checks had not shown it.

`Room` counts: the chains in use are at most the requests that are done and one for the
start. So `FreeChain` always finds one (`ChainsSuffice`), and the number of chains, which
the code does not have, takes no behaviour from the model.

### Why a subagent is told of once, and a kill reaches all

`Books` says of each run how its object, its rows, its key and its announcement fit.
`Fresh`: nothing of it exists before it is registered. `Underway`: nothing is announced of
one that runs. `Shut`: what was killed has nothing to announce, in any row a restart
may find. `Announcing`, `Posted`, `Told` and `Wasted` follow the key and the two
channels through the announcement, and give `ToldOnce` and `HandledMeansTold`; `Quiet`
gives `KilledStaysQuiet`.

`SessionKept` speaks of one executor, but the clean-up that could delete its session is
another's. `InLine` therefore says of any two live executors of one session that one
waits for the other, unless a steer gave up waiting; `Rooted` and `Steered` say that
they all stem from one spawn and that a steer has killed what it replaces. So the one
that cleans up is the one for which the others wait.

`Kills` deletes the runs below a run to any depth. Since a recursive definition cannot
be reasoned about here, the model defines them as the least set that contains the run
and the running children of its members; the proof shows that it is closed
(`Killing`), which is all that `NoneOutlives` needs. `SlotsBalanced` is about
cardinalities, and each action moves at most one executor into or out of the set that
is counted.

### Why an approval has one verdict

`Implements` is a step simulation: under `Inv` each action of `ExecApproval` is
`Decide`, `GiveUp`, `Run` or a stutter of the contract. `Inv` has what that needs.
`Unasked`: no verdict before the registration, so that a call is registered over
nothing. `Unrun` and `Unstarted`: until the tool has answered, and from then until
the decision is acted upon, no command of the call was started; so each of the
four places that start one is the first. `Cleared`: what is about to run was allowed
or may fall back, and verdicts are final, because `resolve` and `fail` look at the
pending entry and delete it in one step. `Recalled`: a saved pattern stems from a
call that was allowed always, which is the contract's reason for a command that
never asked.

`Books` adds how the record follows: `Written` (what `recordResolvedOutcome` did was
done in order, and what follows a decision comes after it), `Late` (until the row
is inserted only the timer can settle), and `Stopped`, the places a call can be in
that was aborted, which gives `AbortHonoured` with its one exception, the timer that
fires before the row is written. `Ends` is about the broadcasts and the map of
commands. `Accounts` is about who hears of the end of a command: `Hushed` (an exit is
told as an event only of a command in the background, and what the call waits for is in
the foreground and not over), `EndTold` and `FollowTold`, which are `Accounted`. `Worth` shows that the contract is not hollow: of all approvers who were
told that their decision on a call was applied there is one, the verdict is that
decision for ever, and whatever ran is permitted for ever after.

### Why a message has one chat run

`OneRunPerKey` needs to know that while a send is executed its key has an entry. The
entry and the run are forgotten by timers of different lengths, so the invariant is
about `Lost` runs: `Keyed` (an entry that is gone has lapsed under every send of the
key), `Alone` (hence of two sends of one key, of which one is executed, the other's
has lapsed), `Found` and `Mapped` (a handler that is not lost finds its own run under
its id, not the one of a later retry). `Timed` carries both through the timers. For
the ends, `Signalled`, `Unbegun`, `Noticed` and `Prompted` relate the signal and the
status at each place of the handler, with the cause `early` for the abort that
`updateRun("running")` overwrites.
`EndsAgree` and `NoOrphans` themselves are then inductive beside `Books`: the
cache and the ending event are written in one step, what the clean-up of the last
connection cancels is all that was active, and what is accepted later is blamed as
late.

### Why a Slack message is not forgotten, nor overtaken

The sessions share one number, the count of runs; `Counted` says that it is the number
of sessions with a run. All else is a property of one session, and a step of one
session leaves the others alone (`SessionStays`, from `Elsewhere`), so that each
action is proved for its own session only. `Placed`: what is in a queue, including those
the end of a run has read, was submitted, and the queue is no longer than its limit.
`OnePlace`: unless something came between the halves of a run's end, there is at most
one such end, no run beside it, and each message is in one place. `Kept`: what was
submitted and neither ran nor was lost is in the queue, and while there is one, there
is a run or the end of one. `Silent`: what waited when a stop was acknowledged is in no
queue. `Sorted`: of two messages of the session, the first submitted has run or was lost,
or the second has not run and is behind it in every queue.
`Known` and `OneMode` say that the mode which decides is the stored one, without
which neither `Kept` nor `Sorted` goes through a drain.

The code shortens a queue where entries are too old and where the limit is exceeded, and
each way is shown to give a queue that is `Thinned`: its places are places of the old
one, in the same order, and only named entries are missing. What that keeps of the
invariant is proved once (`ThinnedKeeps`, `ThinnedOrder`).

### Only model-checked

Liveness under fairness and `ENABLED` are out of reach of TLAPS: `JobsSettle`,
`EventNoticed`, `QueueDrains`, `DueIsClaimed`, `AnnounceSettles`, `Answered` and `Settles`
are checked by TLC alone. All other properties of the passing runs are theorems, and
some theorems are in no run (`OneLoop`, `OneRunPerSession`, the type invariants), because
a run that violated them would violate another property too, or because they are local.

Induction over data is out of reach as well, since its theorems take an operator as a
parameter. Where it was needed it was avoided: what a filter of a queue keeps (`FreshThins`)
and what the concatenation of its entries holds are shown by the least length for
which the claim would fail, which exists because `<` on the naturals is well-founded
(`LeastNat`). There are no recursive operators in the models.

## 5. Where the code and its documents disagree

One disagreement is a run that TLC ends with a counterexample; `findings` in
`PROJECT.json` quotes the lines.

- *cron_due*, `DueIsQueued`. `claimDueJobs` casts the raw rows of the driver to
  `CronJob`; their columns are in snake case, so `sessionId`, `userId` and
  the schedule are undefined in `executeJob`. The enqueue is rejected and the
  catch block computes no next run: a job that its timer fires is never queued
  and not fired again until it is edited or the process restarts.
  `claimReadyJobs` of the outbound queue maps its rows for that reason.

The others are named causes or excuses in the properties above, or were seen while
the models were written:

- *Outbound.* A process that dies while a job is `sending` and is back before the
  60 s claim lapses recovers nothing at its start, and the pump looks ahead to
  `pending` and `retry` rows only: the job waits for the next unrelated enqueue.
  When a direct call with a target override fails, `routeDelivery` tries again
  without it, reserves under a new owner and finds its own predecessor in flight.
- *Heartbeat.* `system-events.service.ts:76` says that claimed events are hidden
  until the claim expires. `claimPendingEvents` picks rows that are `pending`, and a
  claimed row is not: after a crash the expiry of its claim is never looked at.
  One loop serves all sessions and waits for the agent of each run; an agent that does
  not end, and by default nothing ends it, stops all heartbeats of the process.
  `runHeartbeatOnce` returns without releasing its claim for an event that is relayed but
  is neither of exec nor of a subagent (`heartbeat.service.ts:724-733`); nobody makes one.
- *Cron.* `start` arms no timer before `initializeJobs` is done, but a request may. Its
  timer claims a job whose next run is cleared when it fails; an `initializeJobs` that
  is slow enough then writes the next run it computed, and the job is claimed again
  within a lease, while the first timer still holds it (`revived`).
- *Queue.* A scan lasts as long as the longest agent run it started; while a drain
  and a poll wait for agents, an enqueue in a free session starts nothing. A `collect`
  stops the timer of its session before its INSERT and does not take it out of
  `collectTimers` (`queue.ts:76-79`); when the INSERT throws, `dequeue` finds an entry
  and returns null (`queue.ts:123`) until another `collect` sets a new timer. A scan
  takes ten sessions with items, in no order (`queue-processor.ts:117-121`): ten that
  are shut in this way, or by an item left processing, can keep all others waiting.
- *Subagents.* An executor that does not end within the time a steer waits for it
  deletes the session of its replacement; a slot is lost when the look-up before the
  `try` block throws; a child whose spawn awaits while its parent is killed outlives
  it; a restart may find an older row and announce again. A prompt that lost the race
  with a timeout is not ended by it (`subagent-executor.ts:578-594`), and may spawn
  when the run is over.
- *Approvals.* A command approved in spite of obfuscation is asked for again; one
  that the tool then refuses for an untrusted binary is not run and nobody hears
  of it; a decision made in Slack on a request of the gateway is not broadcast;
  pending rows are never looked at after a restart; a foreground command that is
  killed while its pipes are held never returns to its caller. The catch block of an
  approved command queues an event; when that is refused as well (`exec.tool.ts:914`)
  nobody hears of the call, and when its look-up throws the rejection has no handler and
  ends the process.
- *Chat.* An abort before the run is marked as running is overwritten by it, and
  the run is told as aborted though its status says completed or error. The
  statement that ends the row of a power may fail, and the error is swallowed
  (`powers.ts:314-319`, `339-343`): the event says that it ended, the row that it runs.
  Ten minutes after its start a run is forgotten, and an abort does not find it; a
  key that lapsed lets a retry run beside it.
- *Slack.* With a full queue `steer-backlog` drops the message that came last,
  although that message aborted the run, for `dropOldestWhenFull` takes from the
  front and the newest is there. What meets the limit on all runs is looked at again
  only when a run of its own session ends, which may never be, and `/stop` does not
  find it; a followup is overtaken after that. A `/stop` or `/queue clear` between the
  two halves of a drain does not reach what the drain has already read. A drained message runs with the
  closure (user, files, reply plan) of the message it waited behind. A look-up of
  the mode that began before `/queue mode` may put the old mode back into the cache.

## 6. What is not modelled

Of the modelled components:

- Outbound: `runOutboundPumpOnce`, `setOutboundPumpHandler` and
  `waitForOutboundPumpIdle` (tests and shutdown), `hasPendingJobs`, the choice
  among route candidates, the contents of messages.
- Heartbeat: the duplicate check of completions, priorities and delays of
  wake-ups, the choice of the route, hooks, `markProcessed` (unused) and the
  deletion of old processed rows.
- Queue: priorities, broadcasts, prompts, statistics, the deletion of old rows,
  the ten minutes after which the run record of a failed `executeItem` is dropped.
  That an item cancelled between the SELECT and the UPDATE of `dequeue` runs all
  the same can be seen in the model; nothing in the repository promises
  otherwise, so no property speaks of it.
- Cron: run counts, the last status, patches of other fields than schedule and
  `enabled`, who may see a job. `executeJob` writes back the schedule it began
  with, so that an edit during a run is undone or a rescheduled one-shot job
  deleted; the model shows it, and nothing in the repository promises otherwise.
- Subagents, approvals, chat and Slack: the abstractions listed in section 2.
- Archiving a session as one action of all components: each module has its own
  view of it, since their joint state is far beyond TLC.

The containers, the agent executor, the tools besides exec and the subagents, the
prompt, memory, skills and configuration code, the Slack adapters and the web front end
are left out: their behaviour is that of Docker, a shell, a language model or
Slack, or they transform data without keeping state, and what the rest of the
system sees of them (a call succeeds, fails, is late, or is repeated) is an input of
the models above. They are most of the repository's lines.

## 7. Plan

The order put first what loses or repeats a user's message, then what runs without
leave, then what runs twice.

All eight parts are checked by TLC and all their safety properties are proved: outbound
delivery, system events and heartbeat, the session queue, cron, subagents and
announcements, exec approvals with the process registry (proved to implement
`ApprovalContract`), gateway runtime and chat runs, and the Slack queue.

Next:

1. `DeliveryContract`: a message is posted at most once for a key, and a durable one is
   settled, with `OutboundDelivery` shown to implement it when `Faults = {}`;
   announcements and the heartbeat then use the contract.
2. The duplicate check of completions, and the runs of `gateway/methods/agent.ts`.

The runs are kept to one for each question: when later components need the room,
*heartbeat_notices* takes over the invariants of its neighbour.
