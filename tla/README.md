# A TLA+ model of mattermost-harness-bridge

The bridge lets a Mattermost user run coding agents on their own machine: a
post that mentions a bot becomes a job in the **broker**, travels over a
websocket to the **harness** on the user's machine, runs there, asks for
approvals by buttons in the thread, and comes back as a result in the thread.
This directory models the parts in which several goroutines, processes or
machines work on the same state, checks them with TLC on small instances and
proves the most important invariants with TLAPS for every instance.

`PROJECT.json` maps every definition to the lines it models and lists the runs,
mutants, hazards, findings and theorems.

## 1. Inventory

| component | state | operations | hard about it |
|---|---|---|---|
| broker core, jobs (`broker/core/core.go`) | `jobs`, `outbox` tables | createJob, cancelJob, OnHello, OnAck, OnResult, OnDisconnect, fail, Sweep | reads and writes of several goroutines with calls to Mattermost in between; crash between two inserts |
| hub (`broker/hub/hub.go`, `wire/`) | the registered connection per harness | serve, flushOutbox, handle, Send, SendReliable | half-open connections, replacement, messages before the welcome |
| harness client (`harness/client/`) | session, outbox file | session, handle, SendReliable, Outbox.Add/Ack/Pending | lost acks, resends, restarts |
| harness (`harness/harness.go`) | `h.jobs`, approvals' channels | OnWelcome, OnDispatch, OnCancel, run, finish, decide, OnApprovalResponse | channels closed by one goroutine and written by another |
| approvals (core, harness, `harness/permission`) | `approvals` table, channels, button posts | OnApprovalRequest, HandleCallback, decide, finish | click, timeout, expiry and end of the job race |
| status post editor (core) | `c.edits`, one timer per editor | edit, the timer function, finalEdit | two mutexes, late timers, requests in flight |
| routing (core, `mattermost/client.go`, `cli/webhook.go`) | event channel, routingMu | Listen, outgoingHandler, HandleBotPost | double delivery, order, a full channel |
| onboarding (`core/onboarding.go`, `harness/initflow.go`) | `init_requests`, `bots`, `harnesses`; accounts and hooks in Mattermost | StartInit, PollInit, claimInit, createBoundBot, provisionBot, rollbackBot, WaitInit | compensation of remote operations, expiry, one-time token |
| OAuth (`broker/oauth/service.go`) | `installations` | start, callback, install, Client, saveCredentials | rotating grants copied into several rows, partial writes |
| bot manager (`broker/bots/manager.go`) | one listener per bot | Run | a listener is replaced while its handler works |
| agents (`harness/agent/`) | a process group, pipes, a killer goroutine per run | Run, parse, limitedWriter | a CLI that hangs, forks, ignores signals or prints too much |
| sessions map (`harness/sessions/`) | thread -> session, in memory and in a file | Open, Get, Put | read twice by a job, written by another; failing writes, restarts |
| store (`store/`) | SQLite | one statement or transaction per call | atomic steps of the callers |
| MCP, CLI, REST wrappers | none shared | | not modelled, see section 8 |

How they interact.  A listener or a webhook calls `HandleBotPost`, which calls
`createJob`, which writes a row and calls `hub.SendReliable`.  `hub.serve` calls
`core.OnHello`, `OnAck`, `OnApprovalRequest`, `OnResult`.  `client.session`
calls `harness.OnWelcome`, `OnDispatch`, `OnCancel`, `OnApprovalResponse`.
`harness.finish` and `decide` call `client.SendReliable`.  `core.Sweep` runs
every 30 s beside all of them; `HandleCallback` runs on the HTTP server.

What makes each correct: no stored result is lost and every job ends (delivery);
a tool runs only after a recorded allow (approvals); no text is forgotten and
the outcome stays (status post); one job per post and thread, for the owner only
(routing); what is sent is read in the end (flow control); a stopped run
ends, its verdict is what the agent said, and a thread continues its own session
(agents); a bound bot is complete and a token leaves once (onboarding); the
current grant stays reachable (OAuth).

## 2. Modules

| module | models | checked by | proved in |
|---|---|---|---|
| `JobLifecycle` | abstract: which job state may follow which | property of `Bridge` and `Approvals` | `BridgeProofs` (refinement), `ApprovalsProofs` (steps) |
| `Bridge` | delivery between the broker and one harness | `MCBridge` | `BridgeProofs` |
| `Approvals` | the approvals of one job | `MCApprovals` | `ApprovalsProofs` |
| `StatusPost` | the debounced status post | `MCStatusPost` | `StatusPostProofs` |
| `Flow` | the same connection with buffers of limited size | `MCFlow` | `FlowProofs` |
| `AgentRun` | the jobs of one thread on a harness: sessions and agents' processes | `MCAgentRun` | `AgentRunProofs` |
| `Routing` | from a post to a job's row, with the bots' listeners | `MCRouting` | `RoutingProofs` |
| `Onboarding` | codes, slash commands, provisioning, polling | `MCOnboarding` | `OnboardingProofs` |
| `OAuthGrant` | grants, rows, the team's slash command | `MCOAuthGrant` | `OAuthGrantProofs` |

`JobLifecycle` is what `Bridge` and `Approvals` have in common: `Bridge`
instantiates it with its own `state`, `Approvals` with the one job it has.
Definitions named with a leading "Fault:" comment are mutated forms of the
definition after them; they are not part of any specification.

How the modules divide the system.  `Routing` ends with a job's row, `Bridge`
begins with it; `Flow` looks at the envelopes of `Bridge` only as things that
take room; `AgentRun` is what happens on the harness between a dispatch and its
result; `Approvals` is the conversation of a running job with its owner, and
`StatusPost` what the thread shows of it.

### Bridge

Durable variables are `state`, `outbox` (broker) and `houtbox` (harness);
`BrokerCrash` and `HarnessCrash` keep exactly those.  A call that writes twice is
two actions with `task` or `sending` in between: `StartJob` (createJob up to
the read of `Online`), `CreateJob`, `Enqueue`, `Send`; `RequestCancel` and
`CancelQueued`; `SweepOffline` and `SweepLose`; `Finish` (Outbox.Add) and
`SendResult` (client.Send).  `conn` distinguishes the live connection from a
half-open one (`stale`): the broker believes it online until a read times out.
`serve` and `client` are the program counters of `hub.serve` and
`client.session`.

`OnHello` is what the code does: one read of the active jobs (`OnHello`), one
compare-and-set per row (`ReconcileRow`), then the welcome (`SendWelcome`); the
post handler, the sweeper and a replacing connection run in between.  Stored
envelopes are sent in the order of their ids, which `protocol.NewID` leaves open
within one millisecond: `First` orders only the envelopes of one job.

Simplifications.  One harness, with jobs of an agent without approvals.  Time is
abstracted: any timer may fire once its guard holds; a timeout cancel is sent once
per job instead of every 30 s.  Progress envelopes are left out here, where they
carry no state but the text; the room they take is `Flow`'s.  The connection is a
FIFO in each direction; its limits are `Flow`'s.  `hub.handle` of an ack writes the
outbox and then the row: nobody else looks at both, so `RecvAck` is one step, but
`BrokerCrash` may come between the two writes.  What the goroutine of a replaced
connection is still handling counts as handled before the new one is registered,
so that its deferred deregistration leaves the new one alone (`hub.go:127`) is not
put to the test.  A dispatch of a job in `Refused` may be accepted or nacked,
whatever the harness's configuration and the thread's session then are.  The store's statements do not fail: a
failing read in `OnHello` would make the welcome abort every job the harness has,
and leave an unreported running job to the sweeper.

### Flow

One connection and the two outboxes.  `down` and `up` are what the socket holds,
`wire.Conn.Send` is a guard `Len(...) < Cap`, and the two read loops have at most
one reply in hand (`hubOwes`, `harOwes`), which they send before they read on.
`serve` and `session` flush a snapshot (`hubFlush`, `harFlush`) before they read at
all.  Before that flush, `OnWelcome` sends the progress of every running job
(`ReadWelcome` sets `refresh`, `RefreshProgress`, then `Pending` takes the
snapshot), and from the welcome on any running job may send progress
(`SendProgress`): it is neither stored nor answered, and the hub just reads it, but
until it does so it takes room like everything else.  `SendReliable` is `Store` and
then `HubSend` or `ClientSend`, on any other goroutine.  A heartbeat waits for its
pong.  Envelopes count as one place each; real ones have sizes, so capacities stand
for "as many as fit".  Which jobs run is not followed: up to `MaxJobs` do, at any
time.

`Stuck` is the mutual block: both directions are full, the hub has something to
flush or reply, and so has the client, so that nobody reads.  Since a job sends
progress as long as there is room, the direction to the hub fills up as soon as the
hub does not read.  What a block still needs is that the *other* direction is full,
and nothing but requests, acks, a pong and the welcome goes there: `BlockNeedsLoad`
says how many reliable envelopes that takes.  The bound is tight: the run reaches a
block with equality.  A stuck connection ends only by the pong timeout, if a ping
was under way before, or by the network; `Drained` therefore excepts sides that are
stuck for good or again and again, and nothing else.

### AgentRun

The jobs of one thread of one bot; `mem` and `file` are its entry in
`sessions.Map`.  `OnDispatch` reads it for workspace and agent, `Start` again for
the session to resume, `StoreSession` writes it when the run is over.  A session is
named by the job that began it, so that a resumed session can be compared with
the job's workspace and agent.  `proc[j]` is the process: what the CLI has printed
(`printed`), what is still in the pipe, what `parse` has read, whether the copy of
stderr has failed, a child that holds the pipes, and the killer goroutine.  The
CLI is external and does what it likes; `EndContext` is a cancel or the timeout.
The two agents differ only in `Verdict`.  After `Finish` or `Restart` a process is
no longer followed.  Between the verdict and the end of the job the run waits for
the goroutine that sends its progress and then sends the result, and neither `Send`
has a timeout: while the connection takes nothing (`stuck`, from `Stall` to
`Resume`, which nobody has to take), `StoreSession` and `Finish` wait.  A dispatch
that is resent, `busy`, and the way of the result
are `Bridge`'s.

### Approvals

Starts with a running job.  `decide` (per approval), `OnApprovalResponse`
(`answer`: between lookup and send), `finish`, `OnApprovalRequest` (`request`)
and `HandleCallback` (`click`) are stepwise; a Go channel of capacity one is
`buffer` and `closed`.  Receiving from a closed channel drains the buffer first;
sending to it panics, also in a `select` with a `default`.  The connection is a
set of envelopes, because each is sent by a goroutine of its own and may
overtake others; `Reconnect` is hello, welcome and both flushes in one step
(their interleavings are `Bridge`'s).  Clicks that fail the signature or owner
check change nothing and are left out, as are clicks on decided approvals.

### StatusPost

Texts and editors are numbered.  `funcs` counts timer functions that will still
run: `time.Timer.Stop` may come too late.  An `UpdatePost` is under way between
the call and Mattermost's applying it.  Who may call: `FindActive` reads the job
as active, and its `edit` may come after another goroutine's `finalEdit`.

### Routing

`Sync` is a turn of `bots.Manager.Run`: the listener of a bot follows its row.  A
post reaches a bot by its stream (`stream`, then the channel `events`, then the
worker) and, if it starts with the bot's trigger word, by a webhook request.  Both
end in `HandleBotPost`, whose steps hold `mu` (routingMu).  `Decision` has its early
returns in their order (as IF ... ELSE: the conditions overlap, and the arms of a
CASE have no order).  `Names[p]` holds the bots a post addresses, by name or, in
a direct message, by being its other member.  Nothing waits for the
worker of a listener that is replaced: its handler (in `ended`) goes on beside the
new listener and its worker, waits for routingMu like the others, and returns at
the first call that fails because its context has ended (`Abandon`); the call
under way, the status post or the insert of the row, may still get through.  `HandlerFails` is a call
whose error ends the handler; `ActiveUnread` is the one read whose error
`createJob` and `handleCancel` ignore.  `CreateJob` has the unique index
`jobs_bot_trigger`.  `EndJob` stands for all of `Bridge`.  `Write` is Mattermost's
and external.  No code of the broker changes a token; `ChangeBot` stands for the
rows being created, deleted and updated by whoever does.

### Onboarding

A bot is named by the command that makes it.  `stage` goes through the checks,
the seven steps of provisionBot (`Order`), `CompleteInit`, and after an error
through the four operations of rollbackBot (`Cleaning`), each of which may fail.
`has` is what Mattermost has, `known` what the broker's record says, `row` the
database.  `failures` counts operations that fail cleanly, `hard` crashes, lost
responses and failing clean-up.  `Req` has two poll requests of one laptop:
Go's HTTP transport repeats a GET whose connection breaks, while the broker may
still be working on the first one.

### OAuthGrant

`callback` and `Client` share one mutex, so one `op` is enough.  A generation is
one exchange's grant.  Mattermost is taken to rotate the refresh token at each
exchange, and one grant per administrator to be valid; the clock behind
`UpdatedAt` does not run backwards.  `failures` counts failing writes, team checks
and calls of install; `hard` counts what makes `callback` or `Client` give a new
grant up before it is saved (a lost answer, a `GetMe` that fails or finds a user
who is no administrator, a failing `ListInstallations`), a failing undo, and
crashes.

## 3. Runs

Passing runs (every property also has a mutant that breaks it):

| run | properties | shows |
|---|---|---|
| `bridge_faults` | TypeOK, ResultNotLost, RunningHasOwner, OneActivePerThread, ImplementsLifecycle | two jobs of a thread and three faults or cancels anywhere: no result is lost before it is answered, running jobs have an owner after a reconnect, the jobs exclude each other, no handler leaves the lifecycle |
| `bridge_live` | EveryJobEnds, OutboxesDrain | every created job ends, both outboxes drain, also when a dispatch is refused or a cancel nacked |
| `approvals_two` | AwaitingHasReason | two approvals decided in any order: the job is resumed after the last |
| `approvals_faults` | TypeOK, AllowIsRecorded, KeepsLifecycle, EveryAskIsAnswered, AwaitingEnds | with either button clicked or none and a crash or lost connection: allow is heard only after it is recorded, late events revive nothing, every tool call gets a verdict |
| `status_post` | PendingHasTimer, NoEditForgotten, OutcomeShown | no text waits without a timer function, every text is sent or superseded, and the outcome of a job is sent whatever the timers do |
| `routing` | TypeOK, OneJobPerPost, OneActiveInThread, OnlyAddressed, CancelStopsEarlier, EveryMentionAnswered | one thread, another bot's mention, another user's post, double delivery, a full queue and a fault: a failed call, a lost stream, a crash, a changed token with the old handler beside the new one |
| `onboarding` | TypeOK, TokenOnce, CodeClaimedOnce, BoundIsComplete, PairedIsUsable, FailedLeavesNothing, WaitEnds | several commands for one code and one name, overlapping polls, failures and crashes |
| `oauth` | GrantSurvives, NoOrphanCommand, NoStaleClient | partial writes of a rotated grant, crashes, lost answers |
| `flow` | BlockNeedsLoad, Drained | buffers so small that the sides can block each other, filled by progress: they do so only under the load the bound gives, and otherwise everything stored is acked, through a broken connection |
| `agent_run` | SessionFits, HonestVerdict, ThreadContinues, RunEnds | two jobs of a thread, a CLI that hangs, forks, ignores SIGINT and prints too much, failing writes, a connection that takes nothing, a restart with another configuration |

Two kinds of condition inside properties are part of what the code promises and
are no bounds.  `hard = 0` (FailedLeavesNothing, GrantSurvives,
NoOrphanCommand): compensation needs the broker to live and Mattermost to accept
the clean-up; a crash between a remote call and the row that records it cannot be
compensated by code that keeps no intent log.  It excludes more than crashes: what
counts as hard is listed with each module above.  `faults > n` in
EveryMentionAnswered: an event that was only in memory, or whose REST call failed,
is not retried; what failed before the mention does not excuse it.  `faults = 0` in
AwaitingHasReason excludes dropped connections as well.  Likewise `blind` in OneActiveInThread: after a failed read of the
active jobs createJob starts a second job (`core.go:386`).  `BlockNeedsLoad` says
how much must be under way before the two sides can block each other; with more,
they do (below).  HonestVerdict is not claimed of a turn with a line of more than
32 MiB or with more than 64 KiB of stderr, which the code gets wrong (below).

Runs that are expected to violate what a comment, a message or the README of
the repository says (details and quotes under "findings"):

| run | statement | what the code does |
|---|---|---|
| `bridge_result_dropped` | a finished job's result survives a harness restart | OnHello fails the job before the outbox is resent, and the result is ignored |
| `approvals_panic` | "already answered" is the only reason not to send | a send on a channel that finish has closed |

Other disagreements met while modelling.  The models contain the behaviour; no
run is kept for them:

- a job cancelled while queued still runs: cancelJob only moves the row, its
  dispatch stays in the outbox, although the post says "Cancelled before the
  harness picked it up" (`core.go:358`); likewise a job failed as expired
  (`core.go:863`);
- with as many reliable envelopes under way as `BlockNeedsLoad` gives, both sides
  can wait for each other for good, the direction to the hub being full of
  progress: no write has a deadline, and the heartbeat waits for room before it
  starts the pong timeout (`hub.go:174`, `client.go:151`, `harness.go:188`);
- when stderr passes 64 KiB, `limitedWriter` returns a short count, `Wait` an error,
  and a codex turn that completed is reported as failed (`codex.go:248`);
- a child that has left the process group and holds the pipes keeps a cancelled
  job running until it exits (`claude.go:119`), and after a line of more than 32 MiB
  the CLI may block on a pipe nobody reads until the job is stopped
  (`claude.go:202`);
- a dispatch larger than the frame limit (several attachments) ends the connection
  each time it is resent (`wire/conn.go:18`);
- a failed read of the active jobs starts a second job beside the first, or answers
  a cancel with "Nothing running in this thread for you." (`core.go:340`, `core.go:386`);
- a lost job is aborted by the welcome although the status text says its result
  will still land (`core.go:885` and `core.go:556`);
- a job that OnHello treats as queued may have no stored dispatch after a crash
  between `CreateJob` and the outbox insert (`core.go:573`);
- a resent approval request finds a row without a button post when `CreatePost`
  had failed (`core.go:634`);
- an `UpdatePost` already under way may overwrite the outcome (`core.go:1001`),
  and two of them may arrive out of order (`core.go:957`, "latest text wins");
- a `cancel` that arrives by stream and by webhook is applied twice, since only
  deliveries that made a job are recognised (`core.go:192`);
- a bot's row survives a half-failed rollback or a crash (`onboarding.go:235`);
- `ErrInitExpired` is also given for a code that was claimed (`initflow.go:33`);
- after a crash the broker takes its own slash command for an "unrelated" one
  (`service.go:227`).

## 4. Bounds

Faults, cancels, texts, generations and failures are bounded by `Max...`
constants, in the guards of the actions that count.  `bridge_faults` has two jobs
of one thread and three events, because the hard cases (a reconnect during a
reconnect, a lost ack and then a crash, a cancel between OnHello's read and its
write) need two or three; `bridge_live` has one job and two events.  `flow` has
three envelopes, two of the broker and one of the harness, a job that reports its
progress, two places in each direction, so that a block is possible with two
envelopes stored and impossible with one, and one broken connection.  `agent_run` has two jobs, the default workspace and another, a
pipe of one line (so that every write can block) and two events: contexts that end,
failures, restarts, an overlap of the jobs, children, long lines,
much stderr, or a connection that takes nothing.
`approvals_two` has two approvals and no fault (the pending check is about two),
`approvals_faults` one approval, both buttons and one fault.  `status_post` has
two callers, six texts and two outcomes: enough for two editors with a late timer
each.  `routing` has one thread of five posts (two tasks
for the bot, one of them also by webhook, a cancel that names no bot, a task for
another bot, and one of another user), a queue of two places and one fault; other
threads and bots do not interact but for the mutex.  `onboarding` has two commands for one code and a third for
the name of the first, two polls, two failures and
two hard ones; `oauth` two administrators, three teams and four exchanges.
Deadlock checking is off: the bounded systems stop when their posts, texts or faults
are used up, and in `flow` both sides may be stuck for good, which is what its
properties are about.  Symmetry is used where the identities are interchangeable
and no liveness is checked (`bridge_faults`, whose one temporal property is a safety property, `approvals_two`,
`oauth`).

## 5. Fairness

Weak fairness of what a running process does by itself: each goroutine's next
step, read timeouts on dead connections, timers, the sweeper, redialling.  In
`Routing` it is one condition per goroutine (`Worker(b)`, `HookRequest(b, p)`,
the stream), so that a worker kept waiting for routingMu is not assumed to
overtake anyone.  An agent's run ends, because its context has a deadline and the
process is killed after it.  Nothing is assumed of the owner, of Mattermost
users, or of faults; faults are bounded, so eventually they stop.  `Slow` in
`bridge_live` is the set of jobs that may be found past the broker's timeout.
In `Routing` the goroutines of replaced listeners are fair on their own
(`Replaced(b)`).  In `AgentRun` nothing is assumed
of the CLI and its children: fair are the run's own steps and the killer's, whose
grace period ends (the bound on events keeps a run from reading for ever).  `Flow`
has strong fairness for `SendReliable` on other goroutines and for the client's
session: both write to the hub beside the goroutines that send progress, and all of
them queue at the mutex of `wire.Conn`, which Go grants in turn; so none is
overtaken for ever when there is room again and again.  Towards the harness no such
stream competes, and weak fairness of `Serve` is enough.  Nothing makes a ping be
sent: `PongTimeout` is fair once one is under way.

## 6. Proofs

`BridgeProofs` (for every finite set of jobs, thread assignment, `MaxJobs`, and
any bound on faults and cancels; from `ConstantsAssumption`):

- `TypeCorrect`: `Spec => []TypeOK`, one step per action.
- `ResultsKept`: `Spec => []ResultNotLost`.  Not inductive alone: an ack empties
  the outbox file.  `ResultInv` adds that every ack on its way to the harness
  is of a result in `delivered`.
- `ThreadExclusion`: `Spec => []OneActivePerThread`, and `LifecycleImplemented`:
  `Spec => Lifecycle!Spec`.  `LifecycleInv` adds `InsertFresh` (between check and
  insert the row is missing and the thread idle) and `LoseStarted` (what the
  sweeper is about to lose has left the queue).  Both are kept because every step
  but the insert only settles jobs (`Settles`): none becomes active, none is
  queued again.

- `RunningIsOwned`: `Spec => []RunningHasOwner`.  The property speaks of the
  moment a session is up; what makes it true happened over several connections, so
  `OwnerInv` follows every reason the broker can have to write "running".  A job
  is `Owned` when the harness has it in `run`, has its result in the file, or it
  is over.  `ClaimInv`: the jobs named in a hello, the good acks on the live
  connection and the rows OnHello will set to running are owned, and a running
  job that is not is one OnHello has yet to read or is about to fail.  Ownership
  is lost by a crash of the harness only (`OwnedStep`), which takes the connection
  with it.  That the file may drop a result needs `PoolInv` (copies of a result
  are told apart by id, so with `ResultInv` each is stored or answered, and an
  answered one has ended its job), which needs `StartedInv` (nothing is sent about
  a job without a row: OnResult would answer it and leave no trace).  `LinkInv` is
  the handshake: until the welcome is sent the client waits for it.

`ApprovalsProofs` (from `ApprovalsAssumption`, any number of approvals, clicks and
faults):

- `AllowRecorded`: `Spec => []AllowIsRecorded`.  `AllowInv` follows an "allow"
  backwards through every place it passes: verdict, channel buffer, the response
  in the harness's hands, the wire, the outbox, the callback in progress; each is
  covered by the row's decision, which never changes once it is allow.
- `ApprovalsTypeCorrect`: with `ReportMade`, since SendResult sends what Finish left.
- `AwaitingIsJustified`: `Spec => []AwaitingHasReason`.  `OrderInv` adds that buttons
  are posted for rows, clicks are on posted buttons, and a row whose handler has
  not posted yet is undecided; so the transition to awaiting_approval always comes
  before the decision that is to undo it.  Were the buttons posted first, a quick
  click could find nothing to resume.
- `LifecycleKept`: `Spec => KeepsLifecycle`; the job is never queued again, or
  SweepLose would leave the lifecycle.

`FlowProofs` (for all finite disjoint `Down` and `Up` and all capacities, from
`FlowAssumption`): `FlowTypeCorrect`, and `NoMutualBlock`: `Spec => []BlockNeedsLoad`.
The argument counts, and counts everything but progress.  `Carried(up)` are the
places of `up` that hold something else.  `SideInv` says that a side which has not
got to its flush has nothing on the connection, `LoadInv` that what is in the
snapshots, in `down`, in `Carried(up)` and in the readers' hands is no more than the
requests `started` on this connection (each as itself or as its ack), the welcome
and one ping, and `StartInv` that `started` is at most twice the envelopes made:
each is flushed at most once and sent at most once per connection.  A mutual block
fills `down` and both sides' hands with such messages (one side's only, when what
the client waits to send is progress: `Held`), which gives the inequality, whatever
fills `up`.

`AgentRunProofs` (for all sets of jobs and workspaces, from `AgentRunAssumption`):
`AgentRunTypeCorrect`, `SessionsFit`, `VerdictIsHonest` from
`RunInv`, which adds to the type invariant the bookkeeping of a process (`BookInv`:
what has been read was printed, the pipe holds the rest, and a judged run's process
has exited) and `FitInv` (the entries in memory and on disk, and the session a
process prints, belong to the session's first job).  `RepliesContinue`, an action
property, needs `FollowInv`: a job that follows and has not started chose the
workspace and agent of the entry that is still there.

`RoutingProofs` (for all bots, posts, threads, ways of delivery, queue sizes and
faults, from `RoutingAssumption`): `RoutingTypeCorrect`, `PostRunsOnce`,
`ThreadRunsOne`, `ActsWhenAddressed` and `CancelReachesBack`, from `RoutingInv`.
`MutexInv` says that who is past Lock holds routingMu; from it, what a handler
found when it decided (`DecidedInv`: no row for the post, no active job in the
thread, addressed) still holds when the row is written several calls later.
`StatusInv` ties status posts to rows.  For the order of a cancel, `OrderInv`,
`PastInv` and `WorkerInv` say that a bot's posts go through stream, channel and
worker as written, behind those that are jobs already or in the hands of a replaced
listener's handler.  With `WrittenOnce` it follows that a worker never takes a post
that an older handler still has (`NotTwice`).  The attempt to prove `Decision` changed the model: it was a CASE whose
arms overlapped, which TLC reads in order and TLA+ does not.

`OnboardingProofs` (for all codes, commands and poll requests, from
`OnboardingAssumption`): `TokenLeavesOnce`,
`CodePairsOnce`, `BoundHasAll`, `PairedWorks`, `RollbackIsComplete` and
`OnboardingTypeCorrect`, from `OnboardingInv`.  `CommandInv(k)` says what Mattermost
and the record have at each stage of provisionBot and of rollbackBot, and, while
nothing crashed, no response was lost and no clean-up failed, that the record
knows of every webhook there is;
`TokenInv(c)` that the token is in the hands of at most one poll, which has taken
it out of the row; `PairInv` that a claimed code is one whose bot is bound.

`OAuthGrantProofs` (for all administrators, teams, exchanges and failures, from `GrantAssumption`):
`GrantIsKept`, `ClientIsCurrent`, `CommandsAreKnown` and `OAuthTypeCorrect`, from
`OAuthInv`.  `GrantInv` counts: the rows `Behind(u)` that a rotation has left with an
old copy are no more than the failed writes, so an administrator with more rows
than failures has one that is current.  `OpInv` is what the operation under way
knows, `CommandInv` that the one command no row knows is the one it just made.

`StatusPostProofs` (for any number of callers and texts, from `StatusAssumption`): `EditIsScheduled` and
`StatusTypeCorrect`, from `StatusInv`.  `EditorInv` says that editors are not used
again: the one a finalEdit stops is not the job's any more.  `CountInv` bounds what
the type invariant needs bounded.

Before it was proved, each inductive invariant was checked with TLC as an
invariant of the run's own instance.  Proved this way are all the invariants and
action properties the passing runs check.  Only model-checked is liveness
(`EveryJobEnds`, `OutboxesDrain`, `EveryAskIsAnswered`, `AwaitingEnds`,
`NoEditForgotten`, `OutcomeShown`, `EveryMentionAnswered`,
`WaitEnds`, `Drained`, `RunEnds`): it rests on fairness and ENABLED, which are out of
the prover's reach.

## 7. Plan

1. Done: `JobLifecycle`, `Bridge`, `Approvals`, `StatusPost`, `Routing` with the bot
   manager, `Onboarding`, `OAuthGrant`, `Flow`, `AgentRun`, and the proofs above.
2. Left to model: progress sequence numbers (`RecordProgress`), failing reads in
   `OnHello`, the one-use OAuth state.
3. Next proofs: safety facts the liveness properties lean on (a created job that is
   not over always has an outbox row, a running agent, a stored result or the
   sweeper to end it; a request that waits has a timer), so that only the fairness
   argument is left to TLC; and lemmas shared by two theorems of a module, where
   proofs repeat.

## 8. Not modelled

- HandlePost, handleDM, mentionedBot, newPairingCode, HandlePair and
  `harness/pair.go`: not wired into `runBroker`.
- `joinChannel`, status texts, help: no state of the broker changes.
- The texts agents print, prompts, history, attachments and their sizes: data.
- The MCP loop, REST wrappers, CLI, configuration, migrations, audit log:
  sequential, or read once.
- Processes an agent leaves behind, and process ids: a run is followed until its
  result, and a stopped harness knows nothing of its agents.
- Cryptography: tokens, signatures, encrypted credentials.
- The outbox file's own failures: a result whose Outbox.Add fails is logged and
  lost, and the job is failed by the next OnHello or timed out.
