------------------------------- MODULE Bridge -------------------------------
(***************************************************************************)
(* The delivery of jobs between the broker and one harness.                *)
(*                                                                         *)
(*   broker    internal/broker/core (createJob, cancelJob, OnHello, OnAck, *)
(*             OnResult, Sweep) over the jobs and outbox tables of         *)
(*             internal/store, and internal/broker/hub (one websocket);    *)
(*   harness   internal/harness (OnWelcome, OnDispatch, OnCancel, run,     *)
(*             finish) and internal/harness/client (session, outbox file). *)
(*                                                                         *)
(* The jobs are those of an agent without approvals (agent.Approvals() is  *)
(* false, e.g. Codex); the approval protocol is module Approvals.  Time is *)
(* abstracted: a timer that may have run out may fire.                     *)
(***************************************************************************)
EXTENDS Integers, Sequences, FiniteSets

CONSTANTS
  Job,          \* jobs the owner may ask for, one per triggering post
  ThreadOf,     \* ThreadOf[j]: the thread job j is asked for in
  Refused,      \* jobs naming a workspace or agent the harness may lack
  MaxJobs,      \* the harness's max_jobs
  Slow,         \* jobs that may outlive the broker's job timeout
  Verdicts,     \* how an agent's run may end if nobody cancels it
  MaxEvents     \* bound: posts of the owner (tasks and "cancel"s), broken
                \* connections and crashes, together

ASSUME ConstantsAssumption ==
  /\ IsFiniteSet(Job)
  /\ Refused \subseteq Job /\ Slow \subseteq Job
  /\ MaxJobs \in Nat
  /\ Verdicts \subseteq {"succeeded", "failed", "cancelled"}
  /\ MaxEvents \in Nat

VARIABLES
  \* broker, durable (SQLite)
  state,        \* jobs.state; "none": no row yet
  outbox,       \* outbox rows without acked_at
  nextID,       \* next envelope id; ids are ordered by creation
  \* broker, in memory
  conn,         \* hub.conns[harness]: "none", "live", or "stale" when the
                \* harness has left that connection
  serve,        \* where hub.serve of the registered connection stands
  hello,        \* the hello.Jobs that serve has read; once OnHello has read
                \* the active jobs, those of them it will abort
  todo,         \* the rows OnHello has yet to write
  flush,        \* the rest of flushOutbox's snapshot
  task,         \* calls in progress of the post handler and the sweeper
  \* wire
  dialed,       \* the hello.Jobs on their way to the hub
  toHarness,    \* envelopes broker -> harness on the harness's connection
  toBroker,     \* envelopes harness -> broker on the registered connection
  \* harness
  houtbox,      \* the outbox file (durable)
  nextRes,      \* next result envelope id (durable: ULIDs never repeat)
  client,       \* where client.session stands
  hflush,       \* the rest of the session's outbox flush
  run,          \* h.jobs: "none" or the stage of the job's goroutine
  sending,      \* results between Outbox.Add and client.Send
  \* history
  delivered,    \* results OnResult has answered
  \* bounds
  spent,        \* how many of the bounded events have happened
  timedOut      \* jobs the sweeper has sent a timeout cancel for

db      == <<state, outbox, nextID>>
hub     == <<conn, serve, hello, todo, flush>>
wire    == <<dialed, toHarness, toBroker>>
harness == <<houtbox, nextRes, run, sending>>
session == <<client, hflush>>
bounds  == <<spent, timedOut>>
vars    == <<db, hub, task, wire, harness, session, delivered, bounds>>

-----------------------------------------------------------------------------
(* Job states and envelopes *)

Lifecycle == INSTANCE JobLifecycle

ActiveStates == Lifecycle!ActiveStates

Terminal == Lifecycle!Terminal

JobState == Lifecycle!JobState

Status == Lifecycle!Outcome

Posted    == [type : {"dispatch", "cancel"}, id : Nat, job : Job]

Welcome   == [type : {"welcome"}, aborts : SUBSET Job]

BrokerAck == [type : {"ack"}, ref : Nat]

Result    == [type : {"result"}, id : Nat, job : Job, status : Status]

JobAck    == [type : {"ack"}, ref : Nat, job : Job, ok : BOOLEAN]

\* A goroutine of the broker between two steps of one call.
Tasks == {"post", "sweep"}

Idle == [pc |-> "idle"]

Call == [pc : {"insertQueued", "insertDispatched", "enqueue", "send",
               "cancelQueued", "lose"},
         type : {"dispatch", "cancel"}, job : Job, id : Nat]

\* A row OnHello means to write, and the state it will write.
Write == [job : Job, to : {"running", "failed", "dispatched"}]

TypeOK ==
  /\ state \in [Job -> JobState \cup {"none"}]
  /\ outbox \subseteq Posted
  /\ nextID \in Nat
  /\ conn \in {"none", "live", "stale"}
  /\ serve \in {"none", "hello", "reconcile", "welcomed", "flush", "loop"}
  /\ hello \subseteq Job
  /\ todo \subseteq Write
  /\ flush \subseteq Posted
  /\ task \in [Tasks -> Call \cup {Idle}]
  /\ dialed \subseteq Job
  /\ toHarness \in Seq(Posted \cup Welcome \cup BrokerAck)
  /\ toBroker \in Seq(Result \cup JobAck)
  /\ houtbox \subseteq Result
  /\ nextRes \in Nat
  /\ client \in {"down", "dialed", "hello", "flush", "up"}
  /\ hflush \subseteq Result
  /\ run \in [Job -> {"none", "running", "cancelling", "sending"}]
  /\ sending \subseteq Result
  /\ delivered \subseteq Result
  /\ spent \in Nat
  /\ timedOut \subseteq Job

Init ==
  /\ state = [j \in Job |-> "none"]
  /\ outbox = {} /\ nextID = 1
  /\ conn = "none" /\ serve = "none" /\ hello = {} /\ todo = {} /\ flush = {}
  /\ task = [t \in Tasks |-> Idle]
  /\ dialed = {} /\ toHarness = <<>> /\ toBroker = <<>>
  /\ houtbox = {} /\ nextRes = 1
  /\ client = "down" /\ hflush = {}
  /\ run = [j \in Job |-> "none"] /\ sending = {}
  /\ delivered = {}
  /\ spent = 0 /\ timedOut = {}

-----------------------------------------------------------------------------
(* Building blocks *)

\* store.TransitionJob: compare-and-set of one row's state.
TransitionJob(j, from, to) ==
  [state EXCEPT ![j] = IF @ \in from THEN to ELSE @]

\* Fault: a state the store does not know.
failUnknown(j) == TransitionJob(j, ActiveStates, "error")

\* core.fail: an active job fails, a finished one is left alone.
fail(j) == TransitionJob(j, ActiveStates, "failed")

\* hub.Online: is any connection registered, half-open or not?
Online == conn # "none"

\* wire.Conn.Send on the registered connection: what a harness that has
\* left it will never read is lost.
Push(m) == toHarness' = IF conn = "live" THEN Append(toHarness, m) ELSE toHarness

\* client.Send: nothing happens while disconnected, and what is written to
\* a connection the hub has given up is lost.
Upload(m) ==
  toBroker' = IF client \in {"flush", "up"} /\ conn = "live"
              THEN Append(toBroker, m) ELSE toBroker

\* A bounded event happens.
Count == spent < MaxEvents /\ spent' = spent + 1

\* What may be sent next of a set of stored envelopes (PendingOutbox and
\* Outbox.Pending sort by id).  Ids made within one millisecond are in no
\* order (protocol.NewID draws the rest at random), which happens to the
\* envelopes of different jobs; two of one job are further apart.
First(msgs) == {m \in msgs : \A n \in msgs : m.job = n.job => m.id <= n.id}

\* The call in progress is the createJob of j.
Creating(j) == task["post"] # Idle /\ task["post"].job = j

-----------------------------------------------------------------------------
(* The post handler: routingMu lets one post through at a time *)

\* createJob up to the status post: the thread has no active job, and the
\* state the row will get is decided by hub.Online now.
StartJob(j) ==
  /\ task["post"] = Idle
  /\ state[j] = "none"
  /\ \A k \in Job : ThreadOf[k] = ThreadOf[j] => state[k] \notin ActiveStates
  /\ task' = [task EXCEPT !["post"] =
       [pc |-> IF Online THEN "insertDispatched" ELSE "insertQueued",
        type |-> "dispatch", job |-> j, id |-> 0]]
  /\ Count
  /\ UNCHANGED <<db, hub, wire, harness, session, delivered, timedOut>>

\* The status post or the insert fails: createJob returns without a job.
AbandonJob ==
  /\ task["post"].pc \in {"insertQueued", "insertDispatched"}
  /\ task' = [task EXCEPT !["post"] = Idle]
  /\ UNCHANGED <<db, hub, wire, harness, session, delivered, bounds>>

\* store.CreateJob.
CreateJob ==
  /\ task["post"].pc \in {"insertQueued", "insertDispatched"}
  /\ state' = [state EXCEPT ![task["post"].job] =
       IF task["post"].pc = "insertQueued" THEN "queued" ELSE "dispatched"]
  /\ task' = [task EXCEPT !["post"].pc = "enqueue"]
  /\ UNCHANGED <<outbox, nextID, hub, wire, harness, session, delivered, bounds>>

\* handleCancel reads the thread's active job; cancelJob goes by that state.
RequestCancel(j) ==
  /\ task["post"] = Idle
  /\ state[j] \in ActiveStates
  /\ task' = [task EXCEPT !["post"] =
       [pc |-> IF state[j] = "queued" THEN "cancelQueued" ELSE "enqueue",
        type |-> "cancel", job |-> j, id |-> 0]]
  /\ Count
  /\ UNCHANGED <<db, hub, wire, harness, session, delivered, timedOut>>

\* cancelJob of a job read as queued; the dispatch stays in the outbox.
CancelQueued ==
  /\ task["post"].pc = "cancelQueued"
  /\ state' = TransitionJob(task["post"].job, {"queued"}, "cancelled")
  /\ task' = [task EXCEPT !["post"] = Idle]
  /\ UNCHANGED <<outbox, nextID, hub, wire, harness, session, delivered, bounds>>

-----------------------------------------------------------------------------
(* hub.SendReliable, called by the post handler and by the sweeper *)

\* store.Enqueue.
Enqueue(t) ==
  /\ task[t].pc = "enqueue"
  /\ outbox' = outbox \cup
       {[type |-> task[t].type, id |-> nextID, job |-> task[t].job]}
  /\ nextID' = nextID + 1
  /\ task' = [task EXCEPT ![t].pc = "send", ![t].id = nextID]
  /\ timedOut' = IF t = "sweep" THEN timedOut \cup {task[t].job} ELSE timedOut
  /\ UNCHANGED <<state, hub, wire, harness, session, delivered, spent>>

\* hub.Send to whatever connection is registered by now.
Send(t) ==
  /\ task[t].pc = "send"
  /\ Push([type |-> task[t].type, id |-> task[t].id, job |-> task[t].job])
  /\ task' = [task EXCEPT ![t] = Idle]
  /\ UNCHANGED <<db, hub, dialed, toBroker, harness, session, delivered, bounds>>

\* The insert fails, or the write to a dead connection does: createJob fails
\* the job, cancelJob's error is only logged.  A stored row stays stored.
\* (A timeout cancel whose insert fails is one the sweeper has yet to send.)
SendFails(t) ==
  /\ \/ task[t].pc = "enqueue" /\ t = "post"
     \/ task[t].pc = "send" /\ conn = "stale"
  /\ state' = IF task[t].type = "dispatch" THEN fail(task[t].job) ELSE state
  /\ task' = [task EXCEPT ![t] = Idle]
  /\ UNCHANGED <<outbox, nextID, hub, wire, harness, session, delivered, bounds>>

-----------------------------------------------------------------------------
(* The sweeper.  Its time limits are far longer than one createJob. *)

\* ExpireQueuedJobs: one statement, online or not.
SweepExpire(j) ==
  /\ task["sweep"] = Idle /\ ~Creating(j)
  /\ state[j] = "queued"
  /\ state' = TransitionJob(j, {"queued"}, "expired")
  /\ UNCHANGED <<outbox, nextID, hub, task, wire, harness, session, delivered, bounds>>

\* A job past its timeout on an online harness gets a cancel.  The sweeper
\* repeats it every round; one stored cancel per job is modelled.
SweepTimeout(j) ==
  /\ task["sweep"] = Idle /\ ~Creating(j)
  /\ Online
  /\ state[j] \in {"dispatched", "running"}
  /\ j \in Slow \ timedOut
  /\ task' = [task EXCEPT !["sweep"] =
       [pc |-> "enqueue", type |-> "cancel", job |-> j, id |-> 0]]
  /\ UNCHANGED <<db, hub, wire, harness, session, delivered, bounds>>

\* The harness is offline beyond the grace period when the sweeper looks ...
SweepOffline(j) ==
  /\ task["sweep"] = Idle /\ ~Creating(j)
  /\ ~Online
  /\ state[j] \in {"dispatched", "running", "awaiting_approval"}
  /\ task' = [task EXCEPT !["sweep"] =
       [pc |-> "lose", type |-> "cancel", job |-> j, id |-> 0]]
  /\ UNCHANGED <<db, hub, wire, harness, session, delivered, bounds>>

\* ... and may be back when the row is written.
SweepLose ==
  /\ task["sweep"].pc = "lose"
  /\ state' = TransitionJob(task["sweep"].job, ActiveStates, "lost")
  /\ task' = [task EXCEPT !["sweep"] = Idle]
  /\ UNCHANGED <<outbox, nextID, hub, wire, harness, session, delivered, bounds>>

-----------------------------------------------------------------------------
(* hub.serve: one connection from hello to the read loop *)

\* hello is read and the connection registered: a newer connection wins, the
\* old one's goroutine ends with what was still on its way to it.
Register ==
  /\ client = "dialed"
  /\ client' = "hello"
  /\ conn' = "live" /\ serve' = "hello" /\ todo' = {} /\ flush' = {}
  /\ hello' = dialed /\ dialed' = {}
  /\ toBroker' = <<>>
  /\ UNCHANGED <<db, task, toHarness, harness, hflush, delivered, bounds>>

\* Fault: a running job the harness did not report is left running.
ReconcileTrusts(j) ==
  CASE j \in hello /\ state[j] \in {"queued", "dispatched"} -> {"running"}
    [] j \notin hello /\ state[j] = "queued" -> {"dispatched"}
    [] OTHER -> {}

\* core.OnHello on one job of the snapshot: a reported job runs (the dispatch
\* ack got lost), an unreported running one fails, an unreported queued one
\* is about to be flushed.
Reconcile(j) ==
  CASE j \in hello /\ state[j] \in {"queued", "dispatched"} -> {"running"}
    [] j \notin hello /\ state[j] \in {"running", "awaiting_approval"} -> {"failed"}
    [] j \notin hello /\ state[j] = "queued" -> {"dispatched"}
    [] OTHER -> {}

\* core.OnHello reads the active jobs once; a job the harness has that is not
\* among them will be aborted.
OnHello ==
  /\ serve = "hello"
  /\ todo' = UNION {{[job |-> j, to |-> s] : s \in Reconcile(j)} : j \in Job}
  /\ hello' = {j \in hello : state[j] \notin ActiveStates}
  /\ serve' = "reconcile"
  /\ UNCHANGED <<db, conn, flush, task, wire, harness, session, delivered, bounds>>

\* Fault: the snapshot is written back without looking at the row again.
WritableAlways(to) == JobState

\* The states the write of OnHello expects, which may be gone by then.
Writable(to) ==
  CASE to = "running" -> {"queued", "dispatched"}
    [] to = "failed" -> ActiveStates
    [] to = "dispatched" -> {"queued"}

\* It then writes row by row, while other handlers go on.
ReconcileRow ==
  /\ serve = "reconcile"
  /\ \E w \in todo :
       /\ state' = TransitionJob(w.job, Writable(w.to), w.to)
       /\ todo' = todo \ {w}
  /\ UNCHANGED <<outbox, nextID, conn, serve, hello, flush, task, wire,
                 harness, session, delivered, bounds>>

\* The welcome tells the harness which of its jobs to abort.
SendWelcome ==
  /\ serve = "reconcile" /\ todo = {}
  /\ Push([type |-> "welcome", aborts |-> hello])
  /\ serve' = "welcomed" /\ hello' = {}
  /\ UNCHANGED <<db, conn, todo, flush, task, dialed, toBroker,
                 harness, session, delivered, bounds>>

\* The read loop starts when nothing of the snapshot is left.
AfterFlush(rest) == IF rest = {} THEN "loop" ELSE "flush"

\* Fault: the read loop starts without the flush.
FlushOutboxSkips ==
  /\ serve = "welcomed"
  /\ flush' = {} /\ serve' = "loop"
  /\ UNCHANGED <<db, conn, hello, todo, task, wire, harness, session, delivered, bounds>>

\* flushOutbox: PendingOutbox is read once ...
FlushOutbox ==
  /\ serve = "welcomed"
  /\ flush' = outbox
  /\ serve' = AfterFlush(outbox)
  /\ UNCHANGED <<db, conn, hello, todo, task, wire, harness, session, delivered, bounds>>

\* ... and sent in order, whatever is sent or acked meanwhile.
FlushNext ==
  /\ serve = "flush"
  /\ \E m \in First(flush) :
       /\ Push(m)
       /\ flush' = flush \ {m} /\ serve' = AfterFlush(flush \ {m})
  /\ UNCHANGED <<db, conn, hello, todo, task, dialed, toBroker,
                 harness, session, delivered, bounds>>

\* Fault: a nack is only logged.
OnAckIgnoresNack(j, ok) ==
  IF ok THEN TransitionJob(j, {"dispatched"}, "running") ELSE state

\* core.OnAck: the first good ack for a job means it runs; a nack of
\* anything fails a job that is not running yet.
OnAck(j, ok) == TransitionJob(j, {"dispatched"}, IF ok THEN "running" ELSE "failed")

\* hub.handle reads an ack.
ReadsAck == serve = "loop" /\ toBroker # <<>> /\ Head(toBroker).type = "ack"

AckOutbox(a) == outbox' = {m \in outbox : m.id # a.ref}

\* hub.handle of an ack: AckOutbox, then core.OnAck.  Nobody else looks at both
\* the outbox and the row; a crash may come between them (BrokerCrash).
RecvAck ==
  /\ ReadsAck
  /\ LET a == Head(toBroker) IN
       /\ AckOutbox(a)
       /\ state' = OnAck(a.job, a.ok)
  /\ toBroker' = Tail(toBroker)
  /\ UNCHANGED <<nextID, hub, task, dialed, toHarness, harness, session,
                 delivered, bounds>>

\* Fault: a result overwrites whatever state the job has.
OnResultAlways(j, status) == TransitionJob(j, JobState, status)

\* core.OnResult: a result ends an active or a lost job; for any other
\* terminal job it is taken for a resend.
OnResult(j, status) == TransitionJob(j, ActiveStates \cup {"lost"}, status)

\* hub.handle of a result: core.OnResult, then the ack (good or bad, the
\* harness drops its copy on either).
RecvResult ==
  /\ serve = "loop" /\ toBroker # <<>> /\ Head(toBroker).type = "result"
  /\ LET r == Head(toBroker) IN
       /\ state' = OnResult(r.job, r.status)
       /\ delivered' = delivered \cup {r}
       /\ Push([type |-> "ack", ref |-> r.id])
  /\ toBroker' = Tail(toBroker)
  /\ UNCHANGED <<outbox, nextID, hub, task, dialed, harness, session, bounds>>

\* serve returns: its connection is deregistered (OnDisconnect only edits
\* posts).
Deregister ==
  /\ conn' = "none" /\ serve' = "none"
  /\ hello' = {} /\ todo' = {} /\ flush' = {}
  /\ toBroker' = <<>>

\* A read or write fails, or 45 s pass without a ping, on a live connection.
HubDrop ==
  /\ conn = "live"
  /\ Count
  /\ Deregister
  /\ UNCHANGED <<db, task, dialed, toHarness, harness, session, delivered, timedOut>>

\* On a half-open connection the same is bound to happen.
HubNotice ==
  /\ conn = "stale"
  /\ Deregister
  /\ UNCHANGED <<db, task, dialed, toHarness, harness, session, delivered, bounds>>

\* The broker process dies and restarts: the database is what is left, perhaps
\* with an ack that has cleared the outbox and not yet reached the row.
BrokerCrash ==
  /\ Count
  /\ UNCHANGED outbox \/ (ReadsAck /\ AckOutbox(Head(toBroker)))
  /\ Deregister
  /\ task' = [t \in Tasks |-> Idle]
  /\ client' = IF client = "dialed" THEN "hello" ELSE client
  /\ dialed' = {}
  /\ UNCHANGED <<state, nextID, toHarness, harness, hflush, delivered, timedOut>>

-----------------------------------------------------------------------------
(* client.session: one connection of the harness *)

\* Dial, and hello with the jobs that are still in h.jobs.
Dial ==
  /\ client = "down"
  /\ client' = "dialed"
  /\ dialed' = {j \in Job : run[j] # "none"}
  /\ UNCHANGED <<db, hub, task, toHarness, toBroker, harness, hflush, delivered, bounds>>

\* The session ends; a hub that had it registered now holds a dead socket,
\* but still reads what was sent before.
EndSession ==
  /\ client' = "down" /\ hflush' = {}
  /\ dialed' = {} /\ toHarness' = <<>>
  /\ conn' = IF conn = "live" THEN "stale" ELSE conn

\* A read, a write or the dial fails while the hub is there.
ClientDrop ==
  /\ client = "dialed" \/ conn = "live"
  /\ Count
  /\ EndSession
  /\ UNCHANGED <<db, serve, hello, todo, flush, task, toBroker, harness, delivered, timedOut>>

\* The hub has given the connection up: a read error or the pong timeout
\* ends the session.
ClientNotice ==
  /\ client \in {"hello", "flush", "up"} /\ conn # "live"
  /\ EndSession
  /\ UNCHANGED <<db, serve, hello, todo, flush, task, toBroker, harness, delivered, bounds>>

\* Anything before the welcome ends the session: "expected welcome".
UnexpectedFirst ==
  /\ client = "hello" /\ toHarness # <<>> /\ Head(toHarness).type # "welcome"
  /\ EndSession
  /\ UNCHANGED <<db, serve, hello, todo, flush, task, toBroker, harness, delivered, bounds>>

\* The read and heartbeat loops start once everything has been resent.
AfterResend(rest) == IF rest = {} THEN "up" ELSE "flush"

\* The welcome: the session counts as connected, harness.OnWelcome cancels
\* the aborted jobs, and the outbox is snapshotted for resending.
OnWelcome ==
  /\ client = "hello" /\ toHarness # <<>> /\ Head(toHarness).type = "welcome"
  /\ run' = [j \in Job |-> IF j \in Head(toHarness).aborts /\ run[j] = "running"
                           THEN "cancelling" ELSE run[j]]
  /\ hflush' = houtbox /\ client' = AfterResend(houtbox)
  /\ toHarness' = Tail(toHarness)
  /\ UNCHANGED <<db, hub, task, dialed, toBroker, houtbox, nextRes, sending,
                 delivered, bounds>>

Resend ==
  /\ client = "flush"
  /\ \E r \in First(hflush) :
       /\ Upload(r)
       /\ hflush' = hflush \ {r} /\ client' = AfterResend(hflush \ {r})
  /\ UNCHANGED <<db, hub, task, dialed, toHarness, harness, delivered, bounds>>

-----------------------------------------------------------------------------
(* The harness's handlers, called by client.handle, which acks or nacks *)

\* harness.OnDispatch accepts: not in h.jobs, known workspace and agent,
\* below max_jobs.
Accepts(j) == run[j] = "none" /\ Cardinality({k \in Job : run[k] # "none"}) < MaxJobs

\* What the harness knows depends on its configuration and the thread's session.
Refuses(j) ==
  /\ run[j] = "none"
  /\ j \in Refused \/ Cardinality({k \in Job : run[k] # "none"}) >= MaxJobs

Arrives(type) ==
  client = "up" /\ toHarness # <<>> /\ Head(toHarness).type = type

\* client.handle replies with the verdict of the handler.
Reply(m, ok) ==
  /\ Upload([type |-> "ack", ref |-> m.id, job |-> m.job, ok |-> ok])
  /\ toHarness' = Tail(toHarness)

\* A job already in h.jobs is a resend and is acked without a second start.
OnDispatch ==
  /\ Arrives("dispatch")
  /\ LET m == Head(toHarness) IN
       \/ Accepts(m.job) /\ run' = [run EXCEPT ![m.job] = "running"] /\ Reply(m, TRUE)
       \/ run[m.job] # "none" /\ run' = run /\ Reply(m, TRUE)
       \/ Refuses(m.job) /\ run' = run /\ Reply(m, FALSE)
  /\ UNCHANGED <<db, hub, task, dialed, houtbox, nextRes, sending, session,
                 delivered, bounds>>

OnCancel ==
  /\ Arrives("cancel")
  /\ LET m == Head(toHarness) IN
       /\ run' = [run EXCEPT ![m.job] = IF @ = "running" THEN "cancelling" ELSE @]
       /\ Reply(m, run[m.job] # "none")
  /\ UNCHANGED <<db, hub, task, dialed, houtbox, nextRes, sending, session,
                 delivered, bounds>>

\* client.handle of an ack: the outbox drops the envelope.
OnResultAck ==
  /\ Arrives("ack")
  /\ houtbox' = {r \in houtbox : r.id # Head(toHarness).ref}
  /\ toHarness' = Tail(toHarness)
  /\ UNCHANGED <<db, hub, task, dialed, toBroker, nextRes, run, sending, session,
                 delivered, bounds>>

\* The agent's verdict: a cancelled context reads "cancelled", unless the
\* agent could not be started at all; a run may also end on its own timeout.
AgentStatus(j) ==
  IF run[j] = "cancelling" THEN {"cancelled"} \cup (Verdicts \cap {"failed"})
                           ELSE Verdicts

\* Fault: the result is stored only when it cannot be sent at once.
FinishStoresOffline(j) ==
  /\ run[j] \in {"running", "cancelling"}
  /\ \E s \in AgentStatus(j) :
       LET r == [type |-> "result", id |-> nextRes, job |-> j, status |-> s]
       IN  /\ houtbox' = IF client = "up" THEN houtbox ELSE houtbox \cup {r}
           /\ sending' = sending \cup {r}
  /\ nextRes' = nextRes + 1
  /\ run' = [run EXCEPT ![j] = "sending"]
  /\ UNCHANGED <<db, hub, task, wire, session, delivered, bounds>>

\* harness.finish, first half of client.SendReliable: Outbox.Add.
Finish(j) ==
  /\ run[j] \in {"running", "cancelling"}
  /\ \E s \in AgentStatus(j) :
       LET r == [type |-> "result", id |-> nextRes, job |-> j, status |-> s]
       IN  houtbox' = houtbox \cup {r} /\ sending' = sending \cup {r}
  /\ nextRes' = nextRes + 1
  /\ run' = [run EXCEPT ![j] = "sending"]
  /\ UNCHANGED <<db, hub, task, wire, session, delivered, bounds>>

\* Second half: client.Send, whether or not a reconnect has resent it; run
\* then returns and deletes the job from h.jobs.
SendResult(j) ==
  /\ run[j] = "sending"
  /\ \E r \in sending : r.job = j /\ Upload(r) /\ sending' = sending \ {r}
  /\ run' = [run EXCEPT ![j] = "none"]
  /\ UNCHANGED <<db, hub, task, dialed, toHarness, houtbox, nextRes, session,
                 delivered, bounds>>

\* The harness process dies and restarts: the outbox file is what is left.
HarnessCrash ==
  /\ Count
  /\ run' = [j \in Job |-> "none"] /\ sending' = {}
  /\ EndSession
  /\ UNCHANGED <<db, serve, hello, todo, flush, task, toBroker, houtbox, nextRes,
                 delivered, timedOut>>

-----------------------------------------------------------------------------
(* The system *)

\* What the broker does on its own, goroutine by goroutine.
Calls(t) ==
  Enqueue(t) \/ Send(t) \/ SendFails(t)

PostHandler ==
  CreateJob \/ CancelQueued \/ Calls("post")

Serve ==
  \/ Register \/ OnHello \/ ReconcileRow \/ SendWelcome
  \/ FlushOutbox \/ FlushNext
  \/ RecvAck \/ RecvResult

Sweep(j) == SweepExpire(j) \/ SweepTimeout(j) \/ SweepOffline(j)

Sweeper == SweepLose \/ Calls("sweep")

\* What the harness does on its own.
Session ==
  \/ Dial \/ UnexpectedFirst \/ OnWelcome \/ Resend
  \/ OnDispatch \/ OnCancel \/ OnResultAck

Runner(j) == Finish(j) \/ SendResult(j)

\* What the owner and the world do to it.
Environment ==
  \/ \E j \in Job : StartJob(j) \/ RequestCancel(j)
  \/ AbandonJob
  \/ HubDrop \/ ClientDrop \/ BrokerCrash \/ HarnessCrash

Next ==
  \/ Environment
  \/ PostHandler \/ Serve \/ HubNotice \/ Sweeper
  \/ Session \/ ClientNotice
  \/ \E j \in Job : Sweep(j) \/ Runner(j)

Spec == Init /\ [][Next]_vars

\* Every goroutine that can go on does; an agent's run ends (its context has
\* a deadline and the process is killed after it); the sweeper keeps coming
\* round; both read timeouts fire on a dead connection.  Nothing is assumed
\* of the owner, of failures, or of the reconnecting harness being faster
\* or slower than the sweeper.
Fairness ==
  /\ WF_vars(PostHandler) /\ WF_vars(Sweeper)
  /\ WF_vars(Serve) /\ WF_vars(HubNotice)
  /\ WF_vars(Session) /\ WF_vars(ClientNotice)
  /\ \A j \in Job : WF_vars(Runner(j)) /\ WF_vars(Sweep(j))

FairSpec == Spec /\ Fairness

-----------------------------------------------------------------------------
(* Properties *)

\* The promise of client.Outbox: a result that finish has stored is in the
\* file until the broker has answered it, through lost connections, lost
\* acks and restarts of either program.
ResultNotLost ==
  \A i \in 1 .. nextRes - 1 : \E r \in houtbox \cup delivered : r.id = i

\* The promise of hello/welcome (core.OnHello): once a session is up on the
\* registered connection, a job the broker believes running is one that the
\* harness has in h.jobs, or has a stored result for.
RunningHasOwner ==
  \A j \in Job :
    state[j] = "running" /\ conn = "live" /\ client \in {"flush", "up"} =>
      run[j] # "none" \/ \E r \in houtbox : r.job = j

\* createJob refuses a second job in a thread with an active one: the check
\* and the insert are far apart, and a job that looked finished may come
\* back to life in between only as a finished one.
OneActivePerThread ==
  \A j, k \in Job :
    j # k /\ ThreadOf[j] = ThreadOf[k] =>
      state[j] \notin ActiveStates \/ state[k] \notin ActiveStates

\* core.OnResult, OnAck, OnHello, cancelJob and Sweep together keep to the
\* edges of the lifecycle, however they interleave.
ImplementsLifecycle == Lifecycle!Spec

\* A job is never left hanging: whatever fails, and whether or not its
\* dispatch, ack or result gets through, a created job ends (core.Sweep,
\* OnHello and the outboxes together).
EveryJobEnds == \A j \in Job : state[j] # "none" ~> state[j] \in Terminal

\* README.md: reliable envelopes are "kept in an outbox until an ack (or
\* nack) with matching ref arrives, and resent after a reconnect": both
\* outboxes of a job drain.
OutboxesDrain ==
  \A j \in Job :
    /\ (\E m \in outbox : m.job = j) ~> (\A m \in outbox : m.job # j)
    /\ (\E r \in houtbox : r.job = j) ~> (\A r \in houtbox : r.job # j)

\* What a comment says of the program, and the code does not keep.

\* client/outbox.go: "It is a JSON file so a finished job's result survives
\* a harness restart." - so a reconnect does not fail a job whose result is
\* waiting in that file.
ResultSurvivesReconnect ==
  [][ReconcileRow => \A r \in houtbox :
       state[r.job] \in ActiveStates => state'[r.job] \in ActiveStates]_vars
=============================================================================
