----------------------------- MODULE Approvals -----------------------------
(***************************************************************************)
(* The approval protocol of one job: an agent's tool call becomes a        *)
(* request to the broker, a post with two buttons, a click, a recorded     *)
(* decision, a response, and the verdict the agent's CLI gets.             *)
(*                                                                         *)
(*   harness   internal/harness (decide, OnApprovalResponse, finish) and   *)
(*             internal/harness/permission (Ask, Server.handle);           *)
(*   broker    internal/broker/core (OnApprovalRequest, HandleCallback,    *)
(*             OnResult) over the approvals table of internal/store.       *)
(*                                                                         *)
(* The connection is that of module Bridge, with what approvals need of    *)
(* it: an envelope waits in an outbox until acked, is sent again by every  *)
(* reconnect, and may overtake others, because each is sent by a goroutine *)
(* of its own.  The signature and the owner check of a click only turn     *)
(* clicks away; the clicks modelled are the ones that pass.                *)
(***************************************************************************)
EXTENDS Integers, FiniteSets

CONSTANTS
  Approval,     \* the tool calls the agent may ask about
  Choice,       \* the buttons the owner may click
  Verdicts,     \* how the agent's run may end
  MaxFaults     \* bound: broken connections, crashes and failed calls

ASSUME ApprovalsAssumption ==
  /\ IsFiniteSet(Approval)
  /\ Choice \subseteq {"allow", "deny"}
  /\ Verdicts \subseteq {"succeeded", "failed", "cancelled"}
  /\ MaxFaults \in Nat

VARIABLES
  \* broker, durable; the button posts are Mattermost's
  state,        \* jobs.state of the job
  decision,     \* approvals.decision, "pending" for NULL, "none": no row
  expired,      \* approvals whose expires_at has passed
  outbox,       \* responses not acked yet
  posted,       \* approvals with a button post
  \* broker, in memory
  request,      \* where each OnApprovalRequest stands
  serving,      \* the request the read loop of the connection is busy with
  click,        \* where each HandleCallback stands
  \* wire
  up,           \* is there a connection?
  toBroker,     \* envelopes on their way on this connection
  toHarness,
  \* harness
  houtbox,      \* requests and the result not acked yet (durable)
  job,          \* "running", "sending" its result, or "gone" from h.jobs
  outcome,      \* the status of the result that finish has made
  approvals,    \* keys of job.approvals
  buffer,       \* the value in each approval's channel
  closed,       \* closed channels
  decide,       \* where each call of decide stands
  answer,       \* OnApprovalResponse between its lookup and its send
  panicked,     \* a send on a closed channel has ended the process
  verdict,      \* what the CLI was told
  \* bound
  faults

broker  == <<state, decision, expired, outbox, posted>>
calls   == <<request, serving, click>>
wire    == <<up, toBroker, toHarness>>
harness == <<houtbox, job, outcome, approvals, buffer, closed, decide, answer, panicked, verdict>>
vars    == <<broker, calls, wire, harness, faults>>

-----------------------------------------------------------------------------

Lifecycle == INSTANCE JobLifecycle WITH Job <- {"job"},
                                        state <- [j \in {"job"} |-> state]

ActiveStates == Lifecycle!ActiveStates

Terminal == Lifecycle!Terminal

Idle == "idle"

Request(a) == [type |-> "request", appr |-> a]

Result(s) == [type |-> "result", status |-> s]

Response(a, d) == [type |-> "response", appr |-> a, choice |-> d]

Ack(x) == [type |-> "ack", of |-> x]

\* What an ack can be of: a request or a response, or the result.
Acked == Approval \cup {"result"}

Responses == {Response(a, d) : a \in Approval, d \in Choice}

TypeOK ==
  /\ state \in ActiveStates \cup Terminal
  /\ decision \in [Approval -> Choice \cup {"none", "pending"}]
  /\ expired \subseteq Approval /\ posted \subseteq Approval
  /\ outbox \subseteq Responses
  /\ request \in [Approval -> {Idle, "create", "transition", "post"}]
  /\ serving \subseteq Approval
  /\ click \in [Approval \X Choice -> {Idle, "decide", "enqueue", "send", "check", "resume"}]
  /\ up \in BOOLEAN
  /\ houtbox \subseteq {Request(a) : a \in Approval} \cup {Result(s) : s \in Verdicts}
  /\ toBroker \subseteq {Request(a) : a \in Approval} \cup {Result(s) : s \in Verdicts}
                          \cup {Ack(x) : x \in Acked}
  /\ toHarness \subseteq Responses \cup {Ack(x) : x \in Acked}
  /\ job \in {"running", "sending", "gone"}
  /\ outcome \in Verdicts \cup {"none"}
  /\ approvals \subseteq Approval /\ closed \subseteq Approval
  /\ buffer \in [Approval -> Choice \cup {"empty"}]
  /\ decide \in [Approval -> {"none", "send", "wait", "return", "returned"}]
  /\ answer \subseteq Responses
  /\ panicked \in BOOLEAN
  /\ verdict \in [Approval -> {"none", "allow", "deny"}]
  /\ faults \in Nat

\* The harness runs the job and the broker has its ack, so that no dispatch
\* is sent again (what happens before that is module Bridge).
Init ==
  /\ state = "running"
  /\ decision = [a \in Approval |-> "none"]
  /\ expired = {} /\ outbox = {} /\ posted = {}
  /\ request = [a \in Approval |-> Idle] /\ serving = {}
  /\ click = [c \in Approval \X Choice |-> Idle]
  /\ up = TRUE /\ toBroker = {} /\ toHarness = {}
  /\ houtbox = {} /\ job = "running" /\ outcome = "none"
  /\ approvals = {} /\ closed = {}
  /\ buffer = [a \in Approval |-> "empty"]
  /\ decide = [a \in Approval |-> "none"]
  /\ answer = {} /\ panicked = FALSE
  /\ verdict = [a \in Approval |-> "none"]
  /\ faults = 0

-----------------------------------------------------------------------------
(* Building blocks *)

\* store.TransitionJob: compare-and-set of the job's state.
TransitionJob(from, to) == IF state \in from THEN to ELSE state

\* hub.Send and client.Send: nothing is sent while disconnected.
SendDown(m) == toHarness' = IF up THEN toHarness \cup {m} ELSE toHarness

SendUp(m) == toBroker' = IF up THEN toBroker \cup {m} ELSE toBroker

Fault == faults < MaxFaults /\ faults' = faults + 1

-----------------------------------------------------------------------------
(* harness.decide, one goroutine per tool call *)

\* The CLI's permission tool asks: decide finds the job, registers a channel
\* and stores the request.
Ask(a) ==
  /\ decide[a] = "none" /\ job # "gone"
  /\ approvals' = approvals \cup {a}
  /\ houtbox' = houtbox \cup {Request(a)}
  /\ decide' = [decide EXCEPT ![a] = "send"]
  /\ UNCHANGED <<broker, calls, wire, job, outcome, buffer, closed, answer,
                 panicked, verdict, faults>>

\* The second half of SendReliable.
SendRequest(a) ==
  /\ decide[a] = "send"
  /\ SendUp(Request(a))
  /\ decide' = [decide EXCEPT ![a] = "wait"]
  /\ UNCHANGED <<broker, calls, up, toHarness, houtbox, job, outcome, approvals, buffer,
                 closed, answer, panicked, verdict, faults>>

\* The outbox file cannot be written or the send fails: deny, with the
\* request stored or not.
SendRequestFails(a) ==
  /\ decide[a] = "send" /\ Fault
  /\ houtbox' \in {houtbox, houtbox \ {Request(a)}}
  /\ verdict' = [verdict EXCEPT ![a] = "deny"]
  /\ decide' = [decide EXCEPT ![a] = "return"]
  /\ UNCHANGED <<broker, calls, wire, job, outcome, approvals, buffer, closed, answer,
                 panicked>>

\* Fault: the zero value that a closed channel yields is passed on.
ReceivedRaw(a) == buffer[a]

\* What the select of decide makes of its channel: a buffered answer comes
\* out first, a closed and empty channel is a deny.
Received(a) == IF buffer[a] = "allow" THEN "allow" ELSE "deny"

Receive(a) ==
  /\ decide[a] = "wait"
  /\ buffer[a] # "empty" \/ a \in closed
  /\ verdict' = [verdict EXCEPT ![a] = Received(a)]
  /\ buffer' = [buffer EXCEPT ![a] = "empty"]
  /\ decide' = [decide EXCEPT ![a] = "return"]
  /\ UNCHANGED <<broker, calls, wire, houtbox, job, outcome, approvals, closed, answer,
                 panicked, faults>>

\* Fault: decide waits for a click or the end of the job only.
TimeOutNever(a) == FALSE /\ UNCHANGED vars

\* The harness's own timer; its clock is not the broker's.
TimeOut(a) ==
  /\ decide[a] = "wait"
  /\ verdict' = [verdict EXCEPT ![a] = "deny"]
  /\ decide' = [decide EXCEPT ![a] = "return"]
  /\ UNCHANGED <<broker, calls, wire, houtbox, job, outcome, approvals, buffer, closed,
                 answer, panicked, faults>>

\* The deferred delete from job.approvals.
Return(a) ==
  /\ decide[a] = "return"
  /\ approvals' = approvals \ {a}
  /\ decide' = [decide EXCEPT ![a] = "returned"]
  /\ UNCHANGED <<broker, calls, wire, houtbox, job, outcome, buffer, closed, answer,
                 panicked, verdict, faults>>

-----------------------------------------------------------------------------
(* The job's goroutine and the read loop of the harness *)

\* The agent's process is gone (done, cancelled or timed out): finish closes
\* every channel and stores the result ...
Finish ==
  /\ job = "running"
  /\ closed' = closed \cup approvals /\ approvals' = {}
  /\ \E s \in Verdicts : outcome' = s /\ houtbox' = houtbox \cup {Result(s)}
  /\ job' = "sending"
  /\ UNCHANGED <<broker, calls, wire, buffer, decide, answer, panicked, verdict, faults>>

\* ... sends it, and the job leaves h.jobs.
SendResult ==
  /\ job = "sending"
  /\ SendUp(Result(outcome))
  /\ job' = "gone"
  /\ UNCHANGED <<broker, calls, up, toHarness, houtbox, outcome, approvals, buffer,
                 closed, decide, answer, panicked, verdict, faults>>

\* OnApprovalResponse looks the channel up under h.mu ...
Lookup(m) ==
  /\ m \in toHarness /\ m.type = "response" /\ answer = {}
  /\ toHarness' = toHarness \ {m}
  /\ IF job # "gone" /\ m.appr \in approvals
     THEN answer' = {m} /\ UNCHANGED toBroker
     ELSE SendUp(Ack(m.appr)) /\ UNCHANGED answer
  /\ UNCHANGED <<broker, calls, up, houtbox, job, outcome, approvals, buffer, closed,
                 decide, panicked, verdict, faults>>

\* ... and sends after unlocking: into the empty buffer, or not at all when
\* it is full ("already answered").
Deliver(m) ==
  /\ m \in answer /\ m.appr \notin closed
  /\ buffer' = [buffer EXCEPT ![m.appr] = IF @ = "empty" THEN m.choice ELSE @]
  /\ answer' = {}
  /\ SendUp(Ack(m.appr))
  /\ UNCHANGED <<broker, calls, up, toHarness, houtbox, job, outcome, approvals, closed,
                 decide, panicked, verdict, faults>>

\* client.handle of an ack (or nack) of a request or of the result.
OnAckUp(m) ==
  /\ m \in toHarness /\ m.type = "ack" /\ answer = {}
  /\ toHarness' = toHarness \ {m}
  /\ houtbox' = {e \in houtbox :
       m.of # (IF e.type = "result" THEN "result" ELSE e.appr)}
  /\ UNCHANGED <<broker, calls, up, toBroker, job, outcome, approvals, buffer, closed,
                 decide, answer, panicked, verdict, faults>>

-----------------------------------------------------------------------------
(* core.OnApprovalRequest, called by the read loop of a connection *)

\* The read loop answers and goes on, unless its connection is gone.
Served(a) ==
  IF a \in serving
  THEN serving' = {} /\ SendDown(Ack(a))
  ELSE UNCHANGED <<serving, toHarness>>

\* JobByID: a request of a finished job is nacked.  (A handler of an earlier
\* connection may still be busy with the same approval; before the row is
\* written the two count as one.)
OnApprovalRequest(a) ==
  /\ Request(a) \in toBroker /\ serving = {}
  /\ toBroker' = toBroker \ {Request(a)}
  /\ IF state \in Terminal \/ request[a] \in {"transition", "post"}
     THEN SendDown(Ack(a)) /\ UNCHANGED <<request, serving>>
     ELSE /\ request' = [request EXCEPT ![a] = "create"]
          /\ serving' = {a} /\ UNCHANGED toHarness
  /\ UNCHANGED <<broker, click, up, harness, faults>>

\* store.CreateApproval; a conflict is "resend; the button post exists".
CreateApproval(a) ==
  /\ request[a] = "create"
  /\ IF decision[a] = "none"
     THEN /\ decision' = [decision EXCEPT ![a] = "pending"]
          /\ request' = [request EXCEPT ![a] = "transition"]
          /\ UNCHANGED <<serving, toHarness>>
     ELSE /\ request' = [request EXCEPT ![a] = Idle]
          /\ Served(a) /\ UNCHANGED decision
  /\ UNCHANGED <<state, expired, outbox, posted, click, up, toBroker, harness, faults>>

\* Fault: the job waits for approval whatever state it is in.
AwaitAlways == "awaiting_approval"

Await == TransitionJob({"dispatched", "running"}, "awaiting_approval")

AwaitApproval(a) ==
  /\ request[a] = "transition"
  /\ state' = Await
  /\ request' = [request EXCEPT ![a] = "post"]
  /\ UNCHANGED <<decision, expired, outbox, posted, serving, click, wire, harness, faults>>

\* CreatePost with the buttons; an error is only logged.
PostButtons(a) ==
  /\ request[a] = "post"
  /\ \/ posted' = posted \cup {a} /\ UNCHANGED faults
     \/ Fault /\ UNCHANGED posted
  /\ request' = [request EXCEPT ![a] = Idle]
  /\ Served(a)
  /\ UNCHANGED <<state, decision, expired, outbox, click, up, toBroker, harness>>

-----------------------------------------------------------------------------
(* core.HandleCallback, one goroutine per click *)

\* The owner clicks a button; the job is not finished when it is read.
Click(a, d) ==
  /\ click[<<a, d>>] = Idle /\ a \in posted /\ state \notin Terminal
  /\ decision[a] = "pending"   \* bound: clicks that are bound to conflict change nothing
  /\ click' = [click EXCEPT ![<<a, d>>] = "decide"]
  /\ UNCHANGED <<broker, request, serving, wire, harness, faults>>

\* Fault: the last click wins.
DecideApprovalAlways(a, d) ==
  /\ click[<<a, d>>] = "decide"
  /\ decision' = [decision EXCEPT ![a] = d]
  /\ click' = [click EXCEPT ![<<a, d>>] = "enqueue"]
  /\ UNCHANGED <<state, expired, outbox, posted, request, serving, wire, harness, faults>>

\* store.DecideApproval: once, and before it expires.
DecideApproval(a, d) ==
  /\ click[<<a, d>>] = "decide"
  /\ IF decision[a] = "pending" /\ a \notin expired
     THEN /\ decision' = [decision EXCEPT ![a] = d]
          /\ click' = [click EXCEPT ![<<a, d>>] = "enqueue"]
     ELSE click' = [click EXCEPT ![<<a, d>>] = Idle] /\ UNCHANGED decision
  /\ UNCHANGED <<state, expired, outbox, posted, request, serving, wire, harness, faults>>

\* hub.SendReliable, whose error is only logged.
EnqueueResponse(a, d) ==
  /\ click[<<a, d>>] = "enqueue"
  /\ \/ /\ outbox' = outbox \cup {Response(a, d)}
        /\ click' = [click EXCEPT ![<<a, d>>] = "send"] /\ UNCHANGED faults
     \/ Fault /\ click' = [click EXCEPT ![<<a, d>>] = "check"] /\ UNCHANGED outbox
  /\ UNCHANGED <<state, decision, expired, posted, request, serving, wire, harness>>

SendResponse(a, d) ==
  /\ click[<<a, d>>] = "send"
  /\ SendDown(Response(a, d))
  /\ click' = [click EXCEPT ![<<a, d>>] = "check"]
  /\ UNCHANGED <<broker, request, serving, up, toBroker, harness, faults>>

\* Fault: the click's own approval is taken for the only one.
CheckPendingOwn(a, d) ==
  /\ click[<<a, d>>] = "check"
  /\ click' = [click EXCEPT ![<<a, d>>] = IF \E b \in Approval : decision[b] = "pending"
                                      THEN "resume" ELSE Idle]
  /\ UNCHANGED <<broker, request, serving, wire, harness, faults>>

\* PendingApprovalsByJob: undecided ones, expired or not.
CheckPending(a, d) ==
  /\ click[<<a, d>>] = "check"
  /\ click' = [click EXCEPT ![<<a, d>>] = IF \E b \in Approval : decision[b] = "pending"
                                      THEN Idle ELSE "resume"]
  /\ UNCHANGED <<broker, request, serving, wire, harness, faults>>

ResumeJob(a, d) ==
  /\ click[<<a, d>>] = "resume"
  /\ state' = TransitionJob({"awaiting_approval"}, "running")
  /\ click' = [click EXCEPT ![<<a, d>>] = Idle]
  /\ UNCHANGED <<decision, expired, outbox, posted, request, serving, wire, harness, faults>>

\* expires_at passes on the broker's clock.
Expire(a) ==
  /\ decision[a] = "pending" /\ a \notin expired
  /\ expired' = expired \cup {a}
  /\ UNCHANGED <<state, decision, outbox, posted, calls, wire, harness, faults>>

-----------------------------------------------------------------------------
(* The rest of the broker's read loop, and the connection *)

\* hub.handle of an ack: AckOutbox; core.OnAck changes dispatched jobs only.
RecvAck(m) ==
  /\ m \in toBroker /\ m.type = "ack" /\ serving = {}
  /\ toBroker' = toBroker \ {m}
  /\ outbox' = {r \in outbox : r.appr # m.of}
  /\ UNCHANGED <<state, decision, expired, posted, calls, up, toHarness, harness, faults>>

\* Fault: a job waiting for approval is not ended by its result.
OnResultNotAwaiting(s) ==
  TransitionJob((ActiveStates \cup {"lost"}) \ {"awaiting_approval"}, s)

OnResult(s) == TransitionJob(ActiveStates \cup {"lost"}, s)

RecvResult(m) ==
  /\ m \in toBroker /\ m.type = "result" /\ serving = {}
  /\ toBroker' = toBroker \ {m}
  /\ state' = OnResult(m.status)
  /\ SendDown(Ack("result"))
  /\ UNCHANGED <<decision, expired, outbox, posted, calls, up, harness, faults>>

\* core.Sweep: the harness is offline beyond the grace period.
SweepLose ==
  /\ ~up /\ state \in ActiveStates
  /\ state' = TransitionJob(ActiveStates, "lost")
  /\ UNCHANGED <<decision, expired, outbox, posted, calls, wire, harness, faults>>

\* The connection ends for both sides; handlers of the broker go on.
CutWire == up' = FALSE /\ toBroker' = {} /\ toHarness' = {} /\ serving' = {}

Drop ==
  /\ up /\ Fault
  /\ CutWire
  /\ UNCHANGED <<broker, request, click, harness>>

\* hello, core.OnHello, welcome, and both outbox flushes.
Reconnect ==
  /\ ~up
  /\ up' = TRUE
  /\ state' = IF job = "gone"
              THEN TransitionJob({"running", "awaiting_approval"}, "failed") ELSE state
  /\ toBroker' = houtbox /\ toHarness' = outbox
  /\ UNCHANGED <<decision, expired, outbox, posted, calls, harness, faults>>

BrokerCrash ==
  /\ Fault
  /\ CutWire
  /\ request' = [a \in Approval |-> Idle]
  /\ click' = [c \in Approval \X Choice |-> Idle]
  /\ UNCHANGED <<broker, harness>>

\* The harness process is gone, and job, channels and goroutines with it;
\* the CLI's permission tool fails closed on the broken socket.
HarnessGone ==
  /\ CutWire
  /\ job' = "gone" /\ approvals' = {} /\ closed' = {} /\ answer' = {}
  /\ buffer' = [a \in Approval |-> "empty"]
  /\ verdict' = [a \in Approval |->
       IF decide[a] \in {"send", "wait"} THEN "deny" ELSE verdict[a]]
  /\ decide' = [a \in Approval |->
       IF decide[a] = "none" THEN "none" ELSE "returned"]

HarnessCrash ==
  /\ Fault
  /\ HarnessGone
  /\ UNCHANGED <<broker, request, click, houtbox, outcome, panicked>>

\* A send on a closed channel panics, also in a select with a default.
Panic(m) ==
  /\ m \in answer /\ m.appr \in closed
  /\ panicked' = TRUE
  /\ HarnessGone
  /\ UNCHANGED <<broker, request, click, houtbox, outcome, faults>>

-----------------------------------------------------------------------------
(* The system *)

Decider(a) ==
  \/ SendRequest(a) \/ Receive(a) \/ TimeOut(a) \/ Return(a)

ReadLoop ==
  \/ \E m \in toHarness : Lookup(m) \/ OnAckUp(m)
  \/ \E m \in answer : Deliver(m) \/ Panic(m)

Handler(a) == CreateApproval(a) \/ AwaitApproval(a) \/ PostButtons(a)

Callback(a, d) ==
  \/ DecideApproval(a, d) \/ EnqueueResponse(a, d) \/ SendResponse(a, d)
  \/ CheckPending(a, d) \/ ResumeJob(a, d)

Serve ==
  \/ \E a \in Approval : OnApprovalRequest(a)
  \/ \E m \in toBroker : RecvAck(m) \/ RecvResult(m)

Environment ==
  \/ \E a \in Approval : Ask(a) \/ Expire(a) \/ SendRequestFails(a)
  \/ \E a \in Approval, d \in Choice : Click(a, d)
  \/ Drop \/ BrokerCrash \/ HarnessCrash \/ SweepLose

Next ==
  \/ Environment \/ Finish \/ SendResult \/ ReadLoop \/ Serve \/ Reconnect
  \/ \E a \in Approval : Decider(a) \/ Handler(a)
  \/ \E a \in Approval, d \in Choice : Callback(a, d)

Spec == Init /\ [][Next]_vars

\* Goroutines go on, timers fire, an agent's run ends (its context has a
\* deadline), the client keeps dialing.  Nothing is assumed of the owner, of
\* failures or of the sweeper.
Fairness ==
  /\ WF_vars(Finish) /\ WF_vars(SendResult) /\ WF_vars(ReadLoop)
  /\ WF_vars(Serve) /\ WF_vars(Reconnect)
  /\ \A a \in Approval : WF_vars(Decider(a)) /\ WF_vars(Handler(a))
  /\ \A a \in Approval, d \in Choice : WF_vars(Callback(a, d))

FairSpec == Spec /\ Fairness

-----------------------------------------------------------------------------
(* Properties *)

\* The guard rail of the bridge (README: "the owner clicks, the decision
\* travels back"): the CLI hears "allow" only for a tool call whose row the
\* owner's click has set to allow, through resends, expiry, both buttons
\* clicked at once, crashes, and whatever decide was waiting for.
AllowIsRecorded == \A a \in Approval : verdict[a] = "allow" => decision[a] = "allow"

\* core.HandleCallback resumes the job after the last decision: unless the
\* broker has crashed or a call has failed, a job awaiting approval has an
\* undecided approval, or a click in progress that will resume it.
AwaitingHasReason ==
  state = "awaiting_approval" /\ faults = 0 =>
    \/ \E a \in Approval : decision[a] = "pending"
    \/ \E a \in Approval, d \in Choice :
         click[<<a, d>>] \in {"enqueue", "send", "check", "resume"}

\* The approval handlers keep to the job's lifecycle: no finished job comes
\* back through a late request, click or ack.
KeepsLifecycle == [][Lifecycle!Next]_state

\* decide "blocks until the owner clicked, the job ended, or the approval
\* timed out": whatever is lost on the way, the CLI gets a verdict.
EveryAskIsAnswered == \A a \in Approval : decide[a] = "send" ~> verdict[a] # "none"

\* core.Sweep never times out a job that awaits approval; it still does not
\* wait for ever, though nobody clicks and expired approvals stay pending.
AwaitingEnds == state = "awaiting_approval" ~> state # "awaiting_approval"

\* What a comment says of the code, and the code does not keep.

\* harness.OnApprovalResponse: "already answered" is the only reason not to
\* get an answer into the channel; the send itself is safe.
SendIsSafe == ~panicked
=============================================================================
