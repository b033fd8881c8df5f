-------------------------- MODULE ApprovalsProofs --------------------------
(***************************************************************************)
(* For every set of tool calls and any number of faults: the CLI hears     *)
(* "allow" only for a call whose row says so.  The invariant follows an    *)
(* "allow" backwards from the verdict through the channel, the harness's   *)
(* read loop, the wire and the outbox to the callback that decided, and    *)
(* every place it can be in implies the row; the row keeps its decision.   *)
(* Further down: type correctness, that a job awaits approval for a        *)
(* reason, and that it keeps to its lifecycle.                             *)
(***************************************************************************)
EXTENDS Approvals, TLAPS

Decision == Choice \cup {"none", "pending"}

\* The functions the proof updates have their domains and ranges.
AllowTypes ==
  /\ decision \in [Approval -> Decision]
  /\ click \in [Approval \X Choice -> {Idle, "decide", "enqueue", "send", "check", "resume"}]
  /\ buffer \in [Approval -> Choice \cup {"empty"}]
  /\ verdict \in [Approval -> {"none", "allow", "deny"}]

\* A response that allows is one the row knows of.
Covered(m) ==
  m.type = "response" =>
    m.appr \in Approval /\ m.choice \in Choice /\ (m.choice = "allow" => decision[m.appr] = "allow")

\* Every place an "allow" passes through.
AllowInv ==
  /\ AllowTypes
  /\ \A m \in outbox : Covered(m)
  /\ \A m \in toHarness : Covered(m)
  /\ \A m \in answer : Covered(m) /\ m.type = "response"
  /\ \A a \in Approval : buffer[a] = "allow" => decision[a] = "allow"
  /\ \A a \in Approval : verdict[a] = "allow" => decision[a] = "allow"
  /\ \A a \in Approval, d \in Choice :
       click[<<a, d>>] \in {"enqueue", "send"} => decision[a] = d

\* What none of the steps below touch.
carried == <<decision, outbox, toHarness, answer, buffer, verdict, click>>

\* A step that leaves all the places alone keeps the invariant.
LEMMA CarriedUnchanged ==
  ASSUME AllowInv, UNCHANGED carried
  PROVE  AllowInv'
BY DEF AllowInv, AllowTypes, Covered, carried, Decision

\* An ack of the broker is not a response, and puts no allow on the wire.
LEMMA AckDown ==
  ASSUME AllowInv, NEW x, SendDown(Ack(x)),
         UNCHANGED <<decision, outbox, answer, buffer, verdict, click>>
  PROVE  AllowInv'
<1>1. Covered(Ack(x))
  BY DEF Covered, Ack
<1>2. \A m \in toHarness' : m \in toHarness \/ m = Ack(x)
  BY DEF SendDown
<1>. QED
  BY <1>1, <1>2 DEF AllowInv, AllowTypes, Covered, Decision

\* Served answers with an ack or does nothing.
LEMMA ServedKeeps ==
  ASSUME AllowInv, NEW a \in Approval, Served(a),
         UNCHANGED <<decision, outbox, answer, buffer, verdict, click>>
  PROVE  AllowInv'
BY AckDown, CarriedUnchanged DEF Served, carried

\* The decision of a row is not taken back by a click.
LEMMA DecideKeeps ==
  ASSUME AllowInv, NEW a \in Approval, NEW d \in Choice, DecideApproval(a, d)
  PROVE  AllowInv'
<1>1. UNCHANGED <<outbox, toHarness, answer, buffer, verdict>>
  BY DEF DecideApproval, wire, harness
<1>2. ASSUME NEW b \in Approval, decision[b] \notin {"pending"}
      PROVE  decision'[b] = decision[b]
  BY <1>2 DEF DecideApproval, AllowInv, AllowTypes
<1>3. AllowTypes'
  BY <1>1 DEF DecideApproval, AllowInv, AllowTypes, Decision, Idle
<1>4. ASSUME NEW b \in Approval, NEW e \in Choice, click'[<<b, e>>] \in {"enqueue", "send"}
      PROVE  decision'[b] = e
  <2>1. <<b, e>> \in Approval \X Choice /\ <<a, d>> \in Approval \X Choice
    OBVIOUS
  <2>2. CASE <<b, e>> = <<a, d>>
    BY <2>1, <2>2, <1>4 DEF DecideApproval, AllowInv, AllowTypes, Idle
  <2>3. CASE <<b, e>> # <<a, d>>
    <3>1. click'[<<b, e>>] = click[<<b, e>>]
      BY <2>1, <2>3 DEF DecideApproval, AllowInv, AllowTypes
    <3>2. decision[b] = e /\ e # "pending"
      BY <3>1, <1>4, ApprovalsAssumption DEF AllowInv
    <3>. QED
      BY <3>2, <1>2
  <2>. QED
    BY <2>2, <2>3
<1>5. ASSUME NEW b \in Approval, decision[b] = "allow"
      PROVE  decision'[b] = "allow"
  BY <1>5, <1>2
<1>. QED
  BY <1>1, <1>3, <1>4, <1>5 DEF AllowInv, Covered

\* A row that is made, undecided, takes no decision back.
LEMMA CreateKeeps ==
  ASSUME AllowInv, NEW a \in Approval, CreateApproval(a)
  PROVE  AllowInv'
<1>1. CASE decision[a] # "none"
  BY <1>1, ServedKeeps DEF CreateApproval, harness
<1>2. CASE decision[a] = "none"
  <2>1. UNCHANGED <<outbox, toHarness, answer, buffer, verdict, click>>
    BY <1>2 DEF CreateApproval, harness
  <2>2. \A b \in Approval : decision[b] # "none" => decision'[b] = decision[b]
    BY <1>2 DEF CreateApproval, AllowInv, AllowTypes
  <2>3. AllowTypes'
    BY <1>2, <2>1 DEF CreateApproval, AllowInv, AllowTypes, Decision
  <2>4. \A d \in Choice : d # "none"
    BY ApprovalsAssumption
  <2>. QED
    BY <2>1, <2>2, <2>3, <2>4 DEF AllowInv, Covered
<1>. QED
  BY <1>1, <1>2

\* The other steps of a click: the response it stores and sends is its own.
LEMMA CallbackKeeps ==
  ASSUME AllowInv, NEW a \in Approval, NEW d \in Choice, Callback(a, d) \/ Click(a, d)
  PROVE  AllowInv'
<1>. <<a, d>> \in Approval \X Choice
  OBVIOUS
<1>1. ASSUME NEW s \in {Idle, "decide", "check", "resume"},
             click' = [click EXCEPT ![<<a, d>>] = s],
             UNCHANGED <<decision, answer, buffer, verdict>>
      PROVE  /\ AllowTypes'
             /\ \A b \in Approval, e \in Choice :
                  click'[<<b, e>>] \in {"enqueue", "send"} => decision'[b] = e
  BY <1>1 DEF AllowInv, AllowTypes, Idle, Decision
<1>2. CASE Click(a, d)
  BY <1>2, <1>1 DEF Click, broker, wire, harness, AllowInv, Covered
<1>3. CASE DecideApproval(a, d)
  BY <1>3, DecideKeeps
<1>4. CASE EnqueueResponse(a, d)
  <2>1. UNCHANGED <<decision, toHarness, answer, buffer, verdict>>
    BY <1>4 DEF EnqueueResponse, wire, harness
  <2>2. decision[a] = d
    BY <1>4 DEF EnqueueResponse, AllowInv
  <2>3. Covered(Response(a, d))
    BY <2>2 DEF Covered, Response
  <2>4. \A m \in outbox' : m \in outbox \/ m = Response(a, d)
    BY <1>4 DEF EnqueueResponse
  <2>5. \A m \in outbox' : Covered(m)
    BY <2>3, <2>4 DEF AllowInv
  <2>6. /\ AllowTypes'
        /\ \A b \in Approval, e \in Choice :
             click'[<<b, e>>] \in {"enqueue", "send"} => decision'[b] = e
    <3>1. CASE click' = [click EXCEPT ![<<a, d>>] = "send"]
      BY <3>1, <2>1, <2>2 DEF AllowInv, AllowTypes, Decision
    <3>2. CASE click' = [click EXCEPT ![<<a, d>>] = "check"]
      BY <3>2, <2>1, <1>1
    <3>. QED
      BY <1>4, <3>1, <3>2 DEF EnqueueResponse
  <2>. QED
    BY <2>1, <2>5, <2>6 DEF AllowInv, Covered
<1>5. CASE SendResponse(a, d)
  <2>1. UNCHANGED <<decision, outbox, answer, buffer, verdict>>
    BY <1>5 DEF SendResponse, broker, harness
  <2>2. Covered(Response(a, d))
    BY <1>5 DEF SendResponse, AllowInv, Covered, Response
  <2>3. \A m \in toHarness' : m \in toHarness \/ m = Response(a, d)
    BY <1>5 DEF SendResponse, SendDown
  <2>4. \A m \in toHarness' : Covered(m)
    BY <2>2, <2>3 DEF AllowInv
  <2>5. click' = [click EXCEPT ![<<a, d>>] = "check"]
    BY <1>5 DEF SendResponse
  <2>. QED
    BY <2>1, <2>4, <2>5, <1>1 DEF AllowInv, Covered
<1>6. CASE CheckPending(a, d)
  BY <1>6, <1>1 DEF CheckPending, broker, wire, harness, AllowInv, Covered
<1>7. CASE ResumeJob(a, d)
  BY <1>7, <1>1 DEF ResumeJob, wire, harness, AllowInv, Covered
<1>. QED
  BY <1>2, <1>3, <1>4, <1>5, <1>6, <1>7 DEF Callback

\* decide, and the agent's end: a verdict comes from the channel or is a deny.
LEMMA DeciderKeeps ==
  ASSUME AllowInv, NEW a \in Approval, Decider(a) \/ SendRequestFails(a)
  PROVE  AllowInv'
<1>1. CASE SendRequest(a)
  BY <1>1, CarriedUnchanged DEF SendRequest, carried, broker, calls
<1>2. CASE Receive(a)
  BY <1>2 DEF Receive, Received, broker, calls, wire, AllowInv, AllowTypes, Covered, Decision
<1>3. CASE TimeOut(a)
  BY <1>3 DEF TimeOut, broker, calls, wire, AllowInv, AllowTypes, Covered, Decision
<1>4. CASE Return(a)
  BY <1>4, CarriedUnchanged DEF Return, carried, broker, calls, wire
<1>5. CASE SendRequestFails(a)
  BY <1>5 DEF SendRequestFails, broker, calls, wire, AllowInv, AllowTypes, Covered, Decision
<1>. QED
  BY <1>1, <1>2, <1>3, <1>4, <1>5 DEF Decider

\* A process that is gone denies what it was asked.
LEMMA HarnessGoneKeeps ==
  ASSUME AllowInv, HarnessGone, UNCHANGED <<broker, request, click>>
  PROVE  AllowInv'
BY DEF HarnessGone, CutWire, broker, AllowInv, AllowTypes, Covered, Decision

\* The harness's read loop passes on what it was sent.
LEMMA ReadLoopKeeps ==
  ASSUME AllowInv, ReadLoop
  PROVE  AllowInv'
<1>1. ASSUME NEW m \in toHarness, Lookup(m)
      PROVE  AllowInv'
  <2>1. UNCHANGED <<decision, click, outbox, buffer, verdict>>
    BY <1>1 DEF Lookup, broker, calls
  <2>2. toHarness' \subseteq toHarness
    BY <1>1 DEF Lookup
  <2>3. answer' \subseteq answer \cup {m} /\ m.type = "response"
    BY <1>1 DEF Lookup
  <2>4. Covered(m)
    BY DEF AllowInv
  <2>. QED
    BY <2>1, <2>2, <2>3, <2>4 DEF AllowInv, AllowTypes, Covered, Decision
<1>2. ASSUME NEW m \in toHarness, OnAckUp(m)
      PROVE  AllowInv'
  BY <1>2 DEF OnAckUp, broker, calls, AllowInv, AllowTypes, Covered, Decision
<1>3. ASSUME NEW m \in answer, Deliver(m)
      PROVE  AllowInv'
  <2>1. m.appr \in Approval /\ m.choice \in Choice
        /\ (m.choice = "allow" => decision[m.appr] = "allow")
    BY DEF AllowInv, Covered
  <2>. QED
    BY <1>3, <2>1 DEF Deliver, SendUp, broker, calls, AllowInv, AllowTypes, Covered, Decision
<1>4. ASSUME NEW m \in answer, Panic(m)
      PROVE  AllowInv'
  BY <1>4, HarnessGoneKeeps DEF Panic
<1>. QED
  BY <1>1, <1>2, <1>3, <1>4 DEF ReadLoop

\* The broker's read loop answers with acks.
LEMMA ServeKeeps ==
  ASSUME AllowInv, Serve
  PROVE  AllowInv'
<1>1. ASSUME NEW a \in Approval, OnApprovalRequest(a)
      PROVE  AllowInv'
  BY <1>1, AckDown, CarriedUnchanged DEF OnApprovalRequest, carried, broker, harness
<1>2. ASSUME NEW m \in toBroker, RecvAck(m)
      PROVE  AllowInv'
  BY <1>2 DEF RecvAck, calls, harness, AllowInv, AllowTypes, Covered, Decision
<1>3. ASSUME NEW m \in toBroker, RecvResult(m)
      PROVE  AllowInv'
  BY <1>3, AckDown DEF RecvResult, calls, harness
<1>. QED
  BY <1>1, <1>2, <1>3 DEF Serve

LEMMA AllowInit == Init => AllowInv
<1>. SUFFICES ASSUME Init
              PROVE  AllowInv
  OBVIOUS
<1>1. AllowTypes
  BY DEF Init, AllowTypes, Decision, Idle
<1>2. ASSUME NEW a \in Approval, NEW d \in Choice
      PROVE  click[<<a, d>>] = "idle"
  <2>1. <<a, d>> \in Approval \X Choice
    OBVIOUS
  <2>. QED
    BY <2>1 DEF Init, Idle
<1>. QED
  BY <1>1, <1>2 DEF Init, AllowInv

\* Every step keeps an allow backed by its row.
LEMMA AllowStep == AllowInv /\ [Next]_vars => AllowInv'
<1>. SUFFICES ASSUME AllowInv, [Next]_vars
              PROVE  AllowInv'
  OBVIOUS
<1>1. CASE UNCHANGED vars
  BY <1>1, CarriedUnchanged DEF vars, carried, broker, calls, wire, harness
<1>2. CASE Environment
  <2>1. ASSUME NEW a \in Approval, Ask(a) \/ Expire(a)
        PROVE  AllowInv'
    BY <2>1, CarriedUnchanged DEF Ask, Expire, carried, broker, calls, wire, harness
  <2>2. ASSUME NEW a \in Approval, SendRequestFails(a)
        PROVE  AllowInv'
    BY <2>2, DeciderKeeps
  <2>3. ASSUME NEW a \in Approval, NEW d \in Choice, Click(a, d)
        PROVE  AllowInv'
    BY <2>3, CallbackKeeps
  <2>4. CASE Drop
    BY <2>4 DEF Drop, CutWire, broker, harness, AllowInv, AllowTypes, Covered, Decision
  <2>5. CASE BrokerCrash
    BY <2>5 DEF BrokerCrash, CutWire, broker, harness, AllowInv, AllowTypes, Covered, Decision, Idle
  <2>6. CASE HarnessCrash
    BY <2>6, HarnessGoneKeeps DEF HarnessCrash
  <2>7. CASE SweepLose
    BY <2>7, CarriedUnchanged DEF SweepLose, carried, calls, wire, harness
  <2>. QED
    BY <1>2, <2>1, <2>2, <2>3, <2>4, <2>5, <2>6, <2>7 DEF Environment
<1>3. CASE Finish \/ SendResult
  BY <1>3, CarriedUnchanged DEF Finish, SendResult, carried, broker, calls, wire
<1>4. CASE ReadLoop
  BY <1>4, ReadLoopKeeps
<1>5. CASE Serve
  BY <1>5, ServeKeeps
<1>6. CASE Reconnect
  BY <1>6 DEF Reconnect, calls, harness, AllowInv, AllowTypes, Covered, Decision
<1>7. ASSUME NEW a \in Approval, Decider(a)
      PROVE  AllowInv'
  BY <1>7, DeciderKeeps
<1>8. ASSUME NEW a \in Approval, Handler(a)
      PROVE  AllowInv'
  <2>1. CASE CreateApproval(a)
    BY <2>1, CreateKeeps
  <2>2. CASE AwaitApproval(a)
    BY <2>2, CarriedUnchanged DEF AwaitApproval, carried, wire, harness
  <2>3. CASE PostButtons(a)
    BY <2>3, ServedKeeps DEF PostButtons, harness
  <2>. QED
    BY <1>8, <2>1, <2>2, <2>3 DEF Handler
<1>9. ASSUME NEW a \in Approval, NEW d \in Choice, Callback(a, d)
      PROVE  AllowInv'
  BY <1>9, CallbackKeeps
<1>. QED
  BY <1>1, <1>2, <1>3, <1>4, <1>5, <1>6, <1>7, <1>8, <1>9 DEF Next

\* The CLI hears "allow" only for a tool call whose row the owner's click set
\* to allow (harness.decide, core.HandleCallback, store.DecideApproval), for
\* any tool calls, buttons, faults and interleavings.
THEOREM AllowRecorded == Spec => []AllowIsRecorded
<1>1. AllowInv => AllowIsRecorded
  BY DEF AllowInv, AllowIsRecorded
<1>. QED
  BY <1>1, AllowInit, AllowStep, PTL DEF Spec
-----------------------------------------------------------------------------
(* Type correctness *)

Requests == {Request(a) : a \in Approval}

Reports == {Result(s) : s \in Verdicts}

Acks == {Ack(x) : x \in Acked}

\* The envelopes of each kind, told apart by their type.
LEMMA EnvelopeTypes ==
  /\ \A m \in Requests : m.type = "request" /\ m.appr \in Approval
  /\ \A m \in Reports : m.type = "result" /\ m.status \in Verdicts
  /\ \A m \in Acks : m.type = "ack" /\ m.of \in Acked
  /\ \A m \in Responses : m.type = "response" /\ m.appr \in Approval /\ m.choice \in Choice
<1>1. \A m \in Requests : m.type = "request" /\ m.appr \in Approval
  BY DEF Requests, Request
<1>2. \A m \in Reports : m.type = "result" /\ m.status \in Verdicts
  BY DEF Reports, Result
<1>3. \A m \in Acks : m.type = "ack" /\ m.of \in Acked
  BY DEF Acks, Ack
<1>4. \A m \in Responses : m.type = "response" /\ m.appr \in Approval /\ m.choice \in Choice
  BY DEF Responses, Response
<1>. QED
  BY <1>1, <1>2, <1>3, <1>4

\* TypeOK with the kinds of envelopes by name.
Types ==
  /\ state \in ActiveStates \cup Terminal
  /\ decision \in [Approval -> Choice \cup {"none", "pending"}]
  /\ expired \subseteq Approval /\ posted \subseteq Approval
  /\ outbox \subseteq Responses
  /\ request \in [Approval -> {Idle, "create", "transition", "post"}]
  /\ serving \subseteq Approval
  /\ click \in [Approval \X Choice -> {Idle, "decide", "enqueue", "send", "check", "resume"}]
  /\ up \in BOOLEAN
  /\ houtbox \subseteq Requests \cup Reports
  /\ toBroker \subseteq Requests \cup Reports \cup Acks
  /\ toHarness \subseteq Responses \cup Acks
  /\ job \in {"running", "sending", "gone"}
  /\ outcome \in Verdicts \cup {"none"}
  /\ approvals \subseteq Approval /\ closed \subseteq Approval
  /\ buffer \in [Approval -> Choice \cup {"empty"}]
  /\ decide \in [Approval -> {"none", "send", "wait", "return", "returned"}]
  /\ answer \subseteq Responses
  /\ panicked \in BOOLEAN
  /\ verdict \in [Approval -> {"none", "allow", "deny"}]
  /\ faults \in Nat

\* The result that SendResult sends is one that finish has made.
ReportMade == job = "sending" => outcome \in Verdicts

TypeInv == Types /\ ReportMade

LEMMA TypesFit == TypeOK <=> Types
BY DEF TypeOK, Types, Requests, Reports, Acks

\* What the parts send belongs on the wire.
LEMMA Sendable ==
  ASSUME NEW a \in Approval
  PROVE  /\ Request(a) \in Requests /\ Ack(a) \in Acks
         /\ \A d \in Choice : Response(a, d) \in Responses
BY DEF Requests, Acks, Acked, Responses

LEMMA ResultAck == Ack("result") \in Acks
BY DEF Acks, Acked

LEMMA SendDownType ==
  ASSUME TypeInv, NEW m \in Responses \cup Acks, SendDown(m)
  PROVE  toHarness' \subseteq Responses \cup Acks
BY DEF SendDown, TypeInv, Types

LEMMA SendUpType ==
  ASSUME TypeInv, NEW m \in Requests \cup Reports \cup Acks, SendUp(m)
  PROVE  toBroker' \subseteq Requests \cup Reports \cup Acks
BY DEF SendUp, TypeInv, Types

LEMMA ServedType ==
  ASSUME TypeInv, NEW a \in Approval, Served(a)
  PROVE  serving' \subseteq Approval /\ toHarness' \subseteq Responses \cup Acks
<1>1. CASE serving' = {} /\ SendDown(Ack(a))
  BY <1>1, Sendable, SendDownType
<1>2. CASE UNCHANGED <<serving, toHarness>>
  BY <1>2 DEF TypeInv, Types
<1>. QED
  BY <1>1, <1>2 DEF Served

LEMMA StatesFit ==
  /\ {"awaiting_approval", "running", "lost", "failed"} \subseteq ActiveStates \cup Terminal
  /\ Verdicts \subseteq Terminal
BY ApprovalsAssumption DEF ActiveStates, Terminal, Lifecycle!ActiveStates, Lifecycle!Terminal

\* The steps of decide and of the job's goroutine.
LEMMA DeciderTypes ==
  ASSUME TypeInv,
         \/ Finish \/ SendResult
         \/ \E a \in Approval : Ask(a) \/ Decider(a) \/ SendRequestFails(a)
  PROVE  TypeInv'
<1>. USE DEF broker, calls, wire, harness
<1>1. ASSUME NEW a \in Approval, Ask(a) PROVE TypeInv'
  BY <1>1, Sendable DEF Ask, TypeInv, Types, ReportMade
<1>2. ASSUME NEW a \in Approval, SendRequest(a) PROVE TypeInv'
  <2>1. toBroker' \subseteq Requests \cup Reports \cup Acks
    BY <1>2, Sendable, SendUpType DEF SendRequest
  <2>. QED
    BY <1>2, <2>1 DEF SendRequest, TypeInv, Types, ReportMade
<1>3. ASSUME NEW a \in Approval, SendRequestFails(a) PROVE TypeInv'
  BY <1>3 DEF SendRequestFails, Fault, TypeInv, Types, ReportMade
<1>4. ASSUME NEW a \in Approval, Receive(a) PROVE TypeInv'
  BY <1>4 DEF Receive, Received, TypeInv, Types, ReportMade
<1>5. ASSUME NEW a \in Approval, TimeOut(a) PROVE TypeInv'
  BY <1>5 DEF TimeOut, TypeInv, Types, ReportMade
<1>6. ASSUME NEW a \in Approval, Return(a) PROVE TypeInv'
  BY <1>6 DEF Return, TypeInv, Types, ReportMade
<1>7. CASE Finish
  <2>1. PICK s \in Verdicts : outcome' = s /\ houtbox' = houtbox \cup {Result(s)}
    BY <1>7 DEF Finish
  <2>2. Result(s) \in Reports
    BY DEF Reports
  <2>. QED
    BY <1>7, <2>1, <2>2 DEF Finish, TypeInv, Types, ReportMade
<1>8. CASE SendResult
  <2>1. Result(outcome) \in Reports
    BY <1>8 DEF SendResult, TypeInv, ReportMade, Reports
  <2>2. toBroker' \subseteq Requests \cup Reports \cup Acks
    BY <1>8, <2>1, SendUpType DEF SendResult
  <2>. QED
    BY <1>8, <2>2 DEF SendResult, TypeInv, Types, ReportMade
<1>. QED
  BY <1>1, <1>2, <1>3, <1>4, <1>5, <1>6, <1>7, <1>8 DEF Decider

LEMMA HarnessGoneTypes ==
  ASSUME TypeInv, HarnessGone, UNCHANGED <<broker, request, click, houtbox, outcome>>,
         panicked' \in BOOLEAN, faults' \in Nat
  PROVE  TypeInv'
BY DEF HarnessGone, CutWire, broker, TypeInv, Types, ReportMade

\* The harness's read loop.
LEMMA ReadLoopTypes ==
  ASSUME TypeInv, ReadLoop
  PROVE  TypeInv'
<1>. USE DEF broker, calls, wire, harness
<1>1. ASSUME NEW m \in toHarness, Lookup(m) PROVE TypeInv'
  <2>1. m \in Responses /\ m.appr \in Approval
    BY <1>1, EnvelopeTypes DEF Lookup, TypeInv, Types
  <2>2. toBroker' \subseteq Requests \cup Reports \cup Acks /\ answer' \subseteq Responses
    <3>1. CASE answer' = {m} /\ UNCHANGED toBroker
      BY <2>1, <3>1 DEF TypeInv, Types
    <3>2. CASE SendUp(Ack(m.appr)) /\ UNCHANGED answer
      BY <2>1, <3>2, Sendable, SendUpType DEF TypeInv, Types
    <3>. QED
      BY <1>1, <3>1, <3>2 DEF Lookup
  <2>. QED
    BY <1>1, <2>2 DEF Lookup, TypeInv, Types, ReportMade
<1>2. ASSUME NEW m \in toHarness, OnAckUp(m) PROVE TypeInv'
  BY <1>2 DEF OnAckUp, TypeInv, Types, ReportMade
<1>3. ASSUME NEW m \in answer, Deliver(m) PROVE TypeInv'
  <2>1. m.appr \in Approval /\ m.choice \in Choice
    BY EnvelopeTypes DEF TypeInv, Types
  <2>2. toBroker' \subseteq Requests \cup Reports \cup Acks
    BY <1>3, <2>1, Sendable, SendUpType DEF Deliver
  <2>. QED
    BY <1>3, <2>1, <2>2 DEF Deliver, TypeInv, Types, ReportMade
<1>4. ASSUME NEW m \in answer, Panic(m) PROVE TypeInv'
  BY <1>4, HarnessGoneTypes DEF Panic, TypeInv, Types
<1>. QED
  BY <1>1, <1>2, <1>3, <1>4 DEF ReadLoop

\* The broker's handlers.
LEMMA HandlerTypes ==
  ASSUME TypeInv, NEW a \in Approval, OnApprovalRequest(a) \/ Handler(a) \/ Expire(a)
  PROVE  TypeInv'
<1>. USE DEF broker, calls, wire, harness
<1>1. CASE OnApprovalRequest(a)
  <2>1. CASE SendDown(Ack(a)) /\ UNCHANGED <<request, serving>>
    <3>1. toHarness' \subseteq Responses \cup Acks
      BY <2>1, Sendable, SendDownType
    <3>. QED
      BY <1>1, <2>1, <3>1 DEF OnApprovalRequest, TypeInv, Types, ReportMade
  <2>2. CASE /\ request' = [request EXCEPT ![a] = "create"]
             /\ serving' = {a} /\ UNCHANGED toHarness
    BY <1>1, <2>2 DEF OnApprovalRequest, TypeInv, Types, ReportMade
  <2>. QED
    BY <1>1, <2>1, <2>2 DEF OnApprovalRequest
<1>2. CASE CreateApproval(a)
  <2>1. CASE decision[a] = "none"
    BY <1>2, <2>1 DEF CreateApproval, TypeInv, Types, ReportMade
  <2>2. CASE decision[a] # "none"
    <3>1. serving' \subseteq Approval /\ toHarness' \subseteq Responses \cup Acks
      BY <1>2, <2>2, ServedType DEF CreateApproval
    <3>. QED
      BY <1>2, <2>2, <3>1 DEF CreateApproval, TypeInv, Types, ReportMade
  <2>. QED
    BY <2>1, <2>2
<1>3. CASE AwaitApproval(a)
  <2>1. state' \in ActiveStates \cup Terminal
    BY <1>3, StatesFit DEF AwaitApproval, Await, TransitionJob, TypeInv, Types
  <2>. QED
    BY <1>3, <2>1 DEF AwaitApproval, TypeInv, Types, ReportMade
<1>4. CASE PostButtons(a)
  <2>1. serving' \subseteq Approval /\ toHarness' \subseteq Responses \cup Acks
    BY <1>4, ServedType DEF PostButtons
  <2>2. posted' \subseteq Approval /\ faults' \in Nat
    BY <1>4 DEF PostButtons, Fault, TypeInv, Types
  <2>. QED
    BY <1>4, <2>1, <2>2 DEF PostButtons, TypeInv, Types, ReportMade
<1>5. CASE Expire(a)
  BY <1>5 DEF Expire, TypeInv, Types, ReportMade
<1>. QED
  BY <1>1, <1>2, <1>3, <1>4, <1>5 DEF Handler

LEMMA CallbackTypes ==
  ASSUME TypeInv, NEW a \in Approval, NEW d \in Choice, Click(a, d) \/ Callback(a, d)
  PROVE  TypeInv'
<1>. USE DEF broker, calls, wire, harness
<1>1. CASE Click(a, d) \/ CheckPending(a, d)
  BY <1>1 DEF Click, CheckPending, TypeInv, Types, ReportMade
<1>2. CASE DecideApproval(a, d)
  BY <1>2 DEF DecideApproval, TypeInv, Types, ReportMade
<1>3. CASE EnqueueResponse(a, d)
  <2>1. outbox' \subseteq Responses /\ faults' \in Nat
    BY <1>3, Sendable DEF EnqueueResponse, Fault, TypeInv, Types
  <2>. QED
    BY <1>3, <2>1 DEF EnqueueResponse, TypeInv, Types, ReportMade
<1>4. CASE SendResponse(a, d)
  <2>1. toHarness' \subseteq Responses \cup Acks
    BY <1>4, Sendable, SendDownType DEF SendResponse
  <2>. QED
    BY <1>4, <2>1 DEF SendResponse, TypeInv, Types, ReportMade
<1>5. CASE ResumeJob(a, d)
  <2>1. state' \in ActiveStates \cup Terminal
    BY <1>5, StatesFit DEF ResumeJob, TransitionJob, TypeInv, Types
  <2>. QED
    BY <1>5, <2>1 DEF ResumeJob, TypeInv, Types, ReportMade
<1>. QED
  BY <1>1, <1>2, <1>3, <1>4, <1>5 DEF Callback

LEMMA TypeInvStep == TypeInv /\ [Next]_vars => TypeInv'
<1>. SUFFICES ASSUME TypeInv, [Next]_vars
              PROVE  TypeInv'
  OBVIOUS
<1>. USE DEF broker, calls, wire, harness
<1>1. CASE UNCHANGED vars
  BY <1>1 DEF vars, TypeInv, Types, ReportMade
<1>2. CASE Drop
  <2>1. up' \in BOOLEAN
    BY <1>2 DEF Drop, CutWire
  <2>2. faults' \in Nat
    BY <1>2 DEF Drop, Fault, TypeInv, Types
  <2>. QED
    BY <1>2, <2>1, <2>2 DEF Drop, CutWire, TypeInv, Types, ReportMade
<1>3. CASE BrokerCrash
  <2>1. up' \in BOOLEAN
    BY <1>3 DEF BrokerCrash, CutWire
  <2>2. faults' \in Nat
    BY <1>3 DEF BrokerCrash, Fault, TypeInv, Types
  <2>. QED
    BY <1>3, <2>1, <2>2 DEF BrokerCrash, CutWire, TypeInv, Types, ReportMade
<1>4. CASE HarnessCrash
  BY <1>4, HarnessGoneTypes DEF HarnessCrash, Fault, TypeInv, Types
<1>5. CASE SweepLose
  <2>1. state' \in ActiveStates \cup Terminal
    BY <1>5, StatesFit DEF SweepLose, TransitionJob, TypeInv, Types
  <2>. QED
    BY <1>5, <2>1 DEF SweepLose, TypeInv, Types, ReportMade
<1>6. CASE Reconnect
  <2>1. state' \in ActiveStates \cup Terminal
    BY <1>6, StatesFit DEF Reconnect, TransitionJob, TypeInv, Types
  <2>. QED
    BY <1>6, <2>1 DEF Reconnect, TypeInv, Types, ReportMade
<1>7. ASSUME NEW m \in toBroker, RecvAck(m) PROVE TypeInv'
  BY <1>7 DEF RecvAck, TypeInv, Types, ReportMade
<1>8. ASSUME NEW m \in toBroker, RecvResult(m) PROVE TypeInv'
  <2>1. m.status \in Verdicts
    BY <1>8, EnvelopeTypes DEF RecvResult, TypeInv, Types
  <2>2. state' \in ActiveStates \cup Terminal
    BY <1>8, <2>1, StatesFit DEF RecvResult, OnResult, TransitionJob, TypeInv, Types
  <2>3. toHarness' \subseteq Responses \cup Acks
    BY <1>8, ResultAck, SendDownType DEF RecvResult
  <2>. QED
    BY <1>8, <2>2, <2>3 DEF RecvResult, TypeInv, Types, ReportMade
<1>. QED
  BY <1>1, <1>2, <1>3, <1>4, <1>5, <1>6, <1>7, <1>8,
     DeciderTypes, ReadLoopTypes, HandlerTypes, CallbackTypes
  DEF Next, Environment, Serve

LEMMA TypeInvInit == Init => TypeInv
<1>. SUFFICES ASSUME Init
              PROVE  TypeInv
  OBVIOUS
<1>1. up \in BOOLEAN /\ panicked \in BOOLEAN /\ faults \in Nat
  BY DEF Init
<1>. QED
  BY <1>1, StatesFit DEF Init, TypeInv, Types, ReportMade

THEOREM TypesInductive == Spec => []TypeInv
BY TypeInvInit, TypeInvStep, PTL DEF Spec

\* Every variable of Approvals keeps its type; in particular nothing but a
\* request, the result finish has made and acks is on its way to the broker.
THEOREM ApprovalsTypeCorrect == Spec => []TypeOK
<1>1. TypeInv => TypeOK
  BY TypesFit DEF TypeInv
<1>. QED
  BY <1>1, TypesInductive, PTL
-----------------------------------------------------------------------------
(* A job awaits approval for a reason, and keeps to its lifecycle *)

\* Buttons are posted for rows, clicks are on posted buttons, and until the
\* buttons are posted the row is undecided: a decision can only come after
\* the transition it is to undo.
OrderInv ==
  /\ \A a \in posted : decision[a] # "none"
  /\ \A a \in Approval, d \in Choice : click[<<a, d>>] # Idle => a \in posted
  /\ \A a \in Approval :
       request[a] \in {"transition", "post"} => decision[a] = "pending" /\ a \notin posted

\* A click has reached the row and will look whether it was the last.
Resuming(a, d) == click[<<a, d>>] \in {"enqueue", "send", "check", "resume"}

\* Why a job may await approval.
Reason ==
  \/ \E a \in Approval : decision[a] = "pending"
  \/ \E a \in Approval, d \in Choice : Resuming(a, d)

\* A call of HandleCallback moves on and does nothing to the other clicks.
LEMMA ClickMoves ==
  ASSUME TypeInv, NEW a \in Approval, NEW d \in Choice, NEW s,
         click' = [click EXCEPT ![<<a, d>>] = s]
  PROVE  /\ click'[<<a, d>>] = s
         /\ \A b \in Approval, e \in Choice :
              <<b, e>> # <<a, d>> => click'[<<b, e>>] = click[<<b, e>>]
<1>1. \A b \in Approval, e \in Choice : <<b, e>> \in Approval \X Choice
  OBVIOUS
<1>2. click \in [Approval \X Choice -> {Idle, "decide", "enqueue", "send", "check", "resume"}]
  BY DEF TypeInv, Types
<1>. QED
  BY <1>1, <1>2

\* Rows, buttons and clicks come in this order.
LEMMA OrderStep == TypeInv /\ OrderInv /\ [Next]_vars => OrderInv'
<1>. SUFFICES ASSUME TypeInv, OrderInv, [Next]_vars
              PROVE  OrderInv'
  OBVIOUS
<1>. USE DEF broker, calls, wire, harness
<1>c. \A d \in Choice : d # "none" /\ d # "pending"
  BY ApprovalsAssumption
<1>1. CASE UNCHANGED <<decision, posted, click, request>>
  BY <1>1 DEF OrderInv
<1>2. ASSUME NEW a \in Approval, OnApprovalRequest(a) PROVE OrderInv'
  <2>1. \A b \in Approval : request'[b] \in {"transition", "post"} => request'[b] = request[b]
    BY <1>2 DEF OnApprovalRequest, TypeInv, Types
  <2>2. UNCHANGED <<decision, posted, click>>
    BY <1>2 DEF OnApprovalRequest
  <2>. QED
    BY <2>1, <2>2 DEF OrderInv
<1>3. ASSUME NEW a \in Approval, CreateApproval(a) PROVE OrderInv'
  <2>1. UNCHANGED <<posted, click>>
    BY <1>3 DEF CreateApproval
  <2>2. CASE decision[a] = "none"
    <3>1. /\ decision'[a] = "pending" /\ \A b \in Approval \ {a} : decision'[b] = decision[b]
          /\ \A b \in Approval \ {a} : request'[b] = request[b]
      BY <1>3, <2>2 DEF CreateApproval, TypeInv, Types
    <3>2. a \notin posted /\ posted \subseteq Approval
      BY <2>2 DEF OrderInv, TypeInv, Types
    <3>. QED
      BY <2>1, <3>1, <3>2 DEF OrderInv
  <2>3. CASE decision[a] # "none"
    <3>1. /\ UNCHANGED decision
          /\ \A b \in Approval : request'[b] = request[b] \/ request'[b] = Idle
      BY <1>3, <2>3 DEF CreateApproval, TypeInv, Types
    <3>. QED
      BY <2>1, <3>1 DEF OrderInv, Idle
  <2>. QED
    BY <2>2, <2>3
<1>4. ASSUME NEW a \in Approval, AwaitApproval(a) PROVE OrderInv'
  <2>1. /\ request[a] = "transition"
        /\ \A b \in Approval \ {a} : request'[b] = request[b]
        /\ UNCHANGED <<decision, posted, click>>
    BY <1>4 DEF AwaitApproval, TypeInv, Types
  <2>. QED
    BY <2>1 DEF OrderInv
<1>5. ASSUME NEW a \in Approval, PostButtons(a) PROVE OrderInv'
  <2>1. /\ request[a] = "post" /\ request'[a] = Idle
        /\ \A b \in Approval \ {a} : request'[b] = request[b]
        /\ UNCHANGED <<decision, click>>
    BY <1>5 DEF PostButtons, TypeInv, Types
  <2>2. posted \subseteq posted' /\ posted' \subseteq posted \cup {a}
    BY <1>5 DEF PostButtons
  <2>. QED
    BY <2>1, <2>2 DEF OrderInv, Idle
<1>6. ASSUME NEW a \in Approval, NEW d \in Choice, Click(a, d) PROVE OrderInv'
  <2>1. a \in posted /\ UNCHANGED <<decision, posted, request>>
    BY <1>6 DEF Click
  <2>2. \A b \in Approval, e \in Choice : <<b, e>> # <<a, d>> => click'[<<b, e>>] = click[<<b, e>>]
    BY <1>6, ClickMoves DEF Click
  <2>. QED
    BY <2>1, <2>2 DEF OrderInv
<1>7. ASSUME NEW a \in Approval, NEW d \in Choice, Callback(a, d) PROVE OrderInv'
  <2>1. PICK s : click' = [click EXCEPT ![<<a, d>>] = s]
    BY <1>7 DEF Callback, DecideApproval, EnqueueResponse, SendResponse, CheckPending, ResumeJob
  <2>2. click[<<a, d>>] # Idle /\ UNCHANGED <<posted, request>>
    BY <1>7 DEF Callback, DecideApproval, EnqueueResponse, SendResponse, CheckPending,
       ResumeJob, Idle
  <2>3. a \in posted
    BY <2>2 DEF OrderInv
  <2>4. \A b \in Approval, e \in Choice : click'[<<b, e>>] # Idle => b \in posted
    <3>1. ASSUME NEW b \in Approval, NEW e \in Choice, click'[<<b, e>>] # Idle
          PROVE  b \in posted
      <4>1. CASE <<b, e>> = <<a, d>>
        BY <2>3, <4>1
      <4>2. CASE <<b, e>> # <<a, d>>
        BY <2>1, <3>1, <4>2, ClickMoves DEF OrderInv
      <4>. QED
        BY <4>1, <4>2
    <3>. QED
      BY <3>1
  <2>5. \A b \in Approval : decision'[b] = decision[b] \/ (b = a /\ decision'[b] \in Choice)
    BY <1>7 DEF Callback, DecideApproval, EnqueueResponse, SendResponse, CheckPending,
       ResumeJob, TypeInv, Types
  <2>6. posted \subseteq Approval
    BY DEF TypeInv, Types
  <2>. QED
    BY <1>c, <2>2, <2>3, <2>4, <2>5, <2>6 DEF OrderInv
<1>8. CASE BrokerCrash
  <2>1. \A a \in Approval, d \in Choice : click'[<<a, d>>] = Idle
    <3>1. \A a \in Approval, d \in Choice : <<a, d>> \in Approval \X Choice
      OBVIOUS
    <3>. QED
      BY <1>8, <3>1 DEF BrokerCrash
  <2>. QED
    BY <1>8, <2>1 DEF BrokerCrash, OrderInv, Idle
<1>9. ASSUME NEW a \in Approval, Ask(a) \/ Expire(a) \/ SendRequestFails(a) \/ Decider(a)
      PROVE  OrderInv'
  BY <1>1, <1>9 DEF Ask, Expire, SendRequestFails, Decider, SendRequest, Receive, TimeOut, Return
<1>10. CASE ReadLoop
  BY <1>1, <1>10 DEF ReadLoop, Lookup, OnAckUp, Deliver, Panic
<1>11. ASSUME NEW m \in toBroker, RecvAck(m) \/ RecvResult(m) PROVE OrderInv'
  BY <1>1, <1>11 DEF RecvAck, RecvResult
<1>12. CASE Drop \/ HarnessCrash \/ SweepLose \/ Finish \/ SendResult \/ Reconnect
  BY <1>1, <1>12 DEF Drop, HarnessCrash, SweepLose, Finish, SendResult, Reconnect
<1>13. CASE UNCHANGED vars
  BY <1>1, <1>13 DEF vars
<1>. QED
  BY <1>2, <1>3, <1>4, <1>5, <1>6, <1>7, <1>8, <1>9, <1>10, <1>11, <1>12, <1>13
  DEF Next, Environment, Serve, Handler

\* A job gets to await approval with a reason, and has one until it is
\* resumed: the last decision keeps it in the click that made it, and
\* CheckPending gives it up only for another pending approval.
LEMMA ReasonStep == TypeInv /\ OrderInv /\ AwaitingHasReason /\ [Next]_vars => AwaitingHasReason'
<1>. SUFFICES ASSUME TypeInv, OrderInv, AwaitingHasReason, [Next]_vars
              PROVE  AwaitingHasReason'
  OBVIOUS
<1>. USE DEF broker, calls, wire, harness
<1>a. AwaitingHasReason <=> (state = "awaiting_approval" /\ faults = 0 => Reason)
  BY DEF AwaitingHasReason, Reason, Resuming
<1>b. AwaitingHasReason' <=> (state' = "awaiting_approval" /\ faults' = 0 => Reason')
  BY DEF AwaitingHasReason, Reason, Resuming
<1>n. faults \in Nat
  BY DEF TypeInv, Types
<1>f. ASSUME Fault PROVE faults' # 0
  BY <1>f, <1>n DEF Fault
<1>1. ASSUME state' = "awaiting_approval" => state = "awaiting_approval",
             faults' = 0 => faults = 0,
             Reason => Reason'
      PROVE  AwaitingHasReason'
  BY <1>1, <1>a, <1>b
<1>2. ASSUME UNCHANGED <<decision, click>>,
             state' = "awaiting_approval" => state = "awaiting_approval",
             faults' = 0 => faults = 0
      PROVE  AwaitingHasReason'
  <2>1. Reason => Reason'
    BY <1>2 DEF Reason, Resuming
  <2>. QED
    BY <1>1, <1>2, <2>1
<1>3. ASSUME NEW a \in Approval, CreateApproval(a) PROVE AwaitingHasReason'
  <2>1. \A b \in Approval : decision[b] = "pending" => decision'[b] = "pending"
    BY <1>3 DEF CreateApproval, TypeInv, Types
  <2>2. UNCHANGED <<state, faults, click>>
    BY <1>3 DEF CreateApproval
  <2>3. Reason => Reason'
    BY <2>1, <2>2 DEF Reason, Resuming
  <2>. QED
    BY <1>1, <2>2, <2>3
<1>4. ASSUME NEW a \in Approval, AwaitApproval(a) PROVE AwaitingHasReason'
  <2>1. decision'[a] = "pending"
    BY <1>4 DEF AwaitApproval, OrderInv
  <2>. QED
    BY <1>b, <2>1 DEF Reason
<1>5. ASSUME NEW a \in Approval, OnApprovalRequest(a) \/ PostButtons(a) PROVE AwaitingHasReason'
  <2>1. faults' = 0 => faults = 0
    BY <1>5, <1>f DEF OnApprovalRequest, PostButtons
  <2>. QED
    BY <1>2, <1>5, <2>1 DEF OnApprovalRequest, PostButtons
<1>6. ASSUME NEW a \in Approval, NEW d \in Choice, Click(a, d) PROVE AwaitingHasReason'
  <2>1. UNCHANGED <<state, faults, decision>> /\ click[<<a, d>>] = "idle"
    BY <1>6 DEF Click, Idle
  <2>2. \A b \in Approval, e \in Choice : Resuming(b, e) => Resuming(b, e)'
    <3>1. \A b \in Approval, e \in Choice :
            <<b, e>> # <<a, d>> => click'[<<b, e>>] = click[<<b, e>>]
      BY <1>6, ClickMoves DEF Click
    <3>. QED
      BY <2>1, <3>1 DEF Resuming
  <2>3. Reason => Reason'
    BY <2>1, <2>2 DEF Reason
  <2>. QED
    BY <1>1, <2>1, <2>3
<1>7. ASSUME NEW a \in Approval, NEW d \in Choice, DecideApproval(a, d) PROVE AwaitingHasReason'
  <2>1. UNCHANGED <<state, faults>> /\ click[<<a, d>>] = "decide"
    BY <1>7 DEF DecideApproval
  <2>2. CASE decision[a] = "pending" /\ a \notin expired
    <3>1. click'[<<a, d>>] = "enqueue"
      BY <1>7, <2>2, ClickMoves DEF DecideApproval
    <3>2. Resuming(a, d)'
      BY <3>1 DEF Resuming
    <3>3. Reason'
      BY <3>2 DEF Reason
    <3>. QED
      BY <1>b, <3>3
  <2>3. CASE ~(decision[a] = "pending" /\ a \notin expired)
    <3>1. UNCHANGED decision /\ click' = [click EXCEPT ![<<a, d>>] = Idle]
      BY <1>7, <2>3 DEF DecideApproval
    <3>2. \A b \in Approval, e \in Choice : Resuming(b, e) => Resuming(b, e)'
      <4>1. \A b \in Approval, e \in Choice :
              <<b, e>> # <<a, d>> => click'[<<b, e>>] = click[<<b, e>>]
        BY <3>1, ClickMoves
      <4>. QED
        BY <2>1, <4>1 DEF Resuming
    <3>3. Reason => Reason'
      BY <3>1, <3>2 DEF Reason
    <3>. QED
      BY <1>1, <2>1, <3>3
  <2>. QED
    BY <2>2, <2>3
<1>8. ASSUME NEW a \in Approval, NEW d \in Choice, EnqueueResponse(a, d) \/ SendResponse(a, d)
      PROVE  AwaitingHasReason'
  <2>1. click'[<<a, d>>] \in {"send", "check"}
    BY <1>8, ClickMoves DEF EnqueueResponse, SendResponse
  <2>2. Resuming(a, d)'
    BY <2>1 DEF Resuming
  <2>. QED
    BY <1>b, <2>2 DEF Reason
<1>9. ASSUME NEW a \in Approval, NEW d \in Choice, CheckPending(a, d) PROVE AwaitingHasReason'
  <2>1. CASE \E b \in Approval : decision[b] = "pending"
    BY <1>9, <1>b, <2>1 DEF CheckPending, Reason
  <2>2. CASE ~\E b \in Approval : decision[b] = "pending"
    <3>1. click' = [click EXCEPT ![<<a, d>>] = "resume"]
      BY <1>9, <2>2 DEF CheckPending
    <3>2. click'[<<a, d>>] = "resume"
      <4>1. <<a, d>> \in Approval \X Choice
        OBVIOUS
      <4>. QED
        BY <3>1, <4>1 DEF TypeInv, Types
    <3>3. Resuming(a, d)'
      BY <3>2 DEF Resuming
    <3>. QED
      BY <1>b, <3>3 DEF Reason
  <2>. QED
    BY <2>1, <2>2
<1>10. ASSUME NEW a \in Approval, NEW d \in Choice, ResumeJob(a, d) PROVE AwaitingHasReason'
  <2>1. state' # "awaiting_approval"
    BY <1>10 DEF ResumeJob, TransitionJob
  <2>. QED
    BY <1>b, <2>1
<1>11. CASE BrokerCrash
  BY <1>11, <1>b, <1>f DEF BrokerCrash
<1>12. CASE Drop \/ HarnessCrash
  BY <1>12, <1>b, <1>f DEF Drop, HarnessCrash
<1>13. CASE SweepLose \/ Reconnect
  <2>1. state' = "awaiting_approval" => state = "awaiting_approval"
    BY <1>13 DEF SweepLose, Reconnect, TransitionJob
  <2>. QED
    BY <1>2, <1>13, <2>1 DEF SweepLose, Reconnect
<1>14. ASSUME NEW m \in toBroker, RecvResult(m) PROVE AwaitingHasReason'
  <2>1. m.status \in Verdicts
    BY <1>14, EnvelopeTypes DEF RecvResult, TypeInv, Types
  <2>2. state' = "awaiting_approval" => state = "awaiting_approval"
    BY <1>14, <2>1, ApprovalsAssumption DEF RecvResult, OnResult, TransitionJob
  <2>. QED
    BY <1>2, <1>14, <2>2 DEF RecvResult
<1>15. ASSUME NEW m \in toBroker, RecvAck(m) PROVE AwaitingHasReason'
  BY <1>2, <1>15 DEF RecvAck
<1>16. ASSUME NEW a \in Approval, Ask(a) \/ Expire(a) \/ Decider(a) PROVE AwaitingHasReason'
  BY <1>2, <1>16 DEF Ask, Expire, Decider, SendRequest, Receive, TimeOut, Return
<1>17. ASSUME NEW a \in Approval, SendRequestFails(a) PROVE AwaitingHasReason'
  BY <1>b, <1>f, <1>17 DEF SendRequestFails
<1>18. CASE ReadLoop \/ Finish \/ SendResult
  BY <1>2, <1>18 DEF ReadLoop, Lookup, OnAckUp, Deliver, Panic, Finish, SendResult
<1>19. CASE UNCHANGED vars
  BY <1>2, <1>19 DEF vars
<1>. QED
  BY <1>3, <1>4, <1>5, <1>6, <1>7, <1>8, <1>9, <1>10, <1>11, <1>12, <1>13, <1>14, <1>15,
     <1>16, <1>17, <1>18, <1>19
  DEF Next, Environment, Serve, Handler, Callback

\* Until a crash or a failed call, a job that awaits approval has an undecided
\* approval or a click in progress that will look again (OnApprovalRequest,
\* HandleCallback, PendingApprovalsByJob), for any number of overlapping tool
\* calls and clicks.
THEOREM AwaitingIsJustified == Spec => []AwaitingHasReason
<1>1. Init => OrderInv /\ AwaitingHasReason
  <2>. SUFFICES ASSUME Init
                PROVE  OrderInv /\ AwaitingHasReason
    OBVIOUS
  <2>1. \A a \in Approval, d \in Choice : click[<<a, d>>] = Idle
    <3>1. \A a \in Approval, d \in Choice : <<a, d>> \in Approval \X Choice
      OBVIOUS
    <3>. QED
      BY <3>1 DEF Init
  <2>. QED
    BY <2>1 DEF Init, OrderInv, AwaitingHasReason, Idle
<1>. QED
  BY <1>1, OrderStep, ReasonStep, TypesInductive, PTL DEF Spec

\* The job is never queued once its harness runs it.
NotQueued == state # "queued"

\* One compare-and-set along an edge of the lifecycle.
LEMMA TransitionFollows ==
  ASSUME NotQueued, NEW from, NEW to, to \in ActiveStates \cup Terminal, to # "queued",
         state' = TransitionJob(from, to),
         \A s \in from : Lifecycle!MayFollow(s, to)
  PROVE  NotQueued' /\ [Lifecycle!Next]_state
<1>1. CASE state' = state
  BY <1>1 DEF NotQueued
<1>2. CASE state \in from /\ state' = to
  <2>1. Lifecycle!MayFollow(state, state')
    BY <1>2
  <2>2. [j \in {"job"} |-> state'] \in [{"job"} -> Lifecycle!JobState \cup {"none"}]
    BY <1>2 DEF ActiveStates, Terminal, Lifecycle!JobState
  <2>. QED
    BY <1>2, <2>1, <2>2 DEF Lifecycle!Next, NotQueued
<1>. QED
  BY <1>1, <1>2 DEF TransitionJob

LEMMA LifecycleStep == TypeInv /\ NotQueued /\ [Next]_vars => NotQueued' /\ [Lifecycle!Next]_state
<1>. SUFFICES ASSUME TypeInv, NotQueued, [Next]_vars
              PROVE  NotQueued' /\ [Lifecycle!Next]_state
  OBVIOUS
<1>. USE DEF broker, calls, wire, harness
<1>0. CASE UNCHANGED state
  BY <1>0 DEF NotQueued
<1>1. ASSUME NEW a \in Approval, AwaitApproval(a) PROVE NotQueued' /\ [Lifecycle!Next]_state
  <2>1. \A s \in {"dispatched", "running"} : Lifecycle!MayFollow(s, "awaiting_approval")
    BY DEF Lifecycle!MayFollow
  <2>2. state' = TransitionJob({"dispatched", "running"}, "awaiting_approval")
    BY <1>1 DEF AwaitApproval, Await
  <2>. QED
    BY <2>1, <2>2, StatesFit, TransitionFollows
<1>2. ASSUME NEW a \in Approval, NEW d \in Choice, ResumeJob(a, d)
      PROVE  NotQueued' /\ [Lifecycle!Next]_state
  <2>1. \A s \in {"awaiting_approval"} : Lifecycle!MayFollow(s, "running")
    BY DEF Lifecycle!MayFollow
  <2>2. state' = TransitionJob({"awaiting_approval"}, "running")
    BY <1>2 DEF ResumeJob
  <2>. QED
    BY <2>1, <2>2, StatesFit, TransitionFollows
<1>3. CASE SweepLose
  <2>1. \A s \in ActiveStates \ {"queued"} : Lifecycle!MayFollow(s, "lost")
    BY DEF ActiveStates, Lifecycle!ActiveStates, Lifecycle!MayFollow
  <2>2. state' = TransitionJob(ActiveStates \ {"queued"}, "lost")
    BY <1>3 DEF SweepLose, TransitionJob, NotQueued
  <2>. QED
    BY <2>1, <2>2, StatesFit, TransitionFollows
<1>4. CASE Reconnect
  <2>1. \A s \in {"running", "awaiting_approval"} : Lifecycle!MayFollow(s, "failed")
    BY DEF Lifecycle!MayFollow, Lifecycle!ActiveStates, Lifecycle!Outcome
  <2>2. CASE state' = TransitionJob({"running", "awaiting_approval"}, "failed")
    BY <2>1, <2>2, StatesFit, TransitionFollows
  <2>. QED
    BY <1>0, <1>4, <2>2 DEF Reconnect
<1>5. ASSUME NEW m \in toBroker, RecvResult(m) PROVE NotQueued' /\ [Lifecycle!Next]_state
  <2>1. m.status \in Verdicts
    BY <1>5, EnvelopeTypes DEF RecvResult, TypeInv, Types
  <2>2. m.status \in Lifecycle!Outcome
    BY <2>1, ApprovalsAssumption DEF Lifecycle!Outcome
  <2>3. \A s \in ActiveStates \cup {"lost"} : Lifecycle!MayFollow(s, m.status)
    BY <2>2 DEF ActiveStates, Lifecycle!MayFollow
  <2>4. state' = TransitionJob(ActiveStates \cup {"lost"}, m.status)
    BY <1>5 DEF RecvResult, OnResult
  <2>5. m.status \in Terminal /\ m.status # "queued"
    BY <2>1, <2>2, StatesFit DEF Lifecycle!Outcome
  <2>. QED
    BY <2>3, <2>4, <2>5, TransitionFollows
<1>6. ASSUME NEW a \in Approval,
             \/ Ask(a) \/ Expire(a) \/ SendRequestFails(a) \/ Decider(a)
             \/ OnApprovalRequest(a) \/ CreateApproval(a) \/ PostButtons(a)
      PROVE  UNCHANGED state
  BY <1>6 DEF Ask, Expire, SendRequestFails, Decider, SendRequest, Receive, TimeOut, Return,
     OnApprovalRequest, CreateApproval, PostButtons
<1>7. ASSUME NEW a \in Approval, NEW d \in Choice,
             \/ Click(a, d) \/ DecideApproval(a, d) \/ EnqueueResponse(a, d)
             \/ SendResponse(a, d) \/ CheckPending(a, d)
      PROVE  UNCHANGED state
  BY <1>7 DEF Click, DecideApproval, EnqueueResponse, SendResponse, CheckPending
<1>8. ASSUME \/ ReadLoop \/ Finish \/ SendResult \/ Drop \/ BrokerCrash \/ HarnessCrash
             \/ \E m \in toBroker : RecvAck(m)
             \/ UNCHANGED vars
      PROVE  UNCHANGED state
  BY <1>8 DEF ReadLoop, Lookup, OnAckUp, Deliver, Panic, Finish, SendResult, Drop, BrokerCrash,
     HarnessCrash, RecvAck, vars
<1>. QED
  BY <1>0, <1>1, <1>2, <1>3, <1>4, <1>5, <1>6, <1>7, <1>8
  DEF Next, Environment, Serve, Handler, Callback

\* No approval handler, click, ack or sweep moves the job off the edges of its
\* lifecycle; a finished job never comes back.
THEOREM LifecycleKept == Spec => KeepsLifecycle
<1>1. Init => NotQueued
  BY DEF Init, NotQueued
<1>. QED
  BY <1>1, LifecycleStep, TypesInductive, PTL DEF Spec, KeepsLifecycle
=============================================================================
