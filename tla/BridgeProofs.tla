---------------------------- MODULE BridgeProofs ----------------------------
(***************************************************************************)
(* Theorems about Bridge, for any set of jobs and threads, any limits, and  *)
(* any number of faults, cancels and timeouts.                             *)
(***************************************************************************)
EXTENDS Bridge, TLAPS

-----------------------------------------------------------------------------
(* Lemmas about the building blocks *)

\* A compare-and-set of one row leaves a table of rows.
LEMMA TransitionType ==
  ASSUME TypeOK, NEW j \in Job, NEW from, NEW to \in JobState
  PROVE  TransitionJob(j, from, to) \in [Job -> JobState \cup {"none"}]
  BY DEF TypeOK, TransitionJob

\* A call in progress has all its fields.
LEMMA TaskType ==
  ASSUME TypeOK, NEW t \in Tasks, task[t].pc # "idle"
  PROVE  task[t] \in Call
  BY DEF TypeOK, Idle

\* A send to the harness keeps the channel well typed.
LEMMA PushType ==
  ASSUME TypeOK, NEW m \in Posted \cup Welcome \cup BrokerAck, Push(m)
  PROVE  toHarness' \in Seq(Posted \cup Welcome \cup BrokerAck)
  BY DEF TypeOK, Push

\* So does a send to the broker.
LEMMA UploadType ==
  ASSUME TypeOK, NEW m \in Result \cup JobAck, Upload(m)
  PROVE  toBroker' \in Seq(Result \cup JobAck)
  BY DEF TypeOK, Upload

\* Reading one envelope off a channel.
LEMMA ReadHarness ==
  ASSUME TypeOK, toHarness # <<>>
  PROVE  /\ Head(toHarness) \in Posted \cup Welcome \cup BrokerAck
         /\ Tail(toHarness) \in Seq(Posted \cup Welcome \cup BrokerAck)
  BY DEF TypeOK

LEMMA ReadBroker ==
  ASSUME TypeOK, toBroker # <<>>
  PROVE  /\ Head(toBroker) \in Result \cup JobAck
         /\ Tail(toBroker) \in Seq(Result \cup JobAck)
  BY DEF TypeOK

\* What OnHello means to write is a state of Write.
LEMMA ReconcileType ==
  ASSUME NEW j \in Job, NEW s \in Reconcile(j)
  PROVE  [job |-> j, to |-> s] \in Write
  BY DEF Reconcile, Write

LEMMA Outcomes ==
  /\ Status \subseteq JobState
  /\ {"queued", "dispatched", "running", "failed", "cancelled", "expired", "lost"}
       \subseteq JobState
  BY DEF Status, JobState, Lifecycle!Outcome, Lifecycle!JobState,
         Lifecycle!ActiveStates, Lifecycle!Terminal

-----------------------------------------------------------------------------
(* Type correctness *)

\* Every variable keeps its type.
THEOREM TypeCorrect == Spec => []TypeOK
<1>1. Init => TypeOK
  BY DEF Init, TypeOK
<1>2. TypeOK /\ [Next]_vars => TypeOK'
  <2> SUFFICES ASSUME TypeOK, [Next]_vars PROVE TypeOK'
    OBVIOUS
  <2> USE DEF db, hub, wire, harness, session, bounds
  <2>1. CASE UNCHANGED vars
    BY <2>1 DEF TypeOK, vars
  <2>2. ASSUME NEW j \in Job, StartJob(j) PROVE TypeOK'
    BY <2>2 DEF StartJob, Count, TypeOK, Call, Tasks
  <2>3. ASSUME NEW j \in Job, RequestCancel(j) PROVE TypeOK'
    BY <2>3 DEF RequestCancel, Count, TypeOK, Call, Tasks
  <2>4. CASE AbandonJob
    BY <2>4 DEF AbandonJob, TypeOK
  <2>5. CASE HubDrop
    BY <2>5 DEF HubDrop, Deregister, Count, TypeOK
  <2>6. CASE ClientDrop
    BY <2>6 DEF ClientDrop, EndSession, Count, TypeOK
  <2>7. CASE BrokerCrash
    BY <2>7 DEF BrokerCrash, AckOutbox, Deregister, Count, TypeOK
  <2>8. CASE HarnessCrash
    BY <2>8 DEF HarnessCrash, EndSession, Count, TypeOK
  <2>9. CASE CreateJob
    <3>1. task["post"] \in Call
      BY <2>9, TaskType DEF CreateJob, Tasks
    <3>2. QED
      BY <2>9, <3>1, Outcomes DEF CreateJob, TypeOK, Call, Tasks
  <2>10. CASE CancelQueued
    <3>1. task["post"] \in Call
      BY <2>10, TaskType DEF CancelQueued, Tasks
    <3>2. state' \in [Job -> JobState \cup {"none"}]
      BY <2>10, <3>1, TransitionType, Outcomes DEF CancelQueued, Call
    <3>3. QED
      BY <2>10, <3>2 DEF CancelQueued, TypeOK
  <2>11. ASSUME NEW t \in Tasks, Enqueue(t) PROVE TypeOK'
    <3>1. task[t] \in Call
      BY <2>11, TaskType DEF Enqueue
    <3>2. task' \in [Tasks -> Call \cup {Idle}]
      BY <2>11, <3>1 DEF Enqueue, TypeOK, Call
    <3>3. QED
      BY <2>11, <3>1, <3>2 DEF Enqueue, TypeOK, Call, Posted
  <2>12. ASSUME NEW t \in Tasks, Send(t) PROVE TypeOK'
    <3>1. task[t] \in Call
      BY <2>12, TaskType DEF Send
    <3>2. toHarness' \in Seq(Posted \cup Welcome \cup BrokerAck)
      BY <2>12, <3>1, PushType DEF Send, Call, Posted
    <3>3. QED
      BY <2>12, <3>2 DEF Send, TypeOK
  <2>13. ASSUME NEW t \in Tasks, SendFails(t) PROVE TypeOK'
    <3>1. task[t] \in Call
      BY <2>13, TaskType DEF SendFails
    <3>2. state' \in [Job -> JobState \cup {"none"}]
      BY <2>13, <3>1, TransitionType, Outcomes DEF SendFails, fail, Call, TypeOK
    <3>3. QED
      BY <2>13, <3>2 DEF SendFails, TypeOK
  <2>14. ASSUME NEW j \in Job, SweepExpire(j) PROVE TypeOK'
    <3>1. state' \in [Job -> JobState \cup {"none"}]
      BY <2>14, TransitionType, Outcomes DEF SweepExpire
    <3>2. QED
      BY <2>14, <3>1 DEF SweepExpire, TypeOK
  <2>15. ASSUME NEW j \in Job, SweepTimeout(j) PROVE TypeOK'
    BY <2>15 DEF SweepTimeout, TypeOK, Call, Tasks
  <2>16. ASSUME NEW j \in Job, SweepOffline(j) PROVE TypeOK'
    BY <2>16 DEF SweepOffline, TypeOK, Call, Tasks
  <2>17. CASE SweepLose
    <3>1. task["sweep"] \in Call
      BY <2>17, TaskType DEF SweepLose, Tasks
    <3>2. state' \in [Job -> JobState \cup {"none"}]
      BY <2>17, <3>1, TransitionType, Outcomes DEF SweepLose, Call
    <3>3. QED
      BY <2>17, <3>2 DEF SweepLose, TypeOK
  <2>18. CASE Register
    BY <2>18 DEF Register, TypeOK
  <2>19. CASE OnHello
    <3>1. todo' \subseteq Write
      BY <2>19, ReconcileType DEF OnHello
    <3>2. QED
      BY <2>19, <3>1 DEF OnHello, TypeOK
  <2>36. CASE ReconcileRow
    <3>1. PICK w \in todo : /\ state' = TransitionJob(w.job, Writable(w.to), w.to)
                            /\ todo' = todo \ {w}
      BY <2>36 DEF ReconcileRow
    <3>2. w.job \in Job /\ w.to \in {"running", "failed", "dispatched"}
      BY <3>1 DEF TypeOK, Write
    <3>3. state' \in [Job -> JobState \cup {"none"}]
      BY <3>1, <3>2, TransitionType, Outcomes
    <3>4. QED
      BY <2>36, <3>1, <3>3 DEF ReconcileRow, TypeOK
  <2>37. CASE SendWelcome
    <3>1. toHarness' \in Seq(Posted \cup Welcome \cup BrokerAck)
      BY <2>37, PushType DEF SendWelcome, Welcome, TypeOK
    <3>2. QED
      BY <2>37, <3>1 DEF SendWelcome, TypeOK
  <2>20. CASE FlushOutbox
    BY <2>20 DEF FlushOutbox, AfterFlush, TypeOK
  <2>21. CASE FlushNext
    <3>1. PICK m \in First(flush) :
            Push(m) /\ flush' = flush \ {m} /\ serve' = AfterFlush(flush \ {m})
      BY <2>21 DEF FlushNext
    <3>2. m \in Posted
      BY <3>1 DEF First, TypeOK
    <3>3. toHarness' \in Seq(Posted \cup Welcome \cup BrokerAck)
      BY <3>1, <3>2, PushType
    <3>4. QED
      BY <2>21, <3>1, <3>3 DEF FlushNext, AfterFlush, TypeOK
  <2>22. CASE RecvAck
    <3>1. Head(toBroker) \in JobAck
      BY <2>22, ReadBroker DEF RecvAck, ReadsAck, AckOutbox, Result, JobAck
    <3>2. state' \in [Job -> JobState \cup {"none"}]
      BY <2>22, <3>1, TransitionType, Outcomes DEF RecvAck, OnAck, JobAck
    <3>3. QED
      BY <2>22, <3>2, ReadBroker DEF RecvAck, ReadsAck, AckOutbox, TypeOK
  <2>23. CASE RecvResult
    <3>1. Head(toBroker) \in Result
      BY <2>23, ReadBroker DEF RecvResult, Result, JobAck
    <3>2. state' \in [Job -> JobState \cup {"none"}]
      BY <2>23, <3>1, TransitionType, Outcomes DEF RecvResult, OnResult, Result
    <3>3. toHarness' \in Seq(Posted \cup Welcome \cup BrokerAck)
      BY <2>23, <3>1, PushType DEF RecvResult, Result, BrokerAck
    <3>4. QED
      BY <2>23, <3>1, <3>2, <3>3, ReadBroker DEF RecvResult, TypeOK
  <2>24. CASE HubNotice
    BY <2>24 DEF HubNotice, Deregister, TypeOK
  <2>25. CASE Dial
    BY <2>25 DEF Dial, TypeOK
  <2>26. CASE ClientNotice
    BY <2>26 DEF ClientNotice, EndSession, TypeOK
  <2>27. CASE UnexpectedFirst
    BY <2>27 DEF UnexpectedFirst, EndSession, TypeOK
  <2>28. CASE OnWelcome
    BY <2>28, ReadHarness DEF OnWelcome, AfterResend, TypeOK
  <2>29. CASE Resend
    <3>1. PICK r \in First(hflush) :
            Upload(r) /\ hflush' = hflush \ {r} /\ client' = AfterResend(hflush \ {r})
      BY <2>29 DEF Resend
    <3>2. r \in Result
      BY <3>1 DEF First, TypeOK
    <3>3. toBroker' \in Seq(Result \cup JobAck)
      BY <3>1, <3>2, UploadType
    <3>4. QED
      BY <2>29, <3>1, <3>3 DEF Resend, AfterResend, TypeOK
  <2>30. CASE OnDispatch
    <3>1. Head(toHarness) \in Posted
      BY <2>30, ReadHarness DEF OnDispatch, Arrives, Posted, Welcome, BrokerAck
    <3>2. toBroker' \in Seq(Result \cup JobAck)
      BY <2>30, <3>1, UploadType DEF OnDispatch, Reply, JobAck, Posted
    <3>3. QED
      BY <2>30, <3>2, ReadHarness DEF OnDispatch, Reply, Arrives, TypeOK
  <2>31. CASE OnCancel
    <3>1. Head(toHarness) \in Posted
      BY <2>31, ReadHarness DEF OnCancel, Arrives, Posted, Welcome, BrokerAck
    <3>2. toBroker' \in Seq(Result \cup JobAck)
      BY <2>31, <3>1, UploadType DEF OnCancel, Reply, JobAck, Posted
    <3>3. QED
      BY <2>31, <3>2, ReadHarness DEF OnCancel, Reply, Arrives, TypeOK
  <2>32. CASE OnResultAck
    BY <2>32, ReadHarness DEF OnResultAck, Arrives, TypeOK
  <2>33. ASSUME NEW j \in Job, Finish(j) PROVE TypeOK'
    <3>1. AgentStatus(j) \subseteq Status
      BY ConstantsAssumption DEF AgentStatus, Status, Lifecycle!Outcome
    <3>2. QED
      BY <2>33, <3>1 DEF Finish, TypeOK, Result
  <2>34. ASSUME NEW j \in Job, SendResult(j) PROVE TypeOK'
    <3>1. PICK r \in sending : r.job = j /\ Upload(r) /\ sending' = sending \ {r}
      BY <2>34 DEF SendResult
    <3>2. toBroker' \in Seq(Result \cup JobAck)
      BY <3>1, UploadType DEF TypeOK
    <3>3. QED
      BY <2>34, <3>1, <3>2 DEF SendResult, TypeOK
  <2>35. QED
    BY <2>1, <2>2, <2>3, <2>4, <2>5, <2>6, <2>7, <2>8, <2>9, <2>10, <2>11,
       <2>12, <2>13, <2>14, <2>15, <2>16, <2>17, <2>18, <2>19, <2>20, <2>21,
       <2>22, <2>23, <2>24, <2>25, <2>26, <2>27, <2>28, <2>29, <2>30, <2>31,
       <2>32, <2>33, <2>34, <2>36, <2>37
    DEF Next, Environment, PostHandler, Calls, Serve, Sweep, Sweeper, Session,
        Runner, Tasks
<1>3. QED
  BY <1>1, <1>2, PTL DEF Spec

-----------------------------------------------------------------------------
(* Results are not lost *)

\* Every ack in q is for a result of d.
Answered(q, d) ==
  \A i \in 1 .. Len(q) : q[i].type = "ack" => \E r \in d : r.id = q[i].ref

\* Strengthening of ResultNotLost: an ack on its way is for a result that
\* OnResult has answered, so that dropping it from the file loses nothing.
ResultInv == Answered(toHarness, delivered) /\ ResultNotLost

\* Reading, sending and answering keep acks answered.
LEMMA AnsweredTail ==
  ASSUME NEW S, NEW q \in Seq(S), NEW d, q # <<>>, Answered(q, d)
  PROVE  Answered(Tail(q), d)
  BY DEF Answered

LEMMA AnsweredAppend ==
  ASSUME NEW S, NEW q \in Seq(S), NEW d, NEW m \in S, Answered(q, d),
         m.type = "ack" => \E r \in d : r.id = m.ref
  PROVE  Answered(Append(q, m), d)
  BY DEF Answered

LEMMA AnsweredMore ==
  ASSUME NEW q, NEW d, NEW e, d \subseteq e, Answered(q, d)
  PROVE  Answered(q, e)
  BY DEF Answered

\* The strengthened invariant is inductive.
THEOREM ResultsInductive == Spec => []ResultInv
<1>1. Init => ResultInv
  BY DEF Init, ResultInv, Answered, ResultNotLost
<1>2. TypeOK /\ ResultInv /\ [Next]_vars => ResultInv'
  <2> SUFFICES ASSUME TypeOK, ResultInv, [Next]_vars PROVE ResultInv'
    OBVIOUS
  <2> USE DEF db, hub, wire, harness, session, bounds
  <2> DEFINE Msg == Posted \cup Welcome \cup BrokerAck
  <2>0. toHarness \in Seq(Msg)
    BY DEF TypeOK
  <2>e. Answered(<<>>, delivered)
    BY DEF Answered
  <2>h. ASSUME UNCHANGED <<houtbox, delivered, nextRes>> PROVE ResultNotLost'
    BY <2>h DEF ResultInv, ResultNotLost
  <2>p. ASSUME NEW m \in Msg, Push(m), m.type # "ack", UNCHANGED delivered
        PROVE  Answered(toHarness, delivered)'
    BY <2>p, <2>0, AnsweredAppend DEF ResultInv, Push
  <2>1. CASE UNCHANGED <<toHarness, houtbox, delivered, nextRes>>
    BY <2>1 DEF ResultInv, ResultNotLost, Answered
  <2>2. CASE toHarness' = <<>> /\ UNCHANGED <<houtbox, delivered, nextRes>>
    BY <2>2, <2>e, <2>h DEF ResultInv
  <2>3. CASE /\ toHarness # <<>> /\ toHarness' = Tail(toHarness)
             /\ UNCHANGED <<houtbox, delivered, nextRes>>
    <3>1. Answered(Tail(toHarness), delivered)
      BY <2>3, <2>0, AnsweredTail DEF ResultInv
    <3>2. QED
      BY <2>3, <2>h, <3>1 DEF ResultInv
  <2>4. ASSUME NEW t \in Tasks, Send(t) PROVE ResultInv'
    <3>1. task[t] \in Call
      BY <2>4, TaskType DEF Send
    <3>2. [type |-> task[t].type, id |-> task[t].id, job |-> task[t].job] \in Msg
      BY <3>1 DEF Call, Posted
    <3>3. QED
      BY <2>4, <2>p, <2>h, <3>1, <3>2 DEF Send, ResultInv, Call
  <2>5. CASE SendWelcome
    <3>1. [type |-> "welcome", aborts |-> hello] \in Msg
      BY DEF TypeOK, Welcome
    <3>2. QED
      BY <2>5, <2>p, <2>h, <3>1 DEF SendWelcome, ResultInv
  <2>6. CASE FlushNext
    <3>1. PICK m \in First(flush) : Push(m)
      BY <2>6 DEF FlushNext
    <3>2. m \in Posted
      BY <3>1 DEF First, TypeOK
    <3>3. QED
      BY <2>6, <2>p, <2>h, <3>1, <3>2 DEF FlushNext, ResultInv, Posted
  <2>7. CASE RecvResult
    <3> DEFINE r == Head(toBroker)
    <3>1. r \in Result
      BY <2>7, ReadBroker DEF RecvResult, Result, JobAck
    <3>2. /\ delivered' = delivered \cup {r}
          /\ Push([type |-> "ack", ref |-> r.id])
          /\ UNCHANGED <<houtbox, nextRes>>
      BY <2>7 DEF RecvResult
    <3>3. Answered(toHarness, delivered')
      BY <3>2, AnsweredMore DEF ResultInv
    <3>4. [type |-> "ack", ref |-> r.id] \in Msg
      BY <3>1 DEF Result, BrokerAck
    <3>5. Answered(Append(toHarness, [type |-> "ack", ref |-> r.id]), delivered')
      <4>1. \E s \in delivered' : s.id = r.id
        BY <3>2
      <4>2. QED
        BY <2>0, <3>3, <3>4, <4>1, AnsweredAppend
    <3>6. Answered(toHarness, delivered)'
      BY <3>2, <3>3, <3>5 DEF Push
    <3>7. ResultNotLost'
      BY <3>2 DEF ResultInv, ResultNotLost
    <3>8. QED
      BY <3>6, <3>7 DEF ResultInv
  <2>8. CASE OnResultAck
    <3>1. /\ toHarness # <<>> /\ Head(toHarness).type = "ack"
          /\ houtbox' = {r \in houtbox : r.id # Head(toHarness).ref}
          /\ toHarness' = Tail(toHarness)
          /\ UNCHANGED <<delivered, nextRes>>
      BY <2>8 DEF OnResultAck, Arrives
    <3>2. \E r \in delivered : r.id = Head(toHarness).ref
      BY <3>1, <2>0 DEF ResultInv, Answered
    <3>3. Answered(Tail(toHarness), delivered)
      BY <3>1, <2>0, AnsweredTail DEF ResultInv
    <3>4. ResultNotLost'
      BY <3>1, <3>2 DEF ResultInv, ResultNotLost
    <3>5. QED
      BY <3>1, <3>3, <3>4 DEF ResultInv
  <2>9. ASSUME NEW j \in Job, Finish(j) PROVE ResultInv'
    <3>1. PICK r : /\ r.id = nextRes
                   /\ houtbox' = houtbox \cup {r}
                   /\ UNCHANGED <<toHarness, delivered>>
                   /\ nextRes' = nextRes + 1
      BY <2>9 DEF Finish
    <3>2. ResultNotLost'
      BY <3>1 DEF ResultInv, ResultNotLost, TypeOK
    <3>3. QED
      BY <3>1, <3>2 DEF ResultInv, Answered
  <2>10. CASE UNCHANGED vars
    BY <2>1, <2>10 DEF vars
  <2>11. CASE OnWelcome \/ OnDispatch \/ OnCancel
    BY <2>3, <2>11 DEF OnWelcome, OnDispatch, OnCancel, Arrives, Reply
  <2>12. CASE ClientDrop \/ ClientNotice \/ UnexpectedFirst \/ HarnessCrash
    BY <2>2, <2>12 DEF ClientDrop, ClientNotice, UnexpectedFirst, HarnessCrash, EndSession
  <2>13. ASSUME NEW j \in Job,
                StartJob(j) \/ RequestCancel(j) \/ Sweep(j) \/ SendResult(j)
         PROVE  ResultInv'
    BY <2>1, <2>13 DEF StartJob, RequestCancel, Sweep, SweepExpire, SweepTimeout,
       SweepOffline, SendResult
  <2>14. ASSUME NEW t \in Tasks, Enqueue(t) \/ SendFails(t) PROVE ResultInv'
    BY <2>1, <2>14 DEF Enqueue, SendFails
  <2>15. CASE \/ AbandonJob \/ CreateJob \/ CancelQueued \/ SweepLose
              \/ Register \/ OnHello \/ ReconcileRow \/ FlushOutbox \/ RecvAck
              \/ HubDrop \/ HubNotice \/ BrokerCrash \/ Dial \/ Resend
    BY <2>1, <2>15 DEF AbandonJob, CreateJob, CancelQueued, SweepLose, Register,
       OnHello, ReconcileRow, FlushOutbox, RecvAck, HubDrop, HubNotice, BrokerCrash, Dial, Resend, Upload
  <2>16. QED
    BY <2>4, <2>5, <2>6, <2>7, <2>8, <2>9, <2>10, <2>11, <2>12, <2>13, <2>14, <2>15
    DEF Next, Environment, PostHandler, Calls, Serve, Sweeper, Session, Runner, Tasks
<1>3. QED
  BY <1>1, <1>2, TypeCorrect, PTL DEF Spec

\* A result finish has stored is in the harness's outbox file until the
\* broker has answered it, for any number of crashes and lost connections.
THEOREM ResultsKept == Spec => []ResultNotLost
<1>1. ResultInv => ResultNotLost
  BY DEF ResultInv
<1>2. QED
  BY <1>1, ResultsInductive, PTL

-----------------------------------------------------------------------------
(* The lifecycle, and one active job per thread *)

\* While createJob is between its check and its insert, there is still no row
\* and the thread still has no active job; only the post handler inserts.
InsertFresh ==
  \A t \in Tasks : task[t].pc \in {"insertQueued", "insertDispatched"} =>
    /\ t = "post"
    /\ state[task[t].job] = "none"
    /\ \A k \in Job : ThreadOf[k] = ThreadOf[task[t].job] => state[k] \notin ActiveStates

\* A job the sweeper is about to give up has been dispatched: it cannot be
\* queued again by the time the row is written.
LoseStarted ==
  \A t \in Tasks : task[t].pc = "lose" => state[task[t].job] \notin {"none", "queued"}

LifecycleInv == InsertFresh /\ LoseStarted /\ OneActivePerThread

\* What every step but the insert does to the table: a job without a row
\* stays without, a job that is not active does not become active, and one
\* that has left the queue does not re-enter it.
Settles ==
  \A j \in Job :
    /\ state[j] = "none" => state'[j] = "none"
    /\ state[j] \notin ActiveStates => state'[j] \notin ActiveStates
    /\ state[j] \notin {"none", "queued"} => state'[j] \notin {"none", "queued"}

\* One job's compare-and-set settles and follows an edge of the lifecycle.
LEMMA TransitionSettles ==
  ASSUME TypeOK, NEW j \in Job, NEW from, NEW to,
         state' = TransitionJob(j, from, to),
         \A s \in from : Lifecycle!MayFollow(s, to),
         from \subseteq JobState, to \in JobState \ {"queued"},
         \/ to \notin ActiveStates
         \/ from \subseteq ActiveStates
  PROVE  Settles /\ Lifecycle!Next
  <1>1. state' \in [Job -> JobState \cup {"none"}]
    BY TransitionType
  <1>2. /\ state'[j] = state[j] \/ (state[j] \in from /\ state'[j] = to)
        /\ \A k \in Job \ {j} : state'[k] = state[k]
    BY DEF TransitionJob, TypeOK
  <1>3. Settles
    BY <1>2 DEF Settles, ActiveStates, JobState, Lifecycle!ActiveStates,
       Lifecycle!JobState, Lifecycle!Terminal
  <1>4. \A k \in Job : state'[k] = state[k] \/ Lifecycle!MayFollow(state[k], state'[k])
    BY <1>2
  <1>5. QED
    BY <1>1, <1>3, <1>4 DEF Lifecycle!Next, JobState

\* A step that settles the table and starts no insert keeps the invariant.
LEMMA SettledKeeps ==
  ASSUME TypeOK, TypeOK', LifecycleInv, Settles,
         \A t \in Tasks :
           \/ task'[t].pc \notin {"insertQueued", "insertDispatched", "lose"}
           \/ task'[t] = task[t]
  PROVE  LifecycleInv'
  <1>1. ASSUME NEW t \in Tasks, task'[t].pc \in {"insertQueued", "insertDispatched", "lose"}
        PROVE  task'[t] = task[t] /\ task[t].job \in Job
    BY <1>1, TaskType DEF Call
  <1>2. InsertFresh'
    BY <1>1 DEF InsertFresh, LifecycleInv, Settles
  <1>3. LoseStarted'
    BY <1>1 DEF LoseStarted, LifecycleInv, Settles
  <1>4. OneActivePerThread'
    BY DEF OneActivePerThread, LifecycleInv, Settles
  <1>5. QED
    BY <1>2, <1>3, <1>4 DEF LifecycleInv

\* Every step keeps the invariant and is a step of the lifecycle.
LEMMA LifecycleStep ==
  ASSUME TypeOK, TypeOK', LifecycleInv, [Next]_vars
  PROVE  LifecycleInv' /\ [Lifecycle!Next]_state
  <1> USE DEF db, hub, wire, harness, session, bounds
  <1> DEFINE Quiet == \A t \in Tasks :
               \/ task'[t].pc \notin {"insertQueued", "insertDispatched", "lose"}
               \/ task'[t] = task[t]
  <1>1. ASSUME UNCHANGED state, Quiet PROVE LifecycleInv' /\ [Lifecycle!Next]_state
    <2>1. Settles
      BY <1>1 DEF Settles
    <2>2. QED
      BY <1>1, <2>1, SettledKeeps
  <1>2. ASSUME NEW j \in Job, NEW from, NEW to, Quiet,
               state' = TransitionJob(j, from, to),
               from \subseteq JobState, to \in JobState \ {"queued"},
               \A s \in from : Lifecycle!MayFollow(s, to),
               to \notin ActiveStates \/ from \subseteq ActiveStates
        PROVE  LifecycleInv' /\ [Lifecycle!Next]_state
    BY <1>2, TransitionSettles, SettledKeeps
  <1>4. ASSUME NEW t \in Tasks, task' = [task EXCEPT ![t] = Idle] PROVE Quiet
    BY <1>4 DEF TypeOK, Idle
  <1> HIDE DEF Quiet
  <1>5. CASE UNCHANGED vars
    BY <1>1, <1>5 DEF vars, Quiet
  <1>6. CASE UNCHANGED <<state, task>>
    BY <1>1, <1>6 DEF Quiet
  <1>7. ASSUME NEW j \in Job, StartJob(j) PROVE LifecycleInv' /\ [Lifecycle!Next]_state
    <2>1. /\ UNCHANGED state /\ state[j] = "none"
          /\ \A k \in Job : ThreadOf[k] = ThreadOf[j] => state[k] \notin ActiveStates
          /\ task'["post"].job = j
          /\ task'["post"].pc \in {"insertQueued", "insertDispatched"}
          /\ task'["sweep"] = task["sweep"]
      BY <1>7 DEF StartJob, TypeOK, Tasks
    <2>2. InsertFresh'
      BY <2>1 DEF InsertFresh, LifecycleInv, Tasks
    <2>3. LoseStarted' /\ OneActivePerThread'
      BY <2>1 DEF LoseStarted, OneActivePerThread, LifecycleInv, Tasks
    <2>4. QED
      BY <2>1, <2>2, <2>3 DEF LifecycleInv
  <1>8. ASSUME NEW j \in Job, RequestCancel(j) \/ SweepTimeout(j)
        PROVE  LifecycleInv' /\ [Lifecycle!Next]_state
    <2>1. UNCHANGED state /\ Quiet
      BY <1>8 DEF RequestCancel, SweepTimeout, Quiet, TypeOK, Tasks
    <2>2. QED
      BY <1>1, <2>1
  <1>9. ASSUME NEW j \in Job, SweepOffline(j) PROVE LifecycleInv' /\ [Lifecycle!Next]_state
    <2>1. /\ UNCHANGED state /\ state[j] \notin {"none", "queued"}
          /\ task'["sweep"].job = j /\ task'["sweep"].pc = "lose"
          /\ task'["post"] = task["post"]
      BY <1>9 DEF SweepOffline, TypeOK, Tasks
    <2>2. QED
      BY <2>1 DEF LifecycleInv, InsertFresh, LoseStarted, OneActivePerThread, Tasks
  <1>10. CASE AbandonJob
    <2>1. UNCHANGED state /\ Quiet
      BY <1>4, <1>10 DEF AbandonJob, Tasks
    <2>2. QED
      BY <1>1, <2>1
  <1>11. CASE BrokerCrash
    <2>1. UNCHANGED state /\ Quiet
      BY <1>11 DEF BrokerCrash, Quiet, Tasks, Idle
    <2>2. QED
      BY <1>1, <2>1
  <1>12. CASE CreateJob
    <2> DEFINE j == task["post"].job
    <2>1. task["post"] \in Call
      BY <1>12, TaskType DEF CreateJob, Tasks
    <2>2. /\ j \in Job /\ state[j] = "none"
          /\ \A k \in Job : ThreadOf[k] = ThreadOf[j] => state[k] \notin ActiveStates
      BY <1>12, <2>1 DEF CreateJob, LifecycleInv, InsertFresh, Call, Tasks
    <2>3. /\ state'[j] \in {"queued", "dispatched"}
          /\ \A k \in Job \ {j} : state'[k] = state[k]
      BY <1>12, <2>2 DEF CreateJob, TypeOK
    <2>4. /\ task'["post"].pc = "enqueue" /\ task'["sweep"] = task["sweep"]
      BY <1>12, <2>1 DEF CreateJob, TypeOK, Tasks, Call
    <2>5. InsertFresh'
      BY <2>4 DEF InsertFresh, LifecycleInv, Tasks
    <2>6. LoseStarted'
      <3>1. task["sweep"].pc = "lose" => task["sweep"].job \in Job
        BY TaskType DEF Tasks, Call
      <3>2. QED
        BY <2>2, <2>3, <2>4, <3>1 DEF LoseStarted, LifecycleInv, Tasks
    <2>7. OneActivePerThread'
      BY <2>2, <2>3 DEF OneActivePerThread, LifecycleInv
    <2>8. Lifecycle!Next
      BY <2>2, <2>3 DEF Lifecycle!Next, Lifecycle!MayFollow, TypeOK, JobState
    <2>9. QED
      BY <2>5, <2>6, <2>7, <2>8 DEF LifecycleInv
  <1> DEFINE Goal == LifecycleInv' /\ [Lifecycle!Next]_state
  <1>13. CASE CancelQueued
    <2>1. task["post"] \in Call
      BY <1>13, TaskType DEF CancelQueued, Tasks
    <2>2. Quiet
      BY <1>4, <1>13 DEF CancelQueued, Tasks
    <2>3. \A s \in {"queued"} : Lifecycle!MayFollow(s, "cancelled")
      BY DEF Lifecycle!MayFollow, Lifecycle!Outcome, Lifecycle!ActiveStates
    <2>4. QED
      BY <1>2, <1>13, <2>1, <2>2, <2>3 DEF CancelQueued, Call, JobState, ActiveStates,
         Lifecycle!JobState, Lifecycle!ActiveStates, Lifecycle!Terminal
  <1>14. ASSUME NEW t \in Tasks, Enqueue(t) \/ Send(t) PROVE Goal
    <2>1. task[t] \in Call
      BY <1>14, TaskType DEF Enqueue, Send
    <2>2. UNCHANGED state /\ Quiet
      BY <1>14, <2>1 DEF Enqueue, Send, Quiet, TypeOK, Call, Idle
    <2>3. QED
      BY <1>1, <2>2
  <1>15. ASSUME NEW t \in Tasks, SendFails(t) PROVE Goal
    <2>1. task[t] \in Call
      BY <1>15, TaskType DEF SendFails
    <2>2. Quiet
      BY <1>4, <1>15 DEF SendFails
    <2>3. \A s \in ActiveStates : Lifecycle!MayFollow(s, "failed")
      BY DEF ActiveStates, Lifecycle!MayFollow, Lifecycle!Outcome
    <2>4. CASE state' = state
      BY <1>1, <2>2, <2>4
    <2>5. CASE state' = fail(task[t].job)
      BY <1>2, <2>1, <2>2, <2>3, <2>5 DEF fail, Call, JobState, ActiveStates,
         Lifecycle!JobState, Lifecycle!ActiveStates, Lifecycle!Terminal
    <2>6. QED
      BY <1>15, <2>4, <2>5 DEF SendFails
  <1>16. ASSUME NEW j \in Job, SweepExpire(j) PROVE Goal
    <2>1. \A s \in {"queued"} : Lifecycle!MayFollow(s, "expired")
      BY DEF Lifecycle!MayFollow
    <2>2. QED
      BY <1>2, <1>16, <2>1 DEF SweepExpire, Quiet, JobState, ActiveStates,
         Lifecycle!JobState, Lifecycle!ActiveStates, Lifecycle!Terminal
  <1>17. CASE SweepLose
    <2> DEFINE j == task["sweep"].job
    <2>1. task["sweep"] \in Call
      BY <1>17, TaskType DEF SweepLose, Tasks
    <2>2. j \in Job /\ state[j] # "queued"
      BY <1>17, <2>1 DEF SweepLose, LifecycleInv, LoseStarted, Call, Tasks
    <2>3. state' = TransitionJob(j, ActiveStates \ {"queued"}, "lost")
      BY <1>17, <2>2 DEF SweepLose, TransitionJob, TypeOK
    <2>4. Quiet
      BY <1>4, <1>17 DEF SweepLose, Tasks
    <2>5. \A s \in ActiveStates \ {"queued"} : Lifecycle!MayFollow(s, "lost")
      BY DEF ActiveStates, Lifecycle!ActiveStates, Lifecycle!MayFollow
    <2>6. QED
      BY <1>2, <2>2, <2>3, <2>4, <2>5 DEF JobState, ActiveStates,
         Lifecycle!JobState, Lifecycle!ActiveStates, Lifecycle!Terminal
  <1>18. CASE ReconcileRow
    <2>1. PICK w \in todo : state' = TransitionJob(w.job, Writable(w.to), w.to)
      BY <1>18 DEF ReconcileRow
    <2>2. w.job \in Job /\ w.to \in {"running", "failed", "dispatched"}
      BY <2>1 DEF TypeOK, Write
    <2>3. /\ \A s \in Writable(w.to) : Lifecycle!MayFollow(s, w.to)
          /\ Writable(w.to) \subseteq ActiveStates
      BY <2>2 DEF Writable, ActiveStates, Lifecycle!MayFollow, Lifecycle!ActiveStates,
         Lifecycle!Outcome
    <2>4. Quiet
      BY <1>18 DEF ReconcileRow, Quiet
    <2>5. ActiveStates \subseteq JobState /\ w.to \in JobState \ {"queued"}
      BY <2>2 DEF ActiveStates, JobState, Lifecycle!JobState, Lifecycle!ActiveStates,
         Lifecycle!Terminal
    <2>6. QED
      BY <1>2, <2>1, <2>2, <2>3, <2>4, <2>5
  <1>19. CASE RecvAck
    <2>1. Head(toBroker) \in JobAck
      BY <1>19, ReadBroker DEF RecvAck, ReadsAck, AckOutbox, Result, JobAck
    <2>2. \A to \in {"running", "failed"} : \A s \in {"dispatched"} : Lifecycle!MayFollow(s, to)
      BY DEF Lifecycle!MayFollow, Lifecycle!ActiveStates, Lifecycle!Outcome
    <2>3. QED
      BY <1>2, <1>19, <2>1, <2>2 DEF RecvAck, OnAck, JobAck, Quiet, JobState, ActiveStates,
         Lifecycle!JobState, Lifecycle!ActiveStates, Lifecycle!Terminal
  <1>20. CASE RecvResult
    <2>1. Head(toBroker) \in Result
      BY <1>20, ReadBroker DEF RecvResult, Result, JobAck
    <2>2. \A to \in Status : \A s \in ActiveStates \cup {"lost"} : Lifecycle!MayFollow(s, to)
      BY DEF Lifecycle!MayFollow, Status, ActiveStates
    <2>3. QED
      BY <1>2, <1>20, <2>1, <2>2 DEF RecvResult, OnResult, Result, Quiet, Status, JobState,
         ActiveStates, Lifecycle!JobState, Lifecycle!ActiveStates, Lifecycle!Terminal,
         Lifecycle!Outcome
  <1>21. CASE \/ Register \/ OnHello \/ SendWelcome \/ FlushOutbox \/ FlushNext
              \/ HubDrop \/ HubNotice
              \/ Session \/ ClientDrop \/ ClientNotice \/ HarnessCrash
    BY <1>6, <1>21 DEF Register, OnHello, SendWelcome, FlushOutbox, FlushNext, HubDrop,
       HubNotice, Session,
       Dial, UnexpectedFirst, OnWelcome, Resend, OnDispatch, OnCancel, OnResultAck,
       ClientDrop, ClientNotice, HarnessCrash
  <1>22. ASSUME NEW j \in Job, Runner(j) PROVE Goal
    BY <1>6, <1>22 DEF Runner, Finish, SendResult
  <1>23. QED
    BY <1>5, <1>7, <1>8, <1>9, <1>10, <1>11, <1>12, <1>13, <1>14, <1>15, <1>16,
       <1>17, <1>18, <1>19, <1>20, <1>21, <1>22
    DEF Next, Environment, PostHandler, Calls, Serve, Sweep, Sweeper, Tasks

LEMMA LifecycleInit == Init => LifecycleInv /\ Lifecycle!Init
  BY DEF Init, LifecycleInv, InsertFresh, LoseStarted, OneActivePerThread, Idle,
         ActiveStates, Lifecycle!ActiveStates, Lifecycle!Init

\* Never two active jobs in one thread, however many posts, reconnects and
\* crashes there are.
THEOREM ThreadExclusion == Spec => []OneActivePerThread
<1>1. Init => LifecycleInv
  BY LifecycleInit
<1>2. TypeOK /\ TypeOK' /\ LifecycleInv /\ [Next]_vars => LifecycleInv'
  BY LifecycleStep
<1>3. LifecycleInv => OneActivePerThread
  BY DEF LifecycleInv
<1>4. QED
  BY <1>1, <1>2, <1>3, TypeCorrect, PTL DEF Spec

\* The broker's handlers implement the job lifecycle.
THEOREM LifecycleImplemented == Spec => ImplementsLifecycle
<1>1. Init => LifecycleInv /\ Lifecycle!Init
  BY LifecycleInit
<1>2. TypeOK /\ TypeOK' /\ LifecycleInv /\ [Next]_vars
        => LifecycleInv' /\ [Lifecycle!Next]_state
  BY LifecycleStep
<1>3. QED
  BY <1>1, <1>2, TypeCorrect, PTL DEF Spec, ImplementsLifecycle, Lifecycle!Spec
-----------------------------------------------------------------------------
(* A running job has an owner *)

\* The envelopes on a channel.
Items(q) == {q[i] : i \in 1 .. Len(q)}

\* The harness answers for the job: it has it in h.jobs or has its result in
\* the outbox file, or the job is over.
Owned(j) ==
  \/ run[j] # "none"
  \/ \E r \in houtbox : r.job = j
  \/ state[j] \in Terminal

\* Every copy of a result there is.
Results ==
  houtbox \cup sending \cup hflush \cup delivered
    \cup {m \in Items(toBroker) : m.type = "result"}

\* The harness's side of a live connection has said hello; until the welcome
\* is sent it waits for it.  A session that has not said hello yet finds an
\* empty channel.
LinkInv ==
  /\ client \in {"down", "dialed"} => conn # "live" /\ toHarness = <<>>
  /\ conn = "live" /\ serve \in {"hello", "reconcile"} =>
       client = "hello" /\ \A m \in Items(toHarness) : m.type # "welcome"

TasksStarted ==
  \A t \in Tasks : task[t].pc \in {"enqueue", "send"} => state[task[t].job] # "none"

StoredStarted == \A m \in outbox \cup flush : state[m.job] # "none"

SentStarted ==
  \A m \in Items(toHarness) : m.type \in {"dispatch", "cancel"} => state[m.job] # "none"

RunsStarted == \A j \in Job : run[j] # "none" => state[j] # "none"

\* What is sent about a job, and what runs, has a row.
StartedInv == TasksStarted /\ StoredStarted /\ SentStarted /\ RunsStarted

\* Results are told apart by their ids, were all made by finish, and a result
\* the broker has answered has ended its job.
PoolInv ==
  /\ nextRes >= 1
  /\ \A r \in Results : r.id >= 1 /\ r.id < nextRes /\ state[r.job] # "none"
  /\ \A r, s \in Results : r.id = s.id => r = s
  /\ \A d \in delivered : state[d.job] \in Terminal

\* Whatever makes the broker believe that a job runs is of a job the harness
\* answers for, while the connection it came over is the harness's: the jobs
\* named in hello, the acks on their way and the rows OnHello will set to
\* running.
DialedOwned == \A j \in dialed : Owned(j)

AcksOwned ==
  conn = "live" => \A m \in Items(toBroker) : m.type = "ack" /\ m.ok => Owned(m.job)

HelloOwned == conn = "live" /\ serve = "hello" => \A j \in hello : Owned(j)

TodoOwned ==
  conn = "live" /\ serve = "reconcile" => \A w \in todo : w.to = "running" => Owned(w.job)

\* A running job the harness does not answer for is one OnHello has yet to
\* look at, or is about to fail.
RunningOwned ==
  conn = "live" => \A j \in Job : state[j] = "running" =>
    \/ Owned(j)
    \/ serve = "hello"
    \/ serve = "reconcile" /\ [job |-> j, to |-> "failed"] \in todo

ClaimInv == DialedOwned /\ AcksOwned /\ HelloOwned /\ TodoOwned /\ RunningOwned

OwnerInv == LinkInv /\ StartedInv /\ PoolInv /\ ClaimInv

LEMMA ItemsEmpty == Items(<<>>) = {}
  BY DEF Items

LEMMA ItemsHead ==
  ASSUME NEW S, NEW q \in Seq(S), q # <<>>
  PROVE  Head(q) \in Items(q)
  BY DEF Items

LEMMA ItemsTail ==
  ASSUME NEW S, NEW q \in Seq(S), q # <<>>
  PROVE  Items(Tail(q)) \subseteq Items(q)
  <1> SUFFICES ASSUME NEW i \in 1 .. Len(Tail(q)) PROVE Tail(q)[i] \in Items(q)
    BY DEF Items
  <1>1. i + 1 \in 1 .. Len(q) /\ Tail(q)[i] = q[i + 1]
    OBVIOUS
  <1>2. QED
    BY <1>1 DEF Items

LEMMA ItemsAppend ==
  ASSUME NEW S, NEW q \in Seq(S), NEW m \in S
  PROVE  Items(Append(q, m)) = Items(q) \cup {m}
  <1> DEFINE p == Append(q, m)
  <1>1. /\ Len(p) = Len(q) + 1 /\ p[Len(q) + 1] = m /\ Len(q) \in Nat
        /\ \A i \in 1 .. Len(q) : p[i] = q[i]
    OBVIOUS
  <1> HIDE DEF p
  <1>2. 1 .. Len(p) = (1 .. Len(q)) \cup {Len(q) + 1}
    BY <1>1
  <1>3. Items(p) = Items(q) \cup {m}
    BY <1>1, <1>2 DEF Items
  <1>4. QED
    BY <1>3 DEF p

\* A send adds at most the envelope to the channel.
LEMMA PushItems ==
  ASSUME TypeOK, NEW m \in Posted \cup Welcome \cup BrokerAck, Push(m)
  PROVE  /\ Items(toHarness') \subseteq Items(toHarness) \cup {m}
         /\ conn # "live" => toHarness' = toHarness
  BY ItemsAppend DEF TypeOK, Push

LEMMA UploadItems ==
  ASSUME TypeOK, NEW m \in Result \cup JobAck, Upload(m)
  PROVE  Items(toBroker') \subseteq Items(toBroker) \cup {m}
  BY ItemsAppend DEF TypeOK, Upload

\* A read takes nothing else.
LEMMA HarnessItems ==
  ASSUME TypeOK, toHarness # <<>>
  PROVE  /\ Head(toHarness) \in Items(toHarness)
         /\ Items(Tail(toHarness)) \subseteq Items(toHarness)
  BY ItemsHead, ItemsTail DEF TypeOK

LEMMA BrokerItems ==
  ASSUME TypeOK, toBroker # <<>>
  PROVE  /\ Head(toBroker) \in Items(toBroker)
         /\ Items(Tail(toBroker)) \subseteq Items(toBroker)
  BY ItemsHead, ItemsTail DEF TypeOK

\* A row stays a row, and a job that is over stays over.
RowsLast ==
  \A j \in Job :
    /\ state[j] # "none" => state'[j] # "none"
    /\ state[j] \in Terminal => state'[j] \in Terminal

LEMMA LifecycleLasts ==
  ASSUME [Lifecycle!Next]_state
  PROVE  RowsLast
  BY DEF RowsLast, Terminal, Lifecycle!Next, Lifecycle!MayFollow, Lifecycle!Terminal,
         Lifecycle!ActiveStates, Lifecycle!Outcome

\* The handshake of a connection.
LEMMA LinkStep ==
  ASSUME TypeOK, LinkInv, [Next]_vars
  PROVE  LinkInv'
  <1> USE DEF db, hub, wire, harness, session, bounds
  <1>1. CASE UNCHANGED <<conn, serve, client, toHarness>>
    BY <1>1 DEF LinkInv
  <1>2. ASSUME NEW t \in Tasks, Send(t) PROVE LinkInv'
    <2> DEFINE m == [type |-> task[t].type, id |-> task[t].id, job |-> task[t].job]
    <2>1. task[t] \in Call
      BY <1>2, TaskType DEF Send
    <2>2. m \in Posted
      BY <2>1 DEF Call, Posted
    <2>3. m.type # "welcome"
      BY <2>1 DEF Call
    <2>4. Push(m) /\ UNCHANGED <<conn, serve, client>>
      BY <1>2 DEF Send
    <2> HIDE DEF m
    <2>5. QED
      BY <2>2, <2>3, <2>4, PushItems DEF LinkInv
  <1>3. CASE SendWelcome
    <2>1. [type |-> "welcome", aborts |-> hello] \in Welcome
      BY DEF TypeOK, Welcome
    <2>2. /\ Push([type |-> "welcome", aborts |-> hello])
          /\ serve' = "welcomed" /\ UNCHANGED <<conn, client>>
      BY <1>3 DEF SendWelcome
    <2>3. QED
      BY <2>1, <2>2, PushItems DEF LinkInv
  <1>4. CASE FlushNext
    <2>1. PICK m \in First(flush) : Push(m)
      BY <1>4 DEF FlushNext
    <2>2. m \in Posted
      BY <2>1 DEF First, TypeOK
    <2>3. serve' \notin {"hello", "reconcile"} /\ UNCHANGED <<conn, client>>
      BY <1>4 DEF FlushNext, AfterFlush
    <2>4. QED
      BY <2>1, <2>2, <2>3, PushItems DEF LinkInv
  <1>5. CASE RecvResult
    <2>1. Head(toBroker) \in Result
      BY <1>5, ReadBroker DEF RecvResult, Result, JobAck
    <2>2. [type |-> "ack", ref |-> Head(toBroker).id] \in BrokerAck
      BY <2>1 DEF Result, BrokerAck
    <2>3. /\ Push([type |-> "ack", ref |-> Head(toBroker).id])
          /\ serve = "loop" /\ UNCHANGED <<serve, conn, client>>
      BY <1>5 DEF RecvResult
    <2>4. QED
      BY <2>2, <2>3, PushItems DEF LinkInv
  <1>6. CASE Register
    BY <1>6, ItemsEmpty DEF Register, LinkInv
  <1>7. CASE OnHello \/ FlushOutbox
    BY <1>7 DEF OnHello, FlushOutbox, AfterFlush, LinkInv
  <1>8. CASE HubDrop \/ HubNotice \/ BrokerCrash
    BY <1>8 DEF HubDrop, HubNotice, BrokerCrash, Deregister, LinkInv
  <1>9. CASE Dial
    BY <1>9 DEF Dial, LinkInv
  <1>10. CASE ClientDrop \/ ClientNotice \/ UnexpectedFirst \/ HarnessCrash
    BY <1>10 DEF ClientDrop, ClientNotice, UnexpectedFirst, HarnessCrash, EndSession, LinkInv
  <1>11. CASE OnWelcome
    <2>1. /\ Head(toHarness) \in Items(toHarness) /\ Head(toHarness).type = "welcome"
          /\ client' \in {"flush", "up"} /\ UNCHANGED <<conn, serve>>
      BY <1>11, HarnessItems DEF OnWelcome, AfterResend
    <2>2. QED
      BY <2>1 DEF LinkInv
  <1>12. CASE Resend
    BY <1>12 DEF Resend, AfterResend, LinkInv
  <1>13. CASE OnDispatch \/ OnCancel \/ OnResultAck
    BY <1>13 DEF OnDispatch, OnCancel, OnResultAck, Arrives, LinkInv
  <1>14. ASSUME NEW j \in Job,
                StartJob(j) \/ RequestCancel(j) \/ Sweep(j) \/ Runner(j)
         PROVE  LinkInv'
    BY <1>1, <1>14 DEF StartJob, RequestCancel, Sweep, SweepExpire, SweepTimeout,
       SweepOffline, Runner, Finish, SendResult
  <1>15. ASSUME NEW t \in Tasks, Enqueue(t) \/ SendFails(t) PROVE LinkInv'
    BY <1>1, <1>15 DEF Enqueue, SendFails
  <1>16. CASE AbandonJob \/ CreateJob \/ CancelQueued \/ SweepLose \/ ReconcileRow \/ RecvAck
    BY <1>1, <1>16 DEF AbandonJob, CreateJob, CancelQueued, SweepLose, ReconcileRow, RecvAck
  <1>17. CASE UNCHANGED vars
    BY <1>1, <1>17 DEF vars
  <1>18. QED
    BY <1>2, <1>3, <1>4, <1>5, <1>6, <1>7, <1>8, <1>9, <1>10, <1>11, <1>12, <1>13,
       <1>14, <1>15, <1>16, <1>17
    DEF Next, Environment, PostHandler, Calls, Serve, Sweeper, Session, Tasks

\* The envelopes on the way to the harness about a job name one.
LEMMA ItemsPosted ==
  ASSUME TypeOK, NEW m \in Items(toHarness), m.type \in {"dispatch", "cancel"}
  PROVE  m \in Posted
  <1>1. m \in Posted \cup Welcome \cup BrokerAck
    BY DEF TypeOK, Items
  <1>2. QED
    BY <1>1 DEF Welcome, BrokerAck

\* Nothing is sent about a job that has no row.
LEMMA StartedStep ==
  ASSUME TypeOK, StartedInv, RowsLast, [Next]_vars
  PROVE  StartedInv'
  <1> USE DEF db, hub, wire, harness, session, bounds
  <1>a. StartedInv <=> TasksStarted /\ StoredStarted /\ SentStarted /\ RunsStarted
    BY DEF StartedInv
  <1>b. StartedInv' <=> TasksStarted' /\ StoredStarted' /\ SentStarted' /\ RunsStarted'
    BY DEF StartedInv
  <1>t. ASSUME NEW t \in Tasks,
               task'[t].pc \notin {"enqueue", "send"} \/ state'[task'[t].job] # "none",
               \A u \in Tasks \ {t} : task'[u] = task[u]
        PROVE  TasksStarted'
    <2>1. ASSUME NEW u \in Tasks \ {t}, task'[u].pc \in {"enqueue", "send"}
          PROVE  state'[task'[u].job] # "none"
      <3>1. task[u] \in Call /\ task'[u] = task[u] /\ state[task[u].job] # "none"
        BY <1>a, <1>t, <2>1, TaskType DEF TasksStarted
      <3>2. QED
        BY <3>1 DEF RowsLast, Call
    <2>2. QED
      BY <1>t, <2>1 DEF TasksStarted
  <1>u. ASSUME UNCHANGED task PROVE TasksStarted'
    <2>1. ASSUME NEW u \in Tasks, task[u].pc \in {"enqueue", "send"}
          PROVE  state'[task[u].job] # "none"
      <3>1. task[u] \in Call /\ state[task[u].job] # "none"
        BY <1>a, <2>1, TaskType DEF TasksStarted
      <3>2. QED
        BY <3>1 DEF RowsLast, Call
    <2>2. QED
      BY <1>u, <2>1 DEF TasksStarted
  <1>o. ASSUME outbox' \subseteq outbox, flush' \subseteq outbox \cup flush PROVE StoredStarted'
    <2>1. \A m \in outbox \cup flush : m.job \in Job
      BY DEF TypeOK, Posted
    <2>2. QED
      BY <1>a, <1>o, <2>1 DEF StoredStarted, RowsLast
  <1>s. ASSUME Items(toHarness') \subseteq Items(toHarness) PROVE SentStarted'
    <2>1. \A m \in Items(toHarness) : m.type \in {"dispatch", "cancel"} => m.job \in Job
      BY ItemsPosted DEF Posted
    <2>2. QED
      BY <1>a, <1>s, <2>1 DEF SentStarted, RowsLast
  <1>p. ASSUME NEW m \in Posted \cup Welcome \cup BrokerAck, Push(m),
               m.type \in {"dispatch", "cancel"} => state'[m.job] # "none"
        PROVE  SentStarted'
    <2>1. \A n \in Items(toHarness) : n.type \in {"dispatch", "cancel"} => n.job \in Job
      BY ItemsPosted DEF Posted
    <2>2. Items(toHarness') \subseteq Items(toHarness) \cup {m}
      BY <1>p, PushItems
    <2>3. QED
      BY <1>a, <1>p, <2>1, <2>2 DEF SentStarted, RowsLast
  <1>r. ASSUME \A j \in Job : run'[j] # "none" => run[j] # "none" PROVE RunsStarted'
    BY <1>a, <1>r DEF RunsStarted, RowsLast
  <1>1. CASE UNCHANGED <<task, outbox, flush, toHarness, run>>
    BY <1>1, <1>u, <1>o, <1>s, <1>r, <1>b
  <1>2. ASSUME NEW j \in Job, StartJob(j) PROVE StartedInv'
    <2>1. /\ task'["post"].pc \in {"insertQueued", "insertDispatched"}
          /\ task'["sweep"] = task["sweep"]
      BY <1>2 DEF StartJob, TypeOK, Tasks
    <2>2. TasksStarted'
      BY <1>t, <2>1 DEF Tasks
    <2>3. QED
      BY <1>2, <2>2, <1>o, <1>s, <1>r, <1>b DEF StartJob
  <1>3. ASSUME NEW j \in Job, RequestCancel(j) PROVE StartedInv'
    <2>1. /\ task'["post"].job = j /\ task'["sweep"] = task["sweep"]
          /\ state'[j] # "none"
      BY <1>3 DEF RequestCancel, TypeOK, Tasks, ActiveStates, Lifecycle!ActiveStates
    <2>2. TasksStarted'
      BY <1>t, <2>1 DEF Tasks
    <2>3. QED
      BY <1>3, <2>2, <1>o, <1>s, <1>r, <1>b DEF RequestCancel
  <1>4. CASE AbandonJob
    <2>1. task'["post"].pc = "idle" /\ task'["sweep"] = task["sweep"]
      BY <1>4 DEF AbandonJob, TypeOK, Tasks, Idle
    <2>2. TasksStarted'
      BY <1>t, <2>1 DEF Tasks
    <2>3. QED
      BY <1>4, <2>2, <1>o, <1>s, <1>r, <1>b DEF AbandonJob
  <1>5. CASE CreateJob
    <2>1. task["post"] \in Call
      BY <1>5, TaskType DEF CreateJob, Tasks
    <2>2. task'["post"].job = task["post"].job /\ task'["sweep"] = task["sweep"]
      BY <1>5, <2>1 DEF CreateJob, TypeOK, Tasks, Call
    <2>3. state'[task["post"].job] # "none"
      BY <1>5, <2>1 DEF CreateJob, TypeOK, Call
    <2>4. TasksStarted'
      BY <1>t, <2>2, <2>3 DEF Tasks
    <2>5. QED
      BY <1>5, <2>4, <1>o, <1>s, <1>r, <1>b DEF CreateJob
  <1>6. CASE CancelQueued
    <2>1. task'["post"].pc = "idle" /\ task'["sweep"] = task["sweep"]
      BY <1>6 DEF CancelQueued, TypeOK, Tasks, Idle
    <2>2. TasksStarted'
      BY <1>t, <2>1 DEF Tasks
    <2>3. QED
      BY <1>6, <2>2, <1>o, <1>s, <1>r, <1>b DEF CancelQueued
  <1>7. ASSUME NEW t \in Tasks, Enqueue(t) PROVE StartedInv'
    <2> DEFINE m == [type |-> task[t].type, id |-> nextID, job |-> task[t].job]
    <2>1. task[t] \in Call
      BY <1>7, TaskType DEF Enqueue
    <2>2. state'[task[t].job] # "none"
      BY <1>7, <1>a, <2>1 DEF Enqueue, TasksStarted, RowsLast, Call
    <2>3. /\ task'[t].job = task[t].job
          /\ \A u \in Tasks \ {t} : task'[u] = task[u]
      BY <1>7, <2>1 DEF Enqueue, TypeOK, Call
    <2>4. TasksStarted'
      BY <1>t, <2>2, <2>3
    <2>5. outbox' = outbox \cup {m} /\ flush' = flush
      BY <1>7 DEF Enqueue
    <2>6. \A n \in outbox \cup flush : n.job \in Job
      BY DEF TypeOK, Posted
    <2>7. m.job = task[t].job
      OBVIOUS
    <2> HIDE DEF m
    <2>8. StoredStarted'
      BY <1>a, <2>2, <2>5, <2>6, <2>7 DEF StoredStarted, RowsLast
    <2>9. QED
      BY <1>7, <2>4, <2>8, <1>s, <1>r, <1>b DEF Enqueue
  <1>8. ASSUME NEW t \in Tasks, Send(t) PROVE StartedInv'
    <2> DEFINE m == [type |-> task[t].type, id |-> task[t].id, job |-> task[t].job]
    <2>1. task[t] \in Call
      BY <1>8, TaskType DEF Send
    <2>2. state'[task[t].job] # "none"
      BY <1>8, <1>a, <2>1 DEF Send, TasksStarted, RowsLast, Call
    <2>3. task'[t].pc = "idle" /\ \A u \in Tasks \ {t} : task'[u] = task[u]
      BY <1>8 DEF Send, TypeOK, Idle
    <2>4. TasksStarted'
      BY <1>t, <2>3
    <2>5. m \in Posted /\ m.job = task[t].job
      BY <2>1 DEF Call, Posted
    <2>6. Push(m)
      BY <1>8 DEF Send
    <2> HIDE DEF m
    <2>7. SentStarted'
      BY <1>p, <2>2, <2>5, <2>6
    <2>8. QED
      BY <1>8, <2>4, <2>7, <1>o, <1>r, <1>b DEF Send
  <1>9. ASSUME NEW t \in Tasks, SendFails(t) PROVE StartedInv'
    <2>1. task'[t].pc = "idle" /\ \A u \in Tasks \ {t} : task'[u] = task[u]
      BY <1>9 DEF SendFails, TypeOK, Idle
    <2>2. TasksStarted'
      BY <1>t, <2>1
    <2>3. QED
      BY <1>9, <2>2, <1>o, <1>s, <1>r, <1>b DEF SendFails
  <1>10. ASSUME NEW j \in Job, SweepTimeout(j) \/ SweepOffline(j) PROVE StartedInv'
    <2>1. /\ task'["sweep"].job = j /\ task'["post"] = task["post"]
          /\ state'[j] # "none"
      BY <1>10 DEF SweepTimeout, SweepOffline, TypeOK, Tasks
    <2>2. TasksStarted'
      BY <1>t, <2>1 DEF Tasks
    <2>3. QED
      BY <1>10, <2>2, <1>o, <1>s, <1>r, <1>b DEF SweepTimeout, SweepOffline
  <1>11. CASE SweepLose
    <2>1. task'["sweep"].pc = "idle" /\ task'["post"] = task["post"]
      BY <1>11 DEF SweepLose, TypeOK, Tasks, Idle
    <2>2. TasksStarted'
      BY <1>t, <2>1 DEF Tasks
    <2>3. QED
      BY <1>11, <2>2, <1>o, <1>s, <1>r, <1>b DEF SweepLose
  <1>12. CASE SendWelcome
    <2>1. [type |-> "welcome", aborts |-> hello] \in Welcome
      BY DEF TypeOK, Welcome
    <2>2. SentStarted'
      BY <1>12, <1>p, <2>1 DEF SendWelcome
    <2>3. QED
      BY <1>12, <2>2, <1>u, <1>o, <1>r, <1>b DEF SendWelcome
  <1>13. CASE FlushNext
    <2>1. PICK m \in First(flush) : Push(m) /\ flush' = flush \ {m}
      BY <1>13 DEF FlushNext
    <2>2. m \in Posted /\ m \in flush
      BY <2>1 DEF First, TypeOK
    <2>3. state'[m.job] # "none"
      BY <1>a, <2>2 DEF StoredStarted, RowsLast, Posted
    <2>4. SentStarted'
      BY <1>p, <2>1, <2>2, <2>3
    <2>5. QED
      BY <1>13, <2>1, <2>4, <1>u, <1>o, <1>r, <1>b DEF FlushNext
  <1>14. CASE RecvResult
    <2>1. Head(toBroker) \in Result
      BY <1>14, ReadBroker DEF RecvResult, Result, JobAck
    <2>2. [type |-> "ack", ref |-> Head(toBroker).id] \in BrokerAck
      BY <2>1 DEF Result, BrokerAck
    <2>3. SentStarted'
      BY <1>14, <1>p, <2>2 DEF RecvResult
    <2>4. QED
      BY <1>14, <2>3, <1>u, <1>o, <1>r, <1>b DEF RecvResult
  <1>15. CASE Register \/ FlushOutbox \/ RecvAck
    <2>1. outbox' \subseteq outbox /\ flush' \subseteq outbox \cup flush
      BY <1>15 DEF Register, FlushOutbox, RecvAck, ReadsAck, AckOutbox
    <2>2. QED
      BY <1>15, <2>1, <1>u, <1>o, <1>s, <1>r, <1>b DEF Register, FlushOutbox, RecvAck
  <1>16. CASE HubDrop \/ HubNotice
    BY <1>16, <1>u, <1>o, <1>s, <1>r, <1>b DEF HubDrop, HubNotice, Deregister
  <1>17. CASE BrokerCrash
    <2>1. TasksStarted'
      BY <1>17 DEF BrokerCrash, TasksStarted, Idle
    <2>2. outbox' \subseteq outbox /\ flush' = {}
      BY <1>17 DEF BrokerCrash, AckOutbox, Deregister
    <2>3. QED
      BY <1>17, <2>1, <2>2, <1>o, <1>s, <1>r, <1>b DEF BrokerCrash, Deregister
  <1>18. CASE ClientDrop \/ ClientNotice \/ UnexpectedFirst \/ HarnessCrash
    <2>1. Items(toHarness') \subseteq Items(toHarness)
      BY <1>18, ItemsEmpty DEF ClientDrop, ClientNotice, UnexpectedFirst, HarnessCrash,
         EndSession
    <2>2. \A j \in Job : run'[j] # "none" => run[j] # "none"
      BY <1>18 DEF ClientDrop, ClientNotice, UnexpectedFirst, HarnessCrash
    <2>3. QED
      BY <1>18, <2>1, <2>2, <1>u, <1>o, <1>s, <1>r, <1>b DEF ClientDrop, ClientNotice,
         UnexpectedFirst, HarnessCrash
  <1>19. CASE OnWelcome
    <2>1. \A j \in Job : run'[j] # "none" => run[j] # "none"
      BY <1>19 DEF OnWelcome
    <2>2. QED
      BY <1>19, <2>1, HarnessItems, <1>u, <1>o, <1>s, <1>r, <1>b DEF OnWelcome
  <1>20. CASE OnDispatch
    <2>1. Head(toHarness) \in Items(toHarness) /\ Head(toHarness).type = "dispatch"
      BY <1>20, HarnessItems DEF OnDispatch, Arrives
    <2>2. Head(toHarness).job \in Job /\ state[Head(toHarness).job] # "none"
      BY <1>a, <2>1, ItemsPosted DEF Posted, SentStarted
    <2>3. \A k \in Job \ {Head(toHarness).job} : run'[k] = run[k]
      BY <1>20, <2>2 DEF OnDispatch, TypeOK
    <2>4. RunsStarted'
      BY <1>a, <2>2, <2>3 DEF RunsStarted, RowsLast
    <2>5. QED
      BY <1>20, <2>4, HarnessItems, <1>u, <1>o, <1>s, <1>b DEF OnDispatch, Arrives, Reply
  <1>21. CASE OnCancel
    <2>1. Head(toHarness) \in Items(toHarness) /\ Head(toHarness).type = "cancel"
      BY <1>21, HarnessItems DEF OnCancel, Arrives
    <2>2. Head(toHarness).job \in Job
      BY <2>1, ItemsPosted DEF Posted
    <2>3. \A k \in Job : run'[k] # "none" => run[k] # "none"
      BY <1>21, <2>2 DEF OnCancel, TypeOK
    <2>4. QED
      BY <1>21, <2>3, HarnessItems, <1>u, <1>o, <1>s, <1>r, <1>b DEF OnCancel, Arrives, Reply
  <1>22. CASE OnResultAck
    BY <1>22, HarnessItems, <1>u, <1>o, <1>s, <1>r, <1>b DEF OnResultAck, Arrives
  <1>23. ASSUME NEW j \in Job, Runner(j) PROVE StartedInv'
    <2>1. \A k \in Job : run'[k] # "none" => run[k] # "none"
      BY <1>23 DEF Runner, Finish, SendResult, TypeOK
    <2>2. QED
      BY <1>23, <2>1, <1>u, <1>o, <1>s, <1>r, <1>b DEF Runner, Finish, SendResult
  <1>24. CASE OnHello \/ ReconcileRow \/ Dial \/ Resend
    BY <1>1, <1>24 DEF OnHello, ReconcileRow, Dial, Resend
  <1>25. ASSUME NEW j \in Job, SweepExpire(j) PROVE StartedInv'
    BY <1>1, <1>25 DEF SweepExpire
  <1>26. CASE UNCHANGED vars
    BY <1>1, <1>26 DEF vars
  <1>27. QED
    BY <1>2, <1>3, <1>4, <1>5, <1>6, <1>7, <1>8, <1>9, <1>10, <1>11, <1>12, <1>13, <1>14,
       <1>15, <1>16, <1>17, <1>18, <1>19, <1>20, <1>21, <1>22, <1>23, <1>24, <1>25, <1>26
    DEF Next, Environment, PostHandler, Calls, Serve, Sweep, Sweeper, Session, Tasks

LEMMA ResultsType ==
  ASSUME TypeOK
  PROVE  Results \subseteq Result
  <1>1. \A m \in Items(toBroker) : m \in Result \cup JobAck
    BY DEF TypeOK, Items
  <1>2. \A m \in JobAck : m.type # "result"
    BY DEF JobAck
  <1>3. QED
    BY <1>1, <1>2 DEF Results, TypeOK

\* A copy of a result is one of a result that is stored or answered.
LEMMA StoredOrAnswered ==
  ASSUME TypeOK, ResultInv, PoolInv, NEW r \in Results
  PROVE  r \in houtbox \/ (r \in delivered /\ state[r.job] \in Terminal)
  <1>1. r.id \in 1 .. nextRes - 1
    <2>1. r.id \in Nat /\ nextRes \in Nat
      BY ResultsType DEF TypeOK, Result
    <2>2. r.id >= 1 /\ r.id < nextRes
      BY DEF PoolInv
    <2>3. QED
      BY <2>1, <2>2
  <1>2. PICK s \in houtbox \cup delivered : s.id = r.id
    BY <1>1 DEF ResultInv, ResultNotLost
  <1>3. s = r
    BY <1>2 DEF PoolInv, Results
  <1>4. QED
    BY <1>2, <1>3 DEF PoolInv

\* Copies are made of results there are, but for the one finish makes; what
\* OnResult answers is over.
LEMMA PoolStep ==
  ASSUME TypeOK, StartedInv, PoolInv, RowsLast, [Next]_vars
  PROVE  PoolInv'
  <1> USE DEF db, hub, wire, harness, session, bounds
  <1>t. \A r \in Results : r.job \in Job
    BY ResultsType DEF Result
  <1>d. ASSUME UNCHANGED delivered PROVE \A d \in delivered' : state'[d.job] \in Terminal
    BY <1>d, <1>t DEF PoolInv, RowsLast, Results
  <1>f. ASSUME Results' \subseteq Results, UNCHANGED nextRes,
               \A d \in delivered' : state'[d.job] \in Terminal
        PROVE  PoolInv'
    BY <1>f, <1>t DEF PoolInv, RowsLast
  <1>s. ASSUME houtbox' \subseteq houtbox, sending' \subseteq sending,
               hflush' \subseteq houtbox \cup hflush,
               UNCHANGED <<delivered, nextRes>>,
               \A m \in Items(toBroker') : m.type = "result" => m \in Results
        PROVE  PoolInv'
    <2>1. Results' \subseteq Results
      BY <1>s DEF Results
    <2>2. QED
      BY <1>s, <1>d, <1>f, <2>1
  <1>i. \A m \in Items(toBroker) : m.type = "result" => m \in Results
    BY DEF Results
  <1>1. CASE UNCHANGED <<houtbox, sending, hflush, delivered, nextRes, toBroker>>
    BY <1>1, <1>s, <1>i
  <1>2. CASE toBroker' = <<>> /\ UNCHANGED <<houtbox, sending, hflush, delivered, nextRes>>
    BY <1>2, <1>s, ItemsEmpty
  <1>3. CASE RecvAck
    <2>1. Items(toBroker') \subseteq Items(toBroker)
      BY <1>3, BrokerItems DEF RecvAck, ReadsAck, AckOutbox
    <2>2. QED
      BY <1>3, <1>s, <1>i, <2>1 DEF RecvAck
  <1>4. CASE RecvResult
    <2> DEFINE r == Head(toBroker)
    <2>1. r \in Result /\ r.type = "result"
      BY <1>4, ReadBroker DEF RecvResult, Result, JobAck
    <2>2. r \in Results /\ Items(toBroker') \subseteq Items(toBroker)
      BY <1>4, <1>i, <2>1, BrokerItems DEF RecvResult
    <2>3. /\ state' = OnResult(r.job, r.status) /\ delivered' = delivered \cup {r}
          /\ UNCHANGED <<houtbox, sending, hflush, nextRes>>
      BY <1>4 DEF RecvResult
    <2>4. r.job \in Job /\ r.status \in Status
      BY <2>1 DEF Result
    <2> HIDE DEF r
    <2>5. state[r.job] \in JobState
      BY <2>2, <2>4 DEF PoolInv, TypeOK
    <2>6. state'[r.job] \in Terminal
      BY <2>3, <2>4, <2>5 DEF OnResult, TransitionJob, TypeOK, Terminal, Status, JobState,
         ActiveStates, Lifecycle!Terminal, Lifecycle!Outcome, Lifecycle!JobState,
         Lifecycle!ActiveStates
    <2>7. \A d \in delivered' : state'[d.job] \in Terminal
      <3>1. \A d \in delivered : d.job \in Job /\ state[d.job] \in Terminal
        BY DEF PoolInv, TypeOK, Result
      <3>2. QED
        BY <2>3, <2>6, <3>1 DEF RowsLast
    <2>8. Results' \subseteq Results
      BY <2>2, <2>3 DEF Results
    <2>9. QED
      BY <1>f, <2>3, <2>7, <2>8
  <1>5. CASE Resend
    <2>1. PICK r \in First(hflush) : Upload(r) /\ hflush' = hflush \ {r}
      BY <1>5 DEF Resend
    <2>2. r \in Result /\ r \in Results
      BY <2>1 DEF First, TypeOK, Results
    <2>3. \A m \in Items(toBroker') : m.type = "result" => m \in Results
      BY <1>i, <2>1, <2>2, UploadItems
    <2>4. QED
      BY <1>5, <1>s, <2>1, <2>3 DEF Resend
  <1>6. CASE OnDispatch \/ OnCancel
    <2>1. PICK ok \in BOOLEAN : Reply(Head(toHarness), ok)
      BY <1>6 DEF OnDispatch, OnCancel, Accepts
    <2> DEFINE a == [type |-> "ack", ref |-> Head(toHarness).id,
                     job |-> Head(toHarness).job, ok |-> ok]
    <2>2. Head(toHarness) \in Posted
      BY <1>6, ReadHarness DEF OnDispatch, OnCancel, Arrives, Posted, Welcome, BrokerAck
    <2>3. a \in JobAck /\ a.type # "result"
      BY <2>2 DEF JobAck, Posted
    <2>4. Upload(a)
      BY <2>1 DEF Reply
    <2> HIDE DEF a
    <2>5. \A m \in Items(toBroker') : m.type = "result" => m \in Results
      BY <1>i, <2>3, <2>4, UploadItems
    <2>6. QED
      BY <1>6, <1>s, <2>5 DEF OnDispatch, OnCancel
  <1>7. CASE OnWelcome
    BY <1>7, <1>s, <1>i DEF OnWelcome
  <1>8. CASE OnResultAck
    BY <1>8, <1>s, <1>i DEF OnResultAck
  <1>9. ASSUME NEW j \in Job, Finish(j) PROVE PoolInv'
    <2>1. PICK r : /\ r.id = nextRes /\ r.job = j
                   /\ houtbox' = houtbox \cup {r} /\ sending' = sending \cup {r}
      BY <1>9 DEF Finish
    <2>2. /\ run[j] # "none" /\ nextRes' = nextRes + 1
          /\ UNCHANGED <<hflush, delivered, toBroker>>
      BY <1>9 DEF Finish
    <2>3. Results' \subseteq Results \cup {r}
      BY <2>1, <2>2 DEF Results
    <2>4. state'[r.job] # "none"
      BY <2>1, <2>2 DEF StartedInv, RunsStarted, RowsLast
    <2>5. /\ nextRes \in Nat /\ nextRes >= 1
          /\ \A s \in Results : s.id \in Nat /\ s.id >= 1 /\ s.id < nextRes /\ state'[s.job] # "none"
      BY <1>t, ResultsType DEF PoolInv, RowsLast, TypeOK, Result
    <2>6. nextRes' >= 1 /\ \A s \in Results' : s.id >= 1 /\ s.id < nextRes' /\ state'[s.job] # "none"
      BY <2>1, <2>2, <2>3, <2>4, <2>5
    <2>7. \A s, u \in Results' : s.id = u.id => s = u
      <3>1. \A s \in Results : s.id # r.id
        BY <2>1, <2>5
      <3>2. QED
        BY <2>3, <3>1 DEF PoolInv
    <2>8. QED
      BY <1>d, <2>2, <2>6, <2>7 DEF PoolInv
  <1>10. ASSUME NEW j \in Job, SendResult(j) PROVE PoolInv'
    <2>1. PICK r \in sending : Upload(r) /\ sending' = sending \ {r}
      BY <1>10 DEF SendResult
    <2>2. r \in Result /\ r \in Results
      BY <2>1 DEF TypeOK, Results
    <2>3. \A m \in Items(toBroker') : m.type = "result" => m \in Results
      BY <1>i, <2>1, <2>2, UploadItems
    <2>4. QED
      BY <1>10, <1>s, <2>1, <2>3 DEF SendResult
  <1>11. CASE ClientDrop \/ ClientNotice \/ UnexpectedFirst \/ HarnessCrash
    BY <1>11, <1>s, <1>i DEF ClientDrop, ClientNotice, UnexpectedFirst, HarnessCrash, EndSession
  <1>12. CASE Register \/ HubDrop \/ HubNotice \/ BrokerCrash
    BY <1>2, <1>12 DEF Register, HubDrop, HubNotice, BrokerCrash, Deregister
  <1>13. ASSUME NEW j \in Job, StartJob(j) \/ RequestCancel(j) \/ Sweep(j) PROVE PoolInv'
    BY <1>1, <1>13 DEF StartJob, RequestCancel, Sweep, SweepExpire, SweepTimeout, SweepOffline
  <1>14. ASSUME NEW t \in Tasks, Calls(t) PROVE PoolInv'
    BY <1>1, <1>14 DEF Calls, Enqueue, Send, SendFails
  <1>15. CASE \/ AbandonJob \/ CreateJob \/ CancelQueued \/ SweepLose \/ OnHello \/ ReconcileRow
              \/ SendWelcome \/ FlushOutbox \/ FlushNext \/ Dial
    BY <1>1, <1>15 DEF AbandonJob, CreateJob, CancelQueued, SweepLose, OnHello, ReconcileRow,
       SendWelcome, FlushOutbox, FlushNext, Dial
  <1>16. CASE UNCHANGED vars
    BY <1>1, <1>16 DEF vars
  <1>17. QED
    BY <1>3, <1>4, <1>5, <1>6, <1>7, <1>8, <1>9, <1>10, <1>11, <1>12, <1>13, <1>14, <1>15, <1>16
    DEF Next, Environment, PostHandler, Serve, Sweeper, Session, Runner, Tasks

\* A job has its owner until the harness crashes: it leaves h.jobs with its
\* result in the file, and the file drops it when the job is over.
LEMMA OwnedStep ==
  ASSUME TypeOK, ResultInv, PoolInv, RowsLast, [Next]_vars, ~HarnessCrash,
         NEW k \in Job, Owned(k)
  PROVE  Owned(k)'
  <1> USE DEF db, hub, wire, harness, session, bounds
  <1>1. CASE state[k] \in Terminal
    BY <1>1 DEF Owned, RowsLast
  <1>2. CASE (run[k] # "none" => run'[k] # "none") /\ houtbox \subseteq houtbox'
    BY <1>1, <1>2 DEF Owned
  <1>3. CASE OnWelcome
    BY <1>2, <1>3 DEF OnWelcome
  <1>4. CASE OnDispatch \/ OnCancel
    <2>1. Head(toHarness) \in Posted
      BY <1>4, ReadHarness DEF OnDispatch, OnCancel, Arrives, Posted, Welcome, BrokerAck
    <2>2. run[k] # "none" => run'[k] # "none"
      BY <1>4, <2>1 DEF OnDispatch, OnCancel, TypeOK, Posted
    <2>3. QED
      BY <1>2, <1>4, <2>2 DEF OnDispatch, OnCancel
  <1>5. CASE OnResultAck
    <2>1. /\ toHarness # <<>> /\ Head(toHarness).type = "ack"
          /\ houtbox' = {r \in houtbox : r.id # Head(toHarness).ref} /\ UNCHANGED run
      BY <1>5 DEF OnResultAck, Arrives
    <2>2. PICK d \in delivered : d.id = Head(toHarness).ref
      BY <2>1 DEF ResultInv, Answered, TypeOK
    <2>3. \A r \in houtbox : r \in houtbox' \/ r = d
      BY <2>1, <2>2 DEF PoolInv, Results
    <2>4. state[d.job] \in Terminal
      BY <2>2 DEF PoolInv
    <2>5. CASE run[k] # "none"
      BY <2>1, <2>5 DEF Owned
    <2>6. ASSUME NEW r \in houtbox, r.job = k PROVE Owned(k)'
      BY <1>1, <2>3, <2>4, <2>6 DEF Owned
    <2>7. QED
      BY <1>1, <2>5, <2>6 DEF Owned
  <1>6. ASSUME NEW j \in Job, Finish(j) PROVE Owned(k)'
    BY <1>2, <1>6 DEF Finish, TypeOK
  <1>7. ASSUME NEW j \in Job, SendResult(j) PROVE Owned(k)'
    <2>1. PICK r \in sending : r.job = j
      BY <1>7 DEF SendResult
    <2>2. r \in houtbox \/ state[j] \in Terminal
      BY <2>1, StoredOrAnswered DEF Results
    <2>3. UNCHANGED houtbox /\ \A i \in Job \ {j} : run'[i] = run[i]
      BY <1>7 DEF SendResult, TypeOK
    <2>4. QED
      BY <1>1, <1>2, <2>1, <2>2, <2>3 DEF Owned
  <1>8. CASE UNCHANGED <<run, houtbox>>
    BY <1>2, <1>8
  <1>9. ASSUME NEW j \in Job, StartJob(j) \/ RequestCancel(j) \/ Sweep(j) PROVE Owned(k)'
    BY <1>8, <1>9 DEF StartJob, RequestCancel, Sweep, SweepExpire, SweepTimeout, SweepOffline
  <1>10. ASSUME NEW t \in Tasks, Calls(t) PROVE Owned(k)'
    BY <1>8, <1>10 DEF Calls, Enqueue, Send, SendFails
  <1>11. CASE Serve \/ HubDrop \/ HubNotice \/ BrokerCrash
    BY <1>8, <1>11 DEF Serve, Register, OnHello, ReconcileRow, SendWelcome, FlushOutbox,
       FlushNext, RecvAck, RecvResult, HubDrop, HubNotice, BrokerCrash
  <1>12. CASE \/ AbandonJob \/ CreateJob \/ CancelQueued \/ SweepLose
              \/ Dial \/ Resend \/ UnexpectedFirst \/ ClientDrop \/ ClientNotice
    BY <1>8, <1>12 DEF AbandonJob, CreateJob, CancelQueued, SweepLose, Dial, Resend,
       UnexpectedFirst, ClientDrop, ClientNotice
  <1>13. CASE UNCHANGED vars
    BY <1>8, <1>13 DEF vars
  <1>14. QED
    BY <1>3, <1>4, <1>5, <1>6, <1>7, <1>9, <1>10, <1>11, <1>12, <1>13
    DEF Next, Environment, PostHandler, Sweeper, Session, Runner, Tasks

\* A compare-and-set to another state makes no job run.
LEMMA NoneStarts ==
  ASSUME TypeOK, NEW j \in Job, NEW from, NEW to, to # "running",
         state' = TransitionJob(j, from, to)
  PROVE  \A k \in Job : state'[k] = "running" => state[k] = "running"
  BY DEF TypeOK, TransitionJob

\* The acks on the way to the broker name a job.
LEMMA ItemsAcks ==
  ASSUME TypeOK, NEW m \in Items(toBroker), m.type = "ack"
  PROVE  m.job \in Job /\ m.ok \in BOOLEAN
  <1>1. m \in Result \cup JobAck
    BY DEF TypeOK, Items
  <1>2. QED
    BY <1>1 DEF Result, JobAck

\* The broker comes to believe that a job runs only when the harness answers
\* for it.
LEMMA ClaimStep ==
  ASSUME TypeOK, ResultInv, PoolInv, ClaimInv, RowsLast, [Next]_vars
  PROVE  ClaimInv'
  <1> USE DEF db, hub, wire, harness, session, bounds
  <1>c. ASSUME conn' # "live", dialed' = {} PROVE ClaimInv'
    BY <1>c DEF ClaimInv, DialedOwned, AcksOwned, HelloOwned, TodoOwned, RunningOwned
  <1>0. CASE HarnessCrash
    BY <1>0, <1>c DEF HarnessCrash, EndSession
  <1> SUFFICES ASSUME ~HarnessCrash PROVE ClaimInv'
    BY <1>0
  <1>o. \A k \in Job : Owned(k) => Owned(k)'
    BY OwnedStep
  <1>d. ASSUME dialed' \subseteq dialed PROVE DialedOwned'
    BY <1>d, <1>o DEF ClaimInv, DialedOwned, TypeOK
  <1>k. ASSUME conn' = conn,
               \A m \in Items(toBroker') :
                 m.type = "ack" /\ m.ok => m \in Items(toBroker) \/ Owned(m.job)'
        PROVE  AcksOwned'
    BY <1>k, <1>o, ItemsAcks DEF ClaimInv, AcksOwned
  <1>h. ASSUME UNCHANGED <<conn, serve, hello>> PROVE HelloOwned'
    BY <1>h, <1>o DEF ClaimInv, HelloOwned, TypeOK
  <1>w. ASSUME UNCHANGED <<conn, serve, todo>> PROVE TodoOwned'
    <2>1. \A w \in todo : w.job \in Job
      BY DEF TypeOK, Write
    <2>2. QED
      BY <1>w, <1>o, <2>1 DEF ClaimInv, TodoOwned
  <1>r. ASSUME UNCHANGED <<conn, serve, todo>>,
               \A k \in Job : state'[k] = "running" => state[k] = "running" \/ Owned(k)'
        PROVE  RunningOwned'
    BY <1>r, <1>o DEF ClaimInv, RunningOwned
  <1>1. ASSUME UNCHANGED <<conn, serve, hello, todo, toBroker, dialed>>,
               \A k \in Job : state'[k] = "running" => state[k] = "running"
        PROVE  ClaimInv'
    <2>1. AcksOwned'
      BY <1>1, <1>k
    <2>2. QED
      BY <1>1, <1>d, <1>h, <1>w, <1>r, <2>1 DEF ClaimInv
  <1>2. CASE UNCHANGED <<state, conn, serve, hello, todo, toBroker, dialed>>
    BY <1>1, <1>2
  <1>3. CASE CreateJob
    <2>1. task["post"] \in Call
      BY <1>3, TaskType DEF CreateJob, Tasks
    <2>2. \A k \in Job : state'[k] = "running" => state[k] = "running"
      BY <1>3, <2>1 DEF CreateJob, TypeOK, Call
    <2>3. QED
      BY <1>1, <1>3, <2>2 DEF CreateJob
  <1>4. CASE CancelQueued
    <2>1. task["post"] \in Call
      BY <1>4, TaskType DEF CancelQueued, Tasks
    <2>2. \A k \in Job : state'[k] = "running" => state[k] = "running"
      BY <1>4, <2>1, NoneStarts DEF CancelQueued, Call
    <2>3. QED
      BY <1>1, <1>4, <2>2 DEF CancelQueued
  <1>5. ASSUME NEW t \in Tasks, SendFails(t) PROVE ClaimInv'
    <2>1. task[t] \in Call
      BY <1>5, TaskType DEF SendFails
    <2>2. \A k \in Job : state'[k] = "running" => state[k] = "running"
      BY <1>5, <2>1, NoneStarts DEF SendFails, fail, Call
    <2>3. QED
      BY <1>1, <1>5, <2>2 DEF SendFails
  <1>6. ASSUME NEW j \in Job, SweepExpire(j) PROVE ClaimInv'
    <2>1. \A k \in Job : state'[k] = "running" => state[k] = "running"
      BY <1>6, NoneStarts DEF SweepExpire
    <2>2. QED
      BY <1>1, <1>6, <2>1 DEF SweepExpire
  <1>7. CASE SweepLose
    <2>1. task["sweep"] \in Call
      BY <1>7, TaskType DEF SweepLose, Tasks
    <2>2. \A k \in Job : state'[k] = "running" => state[k] = "running"
      BY <1>7, <2>1, NoneStarts DEF SweepLose, Call
    <2>3. QED
      BY <1>1, <1>7, <2>2 DEF SweepLose
  <1>8. CASE Register
    <2>1. \A j \in hello' : Owned(j)'
      BY <1>8, <1>o DEF Register, ClaimInv, DialedOwned, TypeOK
    <2>2. serve' = "hello" /\ Items(toBroker') = {} /\ dialed' = {}
      BY <1>8, ItemsEmpty DEF Register
    <2>3. QED
      BY <2>1, <2>2 DEF ClaimInv, DialedOwned, AcksOwned, HelloOwned, TodoOwned, RunningOwned
  <1>9. CASE OnHello
    <2>1. /\ serve = "hello" /\ serve' = "reconcile"
          /\ UNCHANGED <<state, conn, dialed, toBroker>>
          /\ todo' = UNION {{[job |-> j, to |-> s] : s \in Reconcile(j)} : j \in Job}
      BY <1>9 DEF OnHello
    <2>2. ASSUME NEW w \in todo', w.to = "running" PROVE w.job \in hello
      <3>1. PICK j \in Job : \E s \in Reconcile(j) : w = [job |-> j, to |-> s]
        BY <2>1, <2>2
      <3>2. "running" \in Reconcile(j) /\ w.job = j
        BY <2>2, <3>1
      <3>3. QED
        BY <3>2 DEF Reconcile
    <2>3. ASSUME NEW j \in Job, state[j] = "running", j \notin hello
          PROVE  [job |-> j, to |-> "failed"] \in todo'
      <3>1. "failed" \in Reconcile(j)
        BY <2>3 DEF Reconcile
      <3>2. QED
        BY <2>1, <3>1
    <2>4. conn = "live" => \A j \in hello : Owned(j)'
      BY <2>1, <1>o DEF ClaimInv, HelloOwned, TypeOK
    <2>5. TodoOwned'
      BY <2>1, <2>2, <2>4 DEF TodoOwned
    <2>6. RunningOwned'
      BY <2>1, <2>3, <2>4 DEF RunningOwned
    <2>7. HelloOwned'
      BY <2>1 DEF HelloOwned
    <2>8. AcksOwned'
      BY <2>1, <1>k
    <2>9. QED
      BY <2>1, <1>d, <2>5, <2>6, <2>7, <2>8 DEF ClaimInv
  <1>10. CASE ReconcileRow
    <2>1. PICK w \in todo : /\ state' = TransitionJob(w.job, Writable(w.to), w.to)
                            /\ todo' = todo \ {w}
      BY <1>10 DEF ReconcileRow
    <2>2. serve = "reconcile" /\ UNCHANGED <<conn, serve, hello, dialed, toBroker>>
      BY <1>10 DEF ReconcileRow
    <2>3. w.job \in Job /\ w.to \in {"running", "failed", "dispatched"}
      BY <2>1 DEF TypeOK, Write
    <2>4. \A v \in todo : v.job \in Job
      BY DEF TypeOK, Write
    <2>5. TodoOwned'
      BY <2>1, <2>2, <2>4, <1>o DEF ClaimInv, TodoOwned
    <2>6. \A k \in Job \ {w.job} : state'[k] = state[k]
      BY <2>1, <2>3 DEF TransitionJob, TypeOK
    <2>7. ASSUME conn = "live", NEW k \in Job, state'[k] = "running"
          PROVE  Owned(k)' \/ [job |-> k, to |-> "failed"] \in todo'
      <3>1. CASE k = w.job /\ w.to = "running"
        BY <2>1, <2>2, <2>3, <2>7, <1>o, <3>1 DEF ClaimInv, TodoOwned
      <3>2. CASE k = w.job /\ w.to = "dispatched"
        <4>1. state[k] = "running"
          BY <2>1, <2>3, <2>7, <3>2 DEF TransitionJob, TypeOK
        <4>2. Owned(k) \/ [job |-> k, to |-> "failed"] \in todo
          BY <2>2, <2>7, <4>1 DEF ClaimInv, RunningOwned
        <4>3. QED
          BY <2>1, <3>2, <4>2, <1>o
      <3>3. CASE k = w.job /\ w.to = "failed"
        BY <2>1, <2>3, <2>7, <3>3 DEF TransitionJob, TypeOK, Writable, ActiveStates,
           Lifecycle!ActiveStates
      <3>4. CASE k # w.job
        <4>1. Owned(k) \/ [job |-> k, to |-> "failed"] \in todo
          BY <2>2, <2>6, <2>7, <3>4 DEF ClaimInv, RunningOwned
        <4>2. QED
          BY <2>1, <3>4, <4>1, <1>o
      <3>5. QED
        BY <2>3, <3>1, <3>2, <3>3, <3>4
    <2>8. RunningOwned'
      BY <2>2, <2>7 DEF RunningOwned
    <2>9. AcksOwned'
      BY <2>2, <1>k
    <2>10. QED
      BY <2>2, <2>5, <2>8, <2>9, <1>d, <1>h DEF ClaimInv
  <1>11. CASE SendWelcome
    <2>1. /\ serve = "reconcile" /\ todo = {} /\ serve' = "welcomed"
          /\ UNCHANGED <<state, conn, dialed, toBroker>>
      BY <1>11 DEF SendWelcome
    <2>2. conn = "live" => \A j \in Job : state[j] = "running" => Owned(j)'
      BY <2>1, <1>o DEF ClaimInv, RunningOwned
    <2>3. RunningOwned' /\ HelloOwned' /\ TodoOwned'
      BY <2>1, <2>2 DEF RunningOwned, HelloOwned, TodoOwned
    <2>4. AcksOwned'
      BY <2>1, <1>k
    <2>5. QED
      BY <2>1, <2>3, <2>4, <1>d DEF ClaimInv
  <1>12. CASE FlushOutbox \/ FlushNext
    <2>1. /\ serve \notin {"hello", "reconcile"} /\ serve' \notin {"hello", "reconcile"}
          /\ UNCHANGED <<state, conn, dialed, toBroker>>
      BY <1>12 DEF FlushOutbox, FlushNext, AfterFlush
    <2>2. conn = "live" => \A j \in Job : state[j] = "running" => Owned(j)'
      BY <2>1, <1>o DEF ClaimInv, RunningOwned
    <2>3. RunningOwned' /\ HelloOwned' /\ TodoOwned'
      BY <2>1, <2>2 DEF RunningOwned, HelloOwned, TodoOwned
    <2>4. AcksOwned'
      BY <2>1, <1>k
    <2>5. QED
      BY <2>1, <2>3, <2>4, <1>d DEF ClaimInv
  <1>13. CASE RecvAck
    <2> DEFINE a == Head(toBroker)
    <2>1. a \in Items(toBroker) /\ a.type = "ack" /\ Items(toBroker') \subseteq Items(toBroker)
      BY <1>13, BrokerItems DEF RecvAck, ReadsAck, AckOutbox
    <2>2. state' = OnAck(a.job, a.ok) /\ UNCHANGED <<conn, serve, hello, todo, dialed>>
      BY <1>13 DEF RecvAck
    <2> HIDE DEF a
    <2>3. a.job \in Job /\ a.ok \in BOOLEAN
      BY <2>1, ItemsAcks
    <2>4. ASSUME conn = "live", NEW k \in Job, state'[k] = "running"
          PROVE  state[k] = "running" \/ Owned(k)'
      <3>1. CASE k = a.job /\ a.ok
        BY <2>1, <2>3, <2>4, <3>1, <1>o DEF ClaimInv, AcksOwned
      <3>2. CASE ~(k = a.job /\ a.ok)
        BY <2>2, <2>3, <2>4, <3>2 DEF OnAck, TransitionJob, TypeOK
      <3>3. QED
        BY <3>1, <3>2
    <2>5. RunningOwned'
      BY <2>2, <2>4, <1>o DEF ClaimInv, RunningOwned
    <2>6. AcksOwned'
      BY <2>1, <2>2, <1>k
    <2>7. QED
      BY <2>2, <2>5, <2>6, <1>d, <1>h, <1>w DEF ClaimInv
  <1>14. CASE RecvResult
    <2>1. Head(toBroker) \in Result
      BY <1>14, ReadBroker DEF RecvResult, Result, JobAck
    <2>2. /\ Items(toBroker') \subseteq Items(toBroker)
          /\ UNCHANGED <<conn, serve, hello, todo, dialed>>
      BY <1>14, BrokerItems DEF RecvResult
    <2>3. \A k \in Job : state'[k] = "running" => state[k] = "running"
      <3>1. /\ Head(toBroker).job \in Job /\ Head(toBroker).status # "running"
            /\ state' = OnResult(Head(toBroker).job, Head(toBroker).status)
        BY <1>14, <2>1 DEF RecvResult, Result, Status, Lifecycle!Outcome
      <3>2. QED
        BY <3>1, NoneStarts DEF OnResult
    <2>4. AcksOwned'
      BY <2>2, <1>k
    <2>5. QED
      BY <2>2, <2>3, <2>4, <1>d, <1>h, <1>w, <1>r DEF ClaimInv
  <1>15. CASE HubDrop \/ HubNotice \/ BrokerCrash
    <2>1. conn' # "live" /\ dialed' \subseteq dialed
      BY <1>15 DEF HubDrop, HubNotice, BrokerCrash, Deregister
    <2>2. QED
      BY <2>1, <1>d DEF ClaimInv, AcksOwned, HelloOwned, TodoOwned, RunningOwned
  <1>16. CASE Dial
    <2>1. DialedOwned'
      BY <1>16 DEF Dial, DialedOwned, Owned
    <2>2. UNCHANGED <<state, conn, serve, hello, todo, toBroker>>
      BY <1>16 DEF Dial
    <2>3. AcksOwned'
      BY <2>2, <1>k
    <2>4. QED
      BY <2>1, <2>2, <2>3, <1>h, <1>w, <1>r DEF ClaimInv
  <1>17. CASE ClientDrop \/ ClientNotice \/ UnexpectedFirst
    BY <1>c, <1>17 DEF ClientDrop, ClientNotice, UnexpectedFirst, EndSession
  <1>u. ASSUME NEW m \in Result \cup JobAck, Upload(m),
               m.type = "ack" /\ m.ok => Owned(m.job)',
               UNCHANGED <<state, conn, serve, hello, todo, dialed>>
        PROVE  ClaimInv'
    <2>1. Items(toBroker') \subseteq Items(toBroker) \cup {m}
      BY <1>u, UploadItems
    <2>2. AcksOwned'
      BY <1>u, <1>k, <2>1
    <2>3. QED
      BY <1>u, <2>2, <1>d, <1>h, <1>w, <1>r DEF ClaimInv
  <1>18. CASE Resend
    <2>1. PICK r \in First(hflush) : Upload(r)
      BY <1>18 DEF Resend
    <2>2. r \in Result /\ r.type = "result"
      BY <2>1 DEF First, TypeOK, Result
    <2>3. QED
      BY <1>18, <1>u, <2>1, <2>2 DEF Resend
  <1>19. ASSUME NEW j \in Job, SendResult(j) PROVE ClaimInv'
    <2>1. PICK r \in sending : Upload(r)
      BY <1>19 DEF SendResult
    <2>2. r \in Result /\ r.type = "result"
      BY <2>1 DEF TypeOK, Result
    <2>3. QED
      BY <1>19, <1>u, <2>1, <2>2 DEF SendResult
  <1>20. CASE OnDispatch \/ OnCancel
    <2>1. PICK m \in Posted : m = Head(toHarness)
      BY <1>20, ReadHarness DEF OnDispatch, OnCancel, Arrives, Posted, Welcome, BrokerAck
    <2>2. m.job \in Job
      BY <2>1 DEF Posted
    <2>3. PICK ok \in BOOLEAN : Reply(m, ok) /\ (ok => run'[m.job] # "none")
      BY <1>20, <2>1, <2>2 DEF OnDispatch, OnCancel, Accepts, TypeOK
    <2>4. PICK a \in JobAck : /\ a = [type |-> "ack", ref |-> m.id, job |-> m.job, ok |-> ok]
                              /\ a.job = m.job /\ a.ok = ok
      <3>1. [type |-> "ack", ref |-> m.id, job |-> m.job, ok |-> ok] \in JobAck
        BY <2>1 DEF JobAck, Posted
      <3>2. QED
        BY <3>1
    <2>5. Upload(a)
      BY <2>3, <2>4 DEF Reply
    <2>6. UNCHANGED <<state, conn, serve, hello, todo, dialed>>
      BY <1>20 DEF OnDispatch, OnCancel
    <2>7. a.ok => Owned(a.job)'
      BY <2>3, <2>4 DEF Owned
    <2>8. QED
      BY <1>u, <2>5, <2>6, <2>7
  <1>21. CASE OnWelcome \/ OnResultAck \/ AbandonJob
    BY <1>2, <1>21 DEF OnWelcome, OnResultAck, AbandonJob
  <1>22. ASSUME NEW j \in Job,
                \/ StartJob(j) \/ RequestCancel(j) \/ SweepTimeout(j) \/ SweepOffline(j)
                \/ Finish(j)
         PROVE  ClaimInv'
    BY <1>2, <1>22 DEF StartJob, RequestCancel, SweepTimeout, SweepOffline, Finish
  <1>23. ASSUME NEW t \in Tasks, Enqueue(t) \/ Send(t) PROVE ClaimInv'
    BY <1>2, <1>23 DEF Enqueue, Send
  <1>24. CASE UNCHANGED vars
    BY <1>2, <1>24 DEF vars
  <1>25. QED
    BY <1>3, <1>4, <1>5, <1>6, <1>7, <1>8, <1>9, <1>10, <1>11, <1>12, <1>13, <1>14, <1>15,
       <1>16, <1>17, <1>18, <1>19, <1>20, <1>21, <1>22, <1>23, <1>24
    DEF Next, Environment, PostHandler, Calls, Serve, Sweep, Sweeper, Session, Runner, Tasks

\* Once a session is up on the registered connection, a job the broker
\* believes running is one the harness has in h.jobs or has a stored result
\* for, whatever broke or restarted before: the promise of hello and welcome.
THEOREM RunningIsOwned == Spec => []RunningHasOwner
<1>1. Init => LifecycleInv /\ OwnerInv
  <2>1. Init => Items(toHarness) = {} /\ Items(toBroker) = {}
    BY ItemsEmpty DEF Init
  <2>2. Init => LinkInv /\ PoolInv
    BY <2>1 DEF Init, LinkInv, PoolInv, Results
  <2>3. Init => StartedInv
    BY <2>1 DEF Init, StartedInv, TasksStarted, StoredStarted, SentStarted, RunsStarted, Idle
  <2>4. Init => ClaimInv
    BY <2>1 DEF Init, ClaimInv, DialedOwned, AcksOwned, HelloOwned, TodoOwned, RunningOwned
  <2>5. QED
    BY <2>2, <2>3, <2>4, LifecycleInit DEF OwnerInv
<1>2. TypeOK /\ TypeOK' /\ ResultInv /\ LifecycleInv /\ OwnerInv /\ [Next]_vars
        => LifecycleInv' /\ OwnerInv'
  BY LifecycleStep, LifecycleLasts, LinkStep, StartedStep, PoolStep, ClaimStep DEF OwnerInv
<1>3. TypeOK /\ OwnerInv => RunningHasOwner
  BY DEF OwnerInv, LinkInv, ClaimInv, RunningOwned, RunningHasOwner, Owned, Terminal,
         Lifecycle!Terminal
<1>4. QED
  BY <1>1, <1>2, <1>3, TypeCorrect, ResultsInductive, PTL DEF Spec
=============================================================================
