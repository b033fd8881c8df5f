--------------------------- MODULE RoutingProofs ---------------------------
(***************************************************************************)
(* Theorems about Routing, for any bots, posts, threads, deliveries, queue *)
(* sizes and faults.                                                       *)
(***************************************************************************)
EXTENDS Routing, FiniteSetTheorems, TLAPS

-----------------------------------------------------------------------------
(* The inductive invariant *)

\* p is in the sequence w, and p comes before q in it: IsWritten and Earlier
\* for any sequence.
In(w, p) == \E i \in DOMAIN w : w[i] = p

Before(w, p, q) == \E i, j \in DOMAIN w : i < j /\ w[i] = p /\ w[j] = q

Critical == {"route", "status", "insert"}

\* A post is written once.
WrittenOnce == \A i, j \in DOMAIN written : written[i] = written[j] => i = j

\* routingMu: who is past Lock holds it.
MutexInv == \A h \in Handler : stage[h] \in Critical <=> mu = h

\* What is on its way was written before, and a webhook reports only what it
\* is for.
DeliveryInv ==
  /\ \A h \in Handler : stage[h] # "none" => In(written, h[2])
  /\ \A b \in Bot : \A i \in DOMAIN stream[b] : In(written, stream[b][i])
  /\ \A b \in Bot : \A i \in DOMAIN events[b] : In(written, events[b][i])
  /\ \A i \in DOMAIN jobs : In(written, jobs[i].post)
  /\ \A b \in Bot, p \in Post : stage[<<b, p, "hook">>] # "none" => b \in Hooked[p]

\* What HandleBotPost found out about b and p before createJob's remote calls
\* still holds when the row is written.
Decided(b, p) ==
  /\ p \notin Foreign /\ Kind[p] = "task" /\ ~Duplicate(b, p)
  /\ <<b, p>> \in blind \/ ActiveJobs(b, p) = {}
  /\ b \in Names[p] \/ (Names[p] = {} /\ ThreadJobs(b, p) # {})

DecidedInv == \A h \in Handler : stage[h] \in {"status", "insert"} => Decided(h[1], h[2])

\* jobs_bot_trigger.
UniqueRows ==
  \A i, j \in DOMAIN jobs : jobs[i].bot = jobs[j].bot /\ jobs[i].post = jobs[j].post => i = j

\* Without faults no listener is replaced, and a status post has a row or is
\* about to get it.
StatusInv ==
  faults = 0 =>
    /\ listener = token /\ ended = {}
    /\ \A b \in Bot, p \in Post :
         statuses[b][p] # 0 =>
           /\ statuses[b][p] = 1
           /\ Duplicate(b, p) \/ \E v \in Via : stage[<<b, p, v>>] = "insert"

\* A bot's posts go through stream, channel and worker in the order they were
\* written, behind those that have become jobs.
OrderInv(b) ==
  /\ \A i, j \in DOMAIN stream[b] : i < j => Before(written, stream[b][i], stream[b][j])
  /\ \A i, j \in DOMAIN events[b] : i < j => Before(written, events[b][i], events[b][j])
  /\ \A i \in DOMAIN events[b], j \in DOMAIN stream[b] : Before(written, events[b][i], stream[b][j])

\* q is past the channel of b's listener: in the hands of its worker or of one
\* whose listener was replaced, or a job that no webhook can have started.
Past(b, q) ==
  \/ Handling(<<b, q, "ws">>)
  \/ Hooked[q] = {} /\ \E i \in DOMAIN jobs : jobs[i].bot = b /\ jobs[i].post = q

PastInv(b) ==
  \A q \in Post : Past(b, q) =>
    /\ \A i \in DOMAIN stream[b] : Before(written, q, stream[b][i])
    /\ \A i \in DOMAIN events[b] : Before(written, q, events[b][i])
    /\ \A p \in Post : Working(b, p) => p = q \/ Before(written, q, p)

WorkerInv(b) ==
  \A p, q \in Post : Working(b, p) /\ Working(b, q) => p = q

RoutingInv ==
  /\ TypeOK /\ WrittenOnce /\ MutexInv /\ DeliveryInv /\ DecidedInv
  /\ UniqueRows /\ StatusInv
  /\ \A b \in Bot : OrderInv(b) /\ PastInv(b) /\ WorkerInv(b)
  /\ OneActiveInThread /\ OnlyAddressed /\ CancelStopsEarlier

-----------------------------------------------------------------------------
(* Lemmas about handlers, sequences and decisions *)

Task == {p \in Post \ Foreign : Kind[p] = "task"}
Job == [bot : Bot, post : Task, active : BOOLEAN]

LEMMA Handlers ==
  /\ Free \notin Handler
  /\ \A b \in Bot, p \in Post, v \in Via : <<b, p, v>> \in Handler
  /\ \A h \in Handler : h[1] \in Bot /\ h[2] \in Post /\ h[3] \in Via /\ h = <<h[1], h[2], h[3]>>
  BY DEF Handler, Free, Via

LEMMA AppendIs ==
  ASSUME NEW S, NEW q \in Seq(S), NEW x \in S
  PROVE  /\ Append(q, x) \in Seq(S) /\ Len(Append(q, x)) = Len(q) + 1
         /\ DOMAIN Append(q, x) = DOMAIN q \cup {Len(q) + 1}
         /\ \A i \in DOMAIN q : Append(q, x)[i] = q[i] /\ i < Len(q) + 1
         /\ Append(q, x)[Len(q) + 1] = x
  OBVIOUS

LEMMA TailIs ==
  ASSUME NEW S, NEW q \in Seq(S), q # <<>>
  PROVE  /\ Head(q) \in S /\ Tail(q) \in Seq(S) /\ Len(Tail(q)) = Len(q) - 1
         /\ 1 \in DOMAIN q /\ Head(q) = q[1]
         /\ \A i \in DOMAIN Tail(q) : i + 1 \in DOMAIN q /\ Tail(q)[i] = q[i + 1] /\ 1 < i + 1
  OBVIOUS

\* The branches of HandleBotPost that lead somewhere.
LEMMA Decisions ==
  ASSUME NEW b \in Bot, NEW p \in Post
  PROVE  /\ Decision(b, p) \in {"cancel", "reply", "create"} =>
              /\ p \notin Foreign /\ ~Duplicate(b, p) /\ token[b] # 0
              /\ b \in Names[p] \/ (Names[p] = {} /\ ThreadJobs(b, p) # {})
         /\ Decision(b, p) = "cancel" => Kind[p] = "cancel"
         /\ Decision(b, p) = "create" => Kind[p] = "task" /\ ActiveJobs(b, p) = {}
         /\ Decision(b, p) = "reply" => Kind[p] = "help" \/ Kind[p] = "task"
<1>1. Kind[p] \in {"task", "cancel", "help"} /\ Names[p] \subseteq Known
  BY RoutingAssumption
<1>2. b \notin Names[p] /\ Continues(b, p) => Names[p] = {} /\ ThreadJobs(b, p) # {}
  BY <1>1 DEF Continues
<1>3. QED
  BY <1>1, <1>2 DEF Decision

\* A function on the indices of jobs that gives rows is a sequence of them.
LEMMA JobsMapped ==
  ASSUME TypeOK, jobs' \in [DOMAIN jobs -> Job]
  PROVE  jobs' \in Seq(Job) /\ Len(jobs') = Len(jobs) /\ DOMAIN jobs' = DOMAIN jobs
<1>1. jobs \in Seq(Job)
  BY DEF TypeOK, Job, Task
<1>2. DOMAIN jobs = 1 .. Len(jobs) /\ Len(jobs) \in Nat
  BY <1>1
<1>3. QED
  BY <1>2

-----------------------------------------------------------------------------
(* The steps, by what they do to the rows and the handlers *)

\* The rows stay, and none becomes active.
JobsKept ==
  /\ DOMAIN jobs' = DOMAIN jobs
  /\ \A i \in DOMAIN jobs : /\ jobs'[i].bot = jobs[i].bot /\ jobs'[i].post = jobs[i].post
                            /\ jobs'[i].active => jobs[i].active

LEMMA CancelKeeps ==
  ASSUME TypeOK, NEW h \in Handler, HandleCancel(h)
  PROVE  jobs' \in Seq(Job) /\ Len(jobs') = Len(jobs) /\ JobsKept
<1>1. PICK queued \in SUBSET ActiveJobs(h[1], h[2]) :
        jobs' = [i \in DOMAIN jobs |-> [jobs[i] EXCEPT !.active = @ /\ i \notin queued]]
  BY DEF HandleCancel
<1>2. jobs \in Seq(Job) /\ \A i \in DOMAIN jobs : jobs[i] \in Job
  <2>1. jobs \in Seq(Job)
    BY DEF TypeOK, Job, Task
  <2>2. QED
    BY <2>1
<1>3. ASSUME NEW i \in DOMAIN jobs
      PROVE  /\ jobs'[i] \in Job /\ jobs'[i].bot = jobs[i].bot /\ jobs'[i].post = jobs[i].post
             /\ jobs'[i].active => jobs[i].active
  <2>1. jobs'[i] = [jobs[i] EXCEPT !.active = @ /\ i \notin queued] /\ jobs[i] \in Job
    BY <1>1, <1>2
  <2>2. QED
    BY <2>1 DEF Job
<1>4. jobs' \in [DOMAIN jobs -> Job]
  BY <1>1, <1>3
<1>5. QED
  BY <1>3, <1>4, JobsMapped DEF JobsKept

LEMMA EndKeeps ==
  ASSUME TypeOK, NEW i \in DOMAIN jobs, EndJob(i)
  PROVE  jobs' \in Seq(Job) /\ Len(jobs') = Len(jobs) /\ JobsKept
<1>1. jobs \in Seq(Job) /\ \A j \in DOMAIN jobs : jobs[j] \in Job
  <2>1. jobs \in Seq(Job)
    BY DEF TypeOK, Job, Task
  <2>2. QED
    BY <2>1
<1>2. jobs' = [jobs EXCEPT ![i].active = FALSE]
  BY DEF EndJob
<1>3. ASSUME NEW j \in DOMAIN jobs
      PROVE  /\ jobs'[j] \in Job /\ jobs'[j].bot = jobs[j].bot /\ jobs'[j].post = jobs[j].post
             /\ jobs'[j].active => jobs[j].active
  <2>1. jobs'[j] = IF j = i THEN [jobs[j] EXCEPT !.active = FALSE] ELSE jobs[j]
    BY <1>1, <1>2
  <2>2. jobs[j] \in Job
    BY <1>1
  <2>3. QED
    BY <2>1, <2>2 DEF Job
<1>4. jobs' \in [DOMAIN jobs -> Job]
  BY <1>1, <1>2, <1>3
<1>5. QED
  BY <1>3, <1>4, JobsMapped DEF JobsKept

\* h writes its row and returns: CreateJob, or the last call of a handler whose
\* listener was replaced.
Inserts(h) == stage[h] = "insert" /\ InsertRow(h) /\ Return(h)

\* The row of the post that h handles.
NewRow(h) == [bot |-> h[1], post |-> h[2], active |-> TRUE]

LEMMA CreateAppends ==
  ASSUME TypeOK, DecidedInv, NEW h \in Handler, Inserts(h)
  PROVE  /\ Decided(h[1], h[2]) /\ NewRow(h) \in Job
         /\ jobs' = Append(jobs, NewRow(h)) /\ jobs' \in Seq(Job)
         /\ Len(jobs') = Len(jobs) + 1
         /\ DOMAIN jobs' = DOMAIN jobs \cup {Len(jobs) + 1}
         /\ \A i \in DOMAIN jobs : jobs'[i] = jobs[i] /\ i < Len(jobs) + 1
         /\ jobs'[Len(jobs) + 1] = NewRow(h)
<1>1. Decided(h[1], h[2])
  BY DEF Inserts, DecidedInv
<1>2. NewRow(h) \in Job
  BY <1>1, Handlers DEF Decided, NewRow, Job, Task
<1>3. jobs' = Append(jobs, NewRow(h))
  BY <1>1 DEF Inserts, InsertRow, Decided, Duplicate, NewRow
<1>4. jobs \in Seq(Job)
  BY DEF TypeOK, Job, Task
<1>5. QED
  BY <1>1, <1>2, <1>3, <1>4, AppendIs

-----------------------------------------------------------------------------
(* Type correctness *)

LEMMA JobsType == TypeOK <=>
  /\ token \in [Bot -> Token \cup {0}] /\ listener \in [Bot -> Token \cup {0}]
  /\ ended \subseteq Handler
  /\ written \in Seq(Post)
  /\ stream \in [Bot -> Seq(Post)]
  /\ events \in [Bot -> Seq(Post)] /\ \A b \in Bot : Len(events[b]) <= QueueSize
  /\ stage \in [Handler -> Stage]
  /\ mu \in Handler \cup {Free}
  /\ jobs \in Seq(Job)
  /\ statuses \in [Bot -> [Post -> Nat]]
  /\ cancels \subseteq Bot \X Post \X (DOMAIN jobs)
  /\ answered \subseteq Bot \X Post /\ blind \subseteq Bot \X Post
  /\ faults \in 0 .. MaxFaults
  BY DEF TypeOK, Job, Task

LEMMA TypeInductive ==
  ASSUME TypeOK, DecidedInv, [Next]_vars
  PROVE  TypeOK'
<1> USE RoutingAssumption, Handlers DEF rows, made, Stage, Fault
<1>0. /\ token \in [Bot -> Token \cup {0}] /\ listener \in [Bot -> Token \cup {0}]
      /\ ended \subseteq Handler
      /\ written \in Seq(Post) /\ stream \in [Bot -> Seq(Post)]
      /\ events \in [Bot -> Seq(Post)] /\ \A b \in Bot : Len(events[b]) <= QueueSize
      /\ stage \in [Handler -> Stage] /\ mu \in Handler \cup {Free}
      /\ jobs \in Seq(Job) /\ statuses \in [Bot -> [Post -> Nat]]
      /\ cancels \subseteq Bot \X Post \X (DOMAIN jobs)
      /\ answered \subseteq Bot \X Post /\ blind \subseteq Bot \X Post
      /\ faults \in 0 .. MaxFaults
  BY JobsType
<1>1. CASE UNCHANGED vars
  BY <1>1 DEF vars, TypeOK
<1>2. ASSUME NEW p \in Post, Write(p) PROVE TypeOK'
  <2>1. written' \in Seq(Post) /\ stream' \in [Bot -> Seq(Post)]
    BY <1>0, <1>2 DEF Write
  <2>2. stage' \in [Handler -> Stage]
    BY <1>0, <1>2 DEF Write
  <2>3. QED
    BY <1>2, <2>1, <2>2 DEF Write, TypeOK
<1>3. ASSUME NEW b \in Bot, ChangeBot(b) PROVE TypeOK'
  BY <1>3 DEF ChangeBot, TypeOK, Token
<1>4. ASSUME NEW b \in Bot, Sync(b) PROVE TypeOK'
  <2>1. /\ listener' \in [Bot -> Token \cup {0}] /\ stream' \in [Bot -> Seq(Post)]
        /\ events' \in [Bot -> Seq(Post)] /\ \A c \in Bot : Len(events'[c]) <= QueueSize
    BY <1>0, <1>4 DEF Sync
  <2>2. ended' \subseteq Handler
    BY <1>0, <1>4 DEF Sync
  <2>3. QED
    BY <1>4, <2>1, <2>2 DEF Sync, TypeOK
<1>5. ASSUME NEW b \in Bot, Deliver(b) PROVE TypeOK'
  <2>1. /\ Head(stream[b]) \in Post /\ Tail(stream[b]) \in Seq(Post)
        /\ Append(events[b], Head(stream[b])) \in Seq(Post)
        /\ Len(Append(events[b], Head(stream[b]))) = Len(events[b]) + 1
    BY <1>0, <1>5, TailIs, AppendIs DEF Deliver
  <2>2. /\ stream' \in [Bot -> Seq(Post)] /\ events' \in [Bot -> Seq(Post)]
        /\ events'[b] = Append(events[b], Head(stream[b]))
        /\ \A c \in Bot : c # b => events'[c] = events[c]
    BY <1>0, <1>5, <2>1 DEF Deliver
  <2>3. Len(events'[b]) <= QueueSize
    <3>1. Len(events[b]) \in Nat /\ Len(events[b]) < QueueSize
      BY <1>0, <1>5 DEF Deliver
    <3>2. QED
      BY <2>1, <2>2, <3>1
  <2>4. \A c \in Bot : Len(events'[c]) <= QueueSize
    BY <1>0, <2>2, <2>3
  <2>5. QED
    BY <1>5, <2>2, <2>4 DEF Deliver, TypeOK
<1>6. ASSUME NEW b \in Bot, DropStream(b) PROVE TypeOK'
  BY <1>6 DEF DropStream, TypeOK
<1>7. ASSUME NEW b \in Bot, Take(b) PROVE TypeOK'
  <2>1. Head(events[b]) \in Post /\ Tail(events[b]) \in Seq(Post)
        /\ Len(Tail(events[b])) = Len(events[b]) - 1
    BY <1>0, <1>7, TailIs DEF Take
  <2>2. stage' \in [Handler -> Stage]
    BY <1>0, <1>7, <2>1 DEF Take, Via
  <2>3. /\ events' \in [Bot -> Seq(Post)] /\ events'[b] = Tail(events[b])
        /\ \A c \in Bot : c # b => events'[c] = events[c]
    BY <1>0, <1>7, <2>1 DEF Take
  <2>4. Len(events'[b]) <= QueueSize
    <3>1. Len(events[b]) \in Nat /\ Len(events[b]) <= QueueSize
      BY <1>0
    <3>2. QED
      BY <2>1, <2>3, <3>1
  <2>5. \A c \in Bot : Len(events'[c]) <= QueueSize
    BY <1>0, <2>3, <2>4
  <2>6. QED
    BY <1>7, <2>2, <2>3, <2>5 DEF Take, TypeOK
<1>8. ASSUME NEW b \in Bot, NEW p \in Post, Hook(b, p) \/ HookFails(b, p) PROVE TypeOK'
  <2>1. stage' \in [Handler -> Stage]
    BY <1>0, <1>8 DEF Hook, HookFails, Via
  <2>2. UNCHANGED <<token, listener, ended, written, stream, events, mu, statuses, jobs, cancels,
                    answered, blind>> /\ faults' \in 0 .. MaxFaults
    BY <1>0, <1>8 DEF Hook, HookFails
  <2>3. QED
    BY <2>1, <2>2 DEF TypeOK
<1>9. ASSUME NEW h \in Handler, Lock(h) \/ Ignore(h) \/ StartCreate(h) \/ HandlerFails(h)
      PROVE TypeOK'
  <2>1. stage' \in [Handler -> Stage] /\ mu' \in Handler \cup {Free}
    BY <1>0, <1>9 DEF Lock, Ignore, StartCreate, HandlerFails, Return
  <2>2. UNCHANGED <<token, listener, ended, written, stream, events, statuses, jobs, cancels,
                    answered, blind>> /\ faults' \in 0 .. MaxFaults
    BY <1>0, <1>9 DEF Lock, Ignore, StartCreate, HandlerFails
  <2>3. QED
    BY <2>1, <2>2 DEF TypeOK
<1>10. ASSUME NEW h \in Handler, Reply(h) \/ ActiveUnread(h) PROVE TypeOK'
  <2>1. stage' \in [Handler -> Stage] /\ mu' \in Handler \cup {Free}
    BY <1>0, <1>10 DEF Reply, ActiveUnread, Return
  <2>2. answered' \subseteq Bot \X Post /\ blind' \subseteq Bot \X Post
    BY <1>0, <1>10 DEF Reply, ActiveUnread, Act
  <2>3. UNCHANGED <<token, listener, ended, written, stream, events, statuses, jobs, cancels>>
        /\ faults' \in 0 .. MaxFaults
    BY <1>0, <1>10 DEF Reply, ActiveUnread
  <2>4. QED
    BY <2>1, <2>2, <2>3 DEF TypeOK
<1>11. ASSUME NEW h \in Handler, HandleCancel(h) PROVE TypeOK'
  <2>1. stage' \in [Handler -> Stage] /\ mu' \in Handler \cup {Free}
    BY <1>0, <1>11 DEF HandleCancel, Return
  <2>2. jobs' \in Seq(Job) /\ DOMAIN jobs' = DOMAIN jobs
    BY <1>11, CancelKeeps DEF JobsKept
  <2>3. answered' \subseteq Bot \X Post
    BY <1>0, <1>11 DEF HandleCancel, Act
  <2>4. cancels' \subseteq Bot \X Post \X (DOMAIN jobs')
    BY <1>0, <1>11, <2>2 DEF HandleCancel, ActiveJobs, ThreadJobs
  <2>5. QED
    BY <1>0, <1>11, <2>1, <2>2, <2>3, <2>4 DEF HandleCancel, TypeOK, Job, Task
<1>12. ASSUME NEW h \in Handler, StatusPost(h) PROVE TypeOK'
  <2>1. stage' \in [Handler -> Stage]
    BY <1>0, <1>12 DEF StatusPost
  <2>2. statuses' \in [Bot -> [Post -> Nat]]
    <3>1. statuses[h[1]][h[2]] + 1 \in Nat /\ h[1] \in Bot /\ h[2] \in Post
      BY <1>0
    <3>2. statuses' = [statuses EXCEPT ![h[1]][h[2]] = statuses[h[1]][h[2]] + 1]
      BY <1>12 DEF StatusPost
    <3>3. QED
      BY <1>0, <3>1, <3>2
  <2>3. QED
    BY <1>12, <2>1, <2>2 DEF StatusPost, TypeOK
<1>13. ASSUME NEW h \in Handler, CreateJob(h) PROVE TypeOK'
  <2>1. stage' \in [Handler -> Stage] /\ mu' \in Handler \cup {Free}
    BY <1>0, <1>13 DEF CreateJob, Return
  <2>2. jobs' \in Seq(Job) /\ DOMAIN jobs \subseteq DOMAIN jobs'
    BY <1>13, CreateAppends DEF CreateJob, Inserts
  <2>3. answered' \subseteq Bot \X Post
    BY <1>0, <1>13 DEF CreateJob, Act
  <2>4. cancels' \subseteq Bot \X Post \X (DOMAIN jobs')
    BY <1>0, <1>13, <2>2 DEF CreateJob
  <2>5. QED
    BY <1>0, <1>13, <2>1, <2>2, <2>3, <2>4 DEF CreateJob, TypeOK, Job, Task
<1>14. ASSUME NEW i \in DOMAIN jobs, EndJob(i) PROVE TypeOK'
  <2>1. jobs' \in Seq(Job) /\ DOMAIN jobs' = DOMAIN jobs
    BY <1>14, EndKeeps DEF JobsKept
  <2>2. QED
    BY <1>0, <1>14, <2>1 DEF EndJob, TypeOK, Job, Task
<1>15. CASE BrokerCrash
  <2>1. /\ listener' \in [Bot -> Token \cup {0}] /\ stream' \in [Bot -> Seq(Post)]
        /\ events' \in [Bot -> Seq(Post)] /\ \A b \in Bot : Len(events'[b]) <= QueueSize
        /\ ended' \subseteq Handler
        /\ stage' \in [Handler -> Stage] /\ mu' \in Handler \cup {Free}
    BY <1>15 DEF BrokerCrash
  <2>2. UNCHANGED <<token, written, statuses, jobs, cancels, answered, blind>>
        /\ faults' \in 0 .. MaxFaults
    BY <1>0, <1>15 DEF BrokerCrash
  <2>3. QED
    BY <2>1, <2>2 DEF TypeOK
<1>16. ASSUME NEW h \in Handler, Abandon(h) PROVE TypeOK'
  <2>1. stage' \in [Handler -> Stage] /\ mu' \in Handler \cup {Free} /\ ended' \subseteq Handler
    BY <1>0, <1>16 DEF Abandon, Return
  <2>2. statuses' \in [Bot -> [Post -> Nat]]
    <3>1. statuses[h[1]][h[2]] + 1 \in Nat /\ h[1] \in Bot /\ h[2] \in Post
      BY <1>0
    <3>2. statuses' = statuses \/ statuses' = [statuses EXCEPT ![h[1]][h[2]] = statuses[h[1]][h[2]] + 1]
      BY <1>16 DEF Abandon
    <3>3. [statuses EXCEPT ![h[1]][h[2]] = statuses[h[1]][h[2]] + 1] \in [Bot -> [Post -> Nat]]
      BY <1>0, <3>1
    <3>4. QED
      BY <1>0, <3>2, <3>3
  <2>3. jobs' \in Seq(Job) /\ DOMAIN jobs \subseteq DOMAIN jobs'
    <3>1. UNCHANGED jobs \/ Inserts(h)
      BY <1>16 DEF Abandon, Inserts
    <3>2. QED
      BY <1>0, <1>16, <3>1, CreateAppends
  <2>4. answered' \subseteq Bot \X Post
    BY <1>0, <1>16 DEF Abandon, Act
  <2>5. UNCHANGED <<token, listener, written, stream, events, cancels, blind, faults>>
    BY <1>16 DEF Abandon
  <2>6. cancels' \subseteq Bot \X Post \X (DOMAIN jobs')
    BY <1>0, <2>3, <2>5
  <2>7. QED
    BY <1>0, <2>1, <2>2, <2>3, <2>4, <2>5, <2>6 DEF TypeOK, Job, Task
<1>17. QED
  BY <1>1, <1>2, <1>3, <1>4, <1>5, <1>6, <1>7, <1>8, <1>9, <1>10, <1>11, <1>12, <1>13,
     <1>14, <1>15, <1>16
  DEF Next, Handle

-----------------------------------------------------------------------------
(* The mutex *)

\* The worker never takes a post that is in other hands of its bot: such a post
\* is written before all that is in the channel.
LEMMA NotTwice ==
  ASSUME TypeOK, WrittenOnce, NEW b \in Bot, PastInv(b), Take(b)
  PROVE  ~Handling(<<b, Head(events[b]), "ws">>)
<1> DEFINE p == Head(events[b])
<1>1. p \in Post /\ 1 \in DOMAIN events[b] /\ events[b][1] = p
  BY TailIs DEF Take, TypeOK
<1>2. ASSUME Handling(<<b, p, "ws">>) PROVE Before(written, p, p)
  BY <1>1, <1>2 DEF PastInv, Past
<1>3. ~Before(written, p, p)
  <2>1. DOMAIN written \subseteq Nat
    BY DEF TypeOK
  <2>2. QED
    BY <2>1 DEF Before, WrittenOnce
<1>4. QED
  BY <1>2, <1>3

LEMMA MutexInductive ==
  ASSUME TypeOK, WrittenOnce, MutexInv, DeliveryInv, [Next]_vars, \A b \in Bot : PastInv(b)
  PROVE  MutexInv'
<1> USE Handlers DEF MutexInv, Critical, rows, made
<1>0. stage \in [Handler -> Stage]
  BY DEF TypeOK
<1>1. CASE UNCHANGED vars
  BY <1>1 DEF vars
<1>2. ASSUME NEW p \in Post, Write(p) PROVE MutexInv'
  <2>1. ASSUME NEW h \in Handler PROVE stage'[h] \in Critical <=> mu' = h
    <3>1. stage'[h] = stage[h] \/ (h[2] = p /\ stage'[h] = "sent")
      BY <1>2 DEF Write
    <3>2. h[2] = p => stage[h] = "none"
      BY <1>2 DEF Write, DeliveryInv, IsWritten, In
    <3>3. mu' = mu
      BY <1>2 DEF Write
    <3>4. QED
      BY <3>1, <3>2, <3>3
  <2>2. QED
    BY <2>1
<1>3. ASSUME NEW b \in Bot, ChangeBot(b) \/ Deliver(b) \/ DropStream(b) PROVE MutexInv'
  BY <1>3 DEF ChangeBot, Deliver, DropStream
<1>4. ASSUME NEW b \in Bot, Sync(b) PROVE MutexInv'
  BY <1>4 DEF Sync
<1>5. ASSUME NEW b \in Bot, Take(b) PROVE MutexInv'
  <2> DEFINE g == <<b, Head(events[b]), "ws">>
  <2>1. Head(events[b]) \in Post
    BY <1>5, TailIs DEF Take, TypeOK
  <2>2. g \in Handler /\ stage[g] \notin Critical
    <3>1. ~Handling(g)
      BY <1>5, NotTwice
    <3>2. QED
      BY <2>1, <3>1 DEF Handling, Via
  <2>3. stage' = [stage EXCEPT ![g] = "lock"] /\ mu' = mu
    BY <1>5 DEF Take
  <2> HIDE DEF g
  <2>4. QED
    BY <1>0, <2>2, <2>3
<1>6. ASSUME NEW b \in Bot, NEW p \in Post, Hook(b, p) \/ HookFails(b, p) PROVE MutexInv'
  <2> DEFINE g == <<b, p, "hook">>
  <2>1. g \in Handler
    BY DEF Via
  <2>2. /\ stage[g] = "sent" /\ mu' = mu
        /\ stage' = [stage EXCEPT ![g] = "none"] \/ stage' = [stage EXCEPT ![g] = "lock"]
    BY <1>6 DEF Hook, HookFails
  <2> HIDE DEF g
  <2>3. QED
    BY <1>0, <2>1, <2>2
<1>7. ASSUME NEW h \in Handler, Lock(h) PROVE MutexInv'
  BY <1>0, <1>7 DEF Lock
<1>8. ASSUME NEW h \in Handler, StartCreate(h) \/ StatusPost(h) PROVE MutexInv'
  BY <1>0, <1>8 DEF StartCreate, StatusPost
<1>9. ASSUME NEW h \in Handler, stage[h] \in Critical, Return(h) PROVE MutexInv'
  BY <1>0, <1>9 DEF Return
<1>10. ASSUME NEW h \in Handler,
              Ignore(h) \/ Reply(h) \/ HandleCancel(h) \/ CreateJob(h) \/ HandlerFails(h) \/ Abandon(h)
       PROVE MutexInv'
  BY <1>9, <1>10 DEF Ignore, Reply, HandleCancel, CreateJob, HandlerFails, Abandon
<1>11. ASSUME NEW h \in Handler, ActiveUnread(h) PROVE MutexInv'
  <2>1. CASE Return(h)
    BY <1>9, <1>11, <2>1 DEF ActiveUnread
  <2>2. CASE stage' = [stage EXCEPT ![h] = "status"] /\ mu' = mu
    BY <1>0, <1>11, <2>2 DEF ActiveUnread
  <2>3. QED
    BY <1>11, <2>1, <2>2 DEF ActiveUnread
<1>12. ASSUME NEW i \in DOMAIN jobs, EndJob(i) PROVE MutexInv'
  BY <1>12 DEF EndJob
<1>13. CASE BrokerCrash
  BY <1>13 DEF BrokerCrash
<1>14. QED
  BY <1>1, <1>2, <1>3, <1>4, <1>5, <1>6, <1>7, <1>8, <1>10, <1>11, <1>12, <1>13
  DEF Next, Handle

-----------------------------------------------------------------------------
(* Deliveries *)

\* What was written stays written, in its order, and a new post comes last.
LEMMA WrittenGrows ==
  ASSUME TypeOK, [Next]_vars
  PROVE  /\ \A p : In(written, p) => In(written', p)
         /\ \A p, q : Before(written, p, q) => Before(written', p, q)
<1>1. CASE UNCHANGED written
  BY <1>1
<1>2. ASSUME NEW p \in Post, Write(p) PROVE
         /\ \A q : In(written, q) => In(written', q)
         /\ \A q, s : Before(written, q, s) => Before(written', q, s)
  <2>1. /\ DOMAIN written \subseteq DOMAIN written'
        /\ \A i \in DOMAIN written : written'[i] = written[i]
    BY <1>2, AppendIs DEF Write, TypeOK
  <2>2. QED
    BY <2>1 DEF In, Before
<1>3. QED
  BY <1>1, <1>2 DEF Next, Handle, vars, rows, made, ChangeBot, Sync, Deliver, DropStream, Take,
     Hook, HookFails, Lock, Ignore, Reply, HandleCancel, StartCreate, StatusPost, CreateJob,
     ActiveUnread, HandlerFails, Abandon, EndJob, BrokerCrash

LEMMA OnceInductive ==
  ASSUME TypeOK, WrittenOnce, [Next]_vars
  PROVE  WrittenOnce'
<1>1. CASE UNCHANGED written
  BY <1>1 DEF WrittenOnce
<1>2. ASSUME NEW p \in Post, Write(p) PROVE WrittenOnce'
  <2>1. /\ DOMAIN written' = DOMAIN written \cup {Len(written) + 1}
        /\ \A i \in DOMAIN written : written'[i] = written[i] /\ written[i] # p
        /\ written'[Len(written) + 1] = p
    BY <1>2, AppendIs DEF Write, IsWritten, TypeOK
  <2>2. QED
    BY <2>1 DEF WrittenOnce
<1>3. QED
  BY <1>1, <1>2 DEF Next, Handle, vars, rows, made, ChangeBot, Sync, Deliver, DropStream, Take,
     Hook, HookFails, Lock, Ignore, Reply, HandleCancel, StartCreate, StatusPost, CreateJob,
     ActiveUnread, HandlerFails, Abandon, EndJob, BrokerCrash

LEMMA WrittenLast ==
  ASSUME TypeOK, NEW p \in Post, Write(p)
  PROVE  In(written', p) /\ \A q : In(written, q) => Before(written', q, p)
<1>1. /\ DOMAIN written' = DOMAIN written \cup {Len(written) + 1}
      /\ \A i \in DOMAIN written : written'[i] = written[i] /\ i < Len(written) + 1
      /\ written'[Len(written) + 1] = p
  BY AppendIs DEF Write, TypeOK
<1>2. QED
  BY <1>1 DEF In, Before

\* A step that brings no new deliveries.
LEMMA DeliveriesKept ==
  ASSUME TypeOK, DeliveryInv, [Next]_vars,
         \A h \in Handler : stage'[h] # "none" => stage[h] # "none",
         \A b \in Bot : stream'[b] = stream[b] \/ stream'[b] = <<>>,
         \A b \in Bot : events'[b] = events[b] \/ events'[b] = <<>>,
         JobsKept \/ \E h \in Handler : Inserts(h) /\ DecidedInv
  PROVE  DeliveryInv'
<1>1. \A h \in Handler : stage'[h] # "none" => In(written', h[2])
  BY WrittenGrows DEF DeliveryInv
<1>2. \A b \in Bot : \A i \in DOMAIN stream'[b] : In(written', stream'[b][i])
  BY WrittenGrows DEF DeliveryInv
<1>3. \A b \in Bot : \A i \in DOMAIN events'[b] : In(written', events'[b][i])
  BY WrittenGrows DEF DeliveryInv
<1>4. \A i \in DOMAIN jobs' : In(written', jobs'[i].post)
  <2>1. CASE JobsKept
    BY <2>1, WrittenGrows DEF JobsKept, DeliveryInv
  <2>2. ASSUME NEW h \in Handler, Inserts(h), DecidedInv, NEW i \in DOMAIN jobs'
        PROVE In(written', jobs'[i].post)
    <3>1. CASE i \in DOMAIN jobs
      BY <2>2, <3>1, CreateAppends, WrittenGrows DEF DeliveryInv
    <3>2. CASE i = Len(jobs) + 1
      <4>1. jobs'[i].post = h[2]
        <5>1. jobs'[i] = NewRow(h)
          BY <2>2, <3>2, CreateAppends
        <5>2. QED
          BY <5>1 DEF NewRow
      <4>2. In(written', h[2])
        BY <2>2, WrittenGrows DEF DeliveryInv, Inserts
      <4>3. QED
        BY <4>1, <4>2
    <3>3. QED
      BY <2>2, <3>1, <3>2, CreateAppends
  <2>3. QED
    BY <2>1, <2>2
<1>5. \A b \in Bot, p \in Post : stage'[<<b, p, "hook">>] # "none" => b \in Hooked[p]
  BY Handlers DEF DeliveryInv, Via
<1>6. QED
  BY <1>1, <1>2, <1>3, <1>4, <1>5 DEF DeliveryInv

LEMMA DeliveryInductive ==
  ASSUME TypeOK, DeliveryInv, DecidedInv, MutexInv, [Next]_vars
  PROVE  DeliveryInv'
<1> USE Handlers DEF rows, made
<1>0. stage \in [Handler -> Stage] /\ stream \in [Bot -> Seq(Post)] /\ events \in [Bot -> Seq(Post)]
  BY DEF TypeOK
<1>1. CASE UNCHANGED vars
  BY <1>1, DeliveriesKept DEF vars, JobsKept
<1>2. ASSUME NEW p \in Post, Write(p) PROVE DeliveryInv'
  <2>1. \A h \in Handler : stage'[h] # "none" => In(written', h[2])
    BY <1>2, WrittenGrows, WrittenLast DEF DeliveryInv, Write
  <2>2. \A b \in Bot : \A i \in DOMAIN stream'[b] : In(written', stream'[b][i])
    <3>1. ASSUME NEW b \in Bot, NEW i \in DOMAIN stream'[b] PROVE In(written', stream'[b][i])
      <4>1. CASE stream'[b] = stream[b]
        BY <4>1, <3>1, WrittenGrows DEF DeliveryInv
      <4>2. CASE stream'[b] = Append(stream[b], p)
        <5>1. stream[b] \in Seq(Post)
          BY <1>0
        <5>2. i \in DOMAIN stream[b] \/ stream'[b][i] = p
          BY <3>1, <4>2, <5>1, AppendIs
        <5>3. i \in DOMAIN stream[b] => stream'[b][i] = stream[b][i]
          BY <4>2, <5>1, AppendIs
        <5>4. QED
          BY <1>2, <5>2, <5>3, WrittenGrows, WrittenLast DEF DeliveryInv
      <4>3. QED
        BY <1>2, <4>1, <4>2 DEF Write
    <3>2. QED
      BY <3>1
  <2>3. \A b \in Bot : \A i \in DOMAIN events'[b] : In(written', events'[b][i])
    BY <1>2, WrittenGrows DEF DeliveryInv, Write
  <2>4. \A i \in DOMAIN jobs' : In(written', jobs'[i].post)
    BY <1>2, WrittenGrows DEF DeliveryInv, Write
  <2>5. \A b \in Bot, q \in Post : stage'[<<b, q, "hook">>] # "none" => b \in Hooked[q]
    <3>1. ASSUME NEW b \in Bot, NEW q \in Post, stage'[<<b, q, "hook">>] # "none"
          PROVE b \in Hooked[q]
      <4>1. <<b, q, "hook">> \in Handler
        BY DEF Via
      <4>2. stage[<<b, q, "hook">>] # "none" \/ (b \in Hooked[p] /\ q = p)
        BY <1>2, <3>1, <4>1 DEF Write
      <4>3. QED
        BY <4>2 DEF DeliveryInv
    <3>2. QED
      BY <3>1
  <2>6. QED
    BY <2>1, <2>2, <2>3, <2>4, <2>5 DEF DeliveryInv
<1>3. ASSUME NEW b \in Bot, ChangeBot(b) PROVE DeliveryInv'
  BY <1>3, DeliveriesKept DEF ChangeBot, JobsKept
<1>4. ASSUME NEW b \in Bot, Sync(b) \/ DropStream(b) PROVE DeliveryInv'
  <2>1. /\ \A h \in Handler : stage'[h] # "none" => stage[h] # "none"
        /\ \A c \in Bot : stream'[c] = stream[c] \/ stream'[c] = <<>>
        /\ \A c \in Bot : events'[c] = events[c] \/ events'[c] = <<>>
        /\ JobsKept
    BY <1>0, <1>4 DEF Sync, DropStream, JobsKept
  <2>2. QED
    BY <2>1, DeliveriesKept
<1>5. ASSUME NEW b \in Bot, Deliver(b) PROVE DeliveryInv'
  <2>1. /\ stream'[b] = Tail(stream[b]) /\ events'[b] = Append(events[b], Head(stream[b]))
        /\ \A c \in Bot : c # b => stream'[c] = stream[c] /\ events'[c] = events[c]
        /\ UNCHANGED <<written, stage, jobs>> /\ stream[b] # <<>>
    BY <1>0, <1>5 DEF Deliver
  <2>2. stream[b] \in Seq(Post) /\ events[b] \in Seq(Post)
    BY <1>0
  <2>3. \A i \in DOMAIN stream'[b] : In(written, stream'[b][i])
    BY <2>1, <2>2, TailIs DEF DeliveryInv
  <2>4. \A i \in DOMAIN events'[b] : In(written, events'[b][i])
    <3>1. Head(stream[b]) \in Post /\ In(written, Head(stream[b]))
      BY <2>1, <2>2, TailIs DEF DeliveryInv
    <3>2. ASSUME NEW i \in DOMAIN events'[b] PROVE In(written, events'[b][i])
      <4>1. \/ i \in DOMAIN events[b] /\ events'[b][i] = events[b][i]
            \/ events'[b][i] = Head(stream[b])
        BY <2>1, <2>2, <3>1, <3>2, AppendIs
      <4>2. QED
        BY <3>1, <4>1 DEF DeliveryInv
    <3>3. QED
      BY <3>2
  <2>5. QED
    BY <2>1, <2>3, <2>4 DEF DeliveryInv
<1>6. ASSUME NEW b \in Bot, Take(b) PROVE DeliveryInv'
  <2>1. events[b] \in Seq(Post) /\ events[b] # <<>>
    BY <1>0, <1>6 DEF Take
  <2>2. Head(events[b]) \in Post /\ In(written, Head(events[b]))
    BY <2>1, TailIs DEF DeliveryInv
  <2>3. /\ stage' = [stage EXCEPT ![<<b, Head(events[b]), "ws">>] = "lock"]
        /\ events' = [events EXCEPT ![b] = Tail(events[b])]
        /\ UNCHANGED <<written, stream, jobs>>
    BY <1>6 DEF Take
  <2>4. \A h \in Handler : stage'[h] # "none" => In(written, h[2])
    BY <1>0, <2>2, <2>3 DEF DeliveryInv
  <2>5. \A c \in Bot : \A i \in DOMAIN events'[c] : In(written, events'[c][i])
    <3>1. \A i \in DOMAIN Tail(events[b]) : In(written, Tail(events[b])[i])
      BY <2>1, TailIs DEF DeliveryInv
    <3>2. \A c \in Bot : events'[c] = IF c = b THEN Tail(events[b]) ELSE events[c]
      BY <1>0, <2>3
    <3>3. QED
      BY <3>1, <3>2 DEF DeliveryInv
  <2>6. \A c \in Bot, q \in Post : stage'[<<c, q, "hook">>] = stage[<<c, q, "hook">>]
    BY <1>0, <2>3 DEF Via
  <2>7. QED
    BY <2>3, <2>4, <2>5, <2>6 DEF DeliveryInv
<1>7. ASSUME NEW b \in Bot, NEW p \in Post, Hook(b, p) \/ HookFails(b, p) PROVE DeliveryInv'
  <2>1. /\ \A h \in Handler : stage'[h] # "none" => stage[h] # "none"
        /\ UNCHANGED <<stream, events, jobs>>
    BY <1>0, <1>7 DEF Hook, HookFails
  <2>2. QED
    BY <2>1, DeliveriesKept DEF JobsKept
<1>8. ASSUME NEW h \in Handler, Handle(h) \/ ActiveUnread(h) \/ HandlerFails(h) \/ Abandon(h)
      PROVE DeliveryInv'
  <2>1. \A g \in Handler : stage'[g] # "none" => stage[g] # "none"
    BY <1>0, <1>8 DEF Handle, Lock, Ignore, Reply, HandleCancel, StartCreate, StatusPost,
       CreateJob, ActiveUnread, HandlerFails, Abandon, Return
  <2>2. UNCHANGED <<stream, events>>
    BY <1>8 DEF Handle, Lock, Ignore, Reply, HandleCancel, StartCreate, StatusPost,
       CreateJob, ActiveUnread, HandlerFails, Abandon
  <2>3. JobsKept \/ Inserts(h)
    <3>1. CASE HandleCancel(h)
      BY <3>1, CancelKeeps
    <3>2. CASE UNCHANGED jobs
      BY <3>2 DEF JobsKept
    <3>3. QED
      BY <1>8, <3>1, <3>2 DEF Handle, Lock, Ignore, Reply, StartCreate, StatusPost,
         CreateJob, ActiveUnread, HandlerFails, Abandon, Inserts
  <2>4. QED
    BY <2>1, <2>2, <2>3, DeliveriesKept
<1>9. ASSUME NEW i \in DOMAIN jobs, EndJob(i) PROVE DeliveryInv'
  BY <1>9, EndKeeps, DeliveriesKept DEF EndJob
<1>10. CASE BrokerCrash
  BY <1>10, DeliveriesKept DEF BrokerCrash, JobsKept
<1>11. QED
  BY <1>1, <1>2, <1>3, <1>4, <1>5, <1>6, <1>7, <1>8, <1>9, <1>10 DEF Next

-----------------------------------------------------------------------------
(* What was decided under the mutex *)

\* What a step does to the rows: it leaves them, or writes one more.
LEMMA JobsStep ==
  ASSUME TypeOK, [Next]_vars
  PROVE  JobsKept \/ \E h \in Handler : Inserts(h)
<1>1. ASSUME NEW h \in Handler, HandleCancel(h) PROVE JobsKept
  BY <1>1, CancelKeeps
<1>2. ASSUME NEW i \in DOMAIN jobs, EndJob(i) PROVE JobsKept
  BY <1>2, EndKeeps
<1>3. CASE UNCHANGED jobs
  BY <1>3 DEF JobsKept
<1>4. QED
  BY <1>1, <1>2, <1>3
  DEF Next, Handle, vars, rows, made, Write, ChangeBot, Sync, Deliver, DropStream, Take,
      Hook, HookFails, Lock, Ignore, Reply, StartCreate, StatusPost, CreateJob, ActiveUnread,
      HandlerFails, Abandon, Inserts, BrokerCrash

LEMMA RowsStay ==
  ASSUME TypeOK, DecidedInv, [Next]_vars
  PROVE  /\ DOMAIN jobs \subseteq DOMAIN jobs'
         /\ \A i \in DOMAIN jobs : jobs'[i].bot = jobs[i].bot /\ jobs'[i].post = jobs[i].post
         /\ \A b, p : Duplicate(b, p) => Duplicate(b, p)'
<1>1. /\ DOMAIN jobs \subseteq DOMAIN jobs'
      /\ \A i \in DOMAIN jobs : jobs'[i].bot = jobs[i].bot /\ jobs'[i].post = jobs[i].post
  <2>1. CASE JobsKept
    BY <2>1 DEF JobsKept
  <2>2. ASSUME NEW h \in Handler, Inserts(h)
        PROVE /\ DOMAIN jobs \subseteq DOMAIN jobs'
              /\ \A i \in DOMAIN jobs : jobs'[i] = jobs[i]
    BY <2>2, CreateAppends
  <2>3. QED
    BY <2>1, <2>2, JobsStep
<1>2. QED
  BY <1>1 DEF Duplicate

LEMMA BlindGrows ==
  ASSUME [Next]_vars
  PROVE  blind \subseteq blind'
  BY DEF Next, Handle, vars, rows, made, Write, ChangeBot, Sync, Deliver, DropStream, Take,
     Hook, HookFails, Lock, Ignore, Reply, HandleCancel, StartCreate, StatusPost, CreateJob,
     ActiveUnread, HandlerFails, Abandon, EndJob, BrokerCrash

\* How a handler comes to the remote calls of createJob.
LEMMA Entering ==
  ASSUME TypeOK, [Next]_vars, NEW h \in Handler, stage'[h] \in {"status", "insert"}
  PROVE  \/ stage[h] \in {"status", "insert"}
         \/ StartCreate(h)
         \/ /\ ActiveUnread(h) /\ Decision(h[1], h[2]) = "reply" /\ Kind[h[2]] # "help"
            /\ <<h[1], h[2]>> \in blind' /\ UNCHANGED jobs
<1> USE Handlers DEF rows, made
<1>0. stage \in [Handler -> Stage]
  BY DEF TypeOK
<1>1. CASE UNCHANGED stage
  BY <1>1
<1>2. ASSUME NEW p \in Post, Write(p) PROVE stage[h] \in {"status", "insert"}
  BY <1>2 DEF Write
<1>3. ASSUME NEW b \in Bot, Sync(b) \/ Take(b) PROVE stage[h] \in {"status", "insert"}
  BY <1>0, <1>3 DEF Sync, Take
<1>4. ASSUME NEW b \in Bot, NEW p \in Post, Hook(b, p) \/ HookFails(b, p)
      PROVE stage[h] \in {"status", "insert"}
  BY <1>0, <1>4 DEF Hook, HookFails
<1>5. ASSUME NEW g \in Handler,
             Lock(g) \/ Ignore(g) \/ Reply(g) \/ HandleCancel(g) \/ StatusPost(g) \/ CreateJob(g)
               \/ HandlerFails(g) \/ Abandon(g)
      PROVE stage[h] \in {"status", "insert"}
  BY <1>0, <1>5 DEF Lock, Ignore, Reply, HandleCancel, StatusPost, CreateJob, HandlerFails,
     Abandon, Return
<1>6. ASSUME NEW g \in Handler, StartCreate(g)
      PROVE stage[h] \in {"status", "insert"} \/ StartCreate(h)
  BY <1>0, <1>6 DEF StartCreate
<1>7. ASSUME NEW g \in Handler, ActiveUnread(g)
      PROVE \/ stage[h] \in {"status", "insert"}
            \/ /\ g = h /\ Decision(h[1], h[2]) = "reply" /\ Kind[h[2]] # "help"
               /\ <<h[1], h[2]>> \in blind' /\ UNCHANGED jobs
  BY <1>0, <1>7 DEF ActiveUnread, Return
<1>8. CASE BrokerCrash
  BY <1>8 DEF BrokerCrash
<1>9. QED
  BY <1>1, <1>2, <1>3, <1>4, <1>5, <1>6, <1>7, <1>8
  DEF Next, Handle, vars, ChangeBot, Deliver, DropStream, EndJob

LEMMA DecidedKept ==
  ASSUME JobsKept, blind \subseteq blind', NEW b \in Bot, NEW p \in Post, Decided(b, p)
  PROVE  Decided(b, p)'
<1>1. ~Duplicate(b, p)'
  BY DEF Decided, Duplicate, JobsKept
<1>2. ThreadJobs(b, p)' = ThreadJobs(b, p)
  BY DEF ThreadJobs, JobsKept
<1>3. ActiveJobs(b, p)' \subseteq ActiveJobs(b, p)
  BY <1>2 DEF ActiveJobs, ThreadJobs, JobsKept
<1>4. QED
  BY <1>1, <1>2, <1>3 DEF Decided

LEMMA DecidedInductive ==
  ASSUME TypeOK, MutexInv, DecidedInv, [Next]_vars
  PROVE  DecidedInv'
<1> USE Handlers
<1>1. SUFFICES ASSUME NEW h \in Handler, stage'[h] \in {"status", "insert"}
               PROVE  Decided(h[1], h[2])'
  BY DEF DecidedInv
<1>2. CASE stage[h] \in {"status", "insert"}
  <2>1. Decided(h[1], h[2])
    BY <1>2 DEF DecidedInv
  <2>2. ASSUME NEW g \in Handler, Inserts(g) PROVE FALSE
    <3>1. mu = g /\ mu = h
      BY <1>2, <2>2 DEF MutexInv, Critical, Inserts
    <3>2. stage'[g] = "none"
      BY <2>2 DEF Inserts, Return, TypeOK
    <3>3. QED
      BY <1>1, <3>1, <3>2
  <2>3. JobsKept
    BY <2>2, JobsStep
  <2>4. QED
    BY <2>1, <2>3, BlindGrows, DecidedKept
<1>3. CASE StartCreate(h)
  <2>1. Decided(h[1], h[2]) /\ JobsKept
    BY <1>3, Decisions DEF Decided, StartCreate, made, JobsKept
  <2>2. QED
    BY <2>1, BlindGrows, DecidedKept
<1>4. CASE /\ ActiveUnread(h) /\ Decision(h[1], h[2]) = "reply" /\ Kind[h[2]] # "help"
           /\ <<h[1], h[2]>> \in blind' /\ UNCHANGED jobs
  <2>1. /\ h[2] \notin Foreign /\ Kind[h[2]] = "task" /\ ~Duplicate(h[1], h[2])
        /\ h[1] \in Names[h[2]] \/ (Names[h[2]] = {} /\ ThreadJobs(h[1], h[2]) # {})
    BY <1>4, Decisions
  <2>2. Duplicate(h[1], h[2])' = Duplicate(h[1], h[2])
        /\ ThreadJobs(h[1], h[2])' = ThreadJobs(h[1], h[2])
    BY <1>4 DEF Duplicate, ThreadJobs
  <2>3. QED
    BY <1>4, <2>1, <2>2 DEF Decided
<1>5. QED
  BY <1>1, <1>2, <1>3, <1>4, Entering

-----------------------------------------------------------------------------
(* Rows and status posts *)

LEMMA UniqueInductive ==
  ASSUME TypeOK, DecidedInv, UniqueRows, [Next]_vars
  PROVE  UniqueRows'
<1>1. CASE JobsKept
  BY <1>1 DEF JobsKept, UniqueRows
<1>2. ASSUME NEW h \in Handler, Inserts(h) PROVE UniqueRows'
  <2> DEFINE n == Len(jobs) + 1
  <2>1. /\ DOMAIN jobs' = DOMAIN jobs \cup {n}
        /\ \A i \in DOMAIN jobs : jobs'[i] = jobs[i]
        /\ jobs'[n] = NewRow(h) /\ ~Duplicate(h[1], h[2])
    BY <1>2, CreateAppends DEF Decided
  <2>2. jobs'[n].bot = h[1] /\ jobs'[n].post = h[2]
    BY <2>1 DEF NewRow
  <2>3. \A i \in DOMAIN jobs : jobs'[i].bot # h[1] \/ jobs'[i].post # h[2]
    BY <2>1 DEF Duplicate
  <2> HIDE DEF n
  <2>4. QED
    BY <2>1, <2>2, <2>3 DEF UniqueRows
<1>3. QED
  BY <1>1, <1>2, JobsStep

\* The calls that may not fail when there have been no faults.
LEMMA Faultless ==
  ASSUME TypeOK, StatusInv, faults' = 0, [Next]_vars
  PROVE  /\ faults = 0 /\ listener = token /\ ended = {} /\ UNCHANGED rows
         /\ ~BrokerCrash /\ \A b \in Bot : ~Sync(b)
         /\ \A h \in Handler : ~HandlerFails(h) /\ ~ActiveUnread(h) /\ ~Abandon(h)
<1>1. faults \in Nat
  BY DEF TypeOK
<1>2. ~Fault
  BY <1>1 DEF Fault
<1>3. faults = 0
  BY <1>1, <1>2 DEF Next, Handle, vars, rows, made, Write, ChangeBot, Sync, Deliver, DropStream,
     Take, Hook, HookFails, Lock, Ignore, Reply, HandleCancel, StartCreate, StatusPost, CreateJob,
     ActiveUnread, HandlerFails, Abandon, EndJob, BrokerCrash
<1>4. listener = token /\ ended = {}
  BY <1>3 DEF StatusInv
<1>5. ~BrokerCrash /\ \A b \in Bot : ~Sync(b)
  BY <1>2, <1>4 DEF BrokerCrash, Sync
<1>6. \A h \in Handler : ~HandlerFails(h) /\ ~ActiveUnread(h) /\ ~Abandon(h)
  BY <1>2, <1>4 DEF HandlerFails, ActiveUnread, Abandon
<1>7. UNCHANGED rows
  BY <1>2, <1>5, <1>6 DEF Next, Handle, vars, rows, made, Write, ChangeBot, Deliver, DropStream,
     Take, Hook, HookFails, Lock, Ignore, Reply, HandleCancel, StartCreate, StatusPost, CreateJob,
     EndJob
<1>8. QED
  BY <1>3, <1>4, <1>5, <1>6, <1>7

\* Without faults, a handler that is about to write its row writes it.
LEMMA Inserting ==
  ASSUME TypeOK, MutexInv, DeliveryInv, DecidedInv, StatusInv, faults' = 0, [Next]_vars,
         NEW h \in Handler, stage[h] = "insert"
  PROVE  stage'[h] = "insert" \/ Duplicate(h[1], h[2])'
<1> USE Handlers DEF rows, made
<1>0. stage \in [Handler -> Stage]
  BY DEF TypeOK
<1>1. CASE UNCHANGED stage
  BY <1>1
<1>2. ASSUME NEW p \in Post, Write(p) PROVE stage'[h] = "insert"
  <2>1. In(written, h[2])
    BY DEF DeliveryInv
  <2>2. h[2] # p
    BY <1>2, <2>1 DEF Write, IsWritten, In
  <2>3. QED
    BY <1>2, <2>2 DEF Write
<1>3. ASSUME NEW b \in Bot, Take(b) PROVE stage'[h] = "insert"
  <2>1. Head(events[b]) \in Post
    BY <1>3, TailIs DEF Take, TypeOK
  <2>2. <<b, Head(events[b]), "ws">> # h
    BY <1>3, <2>1, Faultless DEF Take, WorkerIdle, Working, Handling
  <2>3. QED
    BY <1>0, <1>3, <2>2 DEF Take
<1>4. ASSUME NEW b \in Bot, NEW p \in Post, Hook(b, p) \/ HookFails(b, p)
      PROVE stage'[h] = "insert"
  <2>1. <<b, p, "hook">> # h
    BY <1>4 DEF Hook, HookFails
  <2>2. QED
    BY <1>0, <1>4, <2>1 DEF Hook, HookFails
<1>5. ASSUME NEW g \in Handler,
             Lock(g) \/ Ignore(g) \/ Reply(g) \/ HandleCancel(g) \/ StartCreate(g) \/ StatusPost(g)
      PROVE stage'[h] = "insert"
  BY <1>0, <1>5 DEF Lock, Ignore, Reply, HandleCancel, StartCreate, StatusPost, Return
<1>6. ASSUME NEW g \in Handler, CreateJob(g) PROVE Duplicate(h[1], h[2])'
  <2>1. g = h /\ Inserts(g)
    BY <1>6 DEF CreateJob, Inserts, MutexInv, Critical
  <2>2. Len(jobs) + 1 \in DOMAIN jobs' /\ jobs'[Len(jobs) + 1] = NewRow(h)
    BY <1>6, <2>1, CreateAppends
  <2>3. QED
    BY <2>2 DEF Duplicate, NewRow
<1>7. QED
  BY <1>1, <1>2, <1>3, <1>4, <1>5, <1>6, Faultless
  DEF Next, Handle, vars, ChangeBot, Deliver, DropStream, EndJob

LEMMA StatusInductive ==
  ASSUME TypeOK, MutexInv, DeliveryInv, DecidedInv, StatusInv, [Next]_vars
  PROVE  StatusInv'
<1> USE Handlers
<1>0. SUFFICES ASSUME faults' = 0 PROVE StatusInv'
  BY DEF StatusInv
<1>1. faults = 0 /\ listener' = token' /\ ended' = {}
  BY <1>0, Faultless DEF rows
<1>2. ASSUME NEW b \in Bot, NEW p \in Post, statuses'[b][p] # 0
      PROVE  /\ statuses'[b][p] = 1
             /\ Duplicate(b, p)' \/ \E v \in Via : stage'[<<b, p, v>>] = "insert"
  <2>1. CASE statuses'[b][p] = statuses[b][p]
    <3>1. /\ statuses[b][p] = 1
          /\ Duplicate(b, p) \/ \E v \in Via : stage[<<b, p, v>>] = "insert"
      BY <1>1, <1>2, <2>1 DEF StatusInv
    <3>2. CASE Duplicate(b, p)
      BY <2>1, <3>1, <3>2, RowsStay
    <3>3. ASSUME NEW v \in Via, stage[<<b, p, v>>] = "insert"
          PROVE stage'[<<b, p, v>>] = "insert" \/ Duplicate(b, p)'
      <4> DEFINE h == <<b, p, v>>
      <4>1. h \in Handler /\ h[1] = b /\ h[2] = p /\ stage[h] = "insert"
        BY <3>3
      <4>2. stage'[h] = "insert" \/ Duplicate(h[1], h[2])'
        BY <1>0, <4>1, Inserting
      <4>3. QED
        BY <4>1, <4>2
    <3>4. QED
      BY <2>1, <3>1, <3>2, <3>3
  <2>2. ASSUME NEW h \in Handler, StatusPost(h), h[1] = b, h[2] = p
        PROVE statuses'[b][p] = 1 /\ \E v \in Via : stage'[<<b, p, v>>] = "insert"
    <3>1. ~Duplicate(b, p)
      BY <2>2 DEF StatusPost, DecidedInv, Decided
    <3>2. ASSUME NEW v \in Via, stage[<<b, p, v>>] = "insert" PROVE FALSE
      <4>1. mu = <<b, p, v>> /\ mu = h
        BY <2>2, <3>2 DEF MutexInv, Critical, StatusPost
      <4>2. QED
        BY <2>2, <3>2, <4>1 DEF StatusPost
    <3>3. statuses[b][p] = 0
      BY <1>1, <3>1, <3>2 DEF StatusInv
    <3>4. statuses'[b][p] = 1
      BY <2>2, <3>3 DEF StatusPost, TypeOK
    <3>5. h = <<b, p, h[3]>> /\ h[3] \in Via /\ stage'[h] = "insert"
      BY <2>2 DEF StatusPost, TypeOK
    <3>6. QED
      BY <3>4, <3>5
  <2>3. ASSUME NEW h \in Handler, StatusPost(h), h[1] # b \/ h[2] # p
        PROVE statuses'[b][p] = statuses[b][p]
    BY <2>3 DEF StatusPost, TypeOK
  <2>4. CASE UNCHANGED statuses
    BY <2>1, <2>4
  <2>5. QED
    BY <1>0, <2>1, <2>2, <2>3, <2>4, Faultless
    DEF Next, Handle, vars, rows, made, Write, ChangeBot, Sync, Deliver, DropStream, Take,
        Hook, HookFails, Lock, Ignore, Reply, HandleCancel, StartCreate, CreateJob, ActiveUnread,
        HandlerFails, EndJob, BrokerCrash
<1>3. QED
  BY <1>1, <1>2 DEF StatusInv, Duplicate

-----------------------------------------------------------------------------
(* The order of a bot's posts *)

\* What a step does to the two queues of a bot.
LEMMA QueueStep ==
  ASSUME TypeOK, [Next]_vars, NEW b \in Bot
  PROVE  \/ /\ stream'[b] = stream[b] \/ stream'[b] = <<>>
            /\ events'[b] = events[b] \/ events'[b] = <<>>
            /\ ~Take(b)
         \/ \E p \in Post : Write(p) /\ stream'[b] = Append(stream[b], p) /\ events'[b] = events[b]
                            /\ ~Take(b)
         \/ /\ stream[b] # <<>> /\ stream'[b] = Tail(stream[b])
            /\ events'[b] = Append(events[b], Head(stream[b])) /\ ~Take(b)
         \/ /\ Take(b) /\ events[b] # <<>>
            /\ stream'[b] = stream[b] /\ events'[b] = Tail(events[b])
<1> USE DEF rows, made
<1>0. /\ stream \in [Bot -> Seq(Post)] /\ events \in [Bot -> Seq(Post)]
      /\ written \in Seq(Post) /\ stream[b] \in Seq(Post) /\ events[b] \in Seq(Post)
  BY DEF TypeOK
<1>1. CASE Take(b)
  BY <1>0, <1>1 DEF Take
<1>2. ASSUME NEW p \in Post, Write(p)
      PROVE (stream'[b] = stream[b] \/ stream'[b] = Append(stream[b], p)) /\ events'[b] = events[b]
  BY <1>0, <1>2 DEF Write
<1>3. CASE Deliver(b)
  BY <1>0, <1>1, <1>3 DEF Deliver
<1>4. ASSUME NEW c \in Bot, Sync(c) \/ DropStream(c)
      PROVE /\ stream'[b] = stream[b] \/ stream'[b] = <<>>
            /\ events'[b] = events[b] \/ events'[b] = <<>>
  BY <1>0, <1>4 DEF Sync, DropStream
<1>5. ASSUME NEW c \in Bot, c # b, Deliver(c) \/ Take(c)
      PROVE stream'[b] = stream[b] /\ events'[b] = events[b]
  BY <1>0, <1>5 DEF Deliver, Take
<1>6. CASE UNCHANGED <<stream, events>>
  BY <1>1, <1>6
<1>7. CASE BrokerCrash
  BY <1>1, <1>7 DEF BrokerCrash
<1>8. QED
  BY <1>1, <1>2, <1>3, <1>4, <1>5, <1>6, <1>7
  DEF Next, Handle, vars, ChangeBot, Hook, HookFails, Lock, Ignore, Reply, HandleCancel,
      StartCreate, StatusPost, CreateJob, ActiveUnread, HandlerFails, Abandon, EndJob

LEMMA OrderInductive ==
  ASSUME TypeOK, DeliveryInv, NEW b \in Bot, OrderInv(b), [Next]_vars
  PROVE  OrderInv(b)'
<1>0. stream[b] \in Seq(Post) /\ events[b] \in Seq(Post)
  BY DEF TypeOK
<1>1. CASE /\ stream'[b] = stream[b] \/ stream'[b] = <<>>
           /\ events'[b] = events[b] \/ events'[b] = <<>>
  BY <1>1, WrittenGrows DEF OrderInv
<1>2. ASSUME NEW p \in Post, Write(p), stream'[b] = Append(stream[b], p), events'[b] = events[b]
      PROVE  OrderInv(b)'
  <2> DEFINE n == Len(stream[b]) + 1
  <2>1. /\ DOMAIN stream'[b] = DOMAIN stream[b] \cup {n}
        /\ \A i \in DOMAIN stream[b] : stream'[b][i] = stream[b][i] /\ i < n
        /\ stream'[b][n] = p /\ n \in Nat /\ DOMAIN stream[b] \subseteq Nat
    BY <1>0, <1>2, AppendIs
  <2>2. /\ \A i \in DOMAIN stream[b] : Before(written', stream[b][i], p)
        /\ \A i \in DOMAIN events[b] : Before(written', events[b][i], p)
    BY <1>2, WrittenLast DEF DeliveryInv
  <2> HIDE DEF n
  <2>3. ASSUME NEW i \in DOMAIN stream'[b], NEW j \in DOMAIN stream'[b], i < j
        PROVE  Before(written', stream'[b][i], stream'[b][j])
    <3>1. i \in DOMAIN stream[b]
      BY <2>1, <2>3
    <3>2. CASE j \in DOMAIN stream[b]
      BY <2>1, <2>3, <3>1, <3>2, WrittenGrows DEF OrderInv
    <3>3. CASE j = n
      BY <2>1, <2>2, <3>1, <3>3
    <3>4. QED
      BY <2>1, <2>3, <3>2, <3>3
  <2>4. \A i, j \in DOMAIN events'[b] : i < j => Before(written', events'[b][i], events'[b][j])
    BY <1>2, WrittenGrows DEF OrderInv
  <2>5. ASSUME NEW i \in DOMAIN events'[b], NEW j \in DOMAIN stream'[b]
        PROVE  Before(written', events'[b][i], stream'[b][j])
    <3>1. CASE j \in DOMAIN stream[b]
      BY <1>2, <2>1, <3>1, WrittenGrows DEF OrderInv
    <3>2. CASE j = n
      BY <1>2, <2>1, <2>2, <3>2
    <3>3. QED
      BY <2>1, <2>5, <3>1, <3>2
  <2>6. QED
    BY <2>3, <2>4, <2>5 DEF OrderInv
<1>3. CASE /\ stream[b] # <<>> /\ stream'[b] = Tail(stream[b])
           /\ events'[b] = Append(events[b], Head(stream[b]))
  <2> DEFINE n == Len(events[b]) + 1
             p == Head(stream[b])
  <2>1. /\ p \in Post /\ 1 \in DOMAIN stream[b] /\ p = stream[b][1]
        /\ \A i \in DOMAIN stream'[b] : /\ i + 1 \in DOMAIN stream[b] /\ 1 < i + 1
                                        /\ stream'[b][i] = stream[b][i + 1]
        /\ DOMAIN stream'[b] \subseteq Nat
    BY <1>0, <1>3, TailIs
  <2>2. /\ DOMAIN events'[b] = DOMAIN events[b] \cup {n}
        /\ \A i \in DOMAIN events[b] : events'[b][i] = events[b][i] /\ i < n
        /\ events'[b][n] = p /\ n \in Nat /\ DOMAIN events[b] \subseteq Nat
    BY <1>0, <1>3, <2>1, AppendIs
  <2> HIDE DEF n, p
  <2>3. ASSUME NEW i \in DOMAIN stream'[b], NEW j \in DOMAIN stream'[b], i < j
        PROVE  Before(written', stream'[b][i], stream'[b][j])
    <3>1. i + 1 < j + 1
      BY <2>1, <2>3
    <3>2. QED
      BY <2>1, <2>3, <3>1, WrittenGrows DEF OrderInv
  <2>4. ASSUME NEW i \in DOMAIN events'[b], NEW j \in DOMAIN events'[b], i < j
        PROVE  Before(written', events'[b][i], events'[b][j])
    <3>1. i \in DOMAIN events[b]
      BY <2>2, <2>4
    <3>2. CASE j \in DOMAIN events[b]
      BY <2>2, <2>4, <3>1, <3>2, WrittenGrows DEF OrderInv
    <3>3. CASE j = n
      BY <2>1, <2>2, <3>1, <3>3, WrittenGrows DEF OrderInv
    <3>4. QED
      BY <2>2, <2>4, <3>2, <3>3
  <2>5. ASSUME NEW i \in DOMAIN events'[b], NEW j \in DOMAIN stream'[b]
        PROVE  Before(written', events'[b][i], stream'[b][j])
    <3>1. CASE i \in DOMAIN events[b]
      BY <2>1, <2>2, <2>5, <3>1, WrittenGrows DEF OrderInv
    <3>2. CASE i = n
      BY <2>1, <2>2, <2>5, <3>2, WrittenGrows DEF OrderInv
    <3>3. QED
      BY <2>2, <2>5, <3>1, <3>2
  <2>6. QED
    BY <2>3, <2>4, <2>5 DEF OrderInv
<1>4. CASE events[b] # <<>> /\ stream'[b] = stream[b] /\ events'[b] = Tail(events[b])
  <2>1. /\ \A i \in DOMAIN events'[b] : /\ i + 1 \in DOMAIN events[b]
                                        /\ events'[b][i] = events[b][i + 1]
        /\ DOMAIN events'[b] \subseteq Nat
    BY <1>0, <1>4, TailIs
  <2>2. ASSUME NEW i \in DOMAIN events'[b], NEW j \in DOMAIN events'[b], i < j
        PROVE  Before(written', events'[b][i], events'[b][j])
    <3>1. i + 1 < j + 1
      BY <2>1, <2>2
    <3>2. QED
      BY <2>1, <2>2, <3>1, WrittenGrows DEF OrderInv
  <2>3. QED
    BY <1>4, <2>1, <2>2, WrittenGrows DEF OrderInv
<1>5. QED
  BY <1>1, <1>2, <1>3, <1>4, QueueStep

\* A worker's hands are filled by Take alone.
LEMMA HandlingStep ==
  ASSUME TypeOK, DeliveryInv, [Next]_vars, NEW b \in Bot, NEW p \in Post,
         Handling(<<b, p, "ws">>)'
  PROVE  Handling(<<b, p, "ws">>) \/ (Take(b) /\ p = Head(events[b]))
<1> DEFINE g == <<b, p, "ws">>
<1> USE Handlers DEF rows, made, Handling
<1>0. stage \in [Handler -> Stage] /\ g \in Handler /\ g[1] = b /\ g[2] = p /\ g[3] = "ws"
  BY DEF TypeOK, Via
<1>00. stage'[g] \in {"lock", "route", "status", "insert"}
  OBVIOUS
<1>1. CASE UNCHANGED stage
  BY <1>00, <1>1
<1>2. ASSUME NEW q \in Post, Write(q) PROVE Handling(g)
  BY <1>0, <1>00, <1>2 DEF Write
<1>3. ASSUME NEW c \in Bot, Sync(c) PROVE Handling(g)
  BY <1>0, <1>00, <1>3 DEF Sync
<1>4. ASSUME NEW c \in Bot, Take(c) PROVE Handling(g) \/ (c = b /\ p = Head(events[b]))
  <2>1. stage'[g] = stage[g] \/ g = <<c, Head(events[c]), "ws">>
    BY <1>0, <1>4 DEF Take
  <2>2. QED
    BY <1>00, <2>1
<1>5. ASSUME NEW c \in Bot, NEW q \in Post, Hook(c, q) \/ HookFails(c, q) PROVE Handling(g)
  <2>1. g # <<c, q, "hook">>
    OBVIOUS
  <2>2. stage'[g] = stage[g]
    BY <1>0, <1>5, <2>1 DEF Hook, HookFails
  <2>3. QED
    BY <1>00, <2>2
<1>6. ASSUME NEW h \in Handler, Handle(h) \/ ActiveUnread(h) \/ HandlerFails(h) \/ Abandon(h)
      PROVE Handling(g)
  <2> HIDE DEF g
  <2>1. stage'[g] = stage[g] \/ h = g
    BY <1>0, <1>6 DEF Handle, Lock, Ignore, Reply, HandleCancel, StartCreate, StatusPost, CreateJob,
       ActiveUnread, HandlerFails, Abandon, Return
  <2>2. stage[h] \in {"lock", "route", "status", "insert"}
    BY <1>6 DEF Handle, Lock, Ignore, Reply, HandleCancel, StartCreate, StatusPost, CreateJob,
       ActiveUnread, HandlerFails, Abandon
  <2>3. QED
    BY <1>00, <2>1, <2>2
<1>7. CASE BrokerCrash
  BY <1>0, <1>00, <1>7 DEF BrokerCrash
<1>8. QED
  BY <1>1, <1>2, <1>3, <1>4, <1>5, <1>6, <1>7 DEF Next, vars, ChangeBot, Deliver, DropStream, EndJob

\* A handler is one of a replaced listener until it returns.
LEMMA WorkingStep ==
  ASSUME TypeOK, DeliveryInv, [Next]_vars, NEW b \in Bot, NEW p \in Post, Working(b, p)'
  PROVE  Working(b, p) \/ (Take(b) /\ p = Head(events[b]))
<1> DEFINE g == <<b, p, "ws">>
<1> USE Handlers DEF rows, made, Handling
<1>1. g \in Handler /\ stage \in [Handler -> Stage] /\ stage'[g] # "none" /\ g \notin ended'
  BY DEF Working, Via, TypeOK
<1>2. Handling(g) \/ (Take(b) /\ p = Head(events[b]))
  BY HandlingStep DEF Working
<1>3. g \notin ended
  <2> HIDE DEF g
  <2>1. ASSUME NEW c \in Bot, Sync(c) PROVE ended \subseteq ended'
    BY <2>1 DEF Sync
  <2>2. ASSUME NEW h \in Handler, Abandon(h) PROVE g \notin ended
    BY <1>1, <2>2 DEF Abandon, Return
  <2>3. ~BrokerCrash
    BY <1>1 DEF BrokerCrash
  <2>4. QED
    BY <1>1, <2>1, <2>2, <2>3
    DEF Next, Handle, vars, Write, ChangeBot, Deliver, DropStream, Take, Hook, HookFails, Lock,
        Ignore, Reply, HandleCancel, StartCreate, StatusPost, CreateJob, ActiveUnread,
        HandlerFails, EndJob
<1>4. QED
  BY <1>2, <1>3 DEF Working

LEMMA WorkerInductive ==
  ASSUME TypeOK, DeliveryInv, NEW b \in Bot, WorkerInv(b), [Next]_vars
  PROVE  WorkerInv(b)'
<1>1. SUFFICES ASSUME NEW p \in Post, NEW q \in Post,
                      Working(b, p)', Working(b, q)'
               PROVE  p = q
  BY DEF WorkerInv
<1>2. CASE Take(b)
  <2>1. ~Working(b, p) /\ ~Working(b, q)
    BY <1>2 DEF Take, WorkerIdle
  <2>2. QED
    BY <1>1, <2>1, WorkingStep
<1>3. CASE ~Take(b)
  <2>1. Working(b, p) /\ Working(b, q)
    BY <1>1, <1>3, WorkingStep
  <2>2. QED
    BY <2>1 DEF WorkerInv
<1>4. QED
  BY <1>2, <1>3

\* A post that no webhook reports becomes a job in the worker's hands.
LEMMA PastStep ==
  ASSUME TypeOK, DeliveryInv, DecidedInv, [Next]_vars, NEW b \in Bot, NEW q \in Post, Past(b, q)'
  PROVE  Past(b, q) \/ (Take(b) /\ q = Head(events[b]))
<1>1. CASE Handling(<<b, q, "ws">>)'
  BY <1>1, HandlingStep DEF Past
<1>2. ASSUME Hooked[q] = {}, NEW i \in DOMAIN jobs', jobs'[i].bot = b, jobs'[i].post = q
      PROVE  Past(b, q)
  <2>1. CASE JobsKept
    BY <1>2, <2>1 DEF JobsKept, Past
  <2>2. ASSUME NEW h \in Handler, Inserts(h) PROVE Past(b, q)
    <3>1. CASE i \in DOMAIN jobs
      BY <1>2, <2>2, <3>1, CreateAppends DEF Past
    <3>2. CASE i = Len(jobs) + 1
      <4>1. jobs'[i] = NewRow(h)
        BY <2>2, <3>2, CreateAppends
      <4>2. h[1] = b /\ h[2] = q
        BY <1>2, <4>1 DEF NewRow
      <4>3. h = <<b, q, h[3]>> /\ h[3] \in Via /\ stage[h] = "insert"
        BY <2>2, <4>2, Handlers DEF Inserts
      <4>4. h[3] # "hook"
        BY <1>2, <4>3 DEF DeliveryInv
      <4>5. Handling(<<b, q, "ws">>)
        BY <4>3, <4>4 DEF Handling, Via
      <4>6. QED
        BY <4>5 DEF Past
    <3>3. QED
      BY <1>2, <2>2, <3>1, <3>2, CreateAppends
  <2>3. QED
    BY <2>1, <2>2, JobsStep
<1>3. QED
  BY <1>1, <1>2 DEF Past

LEMMA PastInductive ==
  ASSUME TypeOK, DeliveryInv, DecidedInv, NEW b \in Bot, OrderInv(b), PastInv(b), [Next]_vars
  PROVE  PastInv(b)'
<1>0. stream[b] \in Seq(Post) /\ events[b] \in Seq(Post)
  BY DEF TypeOK
<1>1. SUFFICES ASSUME NEW q \in Post, Past(b, q)'
               PROVE  /\ \A i \in DOMAIN stream'[b] : Before(written', q, stream'[b][i])
                      /\ \A i \in DOMAIN events'[b] : Before(written', q, events'[b][i])
                      /\ \A p \in Post : Working(b, p)' => p = q \/ Before(written', q, p)
  BY DEF PastInv
<1>2. CASE Take(b)
  <2>1. /\ events[b] # <<>> /\ stream'[b] = stream[b] /\ events'[b] = Tail(events[b])
        /\ WorkerIdle(b)
    BY <1>2, QueueStep DEF Take
  <2>2. /\ Head(events[b]) \in Post /\ 1 \in DOMAIN events[b] /\ Head(events[b]) = events[b][1]
        /\ \A i \in DOMAIN events'[b] : /\ i + 1 \in DOMAIN events[b] /\ 1 < i + 1
                                        /\ events'[b][i] = events[b][i + 1]
    BY <1>0, <2>1, TailIs
  <2>3. \A p \in Post : Working(b, p)' => p = Head(events[b])
    BY <2>1, WorkingStep DEF WorkerIdle
  <2>4. CASE Past(b, q)
    <3>1. /\ \A i \in DOMAIN stream[b] : Before(written', q, stream[b][i])
          /\ \A i \in DOMAIN events[b] : Before(written', q, events[b][i])
      BY <2>4, WrittenGrows DEF PastInv
    <3>2. QED
      BY <2>1, <2>2, <2>3, <3>1
  <2>5. CASE q = Head(events[b])
    <3>1. \A i \in DOMAIN stream'[b] : Before(written', q, stream'[b][i])
      BY <2>1, <2>2, <2>5, WrittenGrows DEF OrderInv
    <3>2. \A i \in DOMAIN events'[b] : Before(written', q, events'[b][i])
      BY <2>2, <2>5, WrittenGrows DEF OrderInv
    <3>3. QED
      BY <2>3, <2>5, <3>1, <3>2
  <2>6. QED
    BY <1>1, <2>4, <2>5, PastStep
<1>3. CASE ~Take(b)
  <2>1. Past(b, q)
    BY <1>1, <1>3, PastStep
  <2>2. /\ \A i \in DOMAIN stream[b] : Before(written', q, stream[b][i])
        /\ \A i \in DOMAIN events[b] : Before(written', q, events[b][i])
        /\ \A p \in Post : Working(b, p) => p = q \/ Before(written', q, p)
    BY <2>1, WrittenGrows DEF PastInv
  <2>3. \A p \in Post : Working(b, p)' => p = q \/ Before(written', q, p)
    BY <1>3, <2>2, WorkingStep
  <2>4. CASE /\ stream'[b] = stream[b] \/ stream'[b] = <<>>
             /\ events'[b] = events[b] \/ events'[b] = <<>>
    BY <2>2, <2>3, <2>4
  <2>5. ASSUME NEW p \in Post, Write(p), stream'[b] = Append(stream[b], p), events'[b] = events[b]
        PROVE  /\ \A i \in DOMAIN stream'[b] : Before(written', q, stream'[b][i])
               /\ \A i \in DOMAIN events'[b] : Before(written', q, events'[b][i])
    <3>1. In(written, q)
      BY <2>1, Handlers DEF Past, Handling, DeliveryInv, Via
    <3>2. Before(written', q, p)
      BY <2>5, <3>1, WrittenLast
    <3>3. \A i \in DOMAIN stream'[b] : \/ i \in DOMAIN stream[b] /\ stream'[b][i] = stream[b][i]
                                       \/ stream'[b][i] = p
      BY <1>0, <2>5, AppendIs
    <3>4. QED
      BY <2>2, <2>5, <3>2, <3>3
  <2>6. CASE /\ stream[b] # <<>> /\ stream'[b] = Tail(stream[b])
             /\ events'[b] = Append(events[b], Head(stream[b]))
    <3>1. /\ Head(stream[b]) \in Post /\ 1 \in DOMAIN stream[b] /\ Head(stream[b]) = stream[b][1]
          /\ \A i \in DOMAIN stream'[b] : i + 1 \in DOMAIN stream[b]
                                          /\ stream'[b][i] = stream[b][i + 1]
      BY <1>0, <2>6, TailIs
    <3>2. \A i \in DOMAIN events'[b] : \/ i \in DOMAIN events[b] /\ events'[b][i] = events[b][i]
                                       \/ events'[b][i] = stream[b][1]
      BY <1>0, <2>6, <3>1, AppendIs
    <3>3. QED
      BY <2>2, <2>3, <3>1, <3>2
  <2>7. QED
    BY <1>3, <2>3, <2>4, <2>5, <2>6, QueueStep
<1>4. QED
  BY <1>2, <1>3

-----------------------------------------------------------------------------
(* The properties themselves *)

LEMMA OneActiveInductive ==
  ASSUME TypeOK, DecidedInv, OneActiveInThread, [Next]_vars
  PROVE  OneActiveInThread'
<1>1. CASE JobsKept
  BY <1>1, BlindGrows DEF JobsKept, OneActiveInThread
<1>2. ASSUME NEW h \in Handler, Inserts(h) PROVE OneActiveInThread'
  <2> DEFINE n == Len(jobs) + 1
  <2>1. /\ DOMAIN jobs' = DOMAIN jobs \cup {n}
        /\ \A i \in DOMAIN jobs : jobs'[i] = jobs[i]
        /\ jobs'[n] = NewRow(h) /\ Decided(h[1], h[2])
    BY <1>2, CreateAppends
  <2>2. jobs'[n].bot = h[1] /\ jobs'[n].post = h[2]
    BY <2>1 DEF NewRow
  <2>3. ASSUME NEW i \in DOMAIN jobs, jobs[i].active, jobs[i].bot = h[1],
               Root[jobs[i].post] = Root[h[2]]
        PROVE  <<h[1], h[2]>> \in blind'
    <3>1. i \in ActiveJobs(h[1], h[2])
      BY <2>3 DEF ActiveJobs, ThreadJobs
    <3>2. QED
      BY <2>1, <3>1, BlindGrows DEF Decided
  <2> HIDE DEF n
  <2>4. ASSUME NEW i \in DOMAIN jobs', NEW j \in DOMAIN jobs',
               jobs'[i].active, jobs'[j].active,
               jobs'[i].bot = jobs'[j].bot, Root[jobs'[i].post] = Root[jobs'[j].post]
        PROVE  i = j \/ \E k \in {i, j} : <<jobs'[k].bot, jobs'[k].post>> \in blind'
    <3>1. CASE i \in DOMAIN jobs /\ j \in DOMAIN jobs
      BY <2>1, <2>4, <3>1, BlindGrows DEF OneActiveInThread
    <3>2. CASE i \in DOMAIN jobs /\ j = n
      BY <2>1, <2>2, <2>3, <2>4, <3>2
    <3>3. CASE i = n /\ j \in DOMAIN jobs
      BY <2>1, <2>2, <2>3, <2>4, <3>3
    <3>4. QED
      BY <2>1, <2>4, <3>1, <3>2, <3>3
  <2>5. QED
    BY <2>4 DEF OneActiveInThread
<1>3. QED
  BY <1>1, <1>2, JobsStep

\* A bot acts on a post it has no row of, after the checks of HandleBotPost.
LEMMA AnsweredStep ==
  ASSUME TypeOK, DecidedInv, [Next]_vars, NEW t \in answered'
  PROVE  \/ t \in answered
         \/ /\ t[1] \in Bot /\ t[2] \in Post /\ ~Duplicate(t[1], t[2])
            /\ t[1] \in Names[t[2]] \/ (Names[t[2]] = {} /\ ThreadJobs(t[1], t[2]) # {})
<1> USE Handlers DEF rows, made
<1>1. CASE answered' = answered
  BY <1>1
<1>2. ASSUME NEW h \in Handler, Act(h[1], h[2]),
             Decision(h[1], h[2]) \in {"cancel", "reply"} \/ Decided(h[1], h[2])
      PROVE  \/ t \in answered
             \/ /\ t[1] \in Bot /\ t[2] \in Post /\ ~Duplicate(t[1], t[2])
                /\ t[1] \in Names[t[2]] \/ (Names[t[2]] = {} /\ ThreadJobs(t[1], t[2]) # {})
  <2>1. t \in answered \/ t = <<h[1], h[2]>>
    BY <1>2 DEF Act
  <2>2. /\ ~Duplicate(h[1], h[2])
        /\ h[1] \in Names[h[2]] \/ (Names[h[2]] = {} /\ ThreadJobs(h[1], h[2]) # {})
    BY <1>2, Decisions DEF Decided
  <2>3. QED
    BY <2>1, <2>2
<1>3. ASSUME NEW h \in Handler, Reply(h) \/ HandleCancel(h)
      PROVE  Act(h[1], h[2]) /\ Decision(h[1], h[2]) \in {"cancel", "reply"}
  BY <1>3 DEF Reply, HandleCancel
<1>4. ASSUME NEW h \in Handler, ActiveUnread(h)
      PROVE  answered' = answered \/ (Act(h[1], h[2]) /\ Decision(h[1], h[2]) = "cancel")
  BY <1>4 DEF ActiveUnread
<1>5. ASSUME NEW h \in Handler, CreateJob(h) \/ Abandon(h)
      PROVE  answered' = answered \/ (Act(h[1], h[2]) /\ Decided(h[1], h[2]))
  BY <1>5 DEF CreateJob, Abandon, DecidedInv
<1>6. QED
  BY <1>1, <1>2, <1>3, <1>4, <1>5
  DEF Next, Handle, vars, Write, ChangeBot, Sync, Deliver, DropStream, Take, Hook, HookFails,
      Lock, Ignore, StartCreate, StatusPost, HandlerFails, EndJob, BrokerCrash

\* A new row comes after the others.
LEMMA NewLast ==
  ASSUME TypeOK, DecidedInv, [Next]_vars, NEW i \in DOMAIN jobs'
  PROVE  i \in DOMAIN jobs \/ \A j \in DOMAIN jobs : j < i
<1>1. CASE JobsKept
  BY <1>1 DEF JobsKept
<1>2. ASSUME NEW h \in Handler, Inserts(h) PROVE i \in DOMAIN jobs \/ \A j \in DOMAIN jobs : j < i
  BY <1>2, CreateAppends
<1>3. QED
  BY <1>1, <1>2, JobsStep

LEMMA OnlyAddressedInductive ==
  ASSUME TypeOK, DecidedInv, OnlyAddressed, [Next]_vars
  PROVE  OnlyAddressed'
<1>1. SUFFICES ASSUME NEW t \in answered', t[1] \notin Names[t[2]]
               PROVE  /\ Names[t[2]] = {}
                      /\ \E j \in ThreadJobs(t[1], t[2])' :
                           \A i \in DOMAIN jobs' : jobs'[i].bot = t[1] /\ jobs'[i].post = t[2] => j < i
  BY DEF OnlyAddressed
<1>2. ASSUME NEW j \in ThreadJobs(t[1], t[2]) PROVE j \in ThreadJobs(t[1], t[2])'
  BY RowsStay DEF ThreadJobs
<1>3. ASSUME NEW j \in ThreadJobs(t[1], t[2]),
             \A i \in DOMAIN jobs : jobs[i].bot = t[1] /\ jobs[i].post = t[2] => j < i
      PROVE  \A i \in DOMAIN jobs' : jobs'[i].bot = t[1] /\ jobs'[i].post = t[2] => j < i
  <2>1. j \in DOMAIN jobs
    BY DEF ThreadJobs
  <2>2. QED
    BY <1>3, <2>1, RowsStay, NewLast
<1>4. CASE t \in answered
  <2>1. /\ Names[t[2]] = {}
        /\ \E j \in ThreadJobs(t[1], t[2]) :
             \A i \in DOMAIN jobs : jobs[i].bot = t[1] /\ jobs[i].post = t[2] => j < i
    BY <1>1, <1>4 DEF OnlyAddressed
  <2>2. QED
    BY <2>1, <1>2, <1>3
<1>5. CASE ~Duplicate(t[1], t[2]) /\ Names[t[2]] = {} /\ ThreadJobs(t[1], t[2]) # {}
  <2>1. PICK j \in ThreadJobs(t[1], t[2]) : TRUE
    BY <1>5
  <2>2. \A i \in DOMAIN jobs : jobs[i].bot = t[1] /\ jobs[i].post = t[2] => j < i
    BY <1>5 DEF Duplicate
  <2>3. QED
    BY <1>2, <1>3, <1>5, <2>1, <2>2
<1>6. QED
  BY <1>1, <1>4, <1>5, AnsweredStep

LEMMA CancelInductive ==
  ASSUME TypeOK, DeliveryInv, DecidedInv, CancelStopsEarlier, [Next]_vars,
         \A b \in Bot : PastInv(b)
  PROVE  CancelStopsEarlier'
<1> USE Handlers
<1>0. cancels \subseteq Bot \X Post \X (DOMAIN jobs)
  BY DEF TypeOK
<1>1. SUFFICES ASSUME NEW t \in cancels', Hooked[t[2]] = {}, Hooked[jobs'[t[3]].post] = {}
               PROVE  Before(written', jobs'[t[3]].post, t[2])
  BY DEF CancelStopsEarlier, Earlier, Before
<1>2. CASE t \in cancels
  <2>1. t[3] \in DOMAIN jobs
    BY <1>0, <1>2
  <2>2. jobs'[t[3]].post = jobs[t[3]].post
    BY <2>1, RowsStay
  <2>3. Before(written, jobs[t[3]].post, t[2])
    BY <1>1, <1>2, <2>2 DEF CancelStopsEarlier, Earlier, Before
  <2>4. QED
    BY <2>2, <2>3, WrittenGrows
<1>3. ASSUME NEW h \in Handler, h \notin ended, HandleCancel(h), NEW i \in ActiveJobs(h[1], h[2]),
             t = <<h[1], h[2], i>>
      PROVE  Before(written', jobs'[t[3]].post, t[2])
  <2> DEFINE q == jobs[i].post
  <2>1. i \in DOMAIN jobs /\ jobs[i].bot = h[1] /\ h[1] \in Bot /\ h[2] \in Post
    BY <1>3 DEF ActiveJobs, ThreadJobs
  <2>2. q \in Post /\ Kind[q] = "task"
    <3>1. jobs[i] \in Job
      BY <2>1, JobsType
    <3>2. QED
      BY <3>1 DEF Job, Task
  <2>3. jobs'[t[3]].post = q /\ t[2] = h[2]
    BY <1>3, <2>1, CancelKeeps DEF JobsKept
  <2>4. Hooked[q] = {} /\ Hooked[h[2]] = {}
    BY <1>1, <2>3
  <2>5. stage[h] = "route" /\ Kind[h[2]] = "cancel"
    BY <1>3, Decisions DEF HandleCancel
  <2>6. h[3] # "hook"
    BY <2>4, <2>5 DEF DeliveryInv
  <2>7. Working(h[1], h[2])
    BY <1>3, <2>5, <2>6 DEF Working, Handling, Via
  <2>8. Past(h[1], q)
    BY <2>1, <2>4 DEF Past
  <2> HIDE DEF q
  <2>9. Before(written, q, h[2])
    BY <2>1, <2>2, <2>5, <2>7, <2>8 DEF PastInv
  <2>10. QED
    BY <2>3, <2>9, WrittenGrows
<1>4. ASSUME NEW h \in Handler, HandleCancel(h), t \notin cancels
      PROVE  \E i \in ActiveJobs(h[1], h[2]) : t = <<h[1], h[2], i>>
  BY <1>1, <1>4 DEF HandleCancel
<1>5. QED
  BY <1>1, <1>2, <1>3, <1>4
  DEF Next, Handle, vars, rows, made, Write, ChangeBot, Sync, Deliver, DropStream, Take,
      Hook, HookFails, Lock, Ignore, Reply, StartCreate, StatusPost, CreateJob, ActiveUnread,
      HandlerFails, Abandon, EndJob, BrokerCrash

-----------------------------------------------------------------------------
(* Theorems *)

\* Every step of the listeners, the webhooks and HandleBotPost keeps the
\* invariant the theorems below follow from.
THEOREM RoutingInductive ==
  Spec => []RoutingInv
<1>1. Init => RoutingInv
  <2> SUFFICES ASSUME Init PROVE RoutingInv
    OBVIOUS
  <2> USE RoutingAssumption, Handlers
  <2>0. /\ \A h \in Handler : stage[h] = "none"
        /\ \A b \in Bot : DOMAIN stream[b] = {} /\ DOMAIN events[b] = {}
        /\ DOMAIN jobs = {} /\ mu \notin Handler
    BY DEF Init
  <2>1. TypeOK
    BY DEF Init, TypeOK, Token, Stage
  <2>2. WrittenOnce /\ MutexInv /\ DeliveryInv /\ DecidedInv
    BY <2>0 DEF Init, WrittenOnce, MutexInv, Critical, DeliveryInv, DecidedInv, Via
  <2>3. UniqueRows /\ StatusInv
    BY DEF Init, UniqueRows, StatusInv
  <2>4. ASSUME NEW b \in Bot PROVE OrderInv(b) /\ PastInv(b) /\ WorkerInv(b)
    <3>1. OrderInv(b)
      BY <2>0 DEF OrderInv
    <3>2. \A q \in Post : ~Handling(<<b, q, "ws">>)
      BY <2>0 DEF Handling, Via
    <3>3. QED
      BY <2>0, <3>1, <3>2 DEF PastInv, Past, WorkerInv, Working
  <2>5. OneActiveInThread /\ OnlyAddressed /\ CancelStopsEarlier
    BY DEF Init, OneActiveInThread, OnlyAddressed, CancelStopsEarlier
  <2>6. QED
    BY <2>1, <2>2, <2>3, <2>4, <2>5 DEF RoutingInv
<1>2. RoutingInv /\ [Next]_vars => RoutingInv'
  <2> SUFFICES ASSUME RoutingInv, [Next]_vars PROVE RoutingInv'
    OBVIOUS
  <2>1. /\ TypeOK /\ WrittenOnce /\ MutexInv /\ DeliveryInv /\ DecidedInv /\ UniqueRows /\ StatusInv
        /\ \A b \in Bot : OrderInv(b) /\ PastInv(b) /\ WorkerInv(b)
        /\ OneActiveInThread /\ OnlyAddressed /\ CancelStopsEarlier
    BY DEF RoutingInv
  <2>2. TypeOK' /\ WrittenOnce' /\ MutexInv' /\ DeliveryInv' /\ DecidedInv'
    BY <2>1, TypeInductive, OnceInductive, MutexInductive, DeliveryInductive, DecidedInductive
  <2>3. UniqueRows' /\ StatusInv'
    BY <2>1, UniqueInductive, StatusInductive
  <2>4. ASSUME NEW b \in Bot PROVE OrderInv(b)' /\ PastInv(b)' /\ WorkerInv(b)'
    BY <2>1, OrderInductive, PastInductive, WorkerInductive
  <2>5. OneActiveInThread' /\ OnlyAddressed' /\ CancelStopsEarlier'
    BY <2>1, OneActiveInductive, OnlyAddressedInductive, CancelInductive
  <2>6. QED
    BY <2>2, <2>3, <2>4, <2>5 DEF RoutingInv
<1>3. QED
  BY <1>1, <1>2, PTL DEF Spec

\* Type correctness: the queues never exceed EventQueueSize, and a row is
\* always of a task of the owner (HandleBotPost).
THEOREM RoutingTypeCorrect ==
  Spec => []TypeOK
<1>1. RoutingInv => TypeOK
  BY DEF RoutingInv
<1>2. QED
  BY <1>1, RoutingInductive, PTL

\* A thread has one active job of a bot at most, unless createJob's read of the
\* active jobs failed: the mutex spans the check and the row.
THEOREM ThreadRunsOne ==
  Spec => []OneActiveInThread
<1>1. RoutingInv => OneActiveInThread
  BY DEF RoutingInv
<1>2. QED
  BY <1>1, RoutingInductive, PTL

\* A bot acts only on a post that addresses it, or on a reply that addresses
\* nobody in a thread where it had a job before.
THEOREM ActsWhenAddressed ==
  Spec => []OnlyAddressed
<1>1. RoutingInv => OnlyAddressed
  BY DEF RoutingInv
<1>2. QED
  BY <1>1, RoutingInductive, PTL

\* A cancel that came by the bot's stream stops only what was posted before it:
\* stream, channel and worker keep the order of the posts, through lost
\* connections, replaced listeners and crashes.
THEOREM CancelReachesBack ==
  Spec => []CancelStopsEarlier
<1>1. RoutingInv => CancelStopsEarlier
  BY DEF RoutingInv
<1>2. QED
  BY <1>1, RoutingInductive, PTL

\* A post has one job of a bot at most and, without faults, one status post,
\* however often its two transports deliver it.
THEOREM PostRunsOnce ==
  Spec => []OneJobPerPost
<1>1. ASSUME TypeOK, UniqueRows, StatusInv PROVE OneJobPerPost
  <2>1. ASSUME NEW b \in Bot, NEW p \in Post \ Foreign
        PROVE  LET rowsOf == {i \in DOMAIN jobs : jobs[i].bot = b /\ jobs[i].post = p}
                   making == {v \in Via : stage[<<b, p, v>>] = "insert"} IN
               /\ Cardinality(rowsOf) <= 1
               /\ statuses[b][p] > Cardinality(rowsOf) + Cardinality(making) => faults > 0
    <3> DEFINE rowsOf == {i \in DOMAIN jobs : jobs[i].bot = b /\ jobs[i].post = p}
               making == {v \in Via : stage[<<b, p, v>>] = "insert"}
    <3>1. IsFiniteSet(rowsOf) /\ Cardinality(rowsOf) <= 1
      <4>1. CASE rowsOf = {}
        <5> HIDE DEF rowsOf
        <5>1. QED
          BY <4>1, FS_EmptySet
      <4>2. ASSUME NEW i \in rowsOf PROVE IsFiniteSet(rowsOf) /\ Cardinality(rowsOf) <= 1
        <5>1. rowsOf = {i}
          BY <1>1, <4>2 DEF UniqueRows
        <5> HIDE DEF rowsOf
        <5>2. IsFiniteSet({i}) /\ Cardinality({i}) = 1
          BY FS_Singleton
        <5>3. QED
          BY <5>1, <5>2
      <4>3. QED
        BY <4>1, <4>2
    <3>2. IsFiniteSet(making)
      <4>1. IsFiniteSet({"ws"}) /\ IsFiniteSet({"ws"} \cup {"hook"})
        BY FS_Singleton, FS_AddElement
      <4>2. making \subseteq {"ws"} \cup {"hook"}
        BY DEF Via
      <4> HIDE DEF making
      <4>3. QED
        BY <4>1, <4>2, FS_Subset
    <3>3. Cardinality(rowsOf) \in Nat /\ Cardinality(making) \in Nat
      BY <3>1, <3>2, FS_CardinalityType
    <3>4. (rowsOf # {} => Cardinality(rowsOf) # 0) /\ (making # {} => Cardinality(making) # 0)
      <4> HIDE DEF rowsOf, making
      <4>1. QED
        BY <3>1, <3>2, FS_EmptySet
    <3>5. ASSUME faults = 0, statuses[b][p] # 0
          PROVE  statuses[b][p] = 1 /\ (rowsOf # {} \/ making # {})
      BY <1>1, <3>5 DEF StatusInv, Duplicate
    <3>6. faults \in Nat /\ statuses[b][p] \in Nat
      BY <1>1 DEF TypeOK
    <3> HIDE DEF rowsOf, making
    <3>7. statuses[b][p] > Cardinality(rowsOf) + Cardinality(making) => faults > 0
      BY <3>3, <3>4, <3>5, <3>6
    <3>8. QED
      BY <3>1, <3>7 DEF rowsOf, making
  <2>2. QED
    BY <2>1 DEF OneJobPerPost
<1>2. RoutingInv => OneJobPerPost
  BY <1>1 DEF RoutingInv
<1>3. QED
  BY <1>2, RoutingInductive, PTL
=============================================================================
