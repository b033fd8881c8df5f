------------------------------ MODULE Routing ------------------------------
(***************************************************************************)
(* From a post to a job: the listeners that bots.Manager keeps for the     *)
(* bots (broker/bots: Run; broker/mattermost: Listen), the outgoing        *)
(* webhooks (cli: outgoingHandler) and HandleBotPost (broker/core).  A     *)
(* post may reach the broker twice, once by the stream of a bot that is in *)
(* the channel and once by its webhook, whose handlers run at the same     *)
(* time; HandleBotPost serialises them under routingMu.                    *)
(*                                                                         *)
(* The life of a job after its row is written is module Bridge's; here it  *)
(* is active until EndJob.  Every bot has the same owner, whose posts are  *)
(* all but the Foreign ones.                                               *)
(***************************************************************************)
EXTENDS Integers, Sequences, FiniteSets

CONSTANTS
  Bot,
  Known,        \* the bots with a row, those modelled here and others
  Post,
  Root,         \* Root[p]: the first post of p's thread (rootOf)
  Names,        \* Names[p]: the bots p addresses by @name, or by a direct message
  Kind,         \* Kind[p]: "task", "cancel" or "help"
  Foreign,      \* posts of other users than the owner
  Streamed,     \* Streamed[p]: the bots that are in p's channel
  Hooked,       \* Hooked[p]: the bots whose trigger word p starts with
  QueueSize,    \* EventQueueSize
  MaxFaults     \* bound: failed calls, dropped streams, changed bots and crashes

ASSUME RoutingAssumption ==
  /\ IsFiniteSet(Bot) /\ IsFiniteSet(Post) /\ Bot \subseteq Known
  /\ Root \in [Post -> Post] /\ \A p \in Post : Root[Root[p]] = Root[p]
  /\ Names \in [Post -> SUBSET Known]
  /\ Kind \in [Post -> {"task", "cancel", "help"}]
  /\ Foreign \subseteq Post
  /\ Streamed \in [Post -> SUBSET Bot]
  /\ Hooked \in [Post -> SUBSET Bot] /\ \A p \in Post : Hooked[p] \subseteq Names[p]
  /\ QueueSize \in Nat \ {0} /\ MaxFaults \in Nat

VARIABLES
  token,        \* token[b]: of b's row, 0 when there is no row
  listener,     \* listener[b]: the token the manager's connection for b uses, or 0
  ended,        \* handlers of listeners that were replaced: their context has ended
  written,      \* the posts in the order they were written
  stream,       \* stream[b]: posted events on their way to b's listener
  events,       \* events[b]: the channel between b's read loop and its worker
  stage,        \* stage[h]: where the handling of one delivery stands
  mu,           \* who holds routingMu, or Free
  statuses,     \* statuses[b][p]: the status posts b has written for p
  jobs,         \* the job rows, in the order of created_at
  cancels,      \* <<b, c, i>>: bot b's cancel post c reached job i
  answered,     \* <<b, p>>: b has acted on p: a job, a cancel or a reply
  blind,        \* <<b, p>>: the read of the thread's active jobs failed
  faults

rows == <<token, listener, ended>>
made == <<statuses, jobs, cancels, answered, blind>>
vars == <<rows, written, stream, events, stage, mu, made, faults>>

Via == {"ws", "hook"}
Token == 1 .. 2
Handler == Bot \X Post \X Via
Free == <<>>
Stage == {"none", "sent", "lock", "route", "status", "insert"}

\* The one type invariant: queues respect EventQueueSize, and a row belongs
\* to a task of the owner that was written before.
TypeOK ==
  /\ token \in [Bot -> Token \cup {0}] /\ listener \in [Bot -> Token \cup {0}]
  /\ ended \subseteq Handler
  /\ written \in Seq(Post)
  /\ stream \in [Bot -> Seq(Post)]
  /\ events \in [Bot -> Seq(Post)] /\ \A b \in Bot : Len(events[b]) <= QueueSize
  /\ stage \in [Handler -> Stage]
  /\ mu \in Handler \cup {Free}
  /\ jobs \in Seq([bot : Bot, post : {p \in Post \ Foreign : Kind[p] = "task"}, active : BOOLEAN])
  /\ statuses \in [Bot -> [Post -> Nat]]
  /\ cancels \subseteq Bot \X Post \X (DOMAIN jobs)
  /\ answered \subseteq Bot \X Post /\ blind \subseteq Bot \X Post
  /\ faults \in 0 .. MaxFaults

Init ==
  /\ token = [b \in Bot |-> 1] /\ listener = token /\ ended = {}
  /\ written = <<>>
  /\ stream = [b \in Bot |-> <<>>]
  /\ events = [b \in Bot |-> <<>>]
  /\ stage = [h \in Handler |-> "none"]
  /\ mu = Free
  /\ statuses = [b \in Bot |-> [p \in Post |-> 0]]
  /\ jobs = <<>>
  /\ cancels = {}
  /\ answered = {} /\ blind = {}
  /\ faults = 0

Fault == faults < MaxFaults /\ faults' = faults + 1

IsWritten(p) == \E i \in DOMAIN written : written[i] = p

\* ListJobs with the bot and the thread, with and without the active states.
ThreadJobs(b, p) == {i \in DOMAIN jobs : jobs[i].bot = b /\ Root[jobs[i].post] = Root[p]}
ActiveJobs(b, p) == {i \in ThreadJobs(b, p) : jobs[i].active}

-----------------------------------------------------------------------------
(* bots.Manager                                                            *)

Handling(h) == stage[h] \in {"lock", "route", "status", "insert"}

\* The bot's row is created, deleted (rollbackBot) or given another token.
ChangeBot(b) ==
  /\ Fault
  /\ \E t \in (Token \cup {0}) \ {token[b]} : token' = [token EXCEPT ![b] = t]
  /\ UNCHANGED <<listener, ended, written, stream, events, stage, mu, made>>

\* A turn of Run's loop that finds the row of b changed: the connection with
\* the old token is cancelled and one with the new token begun, with a channel
\* and a worker of its own.  Nothing waits for the old worker: its handler goes
\* on beside the new one with a context that has ended, and the first call for
\* what is still in its channel fails.
Sync(b) ==
  /\ listener[b] # token[b]
  /\ listener' = [listener EXCEPT ![b] = token[b]]
  /\ ended' = ended \cup {h \in Handler : h[1] = b /\ h[3] = "ws" /\ Handling(h)}
  /\ stream' = [stream EXCEPT ![b] = <<>>]
  /\ events' = [events EXCEPT ![b] = <<>>]
  /\ UNCHANGED <<token, written, stage, mu, made, faults>>

-----------------------------------------------------------------------------
(* Delivery.                                                               *)

\* Mattermost: the post goes to the stream of every bot in the channel that
\* listens, and as one request to the webhook of every bot whose trigger word
\* it starts with, private channels excepted.
Write(p) ==
  /\ ~IsWritten(p)
  /\ Root[p] = p \/ IsWritten(Root[p])
  /\ written' = Append(written, p)
  /\ stream' = [b \in Bot |-> IF b \in Streamed[p] /\ listener[b] # 0 THEN Append(stream[b], p) ELSE stream[b]]
  /\ stage' = [h \in Handler |-> IF h[1] \in Hooked[p] /\ h[2] = p /\ h[3] = "hook"
                                 THEN "sent" ELSE stage[h]]
  /\ UNCHANGED <<rows, events, mu, made, faults>>

\* Fault: a full channel loses the event.
DeliverDrops(b) ==
  /\ stream[b] # <<>>
  /\ stream' = [stream EXCEPT ![b] = Tail(@)]
  /\ events' = IF Len(events[b]) < QueueSize
               THEN [events EXCEPT ![b] = Append(@, Head(stream[b]))] ELSE events
  /\ UNCHANGED <<rows, written, stage, mu, made, faults>>

\* listenOnce and deliver: the read loop passes the next event on; it waits
\* while the channel is full.
Deliver(b) ==
  /\ stream[b] # <<>> /\ Len(events[b]) < QueueSize
  /\ stream' = [stream EXCEPT ![b] = Tail(@)]
  /\ events' = [events EXCEPT ![b] = Append(@, Head(stream[b]))]
  /\ UNCHANGED <<rows, written, stage, mu, made, faults>>

\* The connection ends and is dialled again: Mattermost does not repeat what
\* was posted meanwhile.  The channel and the worker belong to Listen and stay.
DropStream(b) ==
  /\ stream[b] # <<>> /\ Fault
  /\ stream' = [stream EXCEPT ![b] = <<>>]
  /\ UNCHANGED <<rows, written, events, stage, mu, made>>

\* b's present worker handles p.
Working(b, p) == Handling(<<b, p, "ws">>) /\ <<b, p, "ws">> \notin ended
WorkerIdle(b) == \A p \in Post : ~Working(b, p)

\* Fault: the newest event first.
TakeLast(b) ==
  /\ events[b] # <<>> /\ WorkerIdle(b)
  /\ stage' = [stage EXCEPT ![<<b, events[b][Len(events[b])], "ws">>] = "lock"]
  /\ events' = [events EXCEPT ![b] = SubSeq(@, 1, Len(@) - 1)]
  /\ UNCHANGED <<rows, written, stream, mu, made, faults>>

\* The worker goroutine of Listen: one event at a time, in their order.
Take(b) ==
  /\ events[b] # <<>> /\ WorkerIdle(b)
  /\ stage' = [stage EXCEPT ![<<b, Head(events[b]), "ws">>] = "lock"]
  /\ events' = [events EXCEPT ![b] = Tail(@)]
  /\ UNCHANGED <<rows, written, stream, mu, made, faults>>

\* outgoingHandler: the bot must have a row, and the request's user must be its
\* owner; the post is read again with the bot's credentials before
\* HandleBotPost sees it.
Hook(b, p) ==
  /\ stage[<<b, p, "hook">>] = "sent"
  /\ stage' = [stage EXCEPT ![<<b, p, "hook">>] =
                            IF token[b] = 0 \/ p \in Foreign THEN "none" ELSE "lock"]
  /\ UNCHANGED <<rows, written, stream, events, mu, made, faults>>

\* GetPost or GetChannel fails, or the request never arrives; it is not
\* sent again.
HookFails(b, p) ==
  /\ stage[<<b, p, "hook">>] = "sent" /\ Fault
  /\ stage' = [stage EXCEPT ![<<b, p, "hook">>] = "none"]
  /\ UNCHANGED <<rows, written, stream, events, mu, made>>

-----------------------------------------------------------------------------
(* HandleBotPost.                                                          *)

\* Fault: no mutex.
LockNever(h) ==
  /\ stage[h] = "lock"
  /\ stage' = [stage EXCEPT ![h] = "route"]
  /\ UNCHANGED <<rows, written, stream, events, mu, made, faults>>

\* routingMu.Lock
Lock(h) ==
  /\ stage[h] = "lock" /\ mu = Free
  /\ mu' = h
  /\ stage' = [stage EXCEPT ![h] = "route"]
  /\ UNCHANGED <<rows, written, stream, events, made, faults>>

\* The handler returns, and routingMu is unlocked.
Return(h) ==
  /\ stage' = [stage EXCEPT ![h] = "none"]
  /\ mu' = Free

Act(b, p) == answered' = answered \cup {<<b, p>>}

\* Fault: a reply that addresses another bot still continues this one's thread.
ContinuesAny(b, p) == Root[p] # p /\ p \notin Foreign /\ ThreadJobs(b, p) # {}

\* A reply that addresses no bot continues the thread for a bot that has run
\* a job of this user in it.
Continues(b, p) ==
  /\ Root[p] # p /\ p \notin Foreign
  /\ Names[p] \ {b} = {}
  /\ ThreadJobs(b, p) # {}

\* Fault: deliveries are not deduplicated.
DuplicateNever(b, p) == FALSE

\* The deduplication: a job of this bot was started by this post.
Duplicate(b, p) == \E i \in DOMAIN jobs : jobs[i].bot = b /\ jobs[i].post = p

\* Fault: anybody may run jobs on the machine.
DecisionAnyUser(b, p) ==
  IF b \notin Names[p] /\ ~Continues(b, p) THEN "ignore"
  ELSE IF Duplicate(b, p) THEN "ignore"
  ELSE IF Kind[p] = "cancel" THEN "cancel"
  ELSE IF Kind[p] = "help" \/ ActiveJobs(b, p) # {} THEN "reply"
  ELSE "create"

\* What HandleBotPost decides, in the order of its early returns.
Decision(b, p) ==
  IF token[b] = 0 THEN "ignore"
  ELSE IF b \notin Names[p] /\ ~Continues(b, p) THEN "ignore"
  ELSE IF p \in Foreign THEN "forbid"
  ELSE IF Duplicate(b, p) THEN "ignore"
  ELSE IF Kind[p] = "cancel" THEN "cancel"
  ELSE IF Kind[p] = "help" \/ ActiveJobs(b, p) # {} THEN "reply"
  ELSE "create"

\* No row of the bot, not for it, or seen before; or answered "Only @owner can run jobs".
Ignore(h) ==
  /\ stage[h] = "route" /\ Decision(h[1], h[2]) \in {"ignore", "forbid"}
  /\ Return(h)
  /\ UNCHANGED <<rows, written, stream, events, made, faults>>

\* The help text, or "A job is already running in this thread."
Reply(h) ==
  /\ stage[h] = "route" /\ Decision(h[1], h[2]) = "reply"
  /\ Act(h[1], h[2])
  /\ Return(h)
  /\ UNCHANGED <<rows, written, stream, events, statuses, jobs, cancels, blind, faults>>

\* handleCancel: cancelJob for every active job of the thread; one that is
\* still queued ends at once, the others when their harness says so.
HandleCancel(h) ==
  LET targets == ActiveJobs(h[1], h[2]) IN
  /\ stage[h] = "route" /\ Decision(h[1], h[2]) = "cancel"
  /\ \E queued \in SUBSET targets :
       jobs' = [i \in DOMAIN jobs |-> [jobs[i] EXCEPT !.active = @ /\ i \notin queued]]
  /\ cancels' = cancels \cup {<<h[1], h[2], i>> : i \in targets}
  /\ Act(h[1], h[2])
  /\ Return(h)
  /\ UNCHANGED <<rows, written, stream, events, statuses, blind, faults>>

\* createJob, up to the checks that refuse.
StartCreate(h) ==
  /\ stage[h] = "route" /\ Decision(h[1], h[2]) = "create"
  /\ stage' = [stage EXCEPT ![h] = "status"]
  /\ UNCHANGED <<rows, written, stream, events, mu, made, faults>>

\* handleCancel and createJob take a failed read of the active jobs for an
\* empty one: "Nothing running in this thread for you", or a job beside the
\* one that runs.
ActiveUnread(h) ==
  LET b == h[1]  p == h[2] IN
  /\ stage[h] = "route" /\ Kind[p] # "help" /\ ActiveJobs(b, p) # {} /\ Fault
  /\ \/ Decision(b, p) = "cancel" /\ Act(b, p) /\ Return(h) /\ UNCHANGED blind
     \/ /\ Decision(b, p) = "reply" /\ stage' = [stage EXCEPT ![h] = "status"]
        /\ blind' = blind \cup {<<b, p>>} /\ UNCHANGED <<mu, answered>>
  /\ UNCHANGED <<rows, written, stream, events, statuses, jobs, cancels>>

\* GetUser, the attachments, the history and the status post.
StatusPost(h) ==
  /\ stage[h] = "status"
  /\ stage' = [stage EXCEPT ![h] = "insert"]
  /\ statuses' = [statuses EXCEPT ![h[1]][h[2]] = @ + 1]
  /\ UNCHANGED <<rows, written, stream, events, mu, jobs, cancels, answered, blind, faults>>

\* The index jobs_bot_trigger refuses a second row for the same post, and
\* leaves the status post without one.
InsertRow(h) ==
  jobs' = IF \E i \in DOMAIN jobs : jobs[i].bot = h[1] /\ jobs[i].post = h[2]
          THEN jobs ELSE Append(jobs, [bot |-> h[1], post |-> h[2], active |-> TRUE])

\* CreateJob and the dispatch.
CreateJob(h) ==
  /\ stage[h] = "insert"
  /\ InsertRow(h)
  /\ Act(h[1], h[2])
  /\ Return(h)
  /\ UNCHANGED <<rows, written, stream, events, statuses, cancels, blind, faults>>

\* A store read, GetUser, the status post or CreateJob fails: a line in the
\* log, and the handler returns.
HandlerFails(h) ==
  /\ stage[h] \in {"route", "status", "insert"} /\ Fault
  /\ Return(h)
  /\ UNCHANGED <<rows, written, stream, events, made>>

\* A handler whose context has ended: the call under way gets through or not,
\* the next one fails, and the handler returns.  It waits for routingMu like
\* the others.
Abandon(h) ==
  /\ h \in ended /\ stage[h] \in {"route", "status", "insert"}
  /\ \/ UNCHANGED <<statuses, jobs, answered>>
     \/ /\ stage[h] = "status" /\ statuses' = [statuses EXCEPT ![h[1]][h[2]] = @ + 1]
        /\ UNCHANGED <<jobs, answered>>
     \/ stage[h] = "insert" /\ InsertRow(h) /\ Act(h[1], h[2]) /\ UNCHANGED statuses
  /\ Return(h)
  /\ ended' = ended \ {h}
  /\ UNCHANGED <<token, listener, written, stream, events, cancels, blind, faults>>

-----------------------------------------------------------------------------
(* The rest of the broker.                                                 *)

\* The job reaches a terminal state (module Bridge).
EndJob(i) ==
  /\ jobs[i].active
  /\ jobs' = [jobs EXCEPT ![i].active = FALSE]
  /\ UNCHANGED <<rows, written, stream, events, stage, mu, statuses, cancels, answered, blind, faults>>

\* The broker stops and starts again: deliveries in its hands are gone, and
\* so are those that reach nobody meanwhile.  The rows stay.
BrokerCrash ==
  /\ Fault
  /\ listener' = [b \in Bot |-> 0] /\ ended' = {}
  /\ stream' = [b \in Bot |-> <<>>]
  /\ events' = [b \in Bot |-> <<>>]
  /\ stage' = [h \in Handler |-> "none"]
  /\ mu' = Free
  /\ UNCHANGED <<token, written, made>>

Handle(h) ==
  \/ Lock(h)
  \/ /\ h \notin ended
     /\ \/ Ignore(h) \/ Reply(h) \/ HandleCancel(h)
        \/ StartCreate(h) \/ StatusPost(h) \/ CreateJob(h)

Next ==
  \/ \E p \in Post : Write(p)
  \/ \E b \in Bot : ChangeBot(b) \/ Sync(b) \/ Deliver(b) \/ DropStream(b) \/ Take(b)
  \/ \E b \in Bot, p \in Post : Hook(b, p) \/ HookFails(b, p)
  \/ \E h \in Handler : Handle(h) \/ Abandon(h) \/ (h \notin ended /\ (ActiveUnread(h) \/ HandlerFails(h)))
  \/ \E i \in DOMAIN jobs : EndJob(i)
  \/ BrokerCrash

Spec == Init /\ [][Next]_vars

\* The goroutines: a bot's worker, those of its replaced listeners, and the
\* one of each webhook request.
Worker(b) == Take(b) \/ \E p \in Post : Handle(<<b, p, "ws">>)
Replaced(b) == \E p \in Post : Abandon(<<b, p, "ws">>)
HookRequest(b, p) == Hook(b, p) \/ Handle(<<b, p, "hook">>)

\* Goroutines run, a mutex is granted, requests get somewhere, and the
\* manager's ticker ticks; nobody has to write a post, and a job need not end.
Fairness ==
  /\ \A b \in Bot : WF_vars(Sync(b)) /\ WF_vars(Deliver(b))
  /\ \A b \in Bot : WF_vars(Worker(b)) /\ WF_vars(Replaced(b))
  /\ \A p \in Post : \A b \in Hooked[p] : WF_vars(HookRequest(b, p))

FairSpec == Spec /\ Fairness

-----------------------------------------------------------------------------
(* Properties.                                                             *)

\* A post has at most one job of a bot, whichever ways and however often it is
\* delivered (HandleBotPost: "Both transports may deliver the same post,
\* including after a restart"), and the user sees it once: every status post
\* stands for a row or is about to get one, unless a call failed.
OneJobPerPost ==
  \A b \in Bot, p \in Post \ Foreign :
    LET rowsOf == {i \in DOMAIN jobs : jobs[i].bot = b /\ jobs[i].post = p}
        making == {v \in Via : stage[<<b, p, v>>] = "insert"} IN
    /\ Cardinality(rowsOf) <= 1
    /\ statuses[b][p] > Cardinality(rowsOf) + Cardinality(making) => faults > 0

\* A thread has at most one active job of a bot: two deliveries cannot both
\* find it free, although the row is written several calls after the check.
\* The one way round it is a failed read, which createJob ignores.
OneActiveInThread ==
  \A i, j \in DOMAIN jobs :
    /\ jobs[i].active /\ jobs[j].active
    /\ jobs[i].bot = jobs[j].bot /\ Root[jobs[i].post] = Root[jobs[j].post]
    => i = j \/ \E k \in {i, j} : <<jobs[k].bot, jobs[k].post>> \in blind

\* A bot acts on what addresses it, or on a reply that addresses nobody in a
\* thread where it had a job before, be it a task or a cancel: "A reply
\* addressing another known bot is not a continuation for this bot."
OnlyAddressed ==
  \A t \in answered :
    \/ t[1] \in Names[t[2]]
    \/ /\ Names[t[2]] = {}
       /\ \E j \in ThreadJobs(t[1], t[2]) :
            \A i \in DOMAIN jobs : jobs[i].bot = t[1] /\ jobs[i].post = t[2] => j < i

Earlier(p, q) == \E i, j \in DOMAIN written : i < j /\ written[i] = p /\ written[j] = q

\* A cancel stops only jobs of posts written before it.  It rests on the order
\* of a bot's one stream ("in the order Mattermost sent them"), so it is
\* claimed for posts that no webhook reports.
CancelStopsEarlier ==
  \A t \in cancels :
    Hooked[t[2]] = {} /\ Hooked[jobs[t[3]].post] = {} => Earlier(jobs[t[3]].post, t[2])

\* What the owner addresses to a bot that listens is acted on, unless something
\* fails after that, however far behind the worker is (deliver: "Waiting is
\* still better than dropping somebody's mention on the floor"), and although
\* the handler of a listener that was replaced may still hold routingMu.
EveryMentionAnswered ==
  \A b \in Bot : \A p \in {q \in Post \ Foreign : b \in Names[q] /\ b \in Streamed[q] \cup Hooked[q]} :
    \A n \in 0 .. MaxFaults :
      /\ faults = n /\ token[b] # 0 /\ listener[b] = token[b]
      /\ stage[<<b, p, "hook">>] = "sent" \/ (\E i \in DOMAIN stream[b] : stream[b][i] = p)
      ~> <<b, p>> \in answered \/ faults > n
============================================================================
