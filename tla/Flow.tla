-------------------------------- MODULE Flow --------------------------------
(***************************************************************************)
(* Flow control on the websocket between the hub (hub.serve, handle, Send) *)
(* and a harness (client.session, readLoop, heartbeatLoop, handle, Send).  *)
(* A socket buffers a limited amount in each direction and wire.Conn.Send  *)
(* waits for room, without a timeout.  Both sides flush their outboxes     *)
(* before they start to read, and both read loops answer what they read    *)
(* before they read on: each may wait for the other.                       *)
(*                                                                         *)
(* Envelopes are reliable requests, which are answered by one ack each;    *)
(* pings, answered by a pong; and the progress of running jobs, which is   *)
(* neither stored nor answered but takes room like the rest.  What         *)
(* requests mean, and which jobs run, is module Bridge's.                  *)
(***************************************************************************)
EXTENDS Integers, Sequences, FiniteSets

CONSTANTS
  Down,         \* reliable envelopes of the broker (dispatches, cancels)
  Up,           \* reliable envelopes of the harness (results, approval requests)
  DownCap,      \* how many envelopes the socket buffers towards the harness
  UpCap,        \* ... and towards the broker
  MaxJobs,      \* bound: jobs that run on the harness at a time
  MaxBreaks     \* bound: connections that break

Env == Down \cup Up

ASSUME FlowAssumption ==
  /\ IsFiniteSet(Env) /\ Down \cap Up = {}
  /\ DownCap \in Nat \ {0} /\ UpCap \in Nat \ {0}
  /\ MaxJobs \in Nat /\ MaxBreaks \in Nat

VARIABLES
  stored,       \* envelopes in one of the two outboxes, not acked
  made,         \* envelopes that have been stored at some time
  writing,      \* envelopes between Enqueue (Outbox.Add) and Send
  down, up,     \* what the socket holds
  serve,        \* where hub.serve stands
  hubFlush,     \* the rest of flushOutbox's snapshot
  hubOwes,      \* the reply hub.handle is sending: at most one
  session,      \* where client.session and its readLoop stand
  refresh,      \* the running jobs OnWelcome has still to report
  harFlush, harOwes,
  ping,         \* where heartbeatLoop stands
  started,      \* requests sent, or in a flush's snapshot, on this connection
                \* (history)
  breaks

outboxes == <<stored, made, writing>>
hub      == <<serve, hubFlush, hubOwes>>
client   == <<session, refresh, harFlush, harOwes>>
vars     == <<outboxes, down, up, hub, client, ping, started, breaks>>

Request == [type : {"request"}, env : Env]
Ack     == [type : {"ack"}, env : Env]
Plain   == [type : {"welcome", "ping", "pong", "progress"}]
Msg     == Request \cup Ack \cup Plain

TypeOK ==
  /\ stored \subseteq made /\ made \subseteq Env /\ writing \subseteq made
  /\ down \in Seq(Msg) /\ Len(down) <= DownCap
  /\ up \in Seq(Msg) /\ Len(up) <= UpCap
  /\ serve \in {"none", "welcome", "flush", "read"}
  /\ hubFlush \subseteq Down
  /\ hubOwes \in Seq(Msg) /\ Len(hubOwes) <= 1
  /\ session \in {"none", "hello", "welcome", "flush", "read"}
  /\ refresh \in Nat
  /\ harFlush \subseteq Up
  /\ harOwes \in Seq(Msg) /\ Len(harOwes) <= 1
  /\ ping \in {"idle", "sent"}
  /\ started \in Nat
  /\ breaks \in Nat

Init ==
  /\ stored = {} /\ made = {} /\ writing = {}
  /\ down = <<>> /\ up = <<>>
  /\ serve = "none" /\ hubFlush = {} /\ hubOwes = <<>>
  /\ session = "none" /\ refresh = 0 /\ harFlush = {} /\ harOwes = <<>>
  /\ ping = "idle" /\ started = 0 /\ breaks = 0

-----------------------------------------------------------------------------
(* wire.Conn.Send: one writer at a time, which waits for room *)

SendDown(m) == Len(down) < DownCap /\ down' = Append(down, m)

SendUp(m) == Len(up) < UpCap /\ up' = Append(up, m)

RequestFor(e) == [type |-> "request", env |-> e]

AckOf(m) == [type |-> "ack", env |-> m.env]

\* The ack of e takes it out of its outbox.
Acked(m) == stored' = stored \ {m.env}

-----------------------------------------------------------------------------
(* hub.serve *)

\* A connection is made and its hello read (OnHello is module Bridge's).
Connect ==
  /\ serve = "none" /\ session = "none"
  /\ serve' = "welcome" /\ session' = "hello"
  /\ UNCHANGED <<outboxes, down, up, hubFlush, hubOwes, refresh, harFlush, harOwes,
                 ping, started, breaks>>

\* Fault: the flush is forgotten.
SendWelcomeOnly ==
  /\ serve = "welcome"
  /\ SendDown([type |-> "welcome"])
  /\ serve' = "flush"
  /\ hubFlush' = {} /\ started' = started
  /\ UNCHANGED <<outboxes, up, hubOwes, client, ping, breaks>>

\* The welcome, and the snapshot of flushOutbox.
SendWelcome ==
  /\ serve = "welcome"
  /\ SendDown([type |-> "welcome"])
  /\ serve' = "flush"
  /\ hubFlush' = stored \cap Down
  /\ started' = started + Cardinality(stored \cap Down)
  /\ UNCHANGED <<outboxes, up, hubOwes, client, ping, breaks>>

FlushOutbox ==
  /\ serve = "flush"
  /\ \E e \in hubFlush : SendDown(RequestFor(e)) /\ hubFlush' = hubFlush \ {e}
  /\ UNCHANGED <<outboxes, up, serve, hubOwes, client, ping, started, breaks>>

StartServing ==
  /\ serve = "flush" /\ hubFlush = {}
  /\ serve' = "read"
  /\ UNCHANGED <<outboxes, down, up, hubFlush, hubOwes, client, ping, started, breaks>>

\* Fault: progress is acked, too.
ServeReadAcksAll ==
  /\ serve = "read" /\ hubOwes = <<>> /\ up # <<>>
  /\ LET m == Head(up) IN
       \/ m.type = "ack" /\ Acked(m) /\ hubOwes' = <<>>
       \/ m.type = "progress" /\ hubOwes' = <<[type |-> "ack", env |-> "none"]>> /\ stored' = stored
       \/ m.type = "request" /\ hubOwes' = <<AckOf(m)>> /\ stored' = stored
       \/ m.type = "ping" /\ hubOwes' = <<[type |-> "pong"]>> /\ stored' = stored
  /\ up' = Tail(up)
  /\ UNCHANGED <<made, writing, down, serve, hubFlush, client, ping, started, breaks>>

\* The read loop, when the last reply has been sent: requests and pings are
\* owed a reply, acks and progress are not.
ServeRead ==
  /\ serve = "read" /\ hubOwes = <<>> /\ up # <<>>
  /\ LET m == Head(up) IN
       \/ m.type = "ack" /\ Acked(m) /\ hubOwes' = <<>>
       \/ m.type = "progress" /\ hubOwes' = <<>> /\ stored' = stored
       \/ m.type = "request" /\ hubOwes' = <<AckOf(m)>> /\ stored' = stored
       \/ m.type = "ping" /\ hubOwes' = <<[type |-> "pong"]>> /\ stored' = stored
  /\ up' = Tail(up)
  /\ UNCHANGED <<made, writing, down, serve, hubFlush, client, ping, started, breaks>>

ServeReply ==
  /\ hubOwes # <<>>
  /\ SendDown(Head(hubOwes))
  /\ hubOwes' = <<>>
  /\ UNCHANGED <<outboxes, up, serve, hubFlush, client, ping, started, breaks>>

-----------------------------------------------------------------------------
(* client.session, readLoop and heartbeatLoop *)

\* The welcome is read and OnWelcome called, which lists the running jobs.
ReadWelcome ==
  /\ session = "hello" /\ down # <<>> /\ Head(down).type = "welcome"
  /\ down' = Tail(down)
  /\ session' = "welcome"
  /\ refresh' \in 0 .. MaxJobs
  /\ UNCHANGED <<outboxes, up, hub, harFlush, harOwes, ping, started, breaks>>

\* OnWelcome reports each of them.
RefreshProgress ==
  /\ session = "welcome" /\ refresh > 0
  /\ SendUp([type |-> "progress"])
  /\ refresh' = refresh - 1
  /\ UNCHANGED <<outboxes, down, hub, session, harFlush, harOwes, ping, started, breaks>>

\* OnWelcome is done: Outbox.Pending.
Pending ==
  /\ session = "welcome" /\ refresh = 0
  /\ session' = "flush"
  /\ harFlush' = stored \cap Up
  /\ started' = started + Cardinality(stored \cap Up)
  /\ UNCHANGED <<outboxes, down, up, hub, refresh, harOwes, ping, breaks>>

Resend ==
  /\ session = "flush"
  /\ \E e \in harFlush : SendUp(RequestFor(e)) /\ harFlush' = harFlush \ {e}
  /\ UNCHANGED <<outboxes, down, hub, session, refresh, harOwes, ping, started, breaks>>

StartReading ==
  /\ session = "flush" /\ harFlush = {}
  /\ session' = "read"
  /\ UNCHANGED <<outboxes, down, up, hub, refresh, harFlush, harOwes, ping, started, breaks>>

\* readLoop and handle; a pong goes to heartbeatLoop.
ClientRead ==
  /\ session = "read" /\ harOwes = <<>> /\ down # <<>>
  /\ LET m == Head(down) IN
       \/ m.type = "ack" /\ Acked(m) /\ harOwes' = <<>> /\ ping' = ping
       \/ m.type = "request" /\ harOwes' = <<AckOf(m)>> /\ stored' = stored /\ ping' = ping
       \/ m.type = "pong" /\ ping' = "idle" /\ harOwes' = <<>> /\ stored' = stored
  /\ down' = Tail(down)
  /\ UNCHANGED <<made, writing, up, hub, session, refresh, harFlush, started, breaks>>

ClientReply ==
  /\ harOwes # <<>>
  /\ SendUp(Head(harOwes))
  /\ harOwes' = <<>>
  /\ UNCHANGED <<outboxes, down, hub, session, refresh, harFlush, ping, started, breaks>>

\* heartbeatLoop: the next ping follows the pong.
Ping ==
  /\ session = "read" /\ ping = "idle"
  /\ SendUp([type |-> "ping"])
  /\ ping' = "sent"
  /\ UNCHANGED <<outboxes, down, hub, client, started, breaks>>

\* sendProgress, called by the goroutines of a job every ProgressInterval and
\* by decide: when connected, from the welcome on.
SendProgress ==
  /\ session \in {"welcome", "flush", "read"} /\ MaxJobs > 0
  /\ SendUp([type |-> "progress"])
  /\ UNCHANGED <<outboxes, down, hub, client, ping, started, breaks>>

-----------------------------------------------------------------------------
(* SendReliable, called by other goroutines on either side *)

\* store.Enqueue or Outbox.Add.
Store(e) ==
  /\ e \notin made
  /\ stored' = stored \cup {e} /\ made' = made \cup {e} /\ writing' = writing \cup {e}
  /\ UNCHANGED <<down, up, hub, client, ping, started, breaks>>

\* hub.Send: on the connection, or nothing when there is none.  (One that
\* overtakes the welcome ends the session: module Bridge.)
HubSend(e) ==
  /\ e \in writing \cap Down
  /\ \/ serve = "none" /\ UNCHANGED <<down, started>>
     \/ serve \in {"flush", "read"} /\ SendDown(RequestFor(e)) /\ started' = started + 1
  /\ writing' = writing \ {e}
  /\ UNCHANGED <<stored, made, up, hub, client, ping, breaks>>

\* client.Send: connected from the welcome on.
ClientSend(e) ==
  /\ e \in writing \cap Up
  /\ \/ session \in {"none", "hello"} /\ UNCHANGED <<up, started>>
     \/ session \in {"welcome", "flush", "read"} /\ SendUp(RequestFor(e)) /\ started' = started + 1
  /\ writing' = writing \ {e}
  /\ UNCHANGED <<stored, made, down, hub, client, ping, breaks>>

-----------------------------------------------------------------------------
(* The end of a connection: both sides leave it, what was on it is gone. *)

End ==
  /\ down' = <<>> /\ up' = <<>>
  /\ serve' = "none" /\ hubFlush' = {} /\ hubOwes' = <<>>
  /\ session' = "none" /\ refresh' = 0 /\ harFlush' = {} /\ harOwes' = <<>>
  /\ ping' = "idle" /\ started' = 0
  /\ UNCHANGED outboxes

\* It breaks.
Break ==
  /\ serve # "none" /\ breaks < MaxBreaks
  /\ breaks' = breaks + 1
  /\ End

\* serve waits for room towards the harness, the session for room towards the
\* hub, and neither reads.
Stuck ==
  /\ Len(down) = DownCap /\ Len(up) = UpCap
  /\ hubFlush # {} \/ hubOwes # <<>>
  /\ refresh > 0 \/ harFlush # {} \/ harOwes # <<>>

\* heartbeatLoop has sent a ping whose pong cannot come: the session ends.
PongTimeout ==
  /\ Stuck /\ ping = "sent"
  /\ End
  /\ UNCHANGED breaks

Serve == SendWelcome \/ FlushOutbox \/ StartServing \/ ServeRead \/ ServeReply

Session ==
  \/ ReadWelcome \/ RefreshProgress \/ Pending \/ Resend
  \/ StartReading \/ ClientRead \/ ClientReply

Sender(e) == HubSend(e) \/ ClientSend(e)

Next ==
  \/ Connect \/ Serve \/ Session \/ SendProgress \/ Ping \/ PongTimeout \/ Break
  \/ \E e \in Env : Store(e) \/ Sender(e)

Spec == Init /\ [][Next]_vars

\* The client redials, goroutines run when there is something to read, the
\* mutex of wire.Conn keeps no writer out for ever, however many jobs report
\* their progress, and the pong timeout fires when there is no pong.
Fairness ==
  /\ WF_vars(Connect) /\ WF_vars(Serve) /\ SF_vars(Session) /\ WF_vars(PongTimeout)
  /\ \A e \in Env : SF_vars(Sender(e))

FairSpec == Spec /\ Fairness

-----------------------------------------------------------------------------
(* Properties *)

\* The outstanding ping, or its pong.
PingSlot == IF ping = "sent" THEN 1 ELSE 0

\* The other envelopes in the hands of the two sides that are requests or
\* acks: progress that OnWelcome waits to send is neither.
Held == IF refresh > 0 THEN 1 ELSE 2

\* serve and session flush before they read, and reply before they read on.
\* Progress alone may fill the socket towards the hub, but the two sides are
\* stuck only if the reliable envelopes under way, each flushed and sent at
\* most once, and their acks fill the other direction and the hands of both.
\* (Without a ping under way nothing ends that but the connection:
\* heartbeatLoop, too, waits for room before it would start the pong timeout.)
BlockNeedsLoad ==
  Stuck => DownCap + Held <= 2 * Cardinality(made) + PingSlot

\* README.md: reliable envelopes are "kept in an outbox until an ack (or
\* nack) with matching ref arrives, and resent after a reconnect".  Every
\* stored envelope is acked in the end, whatever breaks and however much
\* progress is sent; the one exception are sides that are stuck for good, or
\* that get stuck on one connection after the other.
Drained == \A e \in Env : e \in stored ~> (e \notin stored \/ []<>Stuck)
=============================================================================
