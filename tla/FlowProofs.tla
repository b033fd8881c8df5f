----------------------------- MODULE FlowProofs -----------------------------
(***************************************************************************)
(* Theorems about Flow, for any envelopes, buffers and number of breaks:   *)
(* the two sides are stuck only under a load of reliable envelopes that    *)
(* fills one direction of the socket and the hands of both readers,        *)
(* whatever the progress of running jobs fills.                            *)
(***************************************************************************)
EXTENDS Flow, FiniteSetTheorems, TLAPS

-----------------------------------------------------------------------------
(* Type correctness *)

\* Reading, replying to and sending envelopes stays within Msg.
LEMMA Messages ==
  /\ \A e \in Env : RequestFor(e) \in Msg
  /\ \A m \in Msg : m.type = "request" => AckOf(m) \in Msg
  /\ \A t \in {"welcome", "ping", "pong", "progress"} : [type |-> t] \in Msg
  BY DEF Msg, Request, Ack, Plain, RequestFor, AckOf

LEMMA ReadType ==
  ASSUME NEW q \in Seq(Msg), q # <<>>
  PROVE  Head(q) \in Msg /\ Tail(q) \in Seq(Msg) /\ Len(Tail(q)) = Len(q) - 1
  OBVIOUS

LEMMA SendType ==
  ASSUME NEW q \in Seq(Msg), NEW m \in Msg
  PROVE  Append(q, m) \in Seq(Msg) /\ Len(Append(q, m)) = Len(q) + 1
  OBVIOUS

\* A reply in hand is at most one envelope.
LEMMA OweType ==
  ASSUME NEW m \in Msg
  PROVE  <<m>> \in Seq(Msg) /\ Len(<<m>>) = 1
  OBVIOUS

LEMMA OweNone == <<>> \in Seq(Msg) /\ Len(<<>>) = 0
  OBVIOUS

LEMMA OweOne ==
  ASSUME NEW q \in Seq(Msg), q # <<>>, Len(q) <= 1
  PROVE  Len(q) = 1 /\ Head(q) \in Msg
<1>1. Head(q) \in Msg /\ Tail(q) \in Seq(Msg) /\ Len(Tail(q)) = Len(q) - 1
  BY ReadType
<1>2. Len(q) \in Nat /\ Len(Tail(q)) \in Nat
  BY <1>1
<1>3. QED
  BY <1>1, <1>2

\* What a read leaves the reader to reply.
LEMMA ServeReadOwes ==
  ASSUME TypeOK, ServeRead
  PROVE  \/ hubOwes' = <<>>
         \/ \E m \in Msg : hubOwes' = <<m>>
<1>1. Head(up) \in Msg
  BY ReadType DEF ServeRead, TypeOK
<1>2. CASE hubOwes' = <<>>
  BY <1>2
<1>3. CASE Head(up).type = "request" /\ hubOwes' = <<AckOf(Head(up))>>
  BY <1>1, <1>3, Messages
<1>4. CASE hubOwes' = <<[type |-> "pong"]>>
  BY <1>4, Messages
<1>5. QED
  BY <1>2, <1>3, <1>4, Zenon DEF ServeRead

LEMMA ClientReadOwes ==
  ASSUME TypeOK, ClientRead
  PROVE  \/ harOwes' = <<>>
         \/ \E m \in Msg : harOwes' = <<m>>
<1>1. Head(down) \in Msg
  BY ReadType DEF ClientRead, TypeOK
<1>2. CASE harOwes' = <<>>
  BY <1>2
<1>3. CASE Head(down).type = "request" /\ harOwes' = <<AckOf(Head(down))>>
  BY <1>1, <1>3, Messages
<1>4. QED
  BY <1>2, <1>3, Zenon DEF ClientRead

\* No step breaks the type invariant.
LEMMA TypeInductive == TypeOK /\ [Next]_vars => TypeOK'
<1> SUFFICES ASSUME TypeOK, [Next]_vars PROVE TypeOK'
  OBVIOUS
<1> USE FlowAssumption DEF outboxes, hub, client
<1>1. CASE UNCHANGED vars
  BY <1>1 DEF TypeOK, vars
<1>2. CASE Connect
  BY <1>2 DEF Connect, TypeOK
<1>3. CASE SendWelcome
  BY <1>3, Messages, SendType, FS_Subset, FS_CardinalityType
     DEF SendWelcome, SendDown, TypeOK, Env
<1>4. CASE FlushOutbox
  BY <1>4, Messages, SendType DEF FlushOutbox, SendDown, TypeOK, Env
<1>5. CASE StartServing
  BY <1>5 DEF StartServing, TypeOK
<1>6. CASE ServeRead
  <2>1. Head(up) \in Msg /\ Tail(up) \in Seq(Msg) /\ Len(Tail(up)) = Len(up) - 1
    BY <1>6, ReadType DEF ServeRead, TypeOK
  <2>2. hubOwes' \in Seq(Msg) /\ Len(hubOwes') <= 1
    <3>1. CASE hubOwes' = <<>>
      BY <3>1, OweNone
    <3>2. CASE \E m \in Msg : hubOwes' = <<m>>
      BY <3>2, OweType
    <3>3. QED
      BY <1>6, <3>1, <3>2, ServeReadOwes
  <2>3. stored' \subseteq stored
    BY <1>6 DEF ServeRead, Acked
  <2>4. QED
    BY <1>6, <2>1, <2>2, <2>3 DEF ServeRead, TypeOK
<1>7. CASE ServeReply
  BY <1>7, ReadType, SendType DEF ServeReply, SendDown, TypeOK
<1>8. CASE ReadWelcome
  BY <1>8, ReadType DEF ReadWelcome, TypeOK
<1>8a. CASE RefreshProgress
  BY <1>8a, Messages, SendType DEF RefreshProgress, SendUp, TypeOK
<1>8b. CASE Pending
  BY <1>8b, FS_Subset, FS_CardinalityType DEF Pending, TypeOK, Env
<1>8c. CASE SendProgress
  BY <1>8c, Messages, SendType DEF SendProgress, SendUp, TypeOK
<1>9. CASE Resend
  BY <1>9, Messages, SendType DEF Resend, SendUp, TypeOK, Env
<1>10. CASE StartReading
  BY <1>10 DEF StartReading, TypeOK
<1>11. CASE ClientRead
  <2>1. Head(down) \in Msg /\ Tail(down) \in Seq(Msg) /\ Len(Tail(down)) = Len(down) - 1
    BY <1>11, ReadType DEF ClientRead, TypeOK
  <2>2. harOwes' \in Seq(Msg) /\ Len(harOwes') <= 1
    <3>1. CASE harOwes' = <<>>
      BY <3>1, OweNone
    <3>2. CASE \E m \in Msg : harOwes' = <<m>>
      BY <3>2, OweType
    <3>3. QED
      BY <1>11, <3>1, <3>2, ClientReadOwes
  <2>3. stored' \subseteq stored /\ ping' \in {"idle", "sent"}
    BY <1>11 DEF ClientRead, Acked, TypeOK
  <2>4. QED
    BY <1>11, <2>1, <2>2, <2>3 DEF ClientRead, TypeOK
<1>12. CASE ClientReply
  BY <1>12, ReadType, SendType DEF ClientReply, SendUp, TypeOK
<1>13. CASE Ping
  BY <1>13, Messages, SendType DEF Ping, SendUp, TypeOK
<1>14. CASE PongTimeout
  BY <1>14 DEF PongTimeout, End, TypeOK
<1>15. CASE Break
  BY <1>15 DEF Break, End, TypeOK
<1>16. ASSUME NEW e \in Env, Store(e) PROVE TypeOK'
  BY <1>16 DEF Store, TypeOK
<1>17. ASSUME NEW e \in Env, HubSend(e) PROVE TypeOK'
  <2>1. down' \in Seq(Msg) /\ Len(down') <= DownCap
    <3>1. CASE serve = "none"
      BY <1>17, <3>1 DEF HubSend, TypeOK
    <3>2. CASE serve # "none"
      <4>1. Len(down) < DownCap /\ down' = Append(down, RequestFor(e))
        BY <1>17, <3>2 DEF HubSend, SendDown
      <4>2. QED
        BY <4>1, Messages, SendType DEF TypeOK
    <3>3. QED
      BY <3>1, <3>2
  <2>2. started' \in Nat
    BY <1>17 DEF HubSend, TypeOK
  <2>3. QED
    BY <1>17, <2>1, <2>2 DEF HubSend, TypeOK
<1>18. ASSUME NEW e \in Env, ClientSend(e) PROVE TypeOK'
  <2>1. up' \in Seq(Msg) /\ Len(up') <= UpCap
    <3>1. CASE session \in {"none", "hello"}
      BY <1>18, <3>1 DEF ClientSend, TypeOK
    <3>2. CASE session \notin {"none", "hello"}
      <4>1. Len(up) < UpCap /\ up' = Append(up, RequestFor(e))
        BY <1>18, <3>2 DEF ClientSend, SendUp
      <4>2. QED
        BY <4>1, Messages, SendType DEF TypeOK
    <3>3. QED
      BY <3>1, <3>2
  <2>2. started' \in Nat
    BY <1>18 DEF ClientSend, TypeOK
  <2>3. QED
    BY <1>18, <2>1, <2>2 DEF ClientSend, TypeOK
<1>19. QED
  BY <1>1, <1>2, <1>3, <1>4, <1>5, <1>6, <1>7, <1>8, <1>8a, <1>8b, <1>8c, <1>9, <1>10,
     <1>11, <1>12, <1>13, <1>14, <1>15, <1>16, <1>17, <1>18
  DEF Next, Serve, Session, Sender

\* Every variable keeps its type, and neither buffer holds more than its
\* capacity.
THEOREM FlowTypeCorrect == Spec => []TypeOK
<1>1. Init => TypeOK
  BY FlowAssumption DEF Init, TypeOK
<1>2. QED
  BY <1>1, TypeInductive, PTL DEF Spec

-----------------------------------------------------------------------------
(* What is under way on a connection *)

\* What takes up room without being progress.
Carried(q) == {i \in 1 .. Len(q) : q[i].type # "progress"}

\* The welcome, until the client has read it, and the one outstanding ping or
\* its pong are the only ones that are neither requests nor their acks.
WelcomeSlot == IF session = "hello" /\ serve \in {"flush", "read"} THEN 1 ELSE 0

UpCarried == Cardinality(Carried(up))

\* What waits for the client to read it or for the hub to write it, and, but
\* for progress, what waits for the hub to read it or for the client to write
\* it.
DownLoad == Len(down) + Cardinality(hubFlush) + Len(hubOwes)

UpLoad == UpCarried + Cardinality(harFlush) + Len(harOwes)

Slots == started + PingSlot + WelcomeSlot

\* Each request started takes one place at a time: in a snapshot, on the
\* socket, or as the reply in a reader's hands.
LoadInv == DownLoad + UpLoad <= Slots

\* A side that has not got to its flush has nothing on the connection.
SideInv ==
  /\ serve = "none" <=> session = "none"
  /\ serve = "welcome" => session = "hello"
  /\ serve \in {"none", "welcome"} => down = <<>> /\ hubFlush = {} /\ hubOwes = <<>>
  /\ session \in {"none", "hello"} => up = <<>> /\ harOwes = <<>>
  /\ session \in {"none", "hello", "welcome"} => harFlush = {} /\ harOwes = <<>> /\ ping = "idle"
  /\ refresh > 0 => session = "welcome"

\* Requests that the flush and the Send still to come can start.
HubToFlush == IF serve \in {"none", "welcome"} THEN Cardinality(made \cap Down) ELSE 0

HarToFlush == IF session \in {"none", "hello", "welcome"} THEN Cardinality(made \cap Up) ELSE 0

\* An envelope is started at most twice on a connection: by the flush that
\* finds it stored, and by the Send that follows storing it.
StartInv ==
  started + Cardinality(writing) + HubToFlush + HarToFlush <= 2 * Cardinality(made)

FlowInv == TypeOK /\ SideInv /\ LoadInv /\ StartInv

\* The envelopes and their parts, counted.
LEMMA Counts ==
  ASSUME TypeOK
  PROVE  /\ \A S \in SUBSET Env : IsFiniteSet(S) /\ Cardinality(S) \in Nat
         /\ Cardinality(made) = Cardinality(made \cap Down) + Cardinality(made \cap Up)
         /\ Cardinality(writing) <= Cardinality(made)
         /\ Cardinality(stored \cap Down) <= Cardinality(made \cap Down)
         /\ Cardinality(stored \cap Up) <= Cardinality(made \cap Up)
<1> USE FlowAssumption
<1>1. \A S \in SUBSET Env : IsFiniteSet(S) /\ Cardinality(S) \in Nat
  BY FS_Subset, FS_CardinalityType
<1>2. Cardinality(made) = Cardinality(made \cap Down) + Cardinality(made \cap Up)
  <2> DEFINE A == made \cap Down
             B == made \cap Up
  <2>1. A \subseteq Env /\ B \subseteq Env /\ A \cup B = made /\ A \cap B = {}
    BY DEF TypeOK, Env
  <2>2. IsFiniteSet(A) /\ IsFiniteSet(B)
    BY <1>1, <2>1
  <2> HIDE DEF A, B
  <2>3. Cardinality(A \cup B) = Cardinality(A) + Cardinality(B) - Cardinality(A \cap B)
    BY <2>2, FS_Union
  <2>4. Cardinality(A \cap B) = 0 /\ Cardinality(A) \in Nat /\ Cardinality(B) \in Nat
    BY <1>1, <2>1, FS_EmptySet
  <2>5. Cardinality(A \cup B) = Cardinality(made)
    BY <2>1, Zenon
  <2>6. Cardinality(made) = Cardinality(A) + Cardinality(B)
    BY <2>3, <2>4, <2>5
  <2>7. QED
    BY <2>6 DEF A, B
<1>3. Cardinality(writing) <= Cardinality(made)
  BY <1>1, FS_Subset DEF TypeOK
<1>4. Cardinality(stored \cap Down) <= Cardinality(made \cap Down)
  <2>1. stored \cap Down \subseteq made \cap Down /\ made \cap Down \subseteq Env
    BY DEF TypeOK
  <2>2. QED
    BY <1>1, <2>1, FS_Subset
<1>5. Cardinality(stored \cap Up) <= Cardinality(made \cap Up)
  <2>1. stored \cap Up \subseteq made \cap Up /\ made \cap Up \subseteq Env
    BY DEF TypeOK
  <2>2. QED
    BY <1>1, <2>1, FS_Subset
<1>6. QED
  BY <1>1, <1>2, <1>3, <1>4, <1>5

\* What a queue carries is among its places.
LEMMA CarriedType ==
  ASSUME NEW q \in Seq(Msg)
  PROVE  /\ IsFiniteSet(Carried(q)) /\ Cardinality(Carried(q)) \in Nat
         /\ Carried(q) \subseteq 1 .. Len(q) /\ Len(q) \in Nat
<1>1. Carried(q) \subseteq 1 .. Len(q) /\ Len(q) \in Nat
  BY DEF Carried
<1>2. 1 \in Int /\ Len(q) \in Int
  BY <1>1
<1>3. IsFiniteSet(1 .. Len(q))
  BY <1>2, FS_Interval
<1>4. IsFiniteSet(Carried(q))
  BY <1>1, <1>3, FS_Subset
<1>5. QED
  BY <1>1, <1>4, FS_CardinalityType

\* Sending takes one more place, and progress none.
LEMMA CarriedSend ==
  ASSUME NEW q \in Seq(Msg), NEW m \in Msg
  PROVE  /\ Cardinality(Carried(Append(q, m))) <= Cardinality(Carried(q)) + 1
         /\ m.type = "progress" => Carried(Append(q, m)) = Carried(q)
<1>1. /\ Append(q, m) \in Seq(Msg) /\ Len(Append(q, m)) = Len(q) + 1 /\ Len(q) \in Nat
      /\ \A i \in 1 .. Len(q) : Append(q, m)[i] = q[i]
      /\ Append(q, m)[Len(q) + 1] = m
  OBVIOUS
<1>3. IsFiniteSet(Carried(q)) /\ Cardinality(Carried(q)) \in Nat
  BY CarriedType
<1>4. CASE m.type = "progress"
  <2>1. Carried(Append(q, m)) = Carried(q)
    BY <1>1, <1>4 DEF Carried
  <2>2. QED
    BY <1>3, <2>1
<1>5. CASE m.type # "progress"
  <2>1. Carried(Append(q, m)) = Carried(q) \cup {Len(q) + 1}
    BY <1>1, <1>5 DEF Carried
  <2>2. Cardinality(Carried(q) \cup {Len(q) + 1}) <= Cardinality(Carried(q)) + 1
    <3>1. Cardinality(Carried(q) \cup {Len(q) + 1})
            = IF Len(q) + 1 \in Carried(q) THEN Cardinality(Carried(q))
                                          ELSE Cardinality(Carried(q)) + 1
      BY <1>3, FS_AddElement
    <3>2. QED
      BY <1>3, <3>1
  <2>3. QED
    BY <1>5, <2>1, <2>2
<1>6. QED
  BY <1>4, <1>5

\* Reading gives up a place, unless it is progress that is read.
LEMMA CarriedRead ==
  ASSUME NEW q \in Seq(Msg), q # <<>>
  PROVE  /\ Cardinality(Carried(Tail(q))) <= Cardinality(Carried(q))
         /\ Head(q).type # "progress"
              => Cardinality(Carried(Tail(q))) <= Cardinality(Carried(q)) - 1
<1> DEFINE A == Carried(Tail(q))
           B == Carried(q)
           f == [i \in A |-> i + 1]
<1>1. /\ Tail(q) \in Seq(Msg) /\ Len(Tail(q)) = Len(q) - 1 /\ Len(q) \in Nat
      /\ \A i \in 1 .. Len(Tail(q)) : Tail(q)[i] = q[i + 1]
      /\ Head(q) = q[1] /\ Len(q) >= 1
  OBVIOUS
<1>2. /\ \A i \in A : i \in Nat /\ i + 1 \in B \ {1}
      /\ B \subseteq 1 .. Len(q)
  BY <1>1 DEF Carried
<1>3. /\ IsFiniteSet(B) /\ Cardinality(B) \in Nat
      /\ IsFiniteSet(B \ {1}) /\ Cardinality(B \ {1}) \in Nat
  <2>1. IsFiniteSet(B) /\ Cardinality(B) \in Nat
    BY CarriedType
  <2> HIDE DEF A, B, f
  <2>2. IsFiniteSet(B \ {1})
    BY <2>1, FS_Subset
  <2>3. QED
    BY <2>1, <2>2, FS_CardinalityType
<1>4. f \in Injection(A, B \ {1})
  BY <1>2 DEF Injection, IsInjective
<1>5. IsFiniteSet(A) /\ Cardinality(A) <= Cardinality(B \ {1}) /\ Cardinality(A) \in Nat
  <2> HIDE DEF A, B, f
  <2>1. QED
    BY <1>3, <1>4, FS_Injection, FS_CardinalityType
<1>6. Cardinality(B \ {1}) <= Cardinality(B)
  BY <1>3, FS_Subset
<1>7. Head(q).type # "progress" => 1 \in B
  BY <1>1 DEF Carried
<1>8. 1 \in B => Cardinality(B \ {1}) = Cardinality(B) - 1
  <2> HIDE DEF B
  <2>1. QED
    BY <1>3, FS_RemoveElement
<1> HIDE DEF A, B, f
<1>9. /\ Cardinality(A) <= Cardinality(B)
      /\ Head(q).type # "progress" => Cardinality(A) <= Cardinality(B) - 1
  BY <1>3, <1>5, <1>6, <1>7, <1>8
<1>10. QED
  BY <1>9 DEF A, B

\* Taking an element out, and putting a new one in.
LEMMA CountSteps ==
  ASSUME NEW S \in SUBSET Env, NEW e \in Env
  PROVE  /\ e \in S => Cardinality(S \ {e}) = Cardinality(S) - 1
         /\ e \notin S => Cardinality(S \cup {e}) = Cardinality(S) + 1
         /\ Cardinality({}) = 0
  BY FlowAssumption, FS_Subset, FS_RemoveElement, FS_AddElement, FS_EmptySet

LEMMA SideInductive ==
  ASSUME TypeOK, SideInv, [Next]_vars
  PROVE  SideInv'
<1> USE DEF SideInv, TypeOK, outboxes, hub, client
<1>1. CASE UNCHANGED vars
  BY <1>1 DEF vars
<1>2. CASE Connect
  BY <1>2 DEF Connect
<1>3. CASE SendWelcome \/ FlushOutbox \/ StartServing \/ ServeRead \/ ServeReply
  BY <1>3 DEF SendWelcome, FlushOutbox, StartServing, ServeRead, ServeReply
<1>4. CASE ReadWelcome \/ RefreshProgress \/ Pending \/ SendProgress
  BY <1>4 DEF ReadWelcome, RefreshProgress, Pending, SendProgress
<1>4a. CASE Resend \/ StartReading \/ ClientRead \/ ClientReply \/ Ping
  BY <1>4a DEF Resend, StartReading, ClientRead, ClientReply, Ping
<1>5. CASE PongTimeout \/ Break
  BY <1>5 DEF PongTimeout, Break, End
<1>6. ASSUME NEW e \in Env, Store(e) \/ HubSend(e) \/ ClientSend(e) PROVE SideInv'
  BY <1>6 DEF Store, HubSend, ClientSend
<1>7. QED
  BY <1>1, <1>2, <1>3, <1>4, <1>4a, <1>5, <1>6 DEF Next, Serve, Session, Sender

\* The numbers LoadInv adds up.
LEMMA LoadTypes ==
  ASSUME TypeOK
  PROVE  /\ Len(down) \in Nat /\ UpCarried \in Nat
         /\ Len(hubOwes) \in Nat /\ Len(harOwes) \in Nat
         /\ hubFlush \in SUBSET Env /\ harFlush \in SUBSET Env
         /\ Cardinality(hubFlush) \in Nat /\ Cardinality(harFlush) \in Nat
         /\ started \in Nat /\ PingSlot \in {0, 1} /\ WelcomeSlot \in {0, 1}
<1>1. hubFlush \in SUBSET Env /\ harFlush \in SUBSET Env
  BY DEF TypeOK, Env
<1>2. QED
  BY <1>1, Counts, CarriedType DEF UpCarried, TypeOK, PingSlot, WelcomeSlot

LEMMA GroupTypes ==
  ASSUME TypeOK
  PROVE  DownLoad \in Nat /\ UpLoad \in Nat /\ Slots \in Nat
  BY LoadTypes DEF DownLoad, UpLoad, Slots

\* Every step that takes a place on the connection was given one before, or
\* starts a request, the ping or the welcome.
LEMMA LoadInductive ==
  ASSUME TypeOK, SideInv, LoadInv, [Next]_vars
  PROVE  LoadInv'
<1> USE GroupTypes DEF LoadInv
<1>0. TypeOK'
  BY TypeInductive
<1>1. CASE UNCHANGED vars \/ Connect \/ StartServing \/ StartReading
  <2>1. UNCHANGED <<down, up, hubFlush, harFlush, hubOwes, harOwes, ping, started>>
    BY <1>1 DEF vars, outboxes, hub, client, Connect, StartServing, StartReading
  <2>2. WelcomeSlot' = WelcomeSlot
    BY <1>1 DEF vars, hub, client, Connect, StartServing, StartReading, WelcomeSlot
  <2>3. DownLoad' = DownLoad /\ UpLoad' = UpLoad /\ Slots' = Slots
    BY <2>1, <2>2 DEF DownLoad, UpLoad, UpCarried, Slots, PingSlot
  <2>4. QED
    BY <2>3
<1>2. CASE SendWelcome
  <2>1. /\ Len(down') = Len(down) + 1 /\ hubOwes' = hubOwes /\ Cardinality(hubFlush) = 0
        /\ UNCHANGED <<up, harFlush, harOwes, ping>>
    BY <1>2, Messages, SendType, FS_EmptySet
       DEF SendWelcome, SendDown, SideInv, TypeOK, client
  <2>2. started' = started + Cardinality(hubFlush') /\ Cardinality(hubFlush') \in Nat
    BY <1>2, Counts DEF SendWelcome, TypeOK, Env
  <2>3. WelcomeSlot = 0 /\ WelcomeSlot' = 1
    BY <1>2 DEF SendWelcome, WelcomeSlot, SideInv, client
  <2>4. DownLoad' = DownLoad + Cardinality(hubFlush') + 1
    BY <2>1, <2>2, LoadTypes DEF DownLoad
  <2>5. UpLoad' = UpLoad
    BY <2>1 DEF UpLoad, UpCarried
  <2>6. Slots' = Slots + Cardinality(hubFlush') + 1
    <3>1. PingSlot' = PingSlot /\ PingSlot \in Nat /\ started \in Nat
      BY <2>1, LoadTypes DEF PingSlot
    <3>2. Slots = started + PingSlot
      BY <2>3, <3>1 DEF Slots
    <3>3. Slots' = started + Cardinality(hubFlush') + PingSlot + 1
      BY <2>2, <2>3, <3>1 DEF Slots
    <3>4. QED
      BY <2>2, <3>1, <3>2, <3>3
  <2>7. QED
    BY <2>2, <2>4, <2>5, <2>6
<1>3. CASE FlushOutbox
  <2>1. PICK e \in hubFlush : SendDown(RequestFor(e)) /\ hubFlush' = hubFlush \ {e}
    BY <1>3 DEF FlushOutbox
  <2>2. Len(down') = Len(down) + 1 /\ Cardinality(hubFlush') = Cardinality(hubFlush) - 1
    BY <2>1, LoadTypes, Messages, SendType, CountSteps DEF SendDown, TypeOK
  <2>3. UNCHANGED <<serve, up, hubOwes, client, started, ping>>
    BY <1>3 DEF FlushOutbox
  <2>4. DownLoad' = DownLoad
    BY <2>2, <2>3, LoadTypes DEF DownLoad
  <2>5. UpLoad' = UpLoad /\ Slots' = Slots
    BY <2>3 DEF client, UpLoad, UpCarried, Slots, PingSlot, WelcomeSlot
  <2>6. QED
    BY <2>4, <2>5
<1>4. CASE ServeRead
  <2>1. /\ up \in Seq(Msg) /\ up # <<>> /\ up' = Tail(up) /\ Len(hubOwes) = 0
        /\ Head(up).type = "progress" => hubOwes' = <<>>
    BY <1>4, OweNone DEF ServeRead, TypeOK
  <2>2. Len(hubOwes') \in Nat /\ Len(hubOwes') <= 1
    BY <1>0 DEF TypeOK
  <2>3. UNCHANGED <<serve, down, hubFlush, client, started, ping>>
    BY <1>4 DEF ServeRead
  <2>4. DownLoad' = DownLoad + Len(hubOwes')
    BY <2>1, <2>2, <2>3, LoadTypes DEF DownLoad
  <2>5. UpCarried' \in Nat /\ UpCarried \in Nat
    BY <1>0, CarriedType DEF UpCarried, TypeOK
  <2>6. UpCarried' + Len(hubOwes') <= UpCarried
    <3>1. CASE Head(up).type = "progress"
      BY <2>1, <2>5, <3>1, CarriedRead, OweNone DEF UpCarried
    <3>2. CASE Head(up).type # "progress"
      BY <2>1, <2>2, <2>5, <3>2, CarriedRead DEF UpCarried
    <3>3. QED
      BY <3>1, <3>2
  <2>7. UpLoad' + Len(hubOwes') <= UpLoad /\ UpLoad' \in Nat
    <3>1. UNCHANGED <<harFlush, harOwes>>
      BY <2>3 DEF client
    <3>2. /\ Cardinality(harFlush) \in Nat /\ Len(harOwes) \in Nat
          /\ UpLoad' = UpCarried' + Cardinality(harFlush) + Len(harOwes)
          /\ UpLoad = UpCarried + Cardinality(harFlush) + Len(harOwes)
      BY <3>1, LoadTypes DEF UpLoad
    <3>3. \A n, a, b, c, d \in Nat : a + n <= b => (a + c + d) + n <= b + c + d
      OBVIOUS
    <3>4. UpLoad' + Len(hubOwes') <= UpLoad
      BY <2>2, <2>5, <2>6, <3>2, <3>3, Zenon
    <3>5. UpLoad' \in Nat
      BY <2>5, <3>2
    <3>6. QED
      BY <3>4, <3>5
  <2>8. Slots' = Slots
    BY <2>3 DEF client, Slots, PingSlot, WelcomeSlot
  <2>9. QED
    BY <2>2, <2>4, <2>7, <2>8
<1>5. CASE ServeReply
  <2>1. Len(down') = Len(down) + 1 /\ Len(hubOwes) = 1 /\ Len(hubOwes') = 0
    <3>1. /\ hubOwes \in Seq(Msg) /\ hubOwes # <<>> /\ Len(hubOwes) <= 1 /\ hubOwes' = <<>>
          /\ down \in Seq(Msg) /\ down' = Append(down, Head(hubOwes))
      BY <1>5 DEF ServeReply, SendDown, TypeOK
    <3>2. Len(hubOwes) = 1 /\ Head(hubOwes) \in Msg
      BY <3>1, OweOne
    <3>3. QED
      BY <3>1, <3>2, SendType, OweNone
  <2>2. UNCHANGED <<serve, up, hubFlush, client, started, ping>>
    BY <1>5 DEF ServeReply
  <2>3. DownLoad' = DownLoad
    BY <2>1, <2>2, LoadTypes DEF DownLoad
  <2>4. UpLoad' = UpLoad /\ Slots' = Slots
    BY <2>2 DEF client, UpLoad, UpCarried, Slots, PingSlot, WelcomeSlot
  <2>5. QED
    BY <2>3, <2>4
<1>6. CASE ReadWelcome
  <2>1. Len(down') = Len(down) - 1 /\ UNCHANGED <<up, hub, harFlush, harOwes, ping, started>>
    BY <1>6, ReadType DEF ReadWelcome, TypeOK
  <2>2. WelcomeSlot = 1 /\ WelcomeSlot' = 0
    BY <1>6 DEF ReadWelcome, WelcomeSlot, SideInv, TypeOK
  <2>3. DownLoad' = DownLoad - 1
    BY <2>1, LoadTypes DEF DownLoad, hub
  <2>4. UpLoad' = UpLoad
    BY <2>1 DEF UpLoad, UpCarried
  <2>5. Slots' = Slots - 1
    BY <2>1, <2>2, LoadTypes DEF Slots, PingSlot
  <2>6. QED
    BY <2>3, <2>4, <2>5
<1>6a. CASE RefreshProgress \/ SendProgress
  <2>1. up' = Append(up, [type |-> "progress"]) /\ up \in Seq(Msg)
    BY <1>6a DEF RefreshProgress, SendProgress, SendUp, TypeOK
  <2>2. UNCHANGED <<down, hub, session, harFlush, harOwes, ping, started>>
    BY <1>6a DEF RefreshProgress, SendProgress, client
  <2>3. Carried(up') = Carried(up)
    BY <2>1, CarriedSend, Messages DEF UpCarried
  <2>4. DownLoad' = DownLoad /\ UpLoad' = UpLoad /\ Slots' = Slots
    BY <2>2, <2>3 DEF hub, DownLoad, UpLoad, UpCarried, Slots, PingSlot, WelcomeSlot
  <2>5. QED
    BY <2>4
<1>6b. CASE Pending
  <2>1. /\ Cardinality(harFlush) = 0
        /\ UNCHANGED <<down, up, hub, harOwes, ping>>
    BY <1>6b, FS_EmptySet DEF Pending, SideInv, TypeOK
  <2>2. started' = started + Cardinality(harFlush') /\ Cardinality(harFlush') \in Nat
    BY <1>6b, Counts DEF Pending, TypeOK, Env
  <2>3. WelcomeSlot = 0 /\ WelcomeSlot' = 0
    BY <1>6b DEF Pending, WelcomeSlot
  <2>4. DownLoad' = DownLoad
    BY <2>1 DEF DownLoad, hub
  <2>5. UpLoad' = UpLoad + Cardinality(harFlush')
    BY <2>1, <2>2, LoadTypes DEF UpLoad, UpCarried
  <2>6. Slots' = Slots + Cardinality(harFlush')
    <3>1. PingSlot' = PingSlot /\ PingSlot \in Nat /\ started \in Nat
      BY <2>1, LoadTypes DEF PingSlot
    <3>2. Slots = started + PingSlot
      BY <2>3, <3>1 DEF Slots
    <3>3. Slots' = started + Cardinality(harFlush') + PingSlot
      BY <2>2, <2>3, <3>1 DEF Slots
    <3>4. QED
      BY <2>2, <3>1, <3>2, <3>3
  <2>7. QED
    BY <2>2, <2>4, <2>5, <2>6
<1>7. CASE Resend
  <2>1. PICK e \in harFlush : SendUp(RequestFor(e)) /\ harFlush' = harFlush \ {e}
    BY <1>7 DEF Resend
  <2>2. /\ UpCarried' <= UpCarried + 1
        /\ Cardinality(harFlush') = Cardinality(harFlush) - 1
    <3>1. up \in Seq(Msg) /\ RequestFor(e) \in Msg /\ up' = Append(up, RequestFor(e))
      BY <2>1, LoadTypes, Messages DEF SendUp, TypeOK
    <3>2. QED
      BY <2>1, <3>1, LoadTypes, CarriedSend, CountSteps DEF UpCarried
  <2>3. UNCHANGED <<session, down, harOwes, hub, started, ping>>
    BY <1>7 DEF Resend
  <2>4. UpLoad' <= UpLoad /\ UpLoad' \in Nat
    <3>1. UpCarried' \in Nat /\ Cardinality(harFlush') \in Nat
      <4>1. UpCarried' \in Nat
        BY <1>0, CarriedType DEF UpCarried, TypeOK
      <4>2. Cardinality(harFlush) - 1 \in Nat
        BY <2>1, LoadTypes, Counts, FS_EmptySet
      <4>3. QED
        BY <2>2, <4>1, <4>2
    <3>2. UpLoad' = UpCarried' + Cardinality(harFlush') + Len(harOwes)
      BY <2>3 DEF UpLoad
    <3>3. UpLoad = UpCarried + Cardinality(harFlush) + Len(harOwes)
      BY DEF UpLoad
    <3>4. UpCarried \in Nat /\ Cardinality(harFlush) \in Nat /\ Len(harOwes) \in Nat
      BY LoadTypes
    <3>5. QED
      BY <2>2, <3>1, <3>2, <3>3, <3>4
  <2>5. DownLoad' = DownLoad /\ Slots' = Slots
    BY <2>3 DEF hub, DownLoad, Slots, PingSlot, WelcomeSlot
  <2>6. QED
    BY <2>4, <2>5
<1>8. CASE ClientRead
  <2>1. Len(down') = Len(down) - 1 /\ Len(harOwes) = 0
    BY <1>8, ReadType, OweNone DEF ClientRead, TypeOK
  <2>2. Len(harOwes') \in Nat /\ Len(harOwes') <= 1
    BY <1>0 DEF TypeOK
  <2>3. UNCHANGED <<session, up, hub, harFlush, started>>
    BY <1>8 DEF ClientRead
  <2>4. DownLoad' = DownLoad - 1
    BY <2>1, <2>3, LoadTypes DEF DownLoad, hub
  <2>5. UpLoad' = UpLoad + Len(harOwes')
    BY <2>1, <2>2, <2>3, LoadTypes DEF UpLoad, UpCarried
  <2>6. CASE ping' = ping
    <3>1. Slots' = Slots
      BY <2>3, <2>6 DEF hub, Slots, PingSlot, WelcomeSlot
    <3>2. QED
      BY <2>2, <2>4, <2>5, <3>1
  <2>7. CASE ping' = "idle" /\ harOwes' = <<>>
    <3>1. WelcomeSlot' = WelcomeSlot /\ PingSlot' = 0
      BY <2>3, <2>7 DEF hub, PingSlot, WelcomeSlot
    <3>2. Slots' \in Nat /\ Slots' >= Slots - 1
      BY <2>3, <3>1, LoadTypes DEF Slots
    <3>3. UpLoad' = UpLoad
      BY <2>5, <2>7, OweNone
    <3>4. QED
      BY <2>4, <3>2, <3>3
  <2>8. QED
    BY <1>8, <2>6, <2>7 DEF ClientRead
<1>9. CASE ClientReply
  <2>1. /\ UpCarried' <= UpCarried + 1
        /\ Len(harOwes) = 1 /\ Len(harOwes') = 0
    <3>1. /\ harOwes \in Seq(Msg) /\ harOwes # <<>> /\ Len(harOwes) <= 1 /\ harOwes' = <<>>
          /\ up \in Seq(Msg) /\ up' = Append(up, Head(harOwes))
      BY <1>9 DEF ClientReply, SendUp, TypeOK
    <3>2. Len(harOwes) = 1 /\ Head(harOwes) \in Msg
      BY <3>1, OweOne
    <3>3. QED
      BY <3>1, <3>2, CarriedSend, OweNone DEF UpCarried
  <2>2. UNCHANGED <<session, down, hub, harFlush, started, ping>>
    BY <1>9 DEF ClientReply
  <2>3. UpLoad' <= UpLoad /\ UpLoad' \in Nat
    <3>1. UpCarried' \in Nat
      BY <1>0, CarriedType DEF UpCarried, TypeOK
    <3>2. QED
      BY <2>1, <2>2, <3>1, LoadTypes DEF UpLoad
  <2>4. DownLoad' = DownLoad /\ Slots' = Slots
    BY <2>2 DEF hub, DownLoad, Slots, PingSlot, WelcomeSlot
  <2>5. QED
    BY <2>3, <2>4
<1>10. CASE Ping
  <2>1. UpCarried' <= UpCarried + 1 /\ PingSlot = 0 /\ PingSlot' = 1
    BY <1>10, Messages, CarriedSend DEF UpCarried, Ping, SendUp, PingSlot, TypeOK
  <2>2. UNCHANGED <<down, hub, client, started>>
    BY <1>10 DEF Ping
  <2>3. DownLoad' = DownLoad /\ WelcomeSlot' = WelcomeSlot
    BY <2>2 DEF hub, client, DownLoad, WelcomeSlot
  <2>4. UpLoad' <= UpLoad + 1 /\ UpLoad' \in Nat
    <3>1. UpCarried' \in Nat
      BY <1>0, CarriedType DEF UpCarried, TypeOK
    <3>2. QED
      <4>1. UNCHANGED <<harFlush, harOwes>>
        BY <2>2 DEF client
      <4>2. QED
        BY <2>1, <3>1, <4>1, LoadTypes DEF UpLoad
  <2>5. Slots' = Slots + 1
    BY <2>1, <2>2, <2>3, LoadTypes DEF Slots
  <2>6. QED
    BY <2>3, <2>4, <2>5
<1>11. CASE PongTimeout \/ Break
  <2>1. End
    BY <1>11 DEF PongTimeout, Break
  <2>2. DownLoad' = 0 /\ UpLoad' = 0
    <3>1. Carried(<<>>) = {}
      BY DEF Carried
    <3>2. UpCarried' = 0
      BY <2>1, <3>1, FS_EmptySet DEF End, UpCarried
    <3>3. QED
      BY <2>1, <3>2, OweNone, FS_EmptySet DEF End, DownLoad, UpLoad
  <2>3. Slots' = 0
    BY <2>1 DEF End, Slots, PingSlot, WelcomeSlot
  <2>4. QED
    BY <2>2, <2>3
<1>12. ASSUME NEW e \in Env, Store(e) PROVE LoadInv'
  <2>1. UNCHANGED <<down, up, hub, client, ping, started>>
    BY <1>12 DEF Store
  <2>2. DownLoad' = DownLoad /\ UpLoad' = UpLoad /\ Slots' = Slots
    BY <2>1 DEF hub, client, DownLoad, UpLoad, UpCarried, Slots, PingSlot, WelcomeSlot
  <2>3. QED
    BY <2>2
<1>13. ASSUME NEW e \in Env, HubSend(e) PROVE LoadInv'
  <2>1. UNCHANGED <<up, hub, client, ping>>
    BY <1>13 DEF HubSend
  <2>2. UpLoad' = UpLoad /\ WelcomeSlot' = WelcomeSlot /\ PingSlot' = PingSlot
    BY <2>1 DEF hub, client, UpLoad, UpCarried, WelcomeSlot, PingSlot
  <2>3. \/ UNCHANGED <<down, started>>
        \/ Len(down') = Len(down) + 1 /\ started' = started + 1
    BY <1>13, Messages, SendType DEF HubSend, SendDown, TypeOK
  <2>4. CASE UNCHANGED <<down, started>>
    <3>1. DownLoad' = DownLoad /\ Slots' = Slots
      BY <2>1, <2>2, <2>4 DEF hub, DownLoad, Slots
    <3>2. QED
      BY <2>2, <3>1
  <2>5. CASE Len(down') = Len(down) + 1 /\ started' = started + 1
    <3>1. DownLoad' = DownLoad + 1
      BY <2>1, <2>5, LoadTypes DEF hub, DownLoad
    <3>2. Slots' = Slots + 1
      BY <2>2, <2>5, LoadTypes DEF Slots
    <3>3. QED
      BY <2>2, <3>1, <3>2
  <2>6. QED
    BY <2>3, <2>4, <2>5
<1>14. ASSUME NEW e \in Env, ClientSend(e) PROVE LoadInv'
  <2>1. UNCHANGED <<down, hub, client, ping>>
    BY <1>14 DEF ClientSend
  <2>2. DownLoad' = DownLoad /\ WelcomeSlot' = WelcomeSlot /\ PingSlot' = PingSlot
    BY <2>1 DEF hub, client, DownLoad, WelcomeSlot, PingSlot
  <2>3. \/ UNCHANGED <<up, started>>
        \/ /\ UpCarried' <= UpCarried + 1
           /\ started' = started + 1
    BY <1>14, Messages, CarriedSend DEF UpCarried, ClientSend, SendUp, TypeOK
  <2>4. CASE UNCHANGED <<up, started>>
    <3>1. UpLoad' = UpLoad /\ Slots' = Slots
      BY <2>1, <2>2, <2>4 DEF client, UpLoad, UpCarried, Slots
    <3>2. QED
      BY <2>2, <3>1
  <2>5. CASE UpCarried' <= UpCarried + 1 /\ started' = started + 1
    <3>0. UpCarried' \in Nat
      BY <1>0, CarriedType DEF UpCarried, TypeOK
    <3>1. UpLoad' <= UpLoad + 1 /\ UpLoad' \in Nat
      BY <2>1, <2>5, <3>0, LoadTypes DEF client, UpLoad
    <3>2. Slots' = Slots + 1
      BY <2>2, <2>5, LoadTypes DEF Slots
    <3>3. QED
      BY <2>2, <3>1, <3>2
  <2>6. QED
    BY <2>3, <2>4, <2>5
<1>15. QED
  BY <1>1, <1>2, <1>3, <1>4, <1>5, <1>6, <1>6a, <1>6b, <1>7, <1>8, <1>9, <1>10, <1>11,
     <1>12, <1>13, <1>14
  DEF Next, Serve, Session, Sender

\* The numbers StartInv adds up.
LEMMA StartTypes ==
  ASSUME TypeOK
  PROVE  /\ started \in Nat /\ Cardinality(writing) \in Nat /\ Cardinality(made) \in Nat
         /\ Cardinality(made \cap Down) \in Nat /\ Cardinality(made \cap Up) \in Nat
         /\ Cardinality(stored \cap Down) \in Nat /\ Cardinality(stored \cap Up) \in Nat
         /\ HubToFlush \in Nat /\ HarToFlush \in Nat
<1>1. /\ writing \in SUBSET Env /\ made \in SUBSET Env
      /\ made \cap Down \in SUBSET Env /\ made \cap Up \in SUBSET Env
      /\ stored \cap Down \in SUBSET Env /\ stored \cap Up \in SUBSET Env
  BY DEF TypeOK
<1>2. QED
  BY <1>1, Counts DEF TypeOK, HubToFlush, HarToFlush

\* A flush starts what is stored and gives up its claim to flush; a Send takes
\* its envelope out of writing; only Store adds to the claims, and to made.
LEMMA StartInductive ==
  ASSUME TypeOK, SideInv, StartInv, [Next]_vars
  PROVE  StartInv'
<1> USE StartTypes DEF outboxes, hub, client
<1>1. CASE UNCHANGED vars
  BY <1>1 DEF vars, StartInv, HubToFlush, HarToFlush
<1>2. CASE Connect
  BY <1>2 DEF Connect, StartInv, HubToFlush, HarToFlush
<1>3. CASE SendWelcome
  <2>1. /\ HubToFlush = Cardinality(made \cap Down) /\ HubToFlush' = 0
        /\ started' = started + Cardinality(stored \cap Down)
        /\ HarToFlush' = HarToFlush
        /\ Cardinality(writing') = Cardinality(writing)
        /\ Cardinality(made') = Cardinality(made)
    BY <1>3 DEF SendWelcome, HubToFlush, HarToFlush
  <2>2. QED
    BY <2>1, Counts DEF StartInv
<1>4. CASE FlushOutbox \/ StartServing \/ ServeRead \/ ServeReply
  <2>1. UNCHANGED <<made, writing, started, HubToFlush, HarToFlush>>
    BY <1>4 DEF FlushOutbox, StartServing, ServeRead, ServeReply, HubToFlush, HarToFlush
  <2>2. QED
    BY <2>1 DEF StartInv
<1>5. CASE Pending
  <2>1. /\ HarToFlush = Cardinality(made \cap Up) /\ HarToFlush' = 0
        /\ started' = started + Cardinality(stored \cap Up)
        /\ HubToFlush' = HubToFlush
        /\ Cardinality(writing') = Cardinality(writing)
        /\ Cardinality(made') = Cardinality(made)
    BY <1>5 DEF Pending, HubToFlush, HarToFlush
  <2>2. QED
    BY <2>1, Counts DEF StartInv
<1>6. CASE \/ ReadWelcome \/ RefreshProgress \/ SendProgress \/ Resend
           \/ StartReading \/ ClientRead \/ ClientReply \/ Ping
  <2>1. UNCHANGED <<made, writing, started, HubToFlush, HarToFlush>>
    BY <1>6 DEF ReadWelcome, RefreshProgress, SendProgress, Resend, StartReading, ClientRead,
                ClientReply, Ping, HubToFlush, HarToFlush
  <2>2. QED
    BY <2>1 DEF StartInv
<1>7. CASE PongTimeout \/ Break
  <2>1. End
    BY <1>7 DEF PongTimeout, Break
  <2>2. /\ started' = 0 /\ Cardinality(writing') = Cardinality(writing)
        /\ Cardinality(made') = Cardinality(made)
        /\ HubToFlush' = Cardinality(made \cap Down)
        /\ HarToFlush' = Cardinality(made \cap Up)
    BY <2>1 DEF End, HubToFlush, HarToFlush
  <2>3. QED
    BY <2>2, Counts DEF StartInv
<1>8. ASSUME NEW e \in Env, Store(e) PROVE StartInv'
  <2>1. /\ e \notin made /\ e \notin writing
        /\ made' = made \cup {e} /\ writing' = writing \cup {e}
        /\ made \in SUBSET Env /\ writing \in SUBSET Env
        /\ made \cap Down \in SUBSET Env /\ made \cap Up \in SUBSET Env
        /\ started' = started /\ serve' = serve /\ session' = session
    BY <1>8 DEF Store, TypeOK
  <2>2. /\ Cardinality(made') = Cardinality(made) + 1
        /\ Cardinality(writing') = Cardinality(writing) + 1
    BY <2>1, CountSteps
  <2>3. \/ /\ Cardinality(made' \cap Down) = Cardinality(made \cap Down) + 1
           /\ Cardinality(made' \cap Up) = Cardinality(made \cap Up)
        \/ /\ Cardinality(made' \cap Down) = Cardinality(made \cap Down)
           /\ Cardinality(made' \cap Up) = Cardinality(made \cap Up) + 1
    <3>1. CASE e \in Down
      <4>1. made' \cap Down = (made \cap Down) \cup {e} /\ made' \cap Up = made \cap Up
        BY <2>1, <3>1, FlowAssumption
      <4>2. QED
        BY <2>1, <4>1, CountSteps
    <3>2. CASE e \in Up
      <4>1. made' \cap Up = (made \cap Up) \cup {e} /\ made' \cap Down = made \cap Down
        BY <2>1, <3>2, FlowAssumption
      <4>2. QED
        BY <2>1, <4>1, CountSteps
    <3>3. QED
      BY <3>1, <3>2 DEF Env
  <2>4. HubToFlush' + HarToFlush' <= HubToFlush + HarToFlush + 1
    BY <2>1, <2>3 DEF HubToFlush, HarToFlush
  <2>5. HubToFlush' \in Nat /\ HarToFlush' \in Nat
    BY <2>3 DEF HubToFlush, HarToFlush
  <2>6. QED
    BY <2>1, <2>2, <2>4, <2>5 DEF StartInv
<1>9. ASSUME NEW e \in Env, Sender(e) PROVE StartInv'
  <2>1. /\ e \in writing /\ writing \in SUBSET Env /\ writing' = writing \ {e}
        /\ started' = started \/ started' = started + 1
    BY <1>9 DEF Sender, HubSend, ClientSend, TypeOK
  <2>2. UNCHANGED <<made, HubToFlush, HarToFlush>>
    BY <1>9 DEF Sender, HubSend, ClientSend, HubToFlush, HarToFlush
  <2>3. Cardinality(writing') = Cardinality(writing) - 1
    BY <2>1, CountSteps
  <2>4. started' + Cardinality(writing') <= started + Cardinality(writing)
    BY <2>1, <2>3
  <2>5. started' \in Nat /\ Cardinality(writing') \in Int
    BY <2>1, <2>3
  <2>6. QED
    BY <2>2, <2>4, <2>5 DEF StartInv
<1>10. QED
  BY <1>1, <1>2, <1>3, <1>4, <1>5, <1>6, <1>7, <1>8, <1>9 DEF Next, Serve, Session

\* The hub holds a request or a reply and the socket towards the harness is
\* full; so does the harness hold one, unless it reports running jobs.  All of
\* them are requests started, or their acks, or the pong.
LEMMA BlockIsLoad ==
  ASSUME FlowInv
  PROVE  BlockNeedsLoad
<1> SUFFICES ASSUME Stuck PROVE DownCap + Held <= 2 * Cardinality(made) + PingSlot
  BY DEF BlockNeedsLoad
<1> USE FlowAssumption, LoadTypes, StartTypes DEF FlowInv
<1>1. WelcomeSlot = 0
  BY DEF Stuck, WelcomeSlot, SideInv, TypeOK
<1>2. \A S \in SUBSET Env : S # {} => Cardinality(S) >= 1
  BY Counts, FS_EmptySet
<1>3. Cardinality(hubFlush) + Len(hubOwes) >= 1
  <2>1. CASE hubFlush # {}
    BY <1>2, <2>1
  <2>2. CASE hubOwes # <<>>
    BY <2>2, ReadType DEF TypeOK
  <2>3. QED
    BY <2>1, <2>2 DEF Stuck
<1>4. Cardinality(harFlush) + Len(harOwes) >= Held - 1 /\ Held \in {1, 2}
  <2>1. CASE refresh > 0
    BY <2>1 DEF Held
  <2>2. CASE harFlush # {}
    BY <1>2, <2>2 DEF Held
  <2>3. CASE harOwes # <<>>
    BY <2>3, ReadType DEF TypeOK, Held
  <2>4. QED
    BY <2>1, <2>2, <2>3 DEF Stuck
<1>5. DownLoad >= DownCap + 1
  BY <1>3 DEF DownLoad, Stuck
<1>6. UpLoad >= Held - 1
  BY <1>4 DEF UpLoad
<1>7. Slots = started + PingSlot
  BY <1>1 DEF Slots
<1>8. DownCap + Held <= started + PingSlot
  <2> HIDE LoadTypes, StartTypes
  <2>1. QED
    BY <1>4, <1>5, <1>6, <1>7, GroupTypes DEF LoadInv
<1>9. started <= 2 * Cardinality(made)
  BY DEF StartInv
<1>10. QED
  <2>1. /\ started \in Nat /\ PingSlot \in Nat /\ Cardinality(made) \in Nat
        /\ DownCap \in Nat /\ Held \in Nat
    BY <1>4
  <2> HIDE FlowAssumption, LoadTypes, StartTypes
  <2>2. QED
    BY <1>8, <1>9, <2>1

\* hub.serve and client.session, which flush before they read and reply before
\* they read on, are stuck only when twice the number of envelopes stored
\* fills the socket towards the harness and the hands of both, however much
\* progress of running jobs fills the other direction: below that load,
\* whatever the buffers and however often the connection breaks, one of them
\* always reads on.
THEOREM NoMutualBlock == Spec => []BlockNeedsLoad
<1>1. Init => FlowInv
  <2> SUFFICES ASSUME Init PROVE FlowInv
    OBVIOUS
  <2> USE FlowAssumption, FS_EmptySet, OweNone DEF Init
  <2>1. TypeOK
    BY DEF TypeOK
  <2>2. SideInv
    BY DEF SideInv
  <2>3. LoadInv
    <3>1. Carried(<<>>) = {}
      BY DEF Carried
    <3>2. UpCarried = 0
      BY <3>1 DEF UpCarried
    <3>3. QED
      BY <3>2 DEF LoadInv, DownLoad, UpLoad, Slots, PingSlot, WelcomeSlot
  <2>4. StartInv
    <3>1. made \cap Down = {} /\ made \cap Up = {}
      OBVIOUS
    <3>2. QED
      BY <3>1 DEF StartInv, HubToFlush, HarToFlush
  <2>5. QED
    BY <2>1, <2>2, <2>3, <2>4 DEF FlowInv
<1>2. FlowInv /\ [Next]_vars => FlowInv'
  BY TypeInductive, SideInductive, LoadInductive, StartInductive DEF FlowInv
<1>3. FlowInv => BlockNeedsLoad
  BY BlockIsLoad
<1>4. QED
  BY <1>1, <1>2, <1>3, PTL DEF Spec
=============================================================================
