--------------------------- MODULE AgentRunProofs ---------------------------
(***************************************************************************)
(* Theorems about AgentRun, for any jobs of a thread, workspaces and       *)
(* numbers of jobs at a time, restarts and failures.                       *)
(***************************************************************************)
EXTENDS AgentRun, TLAPS

-----------------------------------------------------------------------------
(* Type correctness *)

LEMMA ProcessType ==
  ASSUME TypeOK, NEW j \in Job
  PROVE  /\ proc[j] \in Process /\ NoProcess \in Process
         /\ \A p \in Process : [proc EXCEPT ![j] = p] \in [Job -> Process]
  BY DEF TypeOK, Process, NoProcess

\* The updates of a process the actions make.
LEMMA Starts ==
  ASSUME NEW s \in Job \cup {None}
  PROVE  [NoProcess EXCEPT !.resume = s, !.cli = "up", !.killer = "watch"] \in Process
<1>1. NoProcess \in Process
  BY DEF NoProcess, Process
<1>2. QED
  BY <1>1, Zenon DEF Process

LEMMA Signals ==
  ASSUME NEW p \in Process, NEW k \in {"none", "watch", "grace", "gone"},
         NEW c \in {"none", "up", "ok", "error", "killed"},
         NEW h \in {"none", "group", "detached", "gone"}
  PROVE  [p EXCEPT !.killer = k, !.cli = c, !.helper = h] \in Process
  BY Zenon DEF Process

LEMMA Prints ==
  ASSUME NEW p \in Process, NEW l \in Line, NEW s \in Job \cup {None}
  PROVE  [p EXCEPT !.pipe = Append(@, l), !.printed = @ \cup {l}, !.session = s] \in Process
<1>1. \A q \in Seq(Line), r \in SUBSET Line :
        [p EXCEPT !.pipe = q, !.printed = r, !.session = s] \in Process
  BY Zenon DEF Process
<1>2. Append(p.pipe, l) \in Seq(Line) /\ p.printed \cup {l} \in SUBSET Line
  BY DEF Process
<1>3. QED
  BY <1>1, <1>2

LEMMA Reads ==
  ASSUME NEW p \in Process, p.pipe # <<>>
  PROVE  [p EXCEPT !.pipe = Tail(@), !.read = @ \cup {Head(p.pipe)}] \in Process
<1>1. \A q \in Seq(Line), r \in SUBSET Line :
        [p EXCEPT !.pipe = q, !.read = r] \in Process
  BY Zenon DEF Process
<1>2. Tail(p.pipe) \in Seq(Line) /\ p.read \cup {Head(p.pipe)} \in SUBSET Line
  BY DEF Process
<1>3. QED
  BY <1>1, <1>2

LEMMA Changes ==
  ASSUME NEW p \in Process
  PROVE  /\ \A c \in {"none", "up", "ok", "error", "killed"} : [p EXCEPT !.cli = c] \in Process
         /\ \A h \in {"none", "group", "detached", "gone"} : [p EXCEPT !.helper = h] \in Process
         /\ [p EXCEPT !.stderr = "short"] \in Process
         /\ [p EXCEPT !.killer = "gone"] \in Process
  BY Zenon DEF Process

\* Every variable keeps its type; in particular a session stored is one some
\* job has printed.
LEMMA TypeInductive ==
  ASSUME TypeOK, [Next]_vars,
         \A j \in Job : "session" \in proc[j].read => proc[j].session # None
  PROVE  TypeOK'
<1> USE AgentRunAssumption DEF setting, sessions, chosen, Count
<1>1. CASE UNCHANGED vars \/ Stall \/ Resume
  <2>1. stuck' \in BOOLEAN
    BY <1>1, Zenon DEF vars, Stall, Resume, TypeOK
  <2>2. spent' \in 0..MaxEvents
    <3>1. spent' = spent \/ (spent < MaxEvents /\ spent' = spent + 1)
      BY <1>1 DEF vars, Stall, Resume
    <3>2. QED
      BY <3>1 DEF TypeOK
  <2>3. UNCHANGED <<known, agents, sessions, at, chosen, ended, proc, status, follows>>
    BY <1>1 DEF vars, Stall, Resume
  <2>4. QED
    BY <2>1, <2>2, <2>3 DEF TypeOK
<1>2. CASE Restart
  <2>1. stuck' \in BOOLEAN
    BY <1>2, Zenon DEF Restart
  <2>2. QED
    BY <1>2, <2>1, ProcessType DEF Restart, TypeOK, Active, Process, NoProcess
<1>3. ASSUME NEW j \in Job, NEW w \in Workspace \cup {None}, NEW a \in AgentName \cup {None},
             OnDispatch(j, w, a)
      PROVE  TypeOK'
  <2>1. resolveAgent(a) \in AgentName
    BY DEF TypeOK, resolveAgent, Entry, AgentName
  <2>2. QED
    BY <1>3, <2>1 DEF OnDispatch, TypeOK, Active
<1>4. ASSUME NEW j \in Job, EndContext(j) PROVE TypeOK'
  BY <1>4 DEF EndContext, TypeOK
<1>5. ASSUME NEW j \in Job, Start(j) PROVE TypeOK'
  <2>1. ResumeID(j) \in Job \cup {None}
    BY DEF ResumeID, TypeOK, Entry
  <2>2. [NoProcess EXCEPT !.resume = ResumeID(j), !.cli = "up", !.killer = "watch"] \in Process
    BY <2>1, Starts
  <2>3. QED
    BY <1>5, <2>2, ProcessType DEF Start, TypeOK, Active
<1>6. ASSUME NEW j \in Job, StartFails(j) PROVE TypeOK'
  BY <1>6 DEF StartFails, TypeOK, Active
<1>7. ASSUME NEW j \in Job, NEW p \in Process, Followed(j, p), spent' \in 0..MaxEvents
      PROVE  TypeOK'
  BY <1>7, ProcessType DEF Followed, TypeOK
<1>8. ASSUME NEW j \in Job, CliStep(j) \/ KillerStep(j) \/ ReadLine(j) PROVE TypeOK'
  <2>1. \E p \in Process : Followed(j, p)
    <3>1. CASE CliPrints(j)
      <4>1. PICK l \in Line, s \in {j, proc[j].resume, proc[j].session} \ {None} :
              Followed(j, [proc[j] EXCEPT !.pipe = Append(@, l), !.printed = @ \cup {l},
                                          !.session = s])
        BY <3>1 DEF CliPrints
      <4>2. s \in Job \cup {None}
        BY ProcessType DEF Process
      <4>3. QED
        BY <4>1, <4>2, ProcessType, Prints
    <3>2. CASE CliExits(j) \/ HelperStarts(j) \/ HelperExits(j) \/ StderrShort(j)
      BY <3>2, ProcessType, Changes DEF CliExits, HelperStarts, HelperExits, StderrShort
    <3>3. CASE Interrupt(j)
      <4>1. PICK c \in {proc[j].cli, "error"}, h \in {proc[j].helper, "gone"} :
              Followed(j, [proc[j] EXCEPT !.killer = "grace", !.cli = c, !.helper = h])
        BY <3>3 DEF Interrupt
      <4>2. /\ c \in {"none", "up", "ok", "error", "killed"}
            /\ h \in {"none", "group", "detached", "gone"}
        BY ProcessType DEF Process
      <4>3. QED
        BY <4>1, <4>2, ProcessType, Signals
    <3>4. CASE Kill(j)
      <4> DEFINE c == Killed(proc[j].cli)
                 h == IF proc[j].helper = "group" THEN "gone" ELSE proc[j].helper
      <4>1. Followed(j, [proc[j] EXCEPT !.killer = "gone", !.cli = c, !.helper = h])
        BY <3>4 DEF Kill
      <4>2. /\ c \in {"none", "up", "ok", "error", "killed"}
            /\ h \in {"none", "group", "detached", "gone"}
        BY ProcessType DEF Process, Killed
      <4> HIDE DEF c, h
      <4>3. QED
        BY <4>1, <4>2, ProcessType, Signals
    <3>5. CASE ReadLine(j)
      BY <3>5, ProcessType, Reads DEF ReadLine
    <3>6. QED
      BY <1>8, <3>1, <3>2, <3>3, <3>4, <3>5 DEF CliStep, KillerStep
  <2>2. spent' \in 0..MaxEvents
    <3>1. spent' = spent \/ (spent < MaxEvents /\ spent' = spent + 1)
      BY <1>8 DEF CliStep, CliPrints, CliExits, HelperStarts, HelperExits, StderrShort,
                  KillerStep, Interrupt, Kill, ReadLine
    <3>2. QED
      BY <3>1 DEF TypeOK
  <2>3. QED
    BY <1>7, <2>1, <2>2
<1>9. ASSUME NEW j \in Job, StopReading(j) PROVE TypeOK'
  BY <1>9 DEF StopReading, TypeOK, Active
<1>10. ASSUME NEW j \in Job, Wait(j) PROVE TypeOK'
  <2>1. [proc[j] EXCEPT !.killer = "gone"] \in Process
    BY ProcessType, Changes
  <2>2. QED
    BY <1>10, <2>1, ProcessType DEF Wait, TypeOK, Active, Verdict
<1>11. ASSUME NEW j \in Job, StoreSession(j) PROVE TypeOK'
  <2>1. "session" \in proc[j].read => EntryOf(j) \in Entry
    BY ProcessType DEF EntryOf, Entry, TypeOK, Process
  <2>2. QED
    BY <1>11, <2>1 DEF StoreSession, TypeOK, Active
<1>12. ASSUME NEW j \in Job, Finish(j) PROVE TypeOK'
  BY <1>12, ProcessType DEF Finish, TypeOK
<1>13. QED
  BY <1>1, <1>2, <1>3, <1>4, <1>5, <1>6, <1>8, <1>9, <1>10, <1>11, <1>12 DEF Next, run

-----------------------------------------------------------------------------
(* The inductive invariant *)

\* The lines in a pipe.
Lines(q) == {q[i] : i \in 1..Len(q)}

\* The bookkeeping of one run: nothing is printed before the session, and
\* what is printed is read, on its way, or behind a line that is too long.
Book(a, p) ==
  /\ a \in {"new", "accepted"} => p = NoProcess
  /\ p.session = None => p.printed = {}
  /\ p.read \subseteq p.printed /\ Lines(p.pipe) \subseteq p.printed
  /\ a = "parse" => p.printed = p.read \cup Lines(p.pipe)
  /\ a = "wait" /\ "huge" \notin p.printed => p.printed = p.read /\ p.cli # "up"

BookInv == \A j \in Job : Book(at[j], proc[j])

\* s names a session that was begun in workspace w by agent a.
Fits(s, w, a) == at[s] # "new" /\ workspace[s] = w /\ agent[s] = a

EntryFits(e) == e # None => Fits(e.session, e.workspace, e.agent)

ProcFits(j, p) ==
  /\ p.resume # None => Fits(p.resume, workspace[j], agent[j])
  /\ p.session # None => Fits(p.session, workspace[j], agent[j])

FitInv ==
  /\ EntryFits(mem) /\ EntryFits(file)
  /\ \A j \in Job : ProcFits(j, proc[j])

RunInv == TypeOK /\ BookInv /\ FitInv /\ HonestVerdict

\* A stored session is one the CLI has printed.
LEMMA ReadHasSession ==
  ASSUME BookInv
  PROVE  \A j \in Job : "session" \in proc[j].read => proc[j].session # None
  BY DEF BookInv, Book

LEMMA LinesOf ==
  /\ Lines(<<>>) = {}
  /\ \A q \in Seq(Line), l \in Line : Lines(Append(q, l)) = Lines(q) \cup {l}
  /\ \A q \in Seq(Line) : q # <<>> =>
       Head(q) \in Lines(q) /\ Lines(q) = {Head(q)} \cup Lines(Tail(q))
<1>1. Lines(<<>>) = {}
  BY DEF Lines
<1>2. ASSUME NEW q \in Seq(Line), NEW l \in Line
      PROVE  Lines(Append(q, l)) = Lines(q) \cup {l}
  <2> DEFINE r == Append(q, l)
  <2>1. /\ Len(r) = Len(q) + 1 /\ Len(q) \in Nat /\ r[Len(q) + 1] = l
        /\ \A i \in 1..Len(q) : r[i] = q[i]
    OBVIOUS
  <2> HIDE DEF r
  <2>2. 1..Len(r) = (1..Len(q)) \cup {Len(q) + 1}
    BY <2>1
  <2>3. {r[i] : i \in 1..Len(r)} = {q[i] : i \in 1..Len(q)} \cup {l}
    BY <2>1, <2>2
  <2>4. QED
    BY <2>3 DEF Lines, r
<1>3. ASSUME NEW q \in Seq(Line), q # <<>>
      PROVE  Head(q) \in Lines(q) /\ Lines(q) = {Head(q)} \cup Lines(Tail(q))
  <2> DEFINE r == Tail(q)
  <2>1. /\ Len(q) \in Nat /\ Len(q) >= 1 /\ Len(r) = Len(q) - 1 /\ Head(q) = q[1]
        /\ \A i \in 1..Len(r) : r[i] = q[i + 1]
    BY <1>3
  <2> HIDE DEF r
  <2>2. \A i \in 1..Len(q) : i = 1 \/ (i - 1 \in 1..Len(r) /\ q[i] = r[i - 1])
    BY <2>1
  <2>3. {q[i] : i \in 1..Len(q)} = {q[1]} \cup {r[i] : i \in 1..Len(r)}
    BY <2>1, <2>2
  <2>4. QED
    BY <2>1, <2>3 DEF Lines, r
<1>4. QED
  BY <1>1, <1>2, <1>3

LEMMA InitRun == Init => RunInv
<1> SUFFICES ASSUME Init PROVE RunInv
  OBVIOUS
<1>1. TypeOK
  <2>1. stuck \in BOOLEAN
    BY Zenon DEF Init
  <2>2. QED
    BY <2>1, AgentRunAssumption DEF Init, TypeOK, Process, NoProcess, AgentName
<1>2. BookInv
  BY LinesOf DEF Init, BookInv, Book, NoProcess
<1>3. FitInv
  BY DEF Init, FitInv, EntryFits, ProcFits, NoProcess
<1>4. HonestVerdict
  BY DEF Init, HonestVerdict, Judged
<1>5. QED
  BY <1>1, <1>2, <1>3, <1>4 DEF RunInv

LEMMA BookStep ==
  ASSUME TypeOK, BookInv, [Next]_vars
  PROVE  BookInv'
<1> USE DEF setting, sessions, chosen
<1>1. CASE UNCHANGED vars \/ Stall \/ Resume
  BY <1>1 DEF vars, Stall, Resume, BookInv
<1>2. CASE Restart
  BY <1>2, LinesOf DEF Restart, BookInv, Book, TypeOK, NoProcess, Active
\* A step of j leaves the books of the other jobs as they are.
<1>3. ASSUME NEW j \in Job, NEW a, NEW p, Book(a, p),
             at' = [at EXCEPT ![j] = a], proc' = [proc EXCEPT ![j] = p]
      PROVE  BookInv'
  BY <1>3 DEF BookInv, TypeOK
<1>4. ASSUME NEW j \in Job PROVE proc[j] \in Process /\ Book(at[j], proc[j])
  BY DEF TypeOK, BookInv
<1>5. ASSUME NEW j \in Job, NEW p, Followed(j, p), Book(at[j], p) PROVE BookInv'
  <2>1. at' = [at EXCEPT ![j] = at[j]] /\ proc' = [proc EXCEPT ![j] = p]
    BY <1>5 DEF Followed, TypeOK
  <2>2. QED
    BY <1>3, <1>5, <2>1
<1>6. ASSUME NEW j \in Job, NEW a, Book(a, proc[j]), at' = [at EXCEPT ![j] = a], proc' = proc
      PROVE  BookInv'
  <2>1. proc' = [proc EXCEPT ![j] = proc[j]]
    BY <1>6 DEF TypeOK
  <2>2. QED
    BY <1>3, <1>6, <2>1
<1>7. ASSUME NEW j \in Job, NEW w \in Workspace \cup {None}, NEW a \in AgentName \cup {None},
             OnDispatch(j, w, a)
      PROVE  BookInv'
  <2>1. at[j] = "new" /\ proc' = proc
    BY <1>7 DEF OnDispatch
  <2>2. Book("accepted", proc[j]) /\ Book("refused", proc[j])
    BY <1>4, <2>1 DEF Book
  <2>3. at' = [at EXCEPT ![j] = "accepted"] \/ at' = [at EXCEPT ![j] = "refused"]
    BY <1>7 DEF OnDispatch
  <2>4. QED
    BY <1>6, <2>1, <2>2, <2>3
<1>8. ASSUME NEW j \in Job, EndContext(j) PROVE BookInv'
  BY <1>8 DEF EndContext, BookInv
<1>9. ASSUME NEW j \in Job, Start(j) PROVE BookInv'
  <2> DEFINE p == [NoProcess EXCEPT !.resume = ResumeID(j), !.cli = "up", !.killer = "watch"]
  <2>1. p.printed = {} /\ p.read = {} /\ p.pipe = <<>>
    BY DEF NoProcess
  <2>2. Book("parse", p)
    BY <2>1, LinesOf DEF Book
  <2>3. QED
    BY <1>3, <1>9, <2>2 DEF Start
<1>10. ASSUME NEW j \in Job, StartFails(j) PROVE BookInv'
  <2>1. proc[j] = NoProcess /\ proc' = proc /\ at' = [at EXCEPT ![j] = "finish"]
    BY <1>4, <1>10 DEF StartFails, Book
  <2>2. Book("finish", proc[j])
    BY <2>1, LinesOf DEF Book, NoProcess
  <2>3. QED
    BY <1>6, <2>1, <2>2
<1>11. ASSUME NEW j \in Job, CliPrints(j) PROVE BookInv'
  <2>1. PICK l \in Line, s \in {j, proc[j].resume, proc[j].session} \ {None} :
          Followed(j, [proc[j] EXCEPT !.pipe = Append(@, l), !.printed = @ \cup {l},
                                      !.session = s])
    BY <1>11 DEF CliPrints
  <2> DEFINE p == [proc[j] EXCEPT !.pipe = Append(@, l), !.printed = @ \cup {l}, !.session = s]
  <2>2. /\ p.session # None /\ p.read = proc[j].read /\ p.cli = proc[j].cli
        /\ p.printed = proc[j].printed \cup {l} /\ p.pipe = Append(proc[j].pipe, l)
    BY <1>4, <2>1 DEF Process
  <2>3. Lines(p.pipe) = Lines(proc[j].pipe) \cup {l}
    BY <1>4, <2>2, LinesOf DEF Process
  <2>4. at[j] \in {"parse", "wait"} /\ proc[j].cli = "up"
    BY <1>11, <2>1 DEF Followed, CliPrints
  <2> HIDE DEF p
  <2>5. Book(at[j], p)
    BY <1>4, <2>2, <2>3, <2>4 DEF Book
  <2>6. QED
    BY <1>5, <2>1, <2>5 DEF p
<1>12. ASSUME NEW j \in Job, NEW p, Followed(j, p),
              p.session = proc[j].session, p.printed = proc[j].printed, p.read = proc[j].read,
              p.pipe = proc[j].pipe, p.cli = "up" => proc[j].cli = "up"
       PROVE  BookInv'
  <2>1. Book(at[j], p)
    BY <1>4, <1>12 DEF Book, Followed
  <2>2. QED
    BY <1>5, <1>12, <2>1
<1>13. ASSUME NEW j \in Job, CliExits(j) \/ HelperStarts(j) \/ HelperExits(j) \/ StderrShort(j)
       PROVE  BookInv'
  <2>1. CASE CliExits(j)
    <3>1. PICK how \in {"ok", "error"} : Followed(j, [proc[j] EXCEPT !.cli = how])
      BY <2>1 DEF CliExits
    <3>2. QED
      BY <1>4, <1>12, <3>1 DEF Process
  <2>2. CASE HelperStarts(j)
    <3>1. PICK h \in {"group", "detached"} : Followed(j, [proc[j] EXCEPT !.helper = h])
      BY <2>2 DEF HelperStarts
    <3>2. QED
      BY <1>4, <1>12, <3>1 DEF Process
  <2>3. CASE HelperExits(j)
    BY <1>4, <1>12, <2>3 DEF HelperExits, Process
  <2>4. CASE StderrShort(j)
    BY <1>4, <1>12, <2>4 DEF StderrShort, Process
  <2>5. QED
    BY <1>13, <2>1, <2>2, <2>3, <2>4
<1>14. ASSUME NEW j \in Job, Interrupt(j) PROVE BookInv'
  <2>1. PICK c \in {proc[j].cli, "error"}, h \in {proc[j].helper, "gone"} :
          Followed(j, [proc[j] EXCEPT !.killer = "grace", !.cli = c, !.helper = h])
    BY <1>14 DEF Interrupt
  <2>2. QED
    BY <1>4, <1>12, <2>1 DEF Process
<1>15. ASSUME NEW j \in Job, Kill(j) PROVE BookInv'
  <2> DEFINE c == Killed(proc[j].cli)
             h == IF proc[j].helper = "group" THEN "gone" ELSE proc[j].helper
  <2>1. Followed(j, [proc[j] EXCEPT !.killer = "gone", !.cli = c, !.helper = h])
    BY <1>15 DEF Kill
  <2>2. c # "up"
    BY DEF Killed
  <2> HIDE DEF c, h
  <2>3. QED
    BY <1>4, <1>12, <2>1, <2>2 DEF Process
<1>16. ASSUME NEW j \in Job, ReadLine(j) PROVE BookInv'
  <2> DEFINE l == Head(proc[j].pipe)
             p == [proc[j] EXCEPT !.pipe = Tail(@), !.read = @ \cup {l}]
  <2>1. at[j] = "parse" /\ proc[j].pipe # <<>> /\ Followed(j, p)
    BY <1>16 DEF ReadLine
  <2>2. /\ p.session = proc[j].session /\ p.read = proc[j].read \cup {l}
        /\ p.printed = proc[j].printed /\ p.pipe = Tail(proc[j].pipe)
    BY <1>4 DEF Process
  <2>3. l \in Lines(proc[j].pipe) /\ Lines(proc[j].pipe) = {l} \cup Lines(p.pipe)
    BY <1>4, <2>1, <2>2, LinesOf DEF Process
  <2> HIDE DEF l, p
  <2>4. Book(at[j], p)
    BY <1>4, <2>1, <2>2, <2>3 DEF Book
  <2>5. QED
    BY <1>5, <2>1, <2>4
<1>17. ASSUME NEW j \in Job, StopReading(j) PROVE BookInv'
  <2>1. at[j] = "parse" /\ at' = [at EXCEPT ![j] = "wait"] /\ proc' = proc
    BY <1>17 DEF StopReading
  <2>2. CASE proc[j].pipe = <<>> /\ ~Held(j)
    <3>1. Book("wait", proc[j])
      BY <1>4, <2>1, <2>2, LinesOf DEF Book, Held
    <3>2. QED
      BY <1>6, <2>1, <3>1
  <2>3. CASE proc[j].pipe # <<>> /\ Head(proc[j].pipe) = "huge"
    <3>1. "huge" \in proc[j].printed
      BY <1>4, <2>3, LinesOf DEF Book, Process
    <3>2. Book("wait", proc[j])
      BY <1>4, <2>1, <3>1 DEF Book
    <3>3. QED
      BY <1>6, <2>1, <3>2
  <2>4. QED
    BY <1>17, <2>2, <2>3 DEF StopReading
<1>18. ASSUME NEW j \in Job, Wait(j) PROVE BookInv'
  <2> DEFINE p == [proc[j] EXCEPT !.killer = "gone"]
  <2>1. at' = [at EXCEPT ![j] = "store"] /\ proc' = [proc EXCEPT ![j] = p]
    BY <1>18 DEF Wait, TypeOK
  <2>2. /\ p.session = proc[j].session /\ p.printed = proc[j].printed
        /\ p.read = proc[j].read /\ p.pipe = proc[j].pipe /\ p.cli = proc[j].cli
        /\ proc[j].cli # "up"
    BY <1>4, <1>18 DEF Wait, Exited, Process
  <2> HIDE DEF p
  <2>3. Book("store", p)
    BY <1>4, <2>2 DEF Book
  <2>4. QED
    BY <1>3, <2>1, <2>3
<1>19. ASSUME NEW j \in Job, StoreSession(j) PROVE BookInv'
  <2>1. Book("finish", proc[j])
    BY <1>4, <1>19 DEF StoreSession, Book
  <2>2. QED
    BY <1>6, <1>19, <2>1 DEF StoreSession
<1>20. ASSUME NEW j \in Job, Finish(j) PROVE BookInv'
  <2>1. Book("over", NoProcess)
    BY LinesOf DEF Book, NoProcess
  <2>2. QED
    BY <1>3, <1>20, <2>1 DEF Finish
<1>21. QED
  BY <1>1, <1>2, <1>7, <1>8, <1>9, <1>10, <1>11, <1>13, <1>14, <1>15, <1>16, <1>17, <1>18,
     <1>19, <1>20
  DEF Next, run, KillerStep, CliStep

\* Workspace and agent of a job are chosen once.
LEMMA Settled ==
  ASSUME TypeOK, [Next]_vars, NEW j \in Job, at[j] # "new"
  PROVE  at'[j] # "new" /\ workspace'[j] = workspace[j] /\ agent'[j] = agent[j]
<1> USE DEF TypeOK, setting, sessions, chosen
<1>1. CASE UNCHANGED vars \/ Stall \/ Resume
  BY <1>1 DEF vars, Stall, Resume
<1>2. CASE Restart
  BY <1>2 DEF Restart
<1>3. ASSUME NEW k \in Job, NEW w, NEW a, OnDispatch(k, w, a)
      PROVE  at'[j] # "new" /\ workspace'[j] = workspace[j] /\ agent'[j] = agent[j]
  BY <1>3 DEF OnDispatch
<1>4. ASSUME NEW k \in Job, CliStep(k) \/ KillerStep(k) \/ ReadLine(k)
      PROVE  at'[j] # "new" /\ workspace'[j] = workspace[j] /\ agent'[j] = agent[j]
  <2>1. \E p : Followed(k, p)
    BY <1>4, Zenon DEF CliStep, KillerStep, ReadLine, CliPrints, CliExits, HelperStarts, HelperExits,
                StderrShort, Interrupt, Kill
  <2>2. QED
    BY <2>1 DEF Followed
<1>5. ASSUME NEW k \in Job,
             EndContext(k) \/ Start(k) \/ StartFails(k) \/ StopReading(k) \/ Wait(k)
               \/ StoreSession(k) \/ Finish(k)
      PROVE  at'[j] # "new" /\ workspace'[j] = workspace[j] /\ agent'[j] = agent[j]
  BY <1>5 DEF EndContext, Start, StartFails, StopReading, Wait, StoreSession, Finish
<1>6. QED
  BY <1>1, <1>2, <1>3, <1>4, <1>5 DEF Next, run

\* Entries and processes name sessions of their own workspace and agent: a
\* session is resumed only if it fits, and what a run prints is the session it
\* resumed or its own.
LEMMA FitStep ==
  ASSUME TypeOK, BookInv, FitInv, [Next]_vars
  PROVE  FitInv'
<1> USE DEF setting, sessions, chosen
<1>1. ASSUME NEW s \in Job, NEW w, NEW a, Fits(s, w, a) PROVE Fits(s, w, a)'
  BY <1>1, Settled DEF Fits
<1>2. ASSUME NEW e \in Entry \cup {None}, EntryFits(e) PROVE EntryFits(e)'
  BY <1>1, <1>2 DEF EntryFits, Entry
<1>3. ASSUME NEW j \in Job, NEW p \in Process, p # NoProcess => at[j] # "new", ProcFits(j, p)
      PROVE  ProcFits(j, p)'
  <2>1. CASE at[j] # "new"
    <3>1. workspace'[j] = workspace[j] /\ agent'[j] = agent[j]
      BY <2>1, Settled
    <3>2. p.resume \in Job \cup {None} /\ p.session \in Job \cup {None}
      BY DEF Process
    <3>3. QED
      BY <1>1, <1>3, <3>1, <3>2 DEF ProcFits
  <2>2. CASE p = NoProcess
    BY <2>2 DEF ProcFits, NoProcess
  <2>3. QED
    BY <1>3, <2>1, <2>2
<1>4. ASSUME NEW j \in Job
      PROVE  /\ proc[j] \in Process /\ ProcFits(j, proc[j])
             /\ proc[j] # NoProcess => at[j] # "new"
  BY DEF TypeOK, FitInv, BookInv, Book
<1>5. mem \in Entry \cup {None} /\ file \in Entry \cup {None} /\ EntryFits(mem) /\ EntryFits(file)
  BY DEF TypeOK, FitInv
\* A step of j that leaves the sessions alone and gives j a process that fits.
<1>6. ASSUME NEW j \in Job, NEW p \in Process, p # NoProcess => at[j] # "new", ProcFits(j, p),
             proc' = [proc EXCEPT ![j] = p], UNCHANGED sessions
      PROVE  FitInv'
  <2>1. ASSUME NEW k \in Job PROVE ProcFits(k, proc[k])'
    <3>1. CASE k = j
      BY <1>3, <1>6, <3>1 DEF TypeOK, ProcFits, Fits
    <3>2. CASE k # j
      BY <1>3, <1>4, <1>6, <3>2 DEF TypeOK, ProcFits, Fits
    <3>3. QED
      BY <3>1, <3>2
  <2>2. EntryFits(mem)' /\ EntryFits(file)'
    BY <1>2, <1>5, <1>6 DEF EntryFits, Fits
  <2>3. QED
    BY <2>1, <2>2 DEF FitInv
<1>7. ASSUME NEW j \in Job, proc' = proc, UNCHANGED sessions PROVE FitInv'
  <2>1. proc' = [proc EXCEPT ![j] = proc[j]]
    BY <1>7 DEF TypeOK
  <2>2. QED
    BY <1>4, <1>6, <1>7, <2>1
<1>8. ASSUME NEW j \in Job, NEW p \in Process, Followed(j, p),
             p.resume = proc[j].resume, p.session = proc[j].session
      PROVE  FitInv'
  <2>1. at[j] # "new" /\ proc' = [proc EXCEPT ![j] = p] /\ UNCHANGED sessions
    BY <1>8 DEF Followed
  <2>2. ProcFits(j, p)
    BY <1>4, <1>8 DEF ProcFits
  <2>3. QED
    BY <1>6, <2>1, <2>2
<1>9. CASE UNCHANGED vars \/ Stall \/ Resume
  BY <1>9 DEF vars, Stall, Resume, FitInv, EntryFits, ProcFits, Fits
<1>10. CASE Restart
  <2>1. mem' = file /\ file' = file /\ proc' = [j \in Job |-> NoProcess]
    BY <1>10 DEF Restart
  <2>2. EntryFits(mem)' /\ EntryFits(file)'
    BY <1>2, <1>5, <2>1 DEF EntryFits, Fits
  <2>3. ASSUME NEW j \in Job PROVE ProcFits(j, proc[j])'
    BY <2>1 DEF ProcFits, NoProcess
  <2>4. QED
    BY <2>2, <2>3 DEF FitInv
<1>11. ASSUME NEW j \in Job, NEW w, NEW a, OnDispatch(j, w, a) PROVE FitInv'
  BY <1>7, <1>11 DEF OnDispatch
<1>12. ASSUME NEW j \in Job, EndContext(j) \/ StartFails(j) \/ StopReading(j) PROVE FitInv'
  BY <1>7, <1>12 DEF EndContext, StartFails, StopReading
<1>13. ASSUME NEW j \in Job, Start(j) PROVE FitInv'
  <2> DEFINE p == [NoProcess EXCEPT !.resume = ResumeID(j), !.cli = "up", !.killer = "watch"]
  <2>1. ResumeID(j) \in Job \cup {None}
    BY <1>5 DEF ResumeID, Entry
  <2>2. p \in Process
    BY <2>1, Starts
  <2>3. p.resume = ResumeID(j) /\ p.session = None
    BY DEF NoProcess
  <2>4. ResumeID(j) # None => Fits(ResumeID(j), workspace[j], agent[j])
    BY <1>5 DEF ResumeID, EntryFits
  <2>5. at[j] # "new" /\ proc' = [proc EXCEPT ![j] = p] /\ UNCHANGED sessions
    BY <1>13 DEF Start
  <2> HIDE DEF p
  <2>6. ProcFits(j, p)
    BY <2>3, <2>4 DEF ProcFits
  <2>7. QED
    BY <1>6, <2>2, <2>5, <2>6
<1>14. ASSUME NEW j \in Job, CliPrints(j) PROVE FitInv'
  <2>1. PICK l \in Line, s \in {j, proc[j].resume, proc[j].session} \ {None} :
          Followed(j, [proc[j] EXCEPT !.pipe = Append(@, l), !.printed = @ \cup {l},
                                      !.session = s])
    BY <1>14 DEF CliPrints
  <2> DEFINE p == [proc[j] EXCEPT !.pipe = Append(@, l), !.printed = @ \cup {l}, !.session = s]
  <2>2. s \in Job \cup {None}
    BY <1>4 DEF Process
  <2>3. p \in Process
    BY <1>4, <2>2, Prints
  <2>4. p.session = s /\ p.resume = proc[j].resume
    BY <1>4 DEF Process
  <2>5. at[j] # "new" /\ proc' = [proc EXCEPT ![j] = p] /\ UNCHANGED sessions
    BY <2>1 DEF Followed
  <2> HIDE DEF p
  <2>6. Fits(s, workspace[j], agent[j])
    BY <1>4, <2>1, <2>5 DEF ProcFits, Fits
  <2>7. ProcFits(j, p)
    BY <1>4, <2>4, <2>6 DEF ProcFits
  <2>8. QED
    BY <1>6, <2>3, <2>5, <2>7
<1>15. ASSUME NEW j \in Job, CliExits(j) \/ HelperStarts(j) \/ HelperExits(j) \/ StderrShort(j)
       PROVE  FitInv'
  <2>1. CASE CliExits(j)
    <3>1. PICK how \in {"ok", "error"} : Followed(j, [proc[j] EXCEPT !.cli = how])
      BY <2>1 DEF CliExits
    <3>2. [proc[j] EXCEPT !.cli = how] \in Process
      BY <1>4, Changes
    <3>3. QED
      BY <1>4, <1>8, <3>1, <3>2 DEF Process
  <2>2. CASE HelperStarts(j) \/ HelperExits(j)
    <3>1. PICK h \in {"group", "detached", "gone"} : Followed(j, [proc[j] EXCEPT !.helper = h])
      BY <2>2 DEF HelperStarts, HelperExits
    <3>2. [proc[j] EXCEPT !.helper = h] \in Process
      BY <1>4, Changes
    <3>3. QED
      BY <1>4, <1>8, <3>1, <3>2 DEF Process
  <2>3. CASE StderrShort(j)
    <3>1. [proc[j] EXCEPT !.stderr = "short"] \in Process
      BY <1>4, Changes
    <3>2. QED
      BY <1>4, <1>8, <2>3, <3>1 DEF StderrShort, Process
  <2>4. QED
    BY <1>15, <2>1, <2>2, <2>3
<1>16. ASSUME NEW j \in Job, KillerStep(j) PROVE FitInv'
  <2>1. PICK k \in {"grace", "gone"}, c \in {proc[j].cli, "error", "killed"},
             h \in {proc[j].helper, "gone"} :
          Followed(j, [proc[j] EXCEPT !.killer = k, !.cli = c, !.helper = h])
    BY <1>16, Zenon DEF KillerStep, Interrupt, Kill, Killed
  <2>2. [proc[j] EXCEPT !.killer = k, !.cli = c, !.helper = h] \in Process
    <3>1. /\ c \in {"none", "up", "ok", "error", "killed"}
          /\ h \in {"none", "group", "detached", "gone"}
      BY <1>4 DEF Process
    <3>2. QED
      BY <1>4, <3>1, Signals
  <2>3. QED
    BY <1>4, <1>8, <2>1, <2>2 DEF Process
<1>17. ASSUME NEW j \in Job, ReadLine(j) PROVE FitInv'
  <2> DEFINE p == [proc[j] EXCEPT !.pipe = Tail(@), !.read = @ \cup {Head(proc[j].pipe)}]
  <2>1. p \in Process /\ Followed(j, p)
    BY <1>4, <1>17, Reads DEF ReadLine
  <2>2. p.resume = proc[j].resume /\ p.session = proc[j].session
    BY <1>4 DEF Process
  <2> HIDE DEF p
  <2>3. QED
    BY <1>8, <2>1, <2>2
<1>18. ASSUME NEW j \in Job, Wait(j) PROVE FitInv'
  <2> DEFINE p == [proc[j] EXCEPT !.killer = "gone"]
  <2>1. p \in Process
    BY <1>4, Changes
  <2>2. at[j] # "new" /\ proc' = [proc EXCEPT ![j] = p] /\ UNCHANGED sessions
    BY <1>18 DEF Wait, TypeOK
  <2>3. p.resume = proc[j].resume /\ p.session = proc[j].session
    BY <1>4 DEF Process
  <2> HIDE DEF p
  <2>4. ProcFits(j, p)
    BY <1>4, <2>3 DEF ProcFits
  <2>5. QED
    BY <1>6, <2>1, <2>2, <2>4
<1>19. ASSUME NEW j \in Job, StoreSession(j) PROVE FitInv'
  <2>1. ASSUME NEW k \in Job PROVE ProcFits(k, proc[k])'
    BY <1>3, <1>4, <1>19 DEF StoreSession, ProcFits, Fits
  <2>2. "session" \in proc[j].read => EntryOf(j) \in Entry /\ EntryFits(EntryOf(j))
    <3> SUFFICES ASSUME "session" \in proc[j].read
                 PROVE  EntryOf(j) \in Entry /\ EntryFits(EntryOf(j))
      OBVIOUS
    <3>1. proc[j].session \in Job
      BY <1>4, ReadHasSession DEF Process
    <3>2. QED
      BY <1>4, <3>1, AgentRunAssumption DEF EntryOf, Entry, EntryFits, ProcFits, TypeOK
  <2>3. mem' \in {mem, EntryOf(j)} /\ file' \in {file, EntryOf(j)}
        /\ (mem' # mem \/ file' # file => "session" \in proc[j].read)
    BY <1>19 DEF StoreSession
  <2>4. mem' \in Entry \cup {None} /\ file' \in Entry \cup {None}
        /\ EntryFits(mem') /\ EntryFits(file')
    BY <1>5, <2>2, <2>3
  <2>5. EntryFits(mem)' /\ EntryFits(file)'
    BY <1>1, <2>4 DEF EntryFits, Entry
  <2>6. QED
    BY <2>1, <2>5 DEF FitInv
<1>20. ASSUME NEW j \in Job, Finish(j) PROVE FitInv'
  <2>1. NoProcess \in Process /\ ProcFits(j, NoProcess)
    BY ProcessType DEF ProcFits, NoProcess
  <2>2. QED
    BY <1>6, <1>20, <2>1 DEF Finish
<1>21. QED
  BY <1>9, <1>10, <1>11, <1>12, <1>13, <1>14, <1>15, <1>16, <1>17, <1>18, <1>19, <1>20
  DEF Next, run, CliStep

\* Honesty of the verdict: when nothing was too long, all that was printed has
\* been read by the time the process is waited for.
LEMMA HonestStep ==
  ASSUME TypeOK, BookInv, HonestVerdict, [Next]_vars
  PROVE  HonestVerdict'
<1> USE DEF setting, sessions, chosen
<1>1. CASE UNCHANGED vars \/ Stall \/ Resume
  BY <1>1 DEF vars, Stall, Resume, HonestVerdict, Judged, WaitOK
<1>2. CASE Restart
  BY <1>2 DEF Restart, HonestVerdict, Judged, TypeOK, Active
<1>3. ASSUME NEW j \in Job, NEW w, NEW a, OnDispatch(j, w, a) PROVE HonestVerdict'
  BY <1>3 DEF OnDispatch, HonestVerdict, Judged, WaitOK, TypeOK
<1>4. ASSUME NEW j \in Job, EndContext(j) PROVE HonestVerdict'
  BY <1>4 DEF EndContext, HonestVerdict, Judged, WaitOK, TypeOK
<1>5. ASSUME NEW j \in Job, Start(j) PROVE HonestVerdict'
  BY <1>5 DEF Start, HonestVerdict, Judged, WaitOK, TypeOK
<1>6. ASSUME NEW j \in Job, StartFails(j) PROVE HonestVerdict'
  <2>1. proc[j] = NoProcess /\ NoProcess.cli = "none"
    BY <1>6 DEF StartFails, BookInv, Book, NoProcess
  <2>2. QED
    BY <1>6, <2>1 DEF StartFails, HonestVerdict, Judged, WaitOK, TypeOK
<1>7. ASSUME NEW j \in Job, CliStep(j) \/ KillerStep(j) \/ ReadLine(j) PROVE HonestVerdict'
  <2>1. PICK p : Followed(j, p)
    BY <1>7, Zenon DEF CliStep, KillerStep, ReadLine, CliPrints, CliExits, HelperStarts,
                       HelperExits, StderrShort, Interrupt, Kill
  <2>2. QED
    BY <2>1 DEF Followed, HonestVerdict, Judged, WaitOK, TypeOK
<1>8. ASSUME NEW j \in Job, StopReading(j) PROVE HonestVerdict'
  BY <1>8 DEF StopReading, HonestVerdict, Judged, WaitOK, TypeOK
<1>9. ASSUME NEW j \in Job, Wait(j) PROVE HonestVerdict'
  <2> DEFINE p == [proc[j] EXCEPT !.killer = "gone"]
  <2>1. /\ p.printed = proc[j].printed /\ p.cli = proc[j].cli /\ p.stderr = proc[j].stderr
        /\ p.read = proc[j].read
    BY DEF TypeOK, Process
  <2>2. /\ at' = [at EXCEPT ![j] = "store"] /\ proc' = [proc EXCEPT ![j] = p]
        /\ status' = [status EXCEPT ![j] = Verdict(j)] /\ ended' = ended
    BY <1>9 DEF Wait, TypeOK
  <2>3. proc'[j].printed = p.printed /\ (WaitOK(j)' <=> WaitOK(j))
    BY <2>1, <2>2 DEF TypeOK, WaitOK
  <2>4. /\ Verdict(j) = "succeeded" => "done" \in proc[j].printed
        /\ Verdict(j) = "cancelled" => ended[j]
        /\ ~ended[j] /\ "done" \in proc[j].printed /\ "huge" \notin proc[j].printed /\ WaitOK(j)
             => Verdict(j) = "succeeded"
    <3>1. proc[j].read \subseteq proc[j].printed
      BY DEF BookInv, Book
    <3>2. "huge" \notin proc[j].printed => proc[j].printed = proc[j].read
      BY <1>9 DEF BookInv, Book, Wait
    <3>3. QED
      BY <3>1, <3>2 DEF Verdict
  <2> HIDE DEF p
  <2>5. ASSUME NEW k \in Job, k # j
        PROVE  /\ at'[k] = at[k] /\ proc'[k] = proc[k] /\ status'[k] = status[k]
               /\ ended'[k] = ended[k]
    BY <2>2, <2>5 DEF TypeOK
  <2>6. status'[j] = Verdict(j) /\ ended'[j] = ended[j]
    BY <2>2 DEF TypeOK
  <2>7. QED
    BY <2>1, <2>3, <2>4, <2>5, <2>6 DEF HonestVerdict, Judged, WaitOK
<1>10. ASSUME NEW j \in Job, StoreSession(j) PROVE HonestVerdict'
  BY <1>10 DEF StoreSession, HonestVerdict, Judged, WaitOK, TypeOK
<1>11. ASSUME NEW j \in Job, Finish(j) PROVE HonestVerdict'
  BY <1>11 DEF Finish, HonestVerdict, Judged, WaitOK, TypeOK
<1>12. QED
  BY <1>1, <1>2, <1>3, <1>4, <1>5, <1>6, <1>7, <1>8, <1>9, <1>10, <1>11 DEF Next, run

LEMMA RunInductive == RunInv /\ [Next]_vars => RunInv'
  BY ReadHasSession, TypeInductive, BookStep, FitStep, HonestStep DEF RunInv

-----------------------------------------------------------------------------
(* The theorems *)

\* Every variable of AgentRun keeps its type.
THEOREM AgentRunTypeCorrect == Spec => []TypeOK
  BY InitRun, RunInductive, PTL DEF Spec, RunInv

\* Harness.run resumes a session only in the workspace and with the agent that
\* began it, for any jobs, overlaps, failing writes of sessions.json, changes of
\* the configuration and restarts.
THEOREM SessionsFit == Spec => []SessionFits
<1>1. RunInv => SessionFits
  BY DEF RunInv, FitInv, ProcFits, Fits, SessionFits
<1>2. QED
  BY <1>1, InitRun, RunInductive, PTL DEF Spec

\* The status claude.Run and codex.Run give is what the CLI reported, for every
\* order of printing, reading, exiting, signals and context ends.
THEOREM VerdictIsHonest == Spec => []HonestVerdict
  BY InitRun, RunInductive, PTL DEF Spec, RunInv

-----------------------------------------------------------------------------
(* A reply continues the thread *)

\* Nothing of the thread moves between the dispatch of such a job, which
\* reads the session to choose workspace and agent, and its launch, which
\* reads it again to resume it.
FollowInv ==
  \A j \in follows :
    /\ at[j] = "accepted"
    /\ \A k \in Job \ {j} : at[k] \notin Active
    /\ mem # None /\ mem.workspace \in known \cup {Default} =>
         workspace[j] = mem.workspace /\ agent[j] = mem.agent

\* A step of a job under way leaves only itself to follow.
LEMMA FollowStep ==
  ASSUME TypeOK, FollowInv, [Next]_vars
  PROVE  FollowInv'
<1> USE AgentRunAssumption DEF setting, sessions, chosen, Active
<1>1. CASE UNCHANGED vars \/ Stall \/ Resume
  BY <1>1 DEF vars, Stall, Resume, FollowInv
<1>2. CASE Restart
  BY <1>2 DEF Restart, FollowInv
<1>3. ASSUME NEW k \in Job, at[k] \in Active \ {"accepted"} PROVE follows = {}
  BY <1>3 DEF FollowInv, TypeOK
<1>4. ASSUME NEW j \in Job, NEW w \in Workspace \cup {None}, NEW a \in AgentName \cup {None},
             OnDispatch(j, w, a)
      PROVE  FollowInv'
  <2>1. at[j] = "new" /\ j \notin follows
    BY <1>4 DEF OnDispatch, FollowInv
  <2>2. CASE at' = [at EXCEPT ![j] = "refused"]
    BY <1>4, <2>1, <2>2 DEF OnDispatch, FollowInv, TypeOK
  <2>3. CASE at' = [at EXCEPT ![j] = "accepted"]
    <3>1. /\ workspace' = [workspace EXCEPT ![j] = resolveWorkspace(w)]
          /\ agent' = [agent EXCEPT ![j] = resolveAgent(a)]
          /\ follows' = {k \in follows : at[k] # "accepted"}
                          \cup {k \in {j} : w = None /\ a = None /\ Running = {}}
          /\ UNCHANGED <<known, mem>>
      BY <1>4, <2>1, <2>3 DEF OnDispatch, TypeOK
    <3>2. follows' = {k \in {j} : w = None /\ a = None /\ Running = {}}
      BY <3>1 DEF FollowInv
    <3>3. CASE w = None /\ a = None /\ Running = {}
      <4>1. follows' = {j} /\ at'[j] = "accepted"
        BY <2>3, <3>2, <3>3 DEF TypeOK
      <4>2. \A k \in Job \ {j} : at'[k] \notin Active
        BY <2>3, <3>3 DEF Running, TypeOK
      <4>3. mem # None /\ mem.workspace \in known \cup {Default} =>
              resolveWorkspace(w) = mem.workspace /\ resolveAgent(a) = mem.agent
        BY <3>3 DEF resolveWorkspace, resolveAgent
      <4>4. workspace'[j] = resolveWorkspace(w) /\ agent'[j] = resolveAgent(a)
        BY <3>1 DEF TypeOK
      <4>5. QED
        BY <3>1, <4>1, <4>2, <4>3, <4>4 DEF FollowInv
    <3>4. CASE ~(w = None /\ a = None /\ Running = {})
      BY <3>2, <3>4 DEF FollowInv
    <3>5. QED
      BY <3>3, <3>4
  <2>4. QED
    BY <1>4, <2>2, <2>3 DEF OnDispatch
<1>5. ASSUME NEW j \in Job, EndContext(j) PROVE FollowInv'
  BY <1>5 DEF EndContext, FollowInv
<1>6. ASSUME NEW j \in Job, Start(j) \/ StartFails(j) PROVE FollowInv'
  <2>1. follows' = follows \ {j} /\ at[j] = "accepted"
    BY <1>6 DEF Start, StartFails
  <2>2. follows' = {}
    BY <2>1 DEF FollowInv, TypeOK
  <2>3. QED
    BY <2>2 DEF FollowInv
<1>7. ASSUME NEW j \in Job, CliStep(j) \/ KillerStep(j) \/ ReadLine(j) PROVE FollowInv'
  <2>1. PICK p : Followed(j, p)
    BY <1>7, Zenon DEF CliStep, KillerStep, ReadLine, CliPrints, CliExits, HelperStarts,
                       HelperExits, StderrShort, Interrupt, Kill
  <2>2. QED
    BY <1>3, <2>1 DEF Followed, FollowInv
<1>8. ASSUME NEW j \in Job, StopReading(j) \/ Wait(j) \/ StoreSession(j) \/ Finish(j)
      PROVE  FollowInv'
  <2>1. follows' = follows /\ at[j] \in Active \ {"accepted"}
    BY <1>8 DEF StopReading, Wait, StoreSession, Finish
  <2>2. QED
    BY <1>3, <2>1 DEF FollowInv
<1>9. QED
  BY <1>1, <1>2, <1>4, <1>5, <1>6, <1>7, <1>8 DEF Next, run

\* README.md's "Reply in the same thread to continue": a reply that names
\* neither workspace nor agent resumes the session kept for the thread, unless
\* another job of the thread is under way or its workspace is gone.
THEOREM RepliesContinue == Spec => ThreadContinues
<1> DEFINE Inv == RunInv /\ FollowInv
           Continues ==
             \A j \in follows :
               proc[j].cli # proc'[j].cli /\ mem # None /\ mem.workspace \in known \cup {Default}
                 => proc'[j].resume = mem.session
<1>1. Init => Inv
  BY InitRun DEF Init, FollowInv
<1>2. Inv /\ [Next]_vars => Inv'
  BY RunInductive, FollowStep DEF RunInv
<1>3. Inv /\ [Next]_vars => [Continues]_vars
  <2> SUFFICES ASSUME Inv, Next, NEW j \in follows, proc[j].cli # proc'[j].cli,
                      mem # None, mem.workspace \in known \cup {Default}
               PROVE  proc'[j].resume = mem.session
    OBVIOUS
  <2> USE DEF setting, sessions, chosen
  <2>1. /\ TypeOK /\ at[j] = "accepted" /\ j \in Job
        /\ \A k \in Job \ {j} : at[k] \notin Active
        /\ workspace[j] = mem.workspace /\ agent[j] = mem.agent
    BY DEF RunInv, FollowInv, TypeOK
  <2>2. proc[j] = NoProcess
    BY <2>1 DEF RunInv, BookInv, Book
  <2>3. CASE Restart \/ Stall \/ Resume
    BY <2>1, <2>2, <2>3 DEF Restart, Stall, Resume
  <2>4. ASSUME NEW k \in Job, k # j, run(k) \/ KillerStep(k) \/ CliStep(k) PROVE FALSE
    <3>1. at[k] \in Active
      <4>1. CASE CliStep(k) \/ KillerStep(k) \/ ReadLine(k)
        <5>1. PICK p : Followed(k, p)
          BY <4>1, Zenon DEF CliStep, KillerStep, ReadLine, CliPrints, CliExits, HelperStarts,
                             HelperExits, StderrShort, Interrupt, Kill
        <5>2. QED
          BY <5>1 DEF Followed, Active
      <4>2. CASE Start(k) \/ StartFails(k) \/ StopReading(k) \/ Wait(k) \/ StoreSession(k)
                   \/ Finish(k)
        BY <4>2 DEF Start, StartFails, StopReading, Wait, StoreSession, Finish, Active
      <4>3. QED
        BY <2>4, <4>1, <4>2 DEF run
    <3>2. QED
      BY <2>1, <2>4, <3>1
  <2>5. CASE run(j) \/ KillerStep(j) \/ CliStep(j)
    <3>1. CASE Start(j)
      <4>1. proc'[j] = [NoProcess EXCEPT !.resume = ResumeID(j), !.cli = "up",
                                         !.killer = "watch"]
        BY <2>1, <3>1 DEF Start, TypeOK
      <4>2. ResumeID(j) = mem.session
        BY <2>1 DEF ResumeID
      <4>3. QED
        BY <4>1, <4>2 DEF NoProcess
    <3>2. CASE StartFails(j)
      BY <3>2 DEF StartFails
    <3>3. CASE CliStep(j) \/ KillerStep(j) \/ ReadLine(j)
      <4>1. PICK p : Followed(j, p)
        BY <3>3, Zenon DEF CliStep, KillerStep, ReadLine, CliPrints, CliExits, HelperStarts,
                           HelperExits, StderrShort, Interrupt, Kill
      <4>2. QED
        BY <2>1, <4>1 DEF Followed
    <3>4. CASE StopReading(j) \/ Wait(j) \/ StoreSession(j) \/ Finish(j)
      BY <2>1, <3>4 DEF StopReading, Wait, StoreSession, Finish
    <3>5. QED
      BY <2>5, <3>1, <3>2, <3>3, <3>4 DEF run
  <2>6. ASSUME NEW k \in Job, NEW w, NEW a, OnDispatch(k, w, a) \/ EndContext(k) PROVE FALSE
    BY <2>6 DEF OnDispatch, EndContext
  <2>7. QED
    BY <2>3, <2>4, <2>5, <2>6 DEF Next
<1>4. QED
  BY <1>1, <1>2, <1>3, PTL DEF Spec, ThreadContinues
=============================================================================
