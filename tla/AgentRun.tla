------------------------------ MODULE AgentRun ------------------------------
(***************************************************************************)
(* What a harness does with the jobs of one conversation (Harness.run):    *)
(* it picks workspace and agent, with the help of the session it kept for  *)
(* the thread (sessions.Map), starts the agent's CLI as a process group,   *)
(* parses its output until end of file, interrupts and kills it when the   *)
(* job's context ends, waits for it, judges the outcome, stores the        *)
(* session and sends the result (claude.Agent.Run, codex.Agent.Run).       *)
(*                                                                         *)
(* The CLI and the helpers it starts are external: they print, hang, exit  *)
(* and ignore SIGINT as they please.  A session is named by the job that   *)
(* began it.  Delivery of dispatches and results is module Bridge's.       *)
(***************************************************************************)
EXTENDS Integers, Sequences, FiniteSets

CONSTANTS
  Job,          \* jobs dispatched in one thread of one bot
  Workspace,    \* names of workspaces besides the default
  None,         \* no session, no name given
  MaxJobs,      \* cfg.MaxJobs
  PipeCap,      \* lines that fit into the stdout pipe
  MaxEvents     \* bound: contexts that end, failures, restarts, jobs that overlap
                \* another one, stalled connections, and quirks of the CLI

Default   == "default"
AgentName == {"claude", "codex"}

ASSUME AgentRunAssumption ==
  /\ None \notin Job \cup Workspace \cup AgentName
  /\ Default \notin Workspace
  /\ MaxJobs \in Nat \ {0} /\ PipeCap \in Nat \ {0} /\ MaxEvents \in Nat

VARIABLES
  known, agents,      \* the configuration: workspaces, agents available
  stuck,              \* the connection takes nothing: what is sent waits for room
  mem, file,          \* the thread's entry in sessions.Map, in memory and on disk
  at,                 \* where the job's goroutine stands
  workspace, agent,   \* of the job
  ended,              \* the job's context has ended: cancelled or timed out
  proc,               \* the job's process, what is known of it and its resume id
  status,             \* of the result
  follows,            \* jobs that name neither workspace nor agent, with no other
                      \* job of the thread under way since their dispatch (history)
  spent               \* of MaxEvents

setting  == <<known, agents, stuck>>
sessions == <<mem, file>>
chosen   == <<workspace, agent>>
vars     == <<setting, sessions, at, chosen, ended, proc, status, follows, spent>>

Line   == {"session", "huge", "done", "failed"}
Entry  == [session : Job, workspace : Workspace \cup {Default}, agent : AgentName]
Active == {"accepted", "parse", "wait", "store", "finish"}

Process ==
  [resume  : Job \cup {None},                             \* opt.ResumeID
   cli     : {"none", "up", "ok", "error", "killed"},     \* running, or how it exited
   helper  : {"none", "group", "detached", "gone"},       \* a child that holds its pipes
   pipe    : Seq(Line),                                   \* stdout, not yet read
   printed : SUBSET Line,
   session : Job \cup {None},                             \* the session id it prints
   read    : SUBSET Line,                                 \* streamState
   stderr  : {"open", "short"},                           \* whether its copy has failed
   killer  : {"none", "watch", "grace", "gone"}]          \* who signals the group

NoProcess ==
  [resume |-> None, cli |-> "none", helper |-> "none", pipe |-> <<>>, printed |-> {},
   session |-> None, read |-> {}, stderr |-> "open", killer |-> "none"]

TypeOK ==
  /\ known \subseteq Workspace /\ agents \subseteq AgentName /\ stuck \in BOOLEAN
  /\ mem \in Entry \cup {None} /\ file \in Entry \cup {None}
  /\ at \in [Job -> Active \cup {"new", "refused", "over", "lost"}]
  /\ workspace \in [Job -> Workspace \cup {Default}]
  /\ agent \in [Job -> AgentName]
  /\ ended \in [Job -> BOOLEAN]
  /\ proc \in [Job -> Process]
  /\ status \in [Job -> {None, "succeeded", "failed", "cancelled"}]
  /\ follows \subseteq Job
  /\ spent \in 0..MaxEvents

Init ==
  /\ known = Workspace /\ agents = AgentName /\ stuck = FALSE
  /\ mem = None /\ file = None
  /\ at = [j \in Job |-> "new"]
  /\ workspace = [j \in Job |-> Default] /\ agent = [j \in Job |-> "claude"]
  /\ ended = [j \in Job |-> FALSE]
  /\ proc = [j \in Job |-> NoProcess]
  /\ status = [j \in Job |-> None]
  /\ follows = {} /\ spent = 0

\* One of the events the bound is about.
Count == spent < MaxEvents /\ spent' = spent + 1

Running == {j \in Job : at[j] \in Active}

\* The run has come to the agent's verdict.
Judged(j) == at[j] \in {"store", "finish"}

-----------------------------------------------------------------------------
(* OnDispatch *)

\* Fault: the thread's workspace is forgotten.
resolveWorkspaceDefault(w) == IF w # None THEN w ELSE Default

\* The name in the message, else the thread's previous workspace if it is
\* still configured, else the default.
resolveWorkspace(w) ==
  IF w # None THEN w
  ELSE IF mem # None /\ mem.workspace \in known THEN mem.workspace ELSE Default

\* The name in the message, else the thread's previous agent, else cfg.Agent.
resolveAgent(a) ==
  IF a # None THEN a
  ELSE IF mem # None THEN mem.agent ELSE "claude"

OnDispatch(j, w, a) ==
  /\ at[j] = "new"
  /\ LET ws == resolveWorkspace(w)
         ag == resolveAgent(a)
     IN IF ws \in known \cup {Default} /\ ag \in agents
        THEN /\ Cardinality(Running) < MaxJobs
             /\ IF Running = {} THEN spent' = spent ELSE Count
             /\ at' = [at EXCEPT ![j] = "accepted"]
             /\ workspace' = [workspace EXCEPT ![j] = ws]
             /\ agent' = [agent EXCEPT ![j] = ag]
             /\ follows' = {k \in follows : at[k] # "accepted"}
                  \cup {k \in {j} : w = None /\ a = None /\ Running = {}}
        ELSE at' = [at EXCEPT ![j] = "refused"] /\ UNCHANGED <<chosen, follows, spent>>
  /\ UNCHANGED <<setting, sessions, ended, proc, status>>

\* OnCancel, or the timeout of the job's context.
EndContext(j) ==
  /\ Count
  /\ at[j] \in Active /\ ~ended[j]
  /\ ended' = [ended EXCEPT ![j] = TRUE]
  /\ UNCHANGED <<setting, sessions, at, chosen, proc, status, follows>>

-----------------------------------------------------------------------------
(* Harness.run up to cmd.Start *)

\* Fault: any agent's session in the workspace will do.
ResumeIDAnyAgent(j) ==
  IF mem # None /\ mem.workspace = workspace[j] THEN mem.session ELSE None

\* Only on the same agent in the same workspace; otherwise afresh.
ResumeID(j) ==
  IF mem # None /\ mem.workspace = workspace[j] /\ mem.agent = agent[j]
  THEN mem.session ELSE None

Start(j) ==
  /\ at[j] = "accepted"
  /\ proc' = [proc EXCEPT ![j] = [NoProcess EXCEPT !.resume = ResumeID(j), !.cli = "up",
                                                   !.killer = "watch"]]
  /\ at' = [at EXCEPT ![j] = "parse"]
  /\ follows' = follows \ {j}
  /\ UNCHANGED <<setting, sessions, chosen, ended, status, spent>>

\* The MCP configuration cannot be written, or the CLI cannot be started.
StartFails(j) ==
  /\ Count
  /\ at[j] = "accepted"
  /\ status' = [status EXCEPT ![j] = "failed"]
  /\ at' = [at EXCEPT ![j] = "finish"]
  /\ follows' = follows \ {j}
  /\ UNCHANGED <<setting, sessions, chosen, ended, proc>>

-----------------------------------------------------------------------------
(* The CLI and its helper (external).  While the run follows the process only *)
(* proc changes.                                                              *)

Followed(j, p) ==
  /\ at[j] \in {"parse", "wait"}
  /\ proc' = [proc EXCEPT ![j] = p]
  /\ UNCHANGED <<setting, sessions, at, chosen, ended, status, follows>>

\* One line: the session, perhaps one longer than the scanner takes, and how
\* the turn ended.  A write waits for room in the pipe.
CliPrints(j) ==
  LET p == proc[j] IN
  /\ p.cli = "up" /\ Len(p.pipe) < PipeCap
  /\ p.printed \cap {"done", "failed"} = {}
  /\ \E l \in Line \ p.printed, s \in {j, p.resume, p.session} \ {None} :
       /\ l = "session" <=> p.session = None
       /\ l # "session" => s = p.session
       /\ IF l = "huge" THEN Count ELSE spent' = spent
       /\ Followed(j, [p EXCEPT !.pipe = Append(@, l), !.printed = @ \cup {l}, !.session = s])

CliExits(j) ==
  /\ spent' = spent
  /\ proc[j].cli = "up"
  /\ \E how \in {"ok", "error"} : Followed(j, [proc[j] EXCEPT !.cli = how])

\* It starts a helper in its process group, or in one of its own.
HelperStarts(j) ==
  /\ Count
  /\ proc[j].cli = "up" /\ proc[j].helper = "none"
  /\ \E h \in {"group", "detached"} : Followed(j, [proc[j] EXCEPT !.helper = h])

HelperExits(j) ==
  /\ spent' = spent
  /\ proc[j].helper \in {"group", "detached"}
  /\ Followed(j, [proc[j] EXCEPT !.helper = "gone"])

\* More than 64 KiB of stderr: limitedWriter takes part of a write and says so,
\* at which io.Copy fails with a short write and the pipe is no longer read.
StderrShort(j) ==
  /\ Count
  /\ proc[j].cli = "up" /\ proc[j].stderr = "open"
  /\ Followed(j, [proc[j] EXCEPT !.stderr = "short"])

-----------------------------------------------------------------------------
(* parse *)

ReadLine(j) ==
  /\ spent' = spent
  /\ at[j] = "parse" /\ proc[j].pipe # <<>> /\ Head(proc[j].pipe) # "huge"
  /\ Followed(j, [proc[j] EXCEPT !.pipe = Tail(@), !.read = @ \cup {Head(proc[j].pipe)}])

\* Somebody can still write to the pipes.
Held(j) == proc[j].cli = "up" \/ proc[j].helper \in {"group", "detached"}

\* Fault: the scanner is left when the process is, with lines in the pipe.
StopReadingEarly(j) ==
  /\ at[j] = "parse" /\ proc[j].cli # "up"
  /\ at' = [at EXCEPT ![j] = "wait"]
  /\ UNCHANGED <<setting, sessions, chosen, ended, proc, status, follows, spent>>

\* The scanner ends at end of file, and at a line of more than 32 MiB: what
\* follows is not read.
StopReading(j) ==
  /\ at[j] = "parse"
  /\ \/ proc[j].pipe = <<>> /\ ~Held(j)
     \/ proc[j].pipe # <<>> /\ Head(proc[j].pipe) = "huge"
  /\ at' = [at EXCEPT ![j] = "wait"]
  /\ UNCHANGED <<setting, sessions, chosen, ended, proc, status, follows, spent>>

-----------------------------------------------------------------------------
(* The killer *)

\* SIGINT to the group: each process of it exits, or does not care.
Interrupt(j) ==
  /\ spent' = spent
  /\ proc[j].killer = "watch" /\ ended[j]
  /\ \E c \in {proc[j].cli} \cup {x \in {"error"} : proc[j].cli = "up"},
        h \in {proc[j].helper} \cup {x \in {"gone"} : proc[j].helper = "group"} :
       Followed(j, [proc[j] EXCEPT !.killer = "grace", !.cli = c, !.helper = h])

Killed(c) == IF c = "up" THEN "killed" ELSE c

\* Fault: SIGKILL goes to the process, not to its group.
KillProcess(j) ==
  /\ spent' = spent
  /\ proc[j].killer = "grace"
  /\ Followed(j, [proc[j] EXCEPT !.killer = "gone", !.cli = Killed(@)])

\* KillGrace later, if Wait has not returned: SIGKILL to the group.
Kill(j) ==
  /\ spent' = spent
  /\ proc[j].killer = "grace"
  /\ Followed(j, [proc[j] EXCEPT !.killer = "gone", !.cli = Killed(@),
                                 !.helper = IF @ = "group" THEN "gone" ELSE @])

-----------------------------------------------------------------------------
(* cmd.Wait and what follows *)

\* waitErr == nil: exit status 0 and all of stderr copied.
WaitOK(j) == proc[j].cli = "ok" /\ proc[j].stderr = "open"

\* The agents' switch: claude believes the result line, codex the exit status
\* as well.
Verdict(j) ==
  IF ended[j] THEN "cancelled"
  ELSE IF "done" \in proc[j].read /\ (agent[j] = "codex" => WaitOK(j)) THEN "succeeded"
  ELSE "failed"

\* The process has exited and the copy of stderr is over: at its end, when
\* nobody holds it, or with a short write.
Exited(j) == proc[j].cli # "up" /\ (proc[j].stderr = "short" \/ ~Held(j))

\* Then close(killed) lets the killer go.
Wait(j) ==
  /\ at[j] = "wait" /\ Exited(j)
  /\ status' = [status EXCEPT ![j] = Verdict(j)]
  /\ proc' = [proc EXCEPT ![j].killer = "gone"]
  /\ at' = [at EXCEPT ![j] = "store"]
  /\ UNCHANGED <<setting, sessions, chosen, ended, follows, spent>>

EntryOf(j) == [session |-> proc[j].session, workspace |-> workspace[j], agent |-> agent[j]]

\* The goroutine that sends the progress has ended, which it does between two
\* sends; then sessions.Put, of a session the run has seen: in memory, and in
\* the file unless that fails.
StoreSession(j) ==
  /\ at[j] = "store" /\ ~stuck
  /\ \/ "session" \notin proc[j].read /\ UNCHANGED <<sessions, spent>>
     \/ "session" \in proc[j].read /\ mem' = EntryOf(j) /\ file' = EntryOf(j) /\ spent' = spent
     \/ "session" \in proc[j].read /\ mem' = EntryOf(j) /\ file' = file /\ Count
  /\ at' = [at EXCEPT ![j] = "finish"]
  /\ UNCHANGED <<setting, chosen, ended, proc, status, follows>>

\* The result is stored and sent (module Bridge), and the job leaves h.jobs.
Finish(j) ==
  /\ at[j] = "finish" /\ ~stuck
  /\ at' = [at EXCEPT ![j] = "over"]
  /\ ended' = [ended EXCEPT ![j] = FALSE]
  /\ proc' = [proc EXCEPT ![j] = NoProcess]
  /\ status' = [status EXCEPT ![j] = None]
  /\ UNCHANGED <<setting, sessions, chosen, follows, spent>>

\* The buffers of the connection fill and a Send, which has no timeout, does not
\* return; or they have room again, or the connection has ended (module Flow).
\* A run notices it once it waits for what it has sent.
Stall ==
  /\ ~stuck /\ (\E j \in Job : Judged(j)) /\ Count
  /\ stuck' = TRUE
  /\ UNCHANGED <<known, agents, sessions, at, chosen, ended, proc, status, follows>>

Resume ==
  /\ stuck
  /\ stuck' = FALSE
  /\ UNCHANGED <<known, agents, sessions, at, chosen, ended, proc, status, follows, spent>>

\* The harness stops and starts again, perhaps with another configuration.
\* The contexts of its jobs are not tied to its own: nobody stops their
\* processes, and nobody follows them any more.
Restart ==
  /\ Count
  /\ known' \in SUBSET Workspace /\ agents' \in SUBSET AgentName /\ stuck' = FALSE
  /\ mem' = file
  /\ at' = [j \in Job |-> IF at[j] \in Active THEN "lost" ELSE at[j]]
  /\ ended' = [j \in Job |-> FALSE]
  /\ proc' = [j \in Job |-> NoProcess]
  /\ status' = [j \in Job |-> None]
  /\ follows' = {}
  /\ UNCHANGED <<file, chosen>>

-----------------------------------------------------------------------------
run(j) == Start(j) \/ StartFails(j) \/ ReadLine(j) \/ StopReading(j) \/ Wait(j)
            \/ StoreSession(j) \/ Finish(j)

KillerStep(j) == Interrupt(j) \/ Kill(j)

CliStep(j) == CliPrints(j) \/ CliExits(j) \/ HelperStarts(j) \/ HelperExits(j) \/ StderrShort(j)

Next ==
  \/ \E j \in Job :
       \/ \E w \in Workspace \cup {None}, a \in AgentName \cup {None} : OnDispatch(j, w, a)
       \/ EndContext(j) \/ run(j) \/ KillerStep(j) \/ CliStep(j)
  \/ Stall \/ Resume \/ Restart

Spec == Init /\ [][Next]_vars

\* The harness's goroutines run and the grace period ends.  Nothing is assumed
\* of the CLI, its helpers, the owner or the timeouts.
FairSpec == Spec /\ \A j \in Job : WF_vars(run(j)) /\ WF_vars(KillerStep(j))

-----------------------------------------------------------------------------
(* Properties *)

\* harness.go:308: the session is continued "only on the same agent in the
\* same workspace": whatever the order in which jobs of a thread end, store
\* their session and read it, and whatever restarts and failing writes.
SessionFits ==
  \A j \in Job : LET s == proc[j].resume IN
    s # None => workspace[s] = workspace[j] /\ agent[s] = agent[j]

\* README.md: "Reply in the same thread to continue: the harness resumes the
\* agent session it kept for that thread. `ws:` and `agent:` can be omitted
\* then."  A job that names neither, with no other job of the thread under
\* way, continues the session kept, if its workspace is still configured.
ThreadContinues ==
  [][\A j \in follows :
       proc[j].cli # proc'[j].cli /\ mem # None /\ mem.workspace \in known \cup {Default}
         => proc'[j].resume = mem.session]_vars

\* The result tells what the agent told: success is reported only of a turn
\* the CLI reported as done, and a job nobody stopped, whose CLI reported its
\* turn done and exited cleanly after output within the limits, has succeeded.
HonestVerdict ==
  \A j \in Job : Judged(j) =>
    /\ status[j] = "succeeded" => "done" \in proc[j].printed
    /\ status[j] = "cancelled" => ended[j]
    /\ ~ended[j] /\ "done" \in proc[j].printed /\ "huge" \notin proc[j].printed /\ WaitOK(j)
         => status[j] = "succeeded"

\* Run: "Cancelling ctx sends SIGINT, then SIGKILL after KillGrace, and yields
\* StatusCancelled", and "blocks until the subprocess exits".  Once the context
\* has ended, or the CLI and its helpers have exited by themselves, the run
\* ends, whatever they do and print; only a helper that has left the process
\* group and holds the pipes keeps it, or a connection that again and again
\* takes nothing: the run waits for the last progress and sends its result.
RunEnds ==
  \A j \in Job :
    j \in Running /\ (ended[j] \/ (proc[j].cli \notin {"none", "up"} /\ ~Held(j)))
      ~> j \notin Running \/ proc[j].helper = "detached" \/ []<>stuck
=============================================================================
