----------------------------- MODULE StatusPost -----------------------------
(***************************************************************************)
(* The status post of one job (internal/broker/core: editor, edit,         *)
(* finalEdit).  Handlers of several goroutines call edit and finalEdit;    *)
(* an editor debounces the edits with a timer; every text reaches          *)
(* Mattermost by an UpdatePost of its own, which takes as long as it takes *)
(* and is applied when it gets there.                                      *)
(*                                                                         *)
(* Texts are numbered in the order the editor or finalEdit takes them.     *)
(* Editors are numbered in the order they are made: finalEdit drops the    *)
(* one in c.edits, the next edit makes another.                            *)
(***************************************************************************)
EXTENDS Integers, FiniteSets, FiniteSetsExt

CONSTANTS
  Caller,       \* goroutines that may be in edit or finalEdit at once
  MaxTexts,     \* bound: texts written in all
  MaxFinals     \* bound: calls of finalEdit (a lost job may finish later)

ASSUME StatusAssumption ==
  IsFiniteSet(Caller) /\ MaxTexts \in Nat /\ MaxFinals \in Nat

VARIABLES
  caller,       \* where each goroutine stands, and the editor it holds
  current,      \* c.edits[job]: an editor's number, 0 for none
  made,         \* how many editors have been made
  texts,        \* how many texts have been taken
  pending,      \* pending[e]: the newest text of editor e
  timer,        \* timer[e]: is e.timer set?
  funcs,        \* funcs[e]: the timer functions of e that will still run
  updates,      \* UpdatePost calls under way
  post,         \* the text the post shows, 0 for the first one
  sent,         \* texts for which an UpdatePost was made
  finals        \* texts of finalEdit

vars == <<caller, current, made, texts, pending, timer, funcs, updates, post, sent,
          finals>>

Editor == 1 .. MaxTexts + Cardinality(Caller)

Idle == [pc |-> "idle", ed |-> 0, final |-> FALSE]

TypeOK ==
  /\ caller \in [Caller -> [pc : {"idle", "edit", "set", "stop", "update"},
                            ed : {0} \cup Editor, final : BOOLEAN]]
  /\ current \in {0} \cup Editor /\ made \in {0} \cup Editor
  /\ texts \in 0 .. MaxTexts
  /\ pending \in [Editor -> 0 .. MaxTexts]
  /\ timer \in [Editor -> BOOLEAN] /\ funcs \in [Editor -> 0 .. MaxTexts]
  /\ updates \subseteq 1 .. MaxTexts
  /\ post \in 0 .. MaxTexts
  /\ sent \subseteq 1 .. MaxTexts /\ finals \subseteq 1 .. MaxTexts

Init ==
  /\ caller = [c \in Caller |-> Idle]
  /\ current = 0 /\ made = 0 /\ texts = 0
  /\ pending = [e \in Editor |-> 0] /\ timer = [e \in Editor |-> FALSE]
  /\ funcs = [e \in Editor |-> 0]
  /\ updates = {} /\ post = 0 /\ sent = {} /\ finals = {}

-----------------------------------------------------------------------------
(* edit *)

\* Room for one more text.
Room == texts + Cardinality({c \in Caller : caller[c].pc # "idle"}) < MaxTexts

\* An outcome has been decided: the job's state is terminal.
Decided == finals # {} \/ \E c \in Caller : caller[c].final

\* OnAck, OnProgress, OnApprovalRequest, HandleCallback, OnHello or
\* OnDisconnect finds the job active and is about to say so.
FindActive(c) ==
  /\ caller[c].pc = "idle" /\ ~Decided /\ Room
  /\ caller' = [caller EXCEPT ![c].pc = "edit"]
  /\ UNCHANGED <<current, made, texts, pending, timer, funcs, updates, post, sent, finals>>

\* Under c.mu: the job's editor, made if there is none.
Edit(c) ==
  /\ caller[c].pc = "edit"
  /\ LET e == IF current = 0 THEN made + 1 ELSE current IN
       /\ caller' = [caller EXCEPT ![c] = [Idle EXCEPT !.pc = "set", !.ed = e]]
       /\ current' = e /\ made' = Max({made, e})
  /\ UNCHANGED <<texts, pending, timer, funcs, updates, post, sent, finals>>

\* Fault: the text of a second edit waits for a timer nobody arms.
SetPendingLate(c) ==
  /\ caller[c].pc = "set"
  /\ LET e == caller[c].ed IN
       /\ pending' = [pending EXCEPT ![e] = texts + 1]
       /\ timer' = [timer EXCEPT ![e] = pending[e] = 0]
       /\ funcs' = [funcs EXCEPT ![e] = IF pending[e] = 0 THEN @ + 1 ELSE @]
  /\ texts' = texts + 1
  /\ caller' = [caller EXCEPT ![c] = Idle]
  /\ UNCHANGED <<current, made, updates, post, sent, finals>>

\* Under e.mu, with c.mu released: the newest text, and a timer if none is
\* armed.
SetPending(c) ==
  /\ caller[c].pc = "set"
  /\ LET e == caller[c].ed IN
       /\ pending' = [pending EXCEPT ![e] = texts + 1]
       /\ timer' = [timer EXCEPT ![e] = TRUE]
       /\ funcs' = [funcs EXCEPT ![e] = IF timer[e] THEN @ ELSE @ + 1]
  /\ texts' = texts + 1
  /\ caller' = [caller EXCEPT ![c] = Idle]
  /\ UNCHANGED <<current, made, updates, post, sent, finals>>

\* The timer's function takes the text under e.mu, forgets whatever timer is
\* set by now, and calls UpdatePost after unlocking.
Fire(e) ==
  /\ funcs[e] > 0
  /\ funcs' = [funcs EXCEPT ![e] = @ - 1]
  /\ timer' = [timer EXCEPT ![e] = FALSE]
  /\ updates' = updates \cup {pending[e]} /\ sent' = sent \cup {pending[e]}
  /\ UNCHANGED <<caller, current, made, texts, pending, post, finals>>

-----------------------------------------------------------------------------
(* finalEdit *)

\* Fault: the stopped editor stays in c.edits.
FinalEditKeeps(c) ==
  /\ caller[c].pc = "idle" /\ Cardinality(finals) < MaxFinals
  /\ (\A d \in Caller : ~caller[d].final) /\ Room
  /\ caller' = [caller EXCEPT ![c] =
       [pc |-> IF current = 0 THEN "update" ELSE "stop", ed |-> current, final |-> TRUE]]
  /\ UNCHANGED <<current, made, texts, pending, timer, funcs, updates, post, sent, finals>>

\* The job has just become terminal (OnResult, fail, cancelJob, Sweep).
\* Under c.mu: the editor is dropped ...
FinalEdit(c) ==
  /\ caller[c].pc = "idle" /\ Cardinality(finals) < MaxFinals
  /\ (\A d \in Caller : ~caller[d].final) /\ Room
  /\ caller' = [caller EXCEPT ![c] =
       [pc |-> IF current = 0 THEN "update" ELSE "stop", ed |-> current, final |-> TRUE]]
  /\ current' = 0
  /\ UNCHANGED <<made, texts, pending, timer, funcs, updates, post, sent, finals>>

\* ... under e.mu its timer is stopped, which comes too late for a function
\* that already waits for e.mu ...
StopTimer(c) ==
  /\ caller[c].pc = "stop"
  /\ LET e == caller[c].ed IN
       /\ timer' = [timer EXCEPT ![e] = FALSE]
       /\ \/ timer[e] /\ funcs' = [funcs EXCEPT ![e] = @ - 1]
          \/ UNCHANGED funcs
  /\ caller' = [caller EXCEPT ![c].pc = "update"]
  /\ UNCHANGED <<current, made, texts, pending, updates, post, sent, finals>>

\* Fault: the text is left to a debouncer that is gone.
FinalUpdateDebounced(c) ==
  /\ caller[c].pc = "update"
  /\ texts' = texts + 1 /\ finals' = finals \cup {texts + 1}
  /\ pending' = IF caller[c].ed = 0 THEN pending
                ELSE [pending EXCEPT ![caller[c].ed] = texts + 1]
  /\ caller' = [caller EXCEPT ![c] = Idle]
  /\ UNCHANGED <<current, made, timer, funcs, updates, post, sent>>

\* ... and the text is sent.
FinalUpdate(c) ==
  /\ caller[c].pc = "update"
  /\ texts' = texts + 1 /\ finals' = finals \cup {texts + 1}
  /\ updates' = updates \cup {texts + 1} /\ sent' = sent \cup {texts + 1}
  /\ caller' = [caller EXCEPT ![c] = Idle]
  /\ UNCHANGED <<current, made, pending, timer, funcs, post>>

\* Mattermost applies an update when it gets it.  (An update that fails is
\* only logged; the properties are about those that do not.)
UpdatePost(t) ==
  /\ t \in updates
  /\ updates' = updates \ {t}
  /\ post' = t
  /\ UNCHANGED <<caller, current, made, texts, pending, timer, funcs, sent, finals>>

-----------------------------------------------------------------------------

Steps(c) == Edit(c) \/ SetPending(c) \/ StopTimer(c) \/ FinalUpdate(c)

Next ==
  \/ \E c \in Caller : FindActive(c) \/ FinalEdit(c) \/ Steps(c)
  \/ \E e \in Editor : Fire(e)
  \/ \E t \in updates : UpdatePost(t)

Spec == Init /\ [][Next]_vars

\* Goroutines go on, timers fire, requests are answered; nobody has to edit.
Fairness ==
  /\ \A c \in Caller : WF_vars(Steps(c))
  /\ \A e \in Editor : WF_vars(Fire(e))
  /\ WF_vars(\E t \in updates : UpdatePost(t))

FairSpec == Spec /\ Fairness

-----------------------------------------------------------------------------
(* Properties *)

\* The debouncer of core.edit loses no text for good: one that was taken is
\* sent, or a newer one is, unless a finalEdit came after it.
NoEditForgotten ==
  \A t \in 1 .. MaxTexts :
    (texts >= t) ~> (\E u \in sent : u >= t) \/ (\E u \in finals : u > t)

\* core.edit returns early when "an edit is already scheduled; it will pick
\* up the newest text": a timer that is set has a function that will run,
\* and the editor of a job never holds an unsent text that no function will
\* take, however edits, timers and finalEdit interleave.
PendingHasTimer ==
  \A e \in Editor :
    /\ timer[e] => funcs[e] > 0
    /\ pending[e] # 0 /\ e = current => funcs[e] > 0 \/ pending[e] \in sent

\* core.finalEdit "writes immediately": whatever edits, timers and other
\* outcomes are under way, an outcome that was decided is shown.  (It need
\* not stay: an UpdatePost of an earlier text may arrive after it.)
OutcomeShown == (\E c \in Caller : caller[c].final) ~> post \in finals
=============================================================================
