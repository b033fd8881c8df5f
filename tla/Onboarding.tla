----------------------------- MODULE Onboarding -----------------------------
(***************************************************************************)
(* Pairing a machine and provisioning its bot (broker/core/onboarding.go,  *)
(* the store behind it, and the laptop's WaitInit loop).                   *)
(*                                                                         *)
(* A laptop asks for a code, its owner types it into a slash command, and  *)
(* the command makes a Mattermost bot account with a token, memberships    *)
(* and two webhooks, saves the bot's row and completes the pairing; the    *)
(* laptop polls for the outcome.  Commands are serialised by onboardingMu; *)
(* polls, the clock and crashes are not.                                   *)
(*                                                                         *)
(* A command makes at most one bot, so a bot is named by its command.      *)
(***************************************************************************)
EXTENDS Integers, Sequences, FiniteSets

CONSTANTS
  Code,         \* init codes
  Cmd,          \* slash commands
  CodeOf,       \* CodeOf[k]: the code k claims, or NoCode for `bot create`
  NoCode,
  NoCmd,
  NameOf,       \* NameOf[k]: the bot name k asks for
  Req,          \* poll requests of one laptop that may be in the broker at once
  MaxFailures,  \* bound: operations that fail and are reported as failed
  MaxHard       \* bound: crashes, lost responses, failing clean-up

ASSUME OnboardingAssumption ==
  /\ IsFiniteSet(Code) /\ IsFiniteSet(Cmd) /\ IsFiniteSet(Req)
  /\ NoCode \notin Code /\ NoCmd \notin Cmd
  /\ CodeOf \in [Cmd -> Code \cup {NoCode}]
  /\ DOMAIN NameOf = Cmd
  /\ MaxFailures \in Nat /\ MaxHard \in Nat

VARIABLES
  code,         \* code[c]: the init request's row
  expired,      \* the codes whose time is over
  laptop,       \* laptop[c]: where WaitInit stands
  poll,         \* poll[c][r]: where a poll request stands
  handed,       \* handed[c]: how often the harness token left the broker
  stage,        \* stage[k]: where a command stands
  mu,           \* the command that holds onboardingMu, or NoCmd
  made,         \* the commands whose account name is taken in Mattermost
  has,          \* has[k]: what is enabled in Mattermost for k's bot
  known,        \* known[k]: the webhook ids in k's bot record
  row,          \* row[k]: the bot's row in the store
  pairs,        \* <<c, k>>: a harness was paired by code c with k's bot
  failures, hard

store == <<code, row, pairs>>
polling == <<laptop, poll, handed>>
vars == <<code, expired, laptop, poll, handed, stage, mu, made, has, known, row, pairs,
          failures, hard>>

Hooks == {"incoming", "outgoing"}
Complete == {"account"} \cup Hooks

\* Fault: the row is saved before the outgoing webhook exists.
OrderSaveEarly == <<"account", "token", "team", "channel", "incoming", "save", "outgoing">>

\* The steps of provisionBot after its checks.
Order == <<"account", "token", "team", "channel", "incoming", "outgoing", "save">>

Cleaning == <<"clean_outgoing", "clean_incoming", "clean_account", "clean_row">>
Ended == {"ok", "err", "gone"}
Steps == {Order[i] : i \in DOMAIN Order}
Stage == {"idle", "lock", "checks", "complete"} \cup Steps \cup {Cleaning[i] : i \in DOMAIN Cleaning}
         \cup Ended

\* The one type invariant; a code is fetched at most once it was claimed, and
\* recorded webhooks belong to an account that was made.
TypeOK ==
  /\ code \in [Code -> {"none", "open", "claimed", "fetched"}]
  /\ expired \subseteq Code
  /\ laptop \in [Code -> {"none", "wait", "paired", "expired", "failed"}]
  /\ poll \in [Code -> [Req -> {"idle", "fetch", "respond"}]]
  /\ handed \in [Code -> Nat]
  /\ stage \in [Cmd -> Stage]
  /\ mu \in Cmd \cup {NoCmd}
  /\ made \subseteq Cmd
  /\ has \in [Cmd -> SUBSET Complete]
  /\ known \in [Cmd -> SUBSET Hooks] /\ \A k \in Cmd : known[k] # {} => k \in made
  /\ row \in [Cmd -> {"none", "unbound", "bound"}]
  /\ pairs \subseteq Code \X Cmd
  /\ failures \in 0 .. MaxFailures /\ hard \in 0 .. MaxHard

Init ==
  /\ code = [c \in Code |-> "none"]
  /\ expired = {}
  /\ laptop = [c \in Code |-> "none"]
  /\ poll = [c \in Code |-> [r \in Req |-> "idle"]]
  /\ handed = [c \in Code |-> 0]
  /\ stage = [k \in Cmd |-> "idle"]
  /\ mu = NoCmd
  /\ made = {}
  /\ has = [k \in Cmd |-> {}]
  /\ known = [k \in Cmd |-> {}]
  /\ row = [k \in Cmd |-> "none"]
  /\ pairs = {}
  /\ failures = 0 /\ hard = 0

Failure == failures < MaxFailures /\ failures' = failures + 1 /\ UNCHANGED hard
HardFault == hard < MaxHard /\ hard' = hard + 1 /\ UNCHANGED failures
NoFault == UNCHANGED <<failures, hard>>

-----------------------------------------------------------------------------
(* The code, the clock and the laptop.                                     *)

\* StartInit: the laptop has its code and starts WaitInit.
StartInit(c) ==
  /\ code[c] = "none"
  /\ code' = [code EXCEPT ![c] = "open"]
  /\ laptop' = [laptop EXCEPT ![c] = "wait"]
  /\ UNCHANGED <<expired, poll, handed, stage, mu, made, has, known, row, pairs>> /\ NoFault

\* InitCodeTTL passes.
Expire(c) ==
  /\ code[c] # "none" /\ c \notin expired
  /\ expired' = expired \cup {c}
  /\ UNCHANGED <<store, polling, stage, mu, made, has, known>> /\ NoFault

Claimed(c) == code[c] \in {"claimed", "fetched"}

\* WaitInit ends with this outcome, if it has not ended already.
Answer(c, outcome) ==
  laptop' = [laptop EXCEPT ![c] = IF @ = "wait" THEN outcome ELSE @]

\* Fault: the broker answers "pending" for ever.
PollPatient(c, r) ==
  /\ laptop[c] = "wait" /\ poll[c][r] = "idle"
  /\ Claimed(c)
  /\ poll' = [poll EXCEPT ![c][r] = "fetch"]
  /\ UNCHANGED <<store, laptop, expired, handed, stage, mu, made, has, known>> /\ NoFault

\* A poll reaches PollInit, and FetchInit reads the row.  Too late: 404.  Not
\* claimed: 202, and the laptop looks at the clock itself before it goes on.
Poll(c, r) ==
  /\ laptop[c] = "wait" /\ poll[c][r] = "idle"
  /\ \/ /\ c \in expired
        /\ Answer(c, "expired") /\ UNCHANGED poll
     \/ /\ c \notin expired /\ Claimed(c)
        /\ poll' = [poll EXCEPT ![c][r] = "fetch"] /\ UNCHANGED laptop
  /\ UNCHANGED <<store, expired, handed, stage, mu, made, has, known>> /\ NoFault

\* Fault: the update does not ask whether the result was fetched.
FetchInitAgain(c, r) ==
  /\ poll[c][r] = "fetch"
  /\ code' = [code EXCEPT ![c] = "fetched"]
  /\ poll' = [poll EXCEPT ![c][r] = "respond"]
  /\ UNCHANGED <<expired, laptop, handed, row, pairs, stage, mu, made, has, known>> /\ NoFault

\* FetchInit's update takes the token out of the row it read; only one poll
\* finds it unfetched, the others answer 410.
FetchInit(c, r) ==
  /\ poll[c][r] = "fetch"
  /\ \/ /\ code[c] = "claimed"
        /\ code' = [code EXCEPT ![c] = "fetched"]
        /\ poll' = [poll EXCEPT ![c][r] = "respond"]
        /\ UNCHANGED laptop
     \/ /\ code[c] = "fetched"
        /\ poll' = [poll EXCEPT ![c][r] = "idle"]
        /\ Answer(c, "expired")
        /\ UNCHANGED code
  /\ UNCHANGED <<expired, handed, row, pairs, stage, mu, made, has, known>> /\ NoFault

\* The rest of PollInit, and the response.
Respond(c, r) ==
  /\ poll[c][r] = "respond"
  /\ poll' = [poll EXCEPT ![c][r] = "idle"]
  /\ handed' = [handed EXCEPT ![c] = @ + 1]
  /\ Answer(c, "paired")
  /\ UNCHANGED <<store, expired, stage, mu, made, has, known>> /\ NoFault

\* The harness cannot be read, or the response is lost: WaitInit gives up on
\* the first error.
RespondFails(c, r) ==
  /\ poll[c][r] = "respond" /\ HardFault
  /\ poll' = [poll EXCEPT ![c][r] = "idle"]
  /\ Answer(c, "failed")
  /\ UNCHANGED <<store, expired, handed, stage, mu, made, has, known>>

-----------------------------------------------------------------------------
(* The slash commands: claimInit and createBoundBot.                       *)

Goto(k, s) == stage' = [stage EXCEPT ![k] = s] /\ UNCHANGED mu
Return(k, s) == stage' = [stage EXCEPT ![k] = s] /\ mu' = NoCmd

\* A command arrives, and waits for onboardingMu.
Command(k) ==
  /\ stage[k] = "idle"
  /\ Goto(k, "lock")
  /\ UNCHANGED <<store, polling, expired, made, has, known>> /\ NoFault

LockOnboarding(k) ==
  /\ stage[k] = "lock" /\ mu = NoCmd
  /\ mu' = k
  /\ stage' = [stage EXCEPT ![k] = "checks"]
  /\ UNCHANGED <<store, polling, expired, made, has, known>> /\ NoFault

\* Fault: a claimed code can be claimed again.
ClaimableTwice(c) == code[c] # "none" /\ c \notin expired

\* claimInit and CompleteInit: the code is known, in time and not used.
Claimable(c) == code[c] = "open" /\ c \notin expired

\* The early returns of claimInit or createBoundBot: a code that can be
\* claimed, or a paired harness to bind the bot to.
Admissible(k) == IF CodeOf[k] = NoCode THEN pairs # {} ELSE Claimable(CodeOf[k])

NameFree(k) == \A l \in Cmd : NameOf[l] = NameOf[k] => row[l] = "none"

Check(k) ==
  /\ stage[k] = "checks"
  /\ IF Admissible(k) /\ NameFree(k) THEN Goto(k, "account") ELSE Return(k, "err")
  /\ UNCHANGED <<store, polling, expired, made, has, known>> /\ NoFault

\* The OAuth installation, the channel or the owner cannot be read.
CheckFails(k) ==
  /\ stage[k] = "checks" /\ Failure
  /\ Return(k, "err")
  /\ UNCHANGED <<store, polling, expired, made, has, known>>

After(s) == Order[1 + CHOOSE i \in DOMAIN Order : Order[i] = s]
NameTaken(k) == \E l \in made : NameOf[l] = NameOf[k]

\* Fault: an account that has the name already is taken over.
CreateAccountAdopts(k) ==
  /\ stage[k] = "account"
  /\ Goto(k, After("account"))
  /\ made' = IF NameTaken(k) THEN made ELSE made \cup {k}
  /\ has' = [has EXCEPT ![k] = {"account"}]
  /\ UNCHANGED <<store, polling, expired, known>> /\ NoFault

\* CreateBot: an account name is taken for good, a disabled account's too.
CreateAccount(k) ==
  /\ stage[k] = "account"
  /\ IF NameTaken(k)
     THEN Return(k, "err") /\ UNCHANGED <<made, has>>
     ELSE /\ Goto(k, After("account"))
          /\ made' = made \cup {k}
          /\ has' = [has EXCEPT ![k] = {"account"}]
  /\ UNCHANGED <<store, polling, expired, known>> /\ NoFault

\* CreateBotToken, AddTeamMember, AddChannelMember and the two webhooks.
Provision(k) ==
  /\ stage[k] \in Steps \ {"account", "save"}
  /\ has' = [has EXCEPT ![k] = @ \cup ({stage[k]} \cap Hooks)]
  /\ known' = [known EXCEPT ![k] = @ \cup ({stage[k]} \cap Hooks)]
  /\ Goto(k, After(stage[k]))
  /\ UNCHANGED <<store, polling, expired, made>> /\ NoFault

\* One of them fails without an effect.  The first is before the deferred
\* rollback, the others enter it; a webhook that comes back incomplete has
\* been made, and its id is noted before the check.
ProvisionFails(k) ==
  /\ stage[k] \in Steps \ {"save"} /\ Failure
  /\ IF stage[k] = "account" THEN Return(k, "err") ELSE Goto(k, Cleaning[1])
  /\ \E incomplete \in SUBSET ({stage[k]} \cap Hooks) :
       /\ has' = [has EXCEPT ![k] = @ \cup incomplete]
       /\ known' = [known EXCEPT ![k] = @ \cup incomplete]
  /\ UNCHANGED <<store, polling, expired, made>>

\* The operation is done, its response is lost.
ResponseLost(k) ==
  /\ stage[k] \in {"account"} \cup Hooks /\ HardFault
  /\ ~(stage[k] = "account" /\ NameTaken(k))
  /\ made' = made \cup {k}
  /\ has' = [has EXCEPT ![k] = @ \cup {stage[k]}]
  /\ IF stage[k] = "account" THEN Return(k, "err") ELSE Goto(k, Cleaning[1])
  /\ UNCHANGED <<store, polling, expired, known>>

\* store.CreateBot: createBoundBot is done, claimInit goes on to CompleteInit.
SaveBot(k) ==
  /\ stage[k] = "save"
  /\ IF CodeOf[k] = NoCode
     THEN row' = [row EXCEPT ![k] = "bound"] /\ Return(k, "ok")
     ELSE row' = [row EXCEPT ![k] = "unbound"] /\ Goto(k, "complete")
  /\ UNCHANGED <<code, pairs, polling, expired, made, has, known>> /\ NoFault

SaveFails(k) ==
  /\ stage[k] = "save" /\ Failure
  /\ Goto(k, Cleaning[1])
  /\ UNCHANGED <<store, polling, expired, made, has, known>>

\* Fault: the transaction does not bind the bot.
CompleteInitUnbound(k) ==
  /\ stage[k] = "complete"
  /\ IF Claimable(CodeOf[k])
     THEN /\ code' = [code EXCEPT ![CodeOf[k]] = "claimed"]
          /\ pairs' = pairs \cup {<<CodeOf[k], k>>}
          /\ Return(k, "ok")
     ELSE Goto(k, Cleaning[1]) /\ UNCHANGED <<code, pairs>>
  /\ UNCHANGED <<row, polling, expired, made, has, known>> /\ NoFault

\* CompleteInit, one transaction: checks the code again, inserts the harness,
\* binds the bot and stores the token.
CompleteInit(k) ==
  /\ stage[k] = "complete"
  /\ IF Claimable(CodeOf[k])
     THEN /\ code' = [code EXCEPT ![CodeOf[k]] = "claimed"]
          /\ row' = [row EXCEPT ![k] = "bound"]
          /\ pairs' = pairs \cup {<<CodeOf[k], k>>}
          /\ Return(k, "ok")
     ELSE Goto(k, Cleaning[1]) /\ UNCHANGED store
  /\ UNCHANGED <<polling, expired, made, has, known>> /\ NoFault

CompleteFails(k) ==
  /\ stage[k] = "complete" /\ Failure
  /\ Goto(k, Cleaning[1])
  /\ UNCHANGED <<store, polling, expired, made, has, known>>

-----------------------------------------------------------------------------
(* rollbackBot: four operations, each tried once, failing or not.          *)

\* The next operation of rollbackBot, or the end of the command.
CleanNext(k) ==
  LET i == CHOOSE j \in DOMAIN Cleaning : Cleaning[j] = stage[k] IN
  IF i = Len(Cleaning) THEN Return(k, "err") ELSE Goto(k, Cleaning[i + 1])

\* Fault: the rollback forgets the incoming webhook.
CleanForgets(k) ==
  /\ stage[k] \in {Cleaning[i] : i \in DOMAIN Cleaning}
  /\ CleanNext(k)
  /\ has' = [has EXCEPT ![k] = @ \ CASE stage[k] = "clean_outgoing" -> known[k] \cap {"outgoing"}
                                     [] stage[k] = "clean_account"  -> {"account"}
                                     [] OTHER                       -> {}]
  /\ row' = IF stage[k] = "clean_row" THEN [row EXCEPT ![k] = "none"] ELSE row
  /\ UNCHANGED <<code, pairs, polling, expired, made, known>> /\ NoFault

\* Webhooks with a known id are deleted, the account is disabled, the row is
\* deleted.
Clean(k) ==
  /\ stage[k] \in {Cleaning[i] : i \in DOMAIN Cleaning}
  /\ CleanNext(k)
  /\ has' = [has EXCEPT ![k] = @ \ CASE stage[k] = "clean_outgoing" -> known[k] \cap {"outgoing"}
                                     [] stage[k] = "clean_incoming" -> known[k] \cap {"incoming"}
                                     [] stage[k] = "clean_account"  -> {"account"}
                                     [] OTHER                       -> {}]
  /\ row' = IF stage[k] = "clean_row" THEN [row EXCEPT ![k] = "none"] ELSE row
  /\ UNCHANGED <<code, pairs, polling, expired, made, known>> /\ NoFault

\* The operation fails: a line in the log, and on to the next.
CleanFails(k) ==
  /\ stage[k] \in {Cleaning[i] : i \in DOMAIN Cleaning} /\ HardFault
  /\ CleanNext(k)
  /\ UNCHANGED <<store, polling, expired, made, has, known>>

\* The broker stops and starts again: running commands are gone, and the
\* polls in its hands fail at the laptop.
BrokerCrash ==
  /\ HardFault
  /\ stage' = [k \in Cmd |-> IF stage[k] \in {"idle"} \cup Ended THEN stage[k] ELSE "gone"]
  /\ mu' = NoCmd
  /\ laptop' = [c \in Code |-> IF laptop[c] = "wait" /\ \E r \in Req : poll[c][r] # "idle"
                               THEN "failed" ELSE laptop[c]]
  /\ poll' = [c \in Code |-> [r \in Req |-> "idle"]]
  /\ UNCHANGED <<store, expired, handed, made, has, known>>

Run(k) ==
  \/ LockOnboarding(k) \/ Check(k) \/ CreateAccount(k) \/ Provision(k)
  \/ SaveBot(k) \/ CompleteInit(k) \/ Clean(k)

Next ==
  \/ \E c \in Code : StartInit(c) \/ Expire(c)
  \/ \E c \in Code, r \in Req : Poll(c, r) \/ FetchInit(c, r) \/ Respond(c, r) \/ RespondFails(c, r)
  \/ \E k \in Cmd : Command(k) \/ Run(k)
  \/ \E k \in Cmd : CheckFails(k) \/ ProvisionFails(k) \/ SaveFails(k) \/ CompleteFails(k)
  \/ \E k \in Cmd : ResponseLost(k) \/ CleanFails(k)
  \/ BrokerCrash

Spec == Init /\ [][Next]_vars

\* The laptop polls every two seconds, requests are served, time passes, and
\* a command that was typed is run.
Fairness ==
  /\ \A c \in Code : WF_vars(Expire(c))
  /\ \A c \in Code, r \in Req : WF_vars(Poll(c, r)) /\ WF_vars(FetchInit(c, r)) /\ WF_vars(Respond(c, r))
  /\ \A k \in Cmd : WF_vars(Run(k))

FairSpec == Spec /\ Fairness

-----------------------------------------------------------------------------
(* Properties.                                                             *)

\* README: "A successful result can be fetched once": the harness token leaves
\* the broker at most once per code, also when polls overlap in FetchInit,
\* whose read and update are two statements.
TokenOnce == \A c \in Code : handed[c] <= 1

\* A code pairs one harness with one bot, whatever commands name it and however
\* long they take (claimInit and CompleteInit both check).
CodeClaimedOnce == \A t, u \in pairs : t[1] = u[1] => t = u

\* A row that is bound to a harness, which is what makes bots.Manager listen
\* and the webhook accept posts, has its account and both webhooks, also in
\* the middle of commands and after crashes.
BoundIsComplete == \A k \in Cmd : row[k] = "bound" => has[k] = Complete

\* A laptop that got its token has a harness in the store and a bot bound to
\* it that can be mentioned.
PairedIsUsable ==
  \A c \in Code : laptop[c] = "paired" => \E k \in Cmd : <<c, k>> \in pairs /\ row[k] = "bound"

\* A command that reports an error has left no account, webhook or row, when
\* the clean-up itself works: "Each remote operation is compensated if any
\* later operation fails."
FailedLeavesNothing ==
  hard = 0 => \A k \in Cmd : stage[k] = "err" => has[k] = {} /\ row[k] = "none"

\* WaitInit ends: with the token, with an error, or when the code expires.
WaitEnds == \A c \in Code : (laptop[c] = "wait") ~> (laptop[c] # "wait")
=============================================================================
