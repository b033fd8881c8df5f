-------------------------- MODULE OnboardingProofs --------------------------
(***************************************************************************)
(* Theorems about Onboarding, for any codes, commands, polls and faults.   *)
(***************************************************************************)
EXTENDS Onboarding, TLAPS

-----------------------------------------------------------------------------
(* The order of the steps *)

LEMMA OrderIs ==
  /\ DOMAIN Order = 1 .. 7
  /\ Order[1] = "account" /\ Order[2] = "token" /\ Order[3] = "team" /\ Order[4] = "channel"
  /\ Order[5] = "incoming" /\ Order[6] = "outgoing" /\ Order[7] = "save"
  BY DEF Order

LEMMA StepsAre ==
  Steps = {"account", "token", "team", "channel", "incoming", "outgoing", "save"}
  BY OrderIs DEF Steps

LEMMA CleaningIs ==
  /\ DOMAIN Cleaning = 1 .. 4 /\ Len(Cleaning) = 4
  /\ Cleaning[1] = "clean_outgoing" /\ Cleaning[2] = "clean_incoming"
  /\ Cleaning[3] = "clean_account" /\ Cleaning[4] = "clean_row"
  /\ {Cleaning[i] : i \in DOMAIN Cleaning} =
       {"clean_outgoing", "clean_incoming", "clean_account", "clean_row"}
<1>1. /\ DOMAIN Cleaning = 1 .. 4 /\ Len(Cleaning) = 4
      /\ Cleaning[1] = "clean_outgoing" /\ Cleaning[2] = "clean_incoming"
      /\ Cleaning[3] = "clean_account" /\ Cleaning[4] = "clean_row"
  BY DEF Cleaning
<1>2. QED
  BY <1>1

\* provisionBot's next step.
LEMMA AfterIs ==
  /\ After("account") = "token" /\ After("token") = "team" /\ After("team") = "channel"
  /\ After("channel") = "incoming" /\ After("incoming") = "outgoing"
  /\ After("outgoing") = "save"
<1>1. ASSUME NEW n \in 1 .. 6 PROVE After(Order[n]) = Order[1 + n]
  <2>1. \A i \in DOMAIN Order : Order[i] = Order[n] <=> i = n
    BY OrderIs
  <2>2. (CHOOSE i \in DOMAIN Order : Order[i] = Order[n]) = n
    BY <2>1, OrderIs
  <2>3. QED
    BY <2>2 DEF After
<1>2. QED
  BY <1>1, OrderIs

LEMMA CleanNextIs ==
  ASSUME NEW k \in Cmd, CleanNext(k),
         stage[k] \in {Cleaning[i] : i \in DOMAIN Cleaning}
  PROVE  \/ stage[k] = "clean_outgoing" /\ Goto(k, "clean_incoming")
         \/ stage[k] = "clean_incoming" /\ Goto(k, "clean_account")
         \/ stage[k] = "clean_account" /\ Goto(k, "clean_row")
         \/ stage[k] = "clean_row" /\ Return(k, "err")
<1>1. PICK n \in 1 .. 4 : stage[k] = Cleaning[n]
  BY CleaningIs
<1>2. \A j \in DOMAIN Cleaning : Cleaning[j] = stage[k] <=> j = n
  BY <1>1, CleaningIs
<1>3. (CHOOSE j \in DOMAIN Cleaning : Cleaning[j] = stage[k]) = n
  BY <1>2, CleaningIs
<1>4. IF n = 4 THEN Return(k, "err") ELSE Goto(k, Cleaning[n + 1])
  BY <1>3, CleaningIs DEF CleanNext
<1>5. QED
  BY <1>1, <1>4, CleaningIs

LEMMA StagesAre ==
  Stage = {"idle", "lock", "checks", "complete", "account", "token", "team", "channel",
           "incoming", "outgoing", "save", "clean_outgoing", "clean_incoming",
           "clean_account", "clean_row", "ok", "err", "gone"}
  BY StepsAre, CleaningIs DEF Stage, Ended

-----------------------------------------------------------------------------
(* The inductive invariant *)

\* What a bot has while its command is at stage s: nothing before CreateBot,
\* then the account and the webhooks in their order; h is has, n the ids that
\* are noted, and m says whether the account was made.
Holds(s, h, n, m) ==
  /\ s \in {"idle", "lock", "checks", "account"} => h = {} /\ n = {}
  /\ s \in {"token", "team", "channel", "incoming"} => h = {"account"} /\ n = {}
  /\ s = "outgoing" => h = {"account", "incoming"} /\ n = {"incoming"}
  /\ s \in {"save", "complete", "ok"} => h = Complete /\ n = Hooks
  /\ s \in {"token", "team", "channel", "incoming", "outgoing"} => m

\* Only a command that succeeded has a bound row, and a row is saved after the
\* last step of provisionBot.
RowFits(s, r) ==
  /\ r = "bound" => s = "ok"
  /\ r = "unbound" => s \in {"complete", "clean_outgoing", "clean_incoming",
                             "clean_account", "clean_row", "err", "gone"}

\* While nothing is lost and the rollback works, it knows every webhook there
\* is, and each of its steps leaves less behind.
CleanFits(s, h, n, r) ==
  /\ s = "clean_outgoing" => h \cap Hooks \subseteq n
  /\ s = "clean_incoming" => h \cap Hooks \subseteq n /\ "outgoing" \notin h
  /\ s = "clean_account" => h \subseteq {"account"}
  /\ s = "clean_row" => h = {}
  /\ s = "err" => h = {} /\ r = "none"

CommandInv(k) ==
  /\ stage[k] = "complete" => CodeOf[k] \in Code
  /\ Holds(stage[k], has[k], known[k], k \in made)
  /\ RowFits(stage[k], row[k])
  /\ hard = 0 => CleanFits(stage[k], has[k], known[k], row[k])

\* The token of a code is in the hands of at most one poll, which has taken it
\* out of the row, and of none once it was handed out.
TokenInv(c) ==
  /\ \A r, s \in Req : poll[c][r] = "respond" /\ poll[c][s] = "respond" => r = s
  /\ handed[c] <= 1
  /\ \A r \in Req : poll[c][r] = "respond" => handed[c] = 0
  /\ (handed[c] # 0 \/ \E r \in Req : poll[c][r] = "respond") => code[c] = "fetched"

\* A code is claimed exactly when it has paired a harness, with a bot that is
\* bound; the laptop has its token only then.
PairInv ==
  /\ \A t \in pairs : Claimed(t[1]) /\ row[t[2]] = "bound"
  /\ \A c \in Code : Claimed(c) => \E k \in Cmd : <<c, k>> \in pairs
  /\ \A c \in Code : laptop[c] = "paired" => Claimed(c)
  /\ CodeClaimedOnce

OnboardingInv ==
  /\ TypeOK
  /\ \A k \in Cmd : CommandInv(k)
  /\ \A c \in Code : TokenInv(c)
  /\ PairInv

-----------------------------------------------------------------------------
(* Type correctness *)

PollAt == {"idle", "fetch", "respond"}

\* One poll moves on.
LEMMA PollSet ==
  ASSUME TypeOK, NEW c \in Code, NEW r \in Req, NEW v \in PollAt,
         poll' = [poll EXCEPT ![c][r] = v]
  PROVE  /\ poll' \in [Code -> [Req -> PollAt]]
         /\ poll'[c][r] = v
         /\ \A s \in Req : s # r => poll'[c][s] = poll[c][s]
         /\ \A d \in Code : d # c => poll'[d] = poll[d]
  BY DEF TypeOK, PollAt

LEMMA TypeInductive ==
  ASSUME TypeOK, \A k \in Cmd : CommandInv(k), [Next]_vars
  PROVE  TypeOK'
<1> USE OnboardingAssumption, StagesAre DEF TypeOK, store, polling, Failure, HardFault, NoFault,
      Hooks, Complete
<1>1. CASE UNCHANGED vars
  BY <1>1 DEF vars
<1>2. ASSUME NEW c \in Code, StartInit(c) \/ Expire(c) PROVE TypeOK'
  BY <1>2 DEF StartInit, Expire
<1>3. ASSUME NEW c \in Code, NEW r \in Req, Poll(c, r) PROVE TypeOK'
  <2>1. poll' \in [Code -> [Req -> {"idle", "fetch", "respond"}]]
    <3>1. "fetch" \in PollAt /\ (UNCHANGED poll \/ poll' = [poll EXCEPT ![c][r] = "fetch"])
      BY <1>3 DEF Poll, PollAt
    <3>2. QED
      BY <3>1, PollSet DEF PollAt
  <2>2. laptop' \in [Code -> {"none", "wait", "paired", "expired", "failed"}]
    BY <1>3 DEF Poll, Answer
  <2>3. QED
    BY <1>3, <2>1, <2>2 DEF Poll
<1>4. ASSUME NEW c \in Code, NEW r \in Req, FetchInit(c, r) PROVE TypeOK'
  <2>1. poll' \in [Code -> [Req -> {"idle", "fetch", "respond"}]]
    <3>1. PICK v \in PollAt : poll' = [poll EXCEPT ![c][r] = v]
      BY <1>4 DEF FetchInit, PollAt
    <3>2. QED
      BY <3>1, PollSet DEF PollAt
  <2>2. /\ code' \in [Code -> {"none", "open", "claimed", "fetched"}]
        /\ laptop' \in [Code -> {"none", "wait", "paired", "expired", "failed"}]
    BY <1>4 DEF FetchInit, Answer
  <2>3. QED
    BY <1>4, <2>1, <2>2 DEF FetchInit
<1>5. ASSUME NEW c \in Code, NEW r \in Req, Respond(c, r) PROVE TypeOK'
  <2>1. poll' \in [Code -> [Req -> {"idle", "fetch", "respond"}]] /\ handed' \in [Code -> Nat]
    BY <1>5, PollSet DEF Respond, PollAt
  <2>2. laptop' \in [Code -> {"none", "wait", "paired", "expired", "failed"}]
    BY <1>5 DEF Respond, Answer
  <2>3. QED
    BY <1>5, <2>1, <2>2 DEF Respond
<1>6. ASSUME NEW c \in Code, NEW r \in Req, RespondFails(c, r) PROVE TypeOK'
  <2>1. poll' \in [Code -> [Req -> {"idle", "fetch", "respond"}]]
    BY <1>6, PollSet DEF RespondFails, PollAt
  <2>2. laptop' \in [Code -> {"none", "wait", "paired", "expired", "failed"}]
    BY <1>6 DEF RespondFails, Answer
  <2>3. QED
    BY <1>6, <2>1, <2>2 DEF RespondFails
<1>7. ASSUME NEW k \in Cmd, Command(k) \/ LockOnboarding(k) \/ Check(k) \/ CheckFails(k)
      PROVE TypeOK'
  BY <1>7, StepsAre DEF Command, LockOnboarding, Check, CheckFails, Goto, Return
<1>8. ASSUME NEW k \in Cmd, CreateAccount(k) PROVE TypeOK'
  <2>1. stage' \in [Cmd -> Stage] /\ mu' \in Cmd \cup {NoCmd}
    BY <1>8, AfterIs DEF CreateAccount, Goto, Return
  <2>2. made' \subseteq Cmd /\ made \subseteq made' /\ has' \in [Cmd -> SUBSET Complete]
    BY <1>8 DEF CreateAccount
  <2>3. QED
    BY <1>8, <2>1, <2>2 DEF CreateAccount
<1>9. ASSUME NEW k \in Cmd, Provision(k) PROVE TypeOK'
  <2>1. stage' \in [Cmd -> Stage] /\ mu' = mu
    BY <1>9, AfterIs, StepsAre DEF Provision, Goto
  <2>2. /\ has' \in [Cmd -> SUBSET Complete] /\ known' \in [Cmd -> SUBSET Hooks]
    BY <1>9 DEF Provision
  <2>3. \A l \in Cmd : known'[l] # {} => l \in made
    <3>1. k \in made
      BY <1>9, StepsAre DEF Provision, CommandInv, Holds
    <3>2. QED
      BY <1>9, <3>1 DEF Provision
  <2>4. QED
    BY <1>9, <2>1, <2>2, <2>3 DEF Provision
<1>10. ASSUME NEW k \in Cmd, ProvisionFails(k) PROVE TypeOK'
  <2>1. PICK incomplete \in SUBSET ({stage[k]} \cap Hooks) :
          /\ has' = [has EXCEPT ![k] = @ \cup incomplete]
          /\ known' = [known EXCEPT ![k] = @ \cup incomplete]
    BY <1>10 DEF ProvisionFails
  <2>2. stage' \in [Cmd -> Stage] /\ mu' \in Cmd \cup {NoCmd}
    BY <1>10, CleaningIs DEF ProvisionFails, Goto, Return
  <2>3. has' \in [Cmd -> SUBSET Complete] /\ known' \in [Cmd -> SUBSET Hooks]
    BY <2>1
  <2>4. \A l \in Cmd : known'[l] # {} => l \in made
    <3>1. incomplete # {} => k \in made
      BY <2>1 DEF CommandInv, Holds
    <3>2. QED
      BY <2>1, <3>1
  <2>5. QED
    BY <1>10, <2>2, <2>3, <2>4 DEF ProvisionFails
<1>11. ASSUME NEW k \in Cmd, ResponseLost(k) PROVE TypeOK'
  <2>1. stage' \in [Cmd -> Stage] /\ mu' \in Cmd \cup {NoCmd}
    BY <1>11, CleaningIs DEF ResponseLost, Goto, Return
  <2>2. made' \subseteq Cmd /\ made \subseteq made' /\ has' \in [Cmd -> SUBSET Complete]
    BY <1>11 DEF ResponseLost
  <2>3. QED
    BY <1>11, <2>1, <2>2 DEF ResponseLost
<1>12. ASSUME NEW k \in Cmd, SaveBot(k) \/ SaveFails(k) \/ CompleteFails(k) PROVE TypeOK'
  BY <1>12, CleaningIs DEF SaveBot, SaveFails, CompleteFails, Goto, Return
<1>13. ASSUME NEW k \in Cmd, CompleteInit(k) PROVE TypeOK'
  <2>1. CASE Claimable(CodeOf[k])
    <3>1. CodeOf[k] \in Code
      BY <1>13 DEF CompleteInit, CommandInv
    <3>2. /\ code' = [code EXCEPT ![CodeOf[k]] = "claimed"]
          /\ row' = [row EXCEPT ![k] = "bound"]
          /\ pairs' = pairs \cup {<<CodeOf[k], k>>}
          /\ stage' = [stage EXCEPT ![k] = "ok"] /\ mu' = NoCmd
      BY <1>13, <2>1 DEF CompleteInit, Return
    <3>3. QED
      BY <1>13, <3>1, <3>2 DEF CompleteInit
  <2>2. CASE ~Claimable(CodeOf[k])
    BY <1>13, <2>2, CleaningIs DEF CompleteInit, Goto
  <2>3. QED
    BY <2>1, <2>2
<1>14. ASSUME NEW k \in Cmd, Clean(k) PROVE TypeOK'
  <2>1. stage' \in [Cmd -> Stage] /\ mu' \in Cmd \cup {NoCmd}
    BY <1>14, CleanNextIs DEF Clean, Goto, Return
  <2>2. has' \in [Cmd -> SUBSET Complete] /\ row' \in [Cmd -> {"none", "unbound", "bound"}]
    BY <1>14 DEF Clean
  <2>3. QED
    BY <1>14, <2>1, <2>2 DEF Clean
<1>15. ASSUME NEW k \in Cmd, CleanFails(k) PROVE TypeOK'
  <2>1. stage' \in [Cmd -> Stage] /\ mu' \in Cmd \cup {NoCmd}
    BY <1>15, CleanNextIs DEF CleanFails, Goto, Return
  <2>2. QED
    BY <1>15, <2>1 DEF CleanFails
<1>16. CASE BrokerCrash
  BY <1>16 DEF BrokerCrash
<1>17. QED
  BY <1>1, <1>2, <1>3, <1>4, <1>5, <1>6, <1>7, <1>8, <1>9, <1>10, <1>11, <1>12, <1>13,
     <1>14, <1>15, <1>16
  DEF Next, Run

-----------------------------------------------------------------------------
(* Commands *)

\* A step of command k leaves the others as they are; a hard fault only takes
\* away what is asked of them.
LEMMA OtherCommands ==
  ASSUME TypeOK, TypeOK', \A k \in Cmd : CommandInv(k),
         NEW k \in Cmd, CommandInv(k)',
         hard' = hard \/ hard' = hard + 1,
         \A l \in Cmd \ {k} :
           /\ stage'[l] = stage[l] /\ has'[l] = has[l] /\ known'[l] = known[l]
           /\ row'[l] = row[l] /\ (l \in made' <=> l \in made)
  PROVE  \A l \in Cmd : CommandInv(l)'
<1>1. hard' = 0 => hard = 0
  BY OnboardingAssumption DEF TypeOK
<1>2. ASSUME NEW l \in Cmd, l # k PROVE CommandInv(l)'
  <2>1. CommandInv(l) /\ stage'[l] = stage[l] /\ has'[l] = has[l] /\ known'[l] = known[l]
        /\ row'[l] = row[l] /\ (l \in made' <=> l \in made)
    BY <1>2
  <2>2. QED
    BY <1>1, <2>1 DEF CommandInv, Holds, RowFits, CleanFits
<1>3. QED
  BY <1>2

LEMMA CommandInductive ==
  ASSUME TypeOK, TypeOK', \A k \in Cmd : CommandInv(k), [Next]_vars
  PROVE  \A k \in Cmd : CommandInv(k)'
<1> USE DEF store, polling, Failure, HardFault, NoFault, Goto, Return, Hooks, Complete
<1> DEFINE Same == \A l \in Cmd : /\ stage'[l] = stage[l] /\ has'[l] = has[l]
                                 /\ known'[l] = known[l] /\ row'[l] = row[l]
                                 /\ (l \in made' <=> l \in made)
<1>0. ASSUME Same, hard' = hard \/ hard' = hard + 1 PROVE \A k \in Cmd : CommandInv(k)'
  <2>1. hard' = 0 => hard = 0
    BY <1>0, OnboardingAssumption DEF TypeOK
  <2>2. QED
    BY <1>0, <2>1 DEF CommandInv, Holds, RowFits, CleanFits
<1>1. CASE UNCHANGED vars
  BY <1>0, <1>1 DEF vars
<1>2. ASSUME NEW c \in Code, StartInit(c) \/ Expire(c) PROVE \A k \in Cmd : CommandInv(k)'
  BY <1>0, <1>2 DEF StartInit, Expire
<1>3. ASSUME NEW c \in Code, NEW r \in Req,
             Poll(c, r) \/ FetchInit(c, r) \/ Respond(c, r) \/ RespondFails(c, r)
      PROVE \A k \in Cmd : CommandInv(k)'
  BY <1>0, <1>3 DEF Poll, FetchInit, Respond, RespondFails
<1>4. ASSUME NEW k \in Cmd, Command(k) \/ LockOnboarding(k) \/ Check(k) \/ CheckFails(k)
      PROVE \A l \in Cmd : CommandInv(l)'
  <2>1. /\ stage[k] \in {"idle", "lock", "checks"}
        /\ stage'[k] \in {"lock", "checks", "account", "err"}
        /\ \A l \in Cmd \ {k} : stage'[l] = stage[l]
        /\ UNCHANGED <<row, made, has, known, hard>>
    BY <1>4 DEF Command, LockOnboarding, Check, CheckFails, TypeOK
  <2>2. CommandInv(k)'
    <3>1. CommandInv(k)
      OBVIOUS
    <3>2. row[k] = "none"
      BY <2>1, <3>1 DEF CommandInv, RowFits, TypeOK
    <3>3. QED
      BY <2>1, <3>1, <3>2 DEF CommandInv, Holds, RowFits, CleanFits
  <2>3. QED
    BY <2>1, <2>2, OtherCommands
<1>5. ASSUME NEW k \in Cmd, CreateAccount(k) PROVE \A l \in Cmd : CommandInv(l)'
  <2>1. /\ stage[k] = "account" /\ UNCHANGED <<row, known, hard>>
        /\ \/ stage'[k] = "err" /\ UNCHANGED <<made, has>>
           \/ stage'[k] = "token" /\ made' = made \cup {k} /\ has'[k] = {"account"}
        /\ \A l \in Cmd \ {k} : stage'[l] = stage[l] /\ has'[l] = has[l]
    BY <1>5, AfterIs DEF CreateAccount, TypeOK
  <2>2. CommandInv(k)'
    <3>1. CommandInv(k)
      OBVIOUS
    <3>2. row[k] = "none"
      BY <2>1, <3>1 DEF CommandInv, RowFits, TypeOK
    <3>3. QED
      BY <2>1, <3>1, <3>2 DEF CommandInv, Holds, RowFits, CleanFits
  <2>3. QED
    BY <2>1, <2>2, OtherCommands
<1>6. ASSUME NEW k \in Cmd, Provision(k) PROVE \A l \in Cmd : CommandInv(l)'
  <2>1. /\ UNCHANGED <<row, made, hard>>
        /\ has'[k] = has[k] \cup ({stage[k]} \cap Hooks)
        /\ known'[k] = known[k] \cup ({stage[k]} \cap Hooks)
        /\ \A l \in Cmd \ {k} : /\ stage'[l] = stage[l] /\ has'[l] = has[l]
                               /\ known'[l] = known[l]
    BY <1>6 DEF Provision, TypeOK
  <2>2. \/ stage[k] = "token" /\ stage'[k] = "team"
        \/ stage[k] = "team" /\ stage'[k] = "channel"
        \/ stage[k] = "channel" /\ stage'[k] = "incoming"
        \/ stage[k] = "incoming" /\ stage'[k] = "outgoing"
        \/ stage[k] = "outgoing" /\ stage'[k] = "save"
    BY <1>6, AfterIs, StepsAre DEF Provision, TypeOK
  <2>3. CommandInv(k)'
    <3>1. CommandInv(k) /\ row[k] = "none"
      BY <2>2 DEF CommandInv, RowFits, TypeOK
    <3>2. QED
      BY <2>1, <2>2, <3>1 DEF CommandInv, Holds, RowFits, CleanFits
  <2>4. QED
    BY <2>1, <2>3, OtherCommands
<1>7. ASSUME NEW k \in Cmd, ProvisionFails(k) PROVE \A l \in Cmd : CommandInv(l)'
  <2>1. PICK incomplete \in SUBSET ({stage[k]} \cap Hooks) :
          /\ has' = [has EXCEPT ![k] = @ \cup incomplete]
          /\ known' = [known EXCEPT ![k] = @ \cup incomplete]
    BY <1>7 DEF ProvisionFails
  <2>2. /\ stage[k] \in {"account", "token", "team", "channel", "incoming", "outgoing"}
        /\ stage'[k] = IF stage[k] = "account" THEN "err" ELSE "clean_outgoing"
        /\ \A l \in Cmd \ {k} : stage'[l] = stage[l]
        /\ UNCHANGED <<row, made, hard>>
    BY <1>7, StepsAre, CleaningIs DEF ProvisionFails, TypeOK
  <2>3. /\ has'[k] = has[k] \cup incomplete /\ known'[k] = known[k] \cup incomplete
        /\ \A l \in Cmd \ {k} : has'[l] = has[l] /\ known'[l] = known[l]
    BY <2>1 DEF TypeOK
  <2>4. CommandInv(k)'
    <3>1. CommandInv(k) /\ row[k] = "none"
      BY <2>2 DEF CommandInv, RowFits, TypeOK
    <3>2. CASE stage[k] = "account"
      BY <2>1, <2>2, <2>3, <3>1, <3>2 DEF CommandInv, Holds, RowFits, CleanFits
    <3>3. CASE stage[k] # "account"
      BY <2>1, <2>2, <2>3, <3>1, <3>3 DEF CommandInv, Holds, RowFits, CleanFits
    <3>4. QED
      BY <3>2, <3>3
  <2>5. QED
    BY <2>2, <2>3, <2>4, OtherCommands
<1>8. ASSUME NEW k \in Cmd, ResponseLost(k) PROVE \A l \in Cmd : CommandInv(l)'
  <2>1. /\ stage[k] \in {"account", "incoming", "outgoing"}
        /\ stage'[k] \in {"err", "clean_outgoing"}
        /\ UNCHANGED <<row, known>> /\ hard' = hard + 1 /\ hard' # 0
        /\ \A l \in Cmd \ {k} : /\ stage'[l] = stage[l] /\ has'[l] = has[l]
                                /\ (l \in made' <=> l \in made)
    BY <1>8, CleaningIs, OnboardingAssumption DEF ResponseLost, TypeOK
  <2>2. CommandInv(k)'
    <3>1. row[k] = "none"
      BY <2>1 DEF CommandInv, RowFits, TypeOK
    <3>2. QED
      BY <2>1, <3>1 DEF CommandInv, Holds, RowFits
  <2>3. QED
    BY <2>1, <2>2, OtherCommands
<1>9. ASSUME NEW k \in Cmd, SaveBot(k) PROVE \A l \in Cmd : CommandInv(l)'
  <2>1. /\ stage[k] = "save" /\ UNCHANGED <<made, has, known, hard>>
        /\ \/ row'[k] = "bound" /\ stage'[k] = "ok"
           \/ row'[k] = "unbound" /\ stage'[k] = "complete" /\ CodeOf[k] \in Code
        /\ \A l \in Cmd \ {k} : stage'[l] = stage[l] /\ row'[l] = row[l]
    BY <1>9, OnboardingAssumption DEF SaveBot, TypeOK
  <2>2. CommandInv(k)'
    BY <2>1 DEF CommandInv, Holds, RowFits, CleanFits
  <2>3. QED
    BY <2>1, <2>2, OtherCommands
<1>10. ASSUME NEW k \in Cmd, SaveFails(k) \/ CompleteFails(k) PROVE \A l \in Cmd : CommandInv(l)'
  <2>1. /\ stage[k] \in {"save", "complete"} /\ stage'[k] = "clean_outgoing"
        /\ UNCHANGED <<row, made, has, known, hard>>
        /\ \A l \in Cmd \ {k} : stage'[l] = stage[l]
    BY <1>10, CleaningIs DEF SaveFails, CompleteFails, TypeOK
  <2>2. CommandInv(k)'
    BY <2>1 DEF CommandInv, Holds, RowFits, CleanFits
  <2>3. QED
    BY <2>1, <2>2, OtherCommands
<1>11. ASSUME NEW k \in Cmd, CompleteInit(k) PROVE \A l \in Cmd : CommandInv(l)'
  <2>1. /\ stage[k] = "complete" /\ UNCHANGED <<made, has, known, hard>>
        /\ \/ row'[k] = "bound" /\ stage'[k] = "ok"
           \/ row'[k] = row[k] /\ stage'[k] = "clean_outgoing"
        /\ \A l \in Cmd \ {k} : stage'[l] = stage[l] /\ row'[l] = row[l]
    BY <1>11, CleaningIs DEF CompleteInit, TypeOK
  <2>2. CommandInv(k)'
    BY <2>1 DEF CommandInv, Holds, RowFits, CleanFits
  <2>3. QED
    BY <2>1, <2>2, OtherCommands
<1>12. ASSUME NEW k \in Cmd, Clean(k) PROVE \A l \in Cmd : CommandInv(l)'
  <2>1. \/ stage[k] = "clean_outgoing" /\ stage'[k] = "clean_incoming"
        \/ stage[k] = "clean_incoming" /\ stage'[k] = "clean_account"
        \/ stage[k] = "clean_account" /\ stage'[k] = "clean_row"
        \/ stage[k] = "clean_row" /\ stage'[k] = "err"
    BY <1>12, CleanNextIs DEF Clean, TypeOK
  <2>2. /\ UNCHANGED <<made, known, hard>>
        /\ \A l \in Cmd \ {k} : stage'[l] = stage[l] /\ has'[l] = has[l] /\ row'[l] = row[l]
    <3>1. \A l \in Cmd \ {k} : stage'[l] = stage[l]
      BY <1>12, CleanNextIs DEF Clean, TypeOK
    <3>2. QED
      BY <1>12, <3>1 DEF Clean, TypeOK
  <2>3. row'[k] = IF stage[k] = "clean_row" THEN "none" ELSE row[k]
    BY <1>12 DEF Clean, TypeOK
  <2>4. /\ stage[k] = "clean_outgoing" => has'[k] = has[k] \ (known[k] \cap {"outgoing"})
        /\ stage[k] = "clean_incoming" => has'[k] = has[k] \ (known[k] \cap {"incoming"})
        /\ stage[k] = "clean_account" => has'[k] = has[k] \ {"account"}
        /\ stage[k] = "clean_row" => has'[k] = has[k]
    BY <1>12 DEF Clean, TypeOK
  <2>5. CommandInv(k)'
    <3>1. CommandInv(k) /\ row[k] # "bound" /\ has[k] \subseteq Complete
      BY <2>1 DEF CommandInv, RowFits, TypeOK
    <3>2. Holds(stage'[k], has'[k], known'[k], k \in made') /\ RowFits(stage'[k], row'[k])
      BY <2>1, <2>3, <3>1 DEF Holds, RowFits
    <3>3. hard' = 0 => CleanFits(stage'[k], has'[k], known'[k], row'[k])
      <4> SUFFICES ASSUME hard' = 0 PROVE CleanFits(stage'[k], has'[k], known'[k], row'[k])
        OBVIOUS
      <4>1. CleanFits(stage[k], has[k], known[k], row[k])
        BY <2>2, <3>1 DEF CommandInv
      <4>2. CASE stage[k] = "clean_outgoing"
        BY <2>1, <2>2, <2>4, <4>1, <4>2 DEF CleanFits
      <4>3. CASE stage[k] = "clean_incoming"
        BY <2>1, <2>2, <2>4, <3>1, <4>1, <4>3 DEF CleanFits
      <4>4. CASE stage[k] \in {"clean_account", "clean_row"}
        BY <2>1, <2>2, <2>3, <2>4, <4>1, <4>4 DEF CleanFits
      <4>5. QED
        BY <2>1, <4>2, <4>3, <4>4
    <3>4. QED
      BY <2>1, <3>2, <3>3 DEF CommandInv
  <2>6. QED
    BY <2>2, <2>5, OtherCommands
<1>13. ASSUME NEW k \in Cmd, CleanFails(k) PROVE \A l \in Cmd : CommandInv(l)'
  <2>1. /\ stage[k] \in {"clean_outgoing", "clean_incoming", "clean_account", "clean_row"}
        /\ stage'[k] \in {"clean_incoming", "clean_account", "clean_row", "err"}
        /\ \A l \in Cmd \ {k} : stage'[l] = stage[l]
    BY <1>13, CleanNextIs DEF CleanFails, TypeOK
  <2>2. UNCHANGED <<row, made, has, known>> /\ hard' = hard + 1 /\ hard' # 0
    BY <1>13, OnboardingAssumption DEF CleanFails, TypeOK
  <2>3. CommandInv(k)'
    BY <2>1, <2>2 DEF CommandInv, Holds, RowFits
  <2>4. QED
    BY <2>1, <2>2, <2>3, OtherCommands
<1>14. CASE BrokerCrash
  <2>1. /\ \A k \in Cmd : stage'[k] = stage[k] \/ stage'[k] = "gone"
        /\ \A k \in Cmd : stage[k] = "ok" => stage'[k] = "ok"
        /\ UNCHANGED <<row, made, has, known>> /\ hard' # 0
    BY <1>14, OnboardingAssumption DEF BrokerCrash, Ended, TypeOK
  <2>2. ASSUME NEW k \in Cmd PROVE CommandInv(k)'
    BY <2>1 DEF CommandInv, Holds, RowFits
  <2>3. QED
    BY <2>2
<1>15. QED
  BY <1>1, <1>2, <1>3, <1>4, <1>5, <1>6, <1>7, <1>8, <1>9, <1>10, <1>11, <1>12, <1>13, <1>14
  DEF Next, Run

-----------------------------------------------------------------------------
(* Tokens *)

\* A step that leaves the polls and the hand-outs alone cannot unfetch a code.
LEMMA TokensKept ==
  ASSUME TypeOK, \A c \in Code : TokenInv(c), UNCHANGED <<poll, handed>>,
         \A c \in Code : code[c] = "fetched" => code'[c] = "fetched"
  PROVE  \A c \in Code : TokenInv(c)'
  BY DEF TokenInv

LEMMA TokenInductive ==
  ASSUME TypeOK, TypeOK', \A k \in Cmd : CommandInv(k), \A c \in Code : TokenInv(c), [Next]_vars
  PROVE  \A c \in Code : TokenInv(c)'
<1> USE DEF store, polling
<1>1. CASE UNCHANGED vars
  BY <1>1, TokensKept DEF vars
<1>2. ASSUME NEW c \in Code, StartInit(c) \/ Expire(c) PROVE \A d \in Code : TokenInv(d)'
  <2>1. /\ UNCHANGED <<poll, handed>>
        /\ \A d \in Code : code[d] = "fetched" => code'[d] = "fetched"
    BY <1>2 DEF StartInit, Expire, TypeOK
  <2>2. QED
    BY <2>1, TokensKept
<1>3. ASSUME NEW c \in Code, NEW r \in Req, Poll(c, r) PROVE \A d \in Code : TokenInv(d)'
  <2>1. CASE UNCHANGED poll
    BY <1>3, <2>1, TokensKept DEF Poll
  <2>2. CASE poll' = [poll EXCEPT ![c][r] = "fetch"]
    <3>1. /\ poll'[c][r] = "fetch"
          /\ \A s \in Req : s # r => poll'[c][s] = poll[c][s]
          /\ \A d \in Code : d # c => poll'[d] = poll[d]
      BY <2>2, PollSet DEF PollAt
    <3>2. UNCHANGED <<code, handed>>
      BY <1>3 DEF Poll
    <3>3. TokenInv(c)'
      BY <3>1, <3>2 DEF TokenInv
    <3>4. QED
      BY <3>1, <3>2, <3>3 DEF TokenInv
  <2>3. QED
    BY <1>3, <2>1, <2>2 DEF Poll
<1>4. ASSUME NEW c \in Code, NEW r \in Req, FetchInit(c, r) PROVE \A d \in Code : TokenInv(d)'
  <2>1. PICK v \in PollAt : poll' = [poll EXCEPT ![c][r] = v]
    BY <1>4 DEF FetchInit, PollAt
  <2>2. /\ poll'[c][r] = v
        /\ \A s \in Req : s # r => poll'[c][s] = poll[c][s]
        /\ \A d \in Code : d # c => poll'[d] = poll[d]
    BY <2>1, PollSet
  <2>3. /\ handed' = handed /\ code'[c] = "fetched"
        /\ v = "respond" => code[c] = "claimed"
        /\ \A d \in Code : d # c => code'[d] = code[d]
    BY <1>4, <2>2 DEF FetchInit, TypeOK
  <2>4. TokenInv(c)'
    <3>1. CASE code[c] = "claimed"
      <4>1. handed[c] = 0 /\ \A s \in Req : poll[c][s] # "respond"
        BY <3>1 DEF TokenInv
      <4>2. QED
        BY <2>2, <2>3, <4>1 DEF TokenInv
    <3>2. CASE code[c] # "claimed"
      BY <2>2, <2>3, <3>2 DEF TokenInv
    <3>3. QED
      BY <3>1, <3>2
  <2>5. QED
    BY <2>2, <2>3, <2>4 DEF TokenInv
<1>5. ASSUME NEW c \in Code, NEW r \in Req, Respond(c, r) \/ RespondFails(c, r)
      PROVE \A d \in Code : TokenInv(d)'
  <2>1. poll[c][r] = "respond" /\ poll' = [poll EXCEPT ![c][r] = "idle"] /\ code' = code
    BY <1>5 DEF Respond, RespondFails
  <2>2. /\ poll'[c][r] = "idle"
        /\ \A s \in Req : s # r => poll'[c][s] = poll[c][s]
        /\ \A d \in Code : d # c => poll'[d] = poll[d]
    BY <2>1, PollSet DEF PollAt
  <2>3. /\ handed'[c] = handed[c] \/ handed'[c] = handed[c] + 1
        /\ \A d \in Code : d # c => handed'[d] = handed[d]
    BY <1>5 DEF Respond, RespondFails, TypeOK
  <2>4. TokenInv(c)'
    <3>1. handed[c] = 0 /\ code[c] = "fetched" /\ \A s \in Req : s # r => poll[c][s] # "respond"
      BY <2>1 DEF TokenInv
    <3>2. handed'[c] \in {0, 1}
      BY <2>3, <3>1
    <3>3. \A s \in Req : poll'[c][s] # "respond"
      BY <2>2, <3>1
    <3>4. QED
      BY <2>1, <3>1, <3>2, <3>3 DEF TokenInv
  <2>5. QED
    BY <2>1, <2>2, <2>3, <2>4 DEF TokenInv
<1>6. ASSUME NEW k \in Cmd,
             \/ Command(k) \/ LockOnboarding(k) \/ Check(k) \/ CreateAccount(k) \/ Provision(k)
             \/ SaveBot(k) \/ Clean(k) \/ CheckFails(k) \/ ProvisionFails(k) \/ SaveFails(k)
             \/ CompleteFails(k) \/ ResponseLost(k) \/ CleanFails(k)
      PROVE \A d \in Code : TokenInv(d)'
  <2>1. UNCHANGED <<code, poll, handed>>
    BY <1>6 DEF Command, LockOnboarding, Check, CreateAccount, Provision, SaveBot, Clean,
                CheckFails, ProvisionFails, SaveFails, CompleteFails, ResponseLost, CleanFails
  <2>2. QED
    BY <2>1, TokensKept
<1>7. ASSUME NEW k \in Cmd, CompleteInit(k) PROVE \A d \in Code : TokenInv(d)'
  <2>1. UNCHANGED <<poll, handed>>
    BY <1>7 DEF CompleteInit
  <2>2. \A d \in Code : code[d] = "fetched" => code'[d] = "fetched"
    BY <1>7 DEF CompleteInit, Claimable, TypeOK
  <2>3. QED
    BY <2>1, <2>2, TokensKept
<1>8. CASE BrokerCrash
  <2>1. UNCHANGED <<code, handed>> /\ \A c \in Code, r \in Req : poll'[c][r] = "idle"
    BY <1>8 DEF BrokerCrash
  <2>2. QED
    BY <2>1 DEF TokenInv
<1>9. QED
  BY <1>1, <1>2, <1>3, <1>4, <1>5, <1>6, <1>7, <1>8 DEF Next, Run

-----------------------------------------------------------------------------
(* Pairs *)

\* Once a bot's row is bound it stays so: the rollback never gets there.
LEMMA BoundStays ==
  ASSUME TypeOK, \A k \in Cmd : CommandInv(k), [Next]_vars, NEW k \in Cmd, row[k] = "bound"
  PROVE  row'[k] = "bound"
<1>1. stage[k] = "ok"
  BY DEF CommandInv, RowFits
<1>2. ASSUME NEW l \in Cmd, SaveBot(l) \/ CompleteInit(l) \/ Clean(l) PROVE row'[k] = "bound"
  <2>1. l # k
    BY <1>1, <1>2, CleaningIs DEF SaveBot, CompleteInit, Clean
  <2>2. QED
    BY <1>2, <2>1 DEF SaveBot, CompleteInit, Clean, store, TypeOK
<1>3. CASE UNCHANGED row
  BY <1>3
<1>4. QED
  BY <1>2, <1>3 DEF Next, Run, vars, store, StartInit, Expire, Poll, FetchInit, Respond,
     RespondFails, Command, LockOnboarding, Check, CreateAccount, Provision, CheckFails,
     ProvisionFails, SaveFails, CompleteFails, ResponseLost, CleanFails, BrokerCrash

\* A step that pairs nobody keeps what the pairs rest on.
LEMMA PairsKept ==
  ASSUME TypeOK, PairInv, pairs' = pairs,
         \A k \in Cmd : row[k] = "bound" => row'[k] = "bound",
         \A c \in Code : Claimed(c)' <=> Claimed(c),
         \A c \in Code : laptop'[c] = "paired" => laptop[c] = "paired" \/ Claimed(c)
  PROVE  PairInv'
<1>1. \A t \in pairs : t[1] \in Code /\ t[2] \in Cmd
  BY DEF TypeOK
<1>2. QED
  BY <1>1 DEF PairInv, CodeClaimedOnce

LEMMA PairInductive ==
  ASSUME TypeOK, TypeOK', \A k \in Cmd : CommandInv(k), \A c \in Code : TokenInv(c), PairInv,
         [Next]_vars
  PROVE  PairInv'
<1> USE BoundStays DEF store, polling
<1>1. CASE UNCHANGED vars
  BY <1>1, PairsKept DEF vars, Claimed
<1>2. ASSUME NEW c \in Code, StartInit(c) \/ Expire(c) PROVE PairInv'
  <2>1. /\ pairs' = pairs /\ \A d \in Code : Claimed(d)' <=> Claimed(d)
        /\ \A d \in Code : laptop'[d] = "paired" => laptop[d] = "paired"
    BY <1>2 DEF StartInit, Expire, Claimed, TypeOK
  <2>2. QED
    BY <2>1, PairsKept
<1>3. ASSUME NEW c \in Code, NEW r \in Req,
             Poll(c, r) \/ FetchInit(c, r) \/ Respond(c, r) \/ RespondFails(c, r)
      PROVE PairInv'
  <2>1. pairs' = pairs
    BY <1>3 DEF Poll, FetchInit, Respond, RespondFails
  <2>2. \A d \in Code : Claimed(d)' <=> Claimed(d)
    BY <1>3 DEF Poll, FetchInit, Respond, RespondFails, Claimed, TypeOK
  <2>3. \A d \in Code : laptop'[d] = "paired" => laptop[d] = "paired" \/ Claimed(d)
    <3>1. CASE Respond(c, r)
      <4>1. Claimed(c)
        BY <3>1 DEF Respond, TokenInv, Claimed
      <4>2. QED
        BY <3>1, <4>1 DEF Respond, Answer, TypeOK
    <3>2. CASE Poll(c, r) \/ FetchInit(c, r) \/ RespondFails(c, r)
      BY <3>2 DEF Poll, FetchInit, RespondFails, Answer, TypeOK
    <3>3. QED
      BY <1>3, <3>1, <3>2
  <2>4. QED
    BY <2>1, <2>2, <2>3, PairsKept
<1>4. ASSUME NEW k \in Cmd,
             \/ Command(k) \/ LockOnboarding(k) \/ Check(k) \/ CreateAccount(k) \/ Provision(k)
             \/ SaveBot(k) \/ Clean(k) \/ CheckFails(k) \/ ProvisionFails(k) \/ SaveFails(k)
             \/ CompleteFails(k) \/ ResponseLost(k) \/ CleanFails(k)
      PROVE PairInv'
  <2>1. UNCHANGED <<code, pairs, laptop>>
    BY <1>4 DEF Command, LockOnboarding, Check, CreateAccount, Provision, SaveBot, Clean,
                CheckFails, ProvisionFails, SaveFails, CompleteFails, ResponseLost, CleanFails
  <2>2. QED
    BY <2>1, PairsKept DEF Claimed
<1>5. ASSUME NEW k \in Cmd, CompleteInit(k) PROVE PairInv'
  <2>1. CASE Claimable(CodeOf[k])
    <3> DEFINE c == CodeOf[k]
    <3>1. c \in Code /\ ~Claimed(c)
      BY <1>5, <2>1 DEF CompleteInit, CommandInv, Claimable, Claimed
    <3>2. \A t \in pairs : t[1] # c /\ t[1] \in Code /\ t[2] \in Cmd
      BY <3>1 DEF PairInv, TypeOK
    <3>3. /\ pairs' = pairs \cup {<<c, k>>} /\ row'[k] = "bound" /\ laptop' = laptop
          /\ Claimed(c)' /\ \A d \in Code \ {c} : Claimed(d)' <=> Claimed(d)
      BY <1>5, <2>1, <3>1 DEF CompleteInit, Claimed, TypeOK
    <3> HIDE DEF c
    <3>4. \A t \in pairs' : Claimed(t[1])' /\ row'[t[2]] = "bound"
      BY <3>1, <3>2, <3>3 DEF PairInv
    <3>5. \A d \in Code : Claimed(d)' => \E l \in Cmd : <<d, l>> \in pairs'
      BY <3>3 DEF PairInv
    <3>6. \A d \in Code : laptop'[d] = "paired" => Claimed(d)'
      BY <3>3 DEF PairInv
    <3>7. CodeClaimedOnce'
      BY <3>2, <3>3 DEF PairInv, CodeClaimedOnce
    <3>8. QED
      BY <3>4, <3>5, <3>6, <3>7 DEF PairInv
  <2>2. CASE ~Claimable(CodeOf[k])
    <3>1. UNCHANGED <<code, pairs, laptop>>
      BY <1>5, <2>2 DEF CompleteInit
    <3>2. QED
      BY <3>1, PairsKept DEF Claimed
  <2>3. QED
    BY <2>1, <2>2
<1>6. CASE BrokerCrash
  <2>1. UNCHANGED <<code, pairs>> /\ \A c \in Code : laptop'[c] = "paired" => laptop[c] = "paired"
    BY <1>6 DEF BrokerCrash
  <2>2. QED
    BY <2>1, PairsKept DEF Claimed
<1>7. QED
  BY <1>1, <1>2, <1>3, <1>4, <1>5, <1>6 DEF Next, Run

-----------------------------------------------------------------------------
(* Theorems *)

LEMMA OnboardingInvInit == Init => OnboardingInv
<1> SUFFICES ASSUME Init PROVE OnboardingInv
  OBVIOUS
<1> USE OnboardingAssumption DEF Init
<1>1. TypeOK
  BY StagesAre DEF TypeOK, Complete, Hooks
<1>2. ASSUME NEW k \in Cmd PROVE CommandInv(k)
  BY DEF CommandInv, Holds, RowFits, CleanFits
<1>3. ASSUME NEW c \in Code PROVE TokenInv(c)
  BY DEF TokenInv
<1>4. PairInv
  BY DEF PairInv, CodeClaimedOnce, Claimed
<1>5. QED
  BY <1>1, <1>2, <1>3, <1>4 DEF OnboardingInv

LEMMA OnboardingInvInductive == OnboardingInv /\ [Next]_vars => OnboardingInv'
<1> SUFFICES ASSUME OnboardingInv, [Next]_vars PROVE OnboardingInv'
  OBVIOUS
<1>1. TypeOK'
  BY TypeInductive DEF OnboardingInv
<1>2. QED
  BY <1>1, CommandInductive, TokenInductive, PairInductive DEF OnboardingInv

LEMMA OnboardingInvHolds == Spec => []OnboardingInv
  BY OnboardingInvInit, OnboardingInvInductive, PTL DEF Spec

\* Every variable keeps its type, and a webhook is noted only for an account
\* that was made.
THEOREM OnboardingTypeCorrect == Spec => []TypeOK
<1>1. OnboardingInv => TypeOK
  BY DEF OnboardingInv
<1>2. QED
  BY <1>1, OnboardingInvHolds, PTL

\* store.FetchInit hands the harness token of a code out at most once, however
\* many polls overlap between its read and its update.
THEOREM TokenLeavesOnce == Spec => []TokenOnce
<1>1. OnboardingInv => TokenOnce
  BY DEF OnboardingInv, TokenInv, TokenOnce
<1>2. QED
  BY <1>1, OnboardingInvHolds, PTL

\* CompleteInit pairs a code with one bot only, whatever commands name it.
THEOREM CodePairsOnce == Spec => []CodeClaimedOnce
<1>1. OnboardingInv => CodeClaimedOnce
  BY DEF OnboardingInv, PairInv
<1>2. QED
  BY <1>1, OnboardingInvHolds, PTL

\* A row that is bound to a harness has its account and both webhooks, after
\* any failures, lost responses and crashes.
THEOREM BoundHasAll == Spec => []BoundIsComplete
<1>1. OnboardingInv => BoundIsComplete
  BY DEF OnboardingInv, CommandInv, RowFits, Holds, BoundIsComplete
<1>2. QED
  BY <1>1, OnboardingInvHolds, PTL

\* A laptop that was given its token has a harness in the store with a bot
\* bound to it.
THEOREM PairedWorks == Spec => []PairedIsUsable
<1>1. OnboardingInv => PairedIsUsable
  <2> SUFFICES ASSUME OnboardingInv, NEW c \in Code, laptop[c] = "paired"
               PROVE  \E k \in Cmd : <<c, k>> \in pairs /\ row[k] = "bound"
    BY DEF PairedIsUsable
  <2>1. PICK k \in Cmd : <<c, k>> \in pairs
    BY DEF OnboardingInv, PairInv
  <2>2. QED
    BY <2>1 DEF OnboardingInv, PairInv
<1>2. QED
  BY <1>1, OnboardingInvHolds, PTL

\* A command that reported an error left no account, webhook or row behind, as
\* long as no response was lost, the rollback worked and nothing crashed.
THEOREM RollbackIsComplete == Spec => []FailedLeavesNothing
<1>1. OnboardingInv => FailedLeavesNothing
  BY DEF OnboardingInv, CommandInv, CleanFits, FailedLeavesNothing
<1>2. QED
  BY <1>1, OnboardingInvHolds, PTL
=============================================================================
