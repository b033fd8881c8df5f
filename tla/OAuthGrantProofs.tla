-------------------------- MODULE OAuthGrantProofs --------------------------
(***************************************************************************)
(* Theorems about OAuthGrant, for any administrators, teams, exchanges and *)
(* failures.                                                               *)
(***************************************************************************)
EXTENDS OAuthGrant, FiniteSetTheorems, WellFoundedInduction, TLAPS

-----------------------------------------------------------------------------
(* The inductive invariant *)

\* The stages of an operation that holds the newest grant.
Holding == {"whoami", "save", "team", "install", "saverow", "undo", "resave"}

\* What the operation under way knows: the newest grant or, before Client has
\* refreshed it, the newest copy; the rows that saveCredentials still has to
\* write; and the command it made.
OpInv ==
  /\ op.stage = "idle" => op = Idle
  /\ op.stage # "idle" => op.user \in User /\ op.team \in Team
  /\ op.stage \in Holding => op.gen = current[op.user] /\ op.gen >= 1
  /\ op.todo \subseteq Rows(op.user)
  /\ op.stage \notin {"save", "resave"} => op.todo = {}
  /\ op.stage = "chosen" => /\ op.gen \in {copy[t] : t \in Rows(op.user)}
                            /\ \A t \in Rows(op.user) : copy[t] <= op.gen
  /\ op.stage = "undo" => op.created
  /\ op.created => /\ op.stage \in {"saverow", "undo"}
                   /\ remote[op.team] = {<<op.user, op.gen>>}

\* The rows of u that were left behind when the grant was last replaced.
Behind(u) == {t \in Rows(u) \ op.todo : copy[t] # current[u]}

\* Each of them cost a failed write.
GrantInv ==
  hard = 0 => \A u \in User :
    (op.stage = "whoami" /\ op.user = u) \/ Cardinality(Behind(u)) <= failures

\* The one command the rows need not know is the one just made.
CommandInv ==
  hard = 0 => \A t \in Team : \A id \in Unknown(t) :
    id = Theirs \/ (op.created /\ op.team = t /\ id = <<op.user, op.gen>>)

OAuthInv == TypeOK /\ OpInv /\ GrantInv /\ CommandInv

-----------------------------------------------------------------------------
(* Lemmas about numbers and records *)

LEMMA Smallest ==
  ASSUME NEW T, T \subseteq Nat, T # {}
  PROVE  \E m \in T : \A y \in T : m <= y
<1>1. \A x, y \in Nat : y < x => <<y, x>> \in OpToRel(<, Nat)
  BY DEF OpToRel
<1>2. PICK m \in T : \A y \in T : ~(<<y, m>> \in OpToRel(<, Nat))
  BY NatLessThanWellFounded, WFMin, Zenon
<1>3. \A y \in T : ~(y < m)
  BY <1>1, <1>2, Zenon
<1>4. QED
  BY <1>3

LEMMA MaxIs ==
  ASSUME NEW n \in Nat, NEW S, S \subseteq 0 .. n, S # {}
  PROVE  Max(S) \in S /\ \A y \in S : y <= Max(S)
<1> DEFINE T == {n - x : x \in S}
<1>1. \A x \in S : n - x \in Nat /\ x \in Nat
  OBVIOUS
<1>2. T \subseteq Nat /\ T # {}
  BY <1>1
<1> HIDE DEF T
<1>3. PICK m \in T : \A y \in T : m <= y
  BY <1>2, Smallest
<1>4. PICK x \in S : m = n - x
  BY <1>3 DEF T
<1>5. \A y \in S : x >= y
  BY <1>1, <1>3, <1>4 DEF T
<1>6. \E z \in S : \A y \in S : z >= y
  BY <1>5
<1>7. Max(S) \in S /\ \A y \in S : Max(S) >= y
  BY <1>6 DEF Max
<1>8. QED
  BY <1>1, <1>7

OpStage == {"idle", "whoami", "save", "team", "install", "saverow", "undo", "chosen", "resave"}
Op == [stage : OpStage, user : User \cup {NoUser}, team : Team \cup {NoUser}, gen : 0 .. MaxGen,
       todo : SUBSET Team, bad : BOOLEAN, created : BOOLEAN]

LEMMA Types == TypeOK <=>
  /\ current \in [User -> 0 .. MaxGen]
  /\ owner \in [Team -> User \cup {NoUser}]
  /\ copy \in [Team -> 0 .. MaxGen]
  /\ \A t \in Team : owner[t] # NoUser => copy[t] \in 1 .. current[owner[t]]
  /\ command \in [Team -> CommandId \ {Theirs}]
  /\ remote \in [Team -> SUBSET (CommandId \ {NoCommand})]
  /\ op \in Op
  /\ failures \in 0 .. MaxFailures /\ hard \in 0 .. MaxHard
  BY DEF TypeOK, Op, OpStage

LEMMA OpWith ==
  ASSUME NEW o \in Op, NEW s \in OpStage, NEW d \in SUBSET Team
  PROVE  /\ [o EXCEPT !.stage = s] \in Op
         /\ [o EXCEPT !.stage = s, !.todo = d] \in Op
         /\ [o EXCEPT !.todo = d] \in Op
         /\ [o EXCEPT !.todo = d, !.bad = TRUE] \in Op
         /\ [o EXCEPT !.stage = s, !.created = TRUE] \in Op
  BY DEF Op

LEMMA IdleIs ==
  /\ Idle \in Op /\ Idle.stage = "idle" /\ Idle.user = NoUser /\ Idle.todo = {} /\ ~Idle.created
  BY GrantAssumption DEF Idle, Op, OpStage

LEMMA Ids ==
  /\ \A u \in User, n \in 1 .. MaxGen :
       <<u, n>> \in CommandId /\ <<u, n>> # NoCommand /\ <<u, n>> # Theirs
  /\ NoCommand \in CommandId /\ Theirs \in CommandId /\ Theirs # NoCommand
  BY GrantAssumption DEF CommandId, NoCommand, Theirs

\* Client takes the newest copy of the installer.
LEMMA NewestIs ==
  ASSUME TypeOK, NEW t \in Team, owner[t] # NoUser
  PROVE  /\ owner[t] \in User /\ Newest(t) \in 0 .. MaxGen
         /\ Newest(t) \in {copy[s] : s \in Rows(owner[t])}
         /\ \A s \in Rows(owner[t]) : copy[s] <= Newest(t)
<1> DEFINE S == {copy[s] : s \in Rows(owner[t])}
<1>1. t \in Rows(owner[t]) /\ owner[t] \in User
  BY DEF TypeOK, Rows
<1>2. S \subseteq 0 .. MaxGen /\ S # {}
  BY <1>1 DEF TypeOK, Rows
<1>3. Max(S) \in S /\ \A y \in S : y <= Max(S)
  <2> HIDE DEF S
  <2>1. QED
    BY <1>2, MaxIs, GrantAssumption
<1>4. Newest(t) = Max(S)
  BY DEF Newest
<1>5. \A s \in Rows(owner[t]) : copy[s] \in S
  OBVIOUS
<1> HIDE DEF S
<1>6. QED
  BY <1>1, <1>2, <1>3, <1>4, <1>5 DEF S

\* Steps of the operation that change neither Mattermost nor the rows.
Quiet ==
  \/ WhoAmI \/ WhoAmIFails \/ SaveAborts \/ Saved \/ CheckTeam \/ InstallFails
  \/ Collide \/ Reuse \/ SaveRowFails \/ DeleteFails \/ Use \/ BrokerCrash
  \/ \E t \in Team : SaveFails(t) \/ Client(t)

LEMMA QuietKeeps ==
  ASSUME Quiet
  PROVE  UNCHANGED <<current, owner, copy, command, remote>>
  BY DEF Quiet, WhoAmI, WhoAmIFails, SaveAborts, Saved, CheckTeam, InstallFails, Collide, Reuse,
     SaveRowFails, DeleteFails, Use, BrokerCrash, SaveFails, Client, rows

LEMMA FaultTypes ==
  ASSUME TypeOK, [Next]_vars
  PROVE  failures' \in 0 .. MaxFailures /\ hard' \in 0 .. MaxHard
         /\ failures <= failures' /\ (hard' = 0 => hard = 0)
<1>1. failures \in 0 .. MaxFailures /\ hard \in 0 .. MaxHard /\ MaxFailures \in Nat /\ MaxHard \in Nat
  BY GrantAssumption DEF TypeOK
<1>2. Failure \/ HardFault \/ NoFault
  BY DEF Next, vars, NoFault, Authorize, Save, SaveFails, Client, OtherCommand, WhoAmI, WhoAmIFails,
     SaveAborts, Saved, CheckTeam, InstallFails, Collide, Reuse, CreateCommand, SaveRow,
     SaveRowFails, DeleteCommand, DeleteFails, Use, Refresh, RefreshLost, BrokerCrash
<1>3. QED
  BY <1>1, <1>2 DEF Failure, HardFault, NoFault

LEMMA OpType ==
  ASSUME TypeOK, OpInv, [Next]_vars
  PROVE  op' \in Op
<1> USE IdleIs, GrantAssumption DEF OpStage
<1>0. op \in Op
  BY Types
<1>1. CASE op' = op \/ op' = Idle
  BY <1>0, <1>1
<1>2. ASSUME NEW u \in User, NEW t \in Team, Authorize(u, t) PROVE op' \in Op
  <2>1. current[u] + 1 \in 0 .. MaxGen
    BY <1>2 DEF Authorize, Rotate, TypeOK
  <2>2. QED
    BY <1>2, <2>1 DEF Authorize, Op
<1>3. ASSUME NEW t \in Team, Save(t) \/ SaveFails(t) PROVE op' \in Op
  <2>1. op' = [op EXCEPT !.todo = op.todo \ {t}] \/ op' = [op EXCEPT !.todo = op.todo \ {t}, !.bad = TRUE]
    BY <1>3 DEF Save, SaveFails
  <2>2. op.todo \ {t} \in SUBSET Team
    BY <1>0 DEF Op
  <2>3. QED
    BY <1>0, <2>1, <2>2, OpWith
<1>4. ASSUME NEW t \in Team, Client(t) PROVE op' \in Op
  <2>1. owner[t] \in User /\ Newest(t) \in 0 .. MaxGen
    BY <1>4, NewestIs DEF Client
  <2>2. QED
    BY <1>4, <2>1 DEF Client, Op
<1>5. CASE WhoAmI \/ Saved \/ CheckTeam \/ Reuse \/ CreateCommand \/ SaveRowFails
  <2>1. CASE WhoAmI
    <3>1. op' = [op EXCEPT !.stage = "save", !.todo = Rows(op.user)] /\ Rows(op.user) \in SUBSET Team
      BY <2>1 DEF WhoAmI, Rows
    <3>2. QED
      BY <1>0, <3>1, OpWith
  <2>2. CASE Saved \/ CheckTeam \/ Reuse \/ SaveRowFails
    <3>1. op' = Idle \/ \E s \in OpStage : op' = [op EXCEPT !.stage = s]
      BY <2>2 DEF Saved, CheckTeam, Reuse, SaveRowFails
    <3>2. QED
      BY <1>0, <1>1, <3>1, OpWith
  <2>3. CASE CreateCommand
    <3>1. op' = [op EXCEPT !.stage = "saverow", !.created = TRUE]
      BY <2>3 DEF CreateCommand
    <3>2. QED
      BY <1>0, <3>1, OpWith
  <2>4. QED
    BY <1>5, <2>1, <2>2, <2>3
<1>6. CASE Refresh
  <2>1. op.user \in User /\ op.gen + 1 \in 0 .. MaxGen
    BY <1>6 DEF Refresh, Rotate, TypeOK, OpInv
  <2>2. QED
    <3>1. op' = [op EXCEPT !.stage = "resave", !.gen = op.gen + 1, !.todo = Rows(op.user)]
          /\ Rows(op.user) \in SUBSET Team
      BY <1>6 DEF Refresh, Rows
    <3>2. QED
      BY <1>0, <2>1, <3>1 DEF Op
<1>7. QED
  BY <1>1, <1>2, <1>3, <1>4, <1>5, <1>6
  DEF Next, vars, OtherCommand, WhoAmIFails, SaveAborts, InstallFails, Collide, SaveRow,
      DeleteCommand, DeleteFails, Use, RefreshLost, BrokerCrash

\* The exchange of a grant.
LEMMA Rotates ==
  ASSUME TypeOK, NEW u \in User, Rotate(u)
  PROVE  /\ current' \in [User -> 0 .. MaxGen]
         /\ current'[u] = current[u] + 1 /\ current[u] \in Nat
         /\ \A v \in User : v # u => current'[v] = current[v]
         /\ \A v \in User : current[v] <= current'[v] /\ current[v] \in Nat /\ current'[v] \in Nat
  BY GrantAssumption DEF TypeOK, Rotate

LEMMA TypeStep ==
  ASSUME TypeOK, OpInv, [Next]_vars
  PROVE  TypeOK'
<1> USE GrantAssumption
<1>0. /\ current \in [User -> 0 .. MaxGen] /\ owner \in [Team -> User \cup {NoUser}]
      /\ copy \in [Team -> 0 .. MaxGen]
      /\ \A t \in Team : owner[t] # NoUser => copy[t] \in 1 .. current[owner[t]]
      /\ command \in [Team -> CommandId \ {Theirs}]
      /\ remote \in [Team -> SUBSET (CommandId \ {NoCommand})] /\ op \in Op
  BY Types
<1>1. op' \in Op /\ failures' \in 0 .. MaxFailures /\ hard' \in 0 .. MaxHard
  BY OpType, FaultTypes
<1>2. CASE Quiet \/ UNCHANGED vars
  <2>1. UNCHANGED <<current, owner, copy, command, remote>>
    BY <1>2, QuietKeeps DEF vars
  <2>2. QED
    BY <1>0, <1>1, <2>1, Types DEF TypeOK, Op, OpStage
<1>3. ASSUME NEW u \in User, Rotate(u), UNCHANGED <<owner, copy, command, remote>> PROVE TypeOK'
  <2>1. ASSUME NEW t \in Team, owner[t] # NoUser PROVE copy[t] \in 1 .. current'[owner[t]]
    <3>1. copy[t] \in 1 .. current[owner[t]] /\ owner[t] \in User
      BY <1>0, <2>1
    <3>2. current[owner[t]] <= current'[owner[t]] /\ current[owner[t]] \in Nat
          /\ current'[owner[t]] \in Nat
      BY <1>3, <3>1, Rotates
    <3>3. QED
      BY <3>1, <3>2
  <2>2. QED
    BY <1>0, <1>1, <1>3, <2>1, Rotates DEF TypeOK, Op, OpStage
<1>4. ASSUME NEW u \in User, NEW t \in Team, Authorize(u, t) PROVE TypeOK'
  BY <1>3, <1>4 DEF Authorize, rows
<1>5. CASE Refresh \/ RefreshLost
  <2>1. op.user \in User /\ Rotate(op.user) /\ UNCHANGED <<owner, copy, command, remote>>
    BY <1>5 DEF Refresh, RefreshLost, OpInv, rows
  <2>2. QED
    BY <1>3, <2>1
<1>6. ASSUME NEW t \in Team, Save(t) PROVE TypeOK'
  <2>1. /\ t \in Rows(op.user) /\ op.user \in User /\ op.gen = current[op.user] /\ op.gen >= 1
        /\ copy' = [copy EXCEPT ![t] = op.gen] /\ op.gen \in 0 .. MaxGen
        /\ UNCHANGED <<current, owner, command, remote>>
    BY <1>0, <1>6 DEF Save, OpInv, Holding, Op
  <2>2. \A s \in Team : owner[s] # NoUser => copy'[s] \in 1 .. current[owner[s]]
    BY <1>0, <2>1 DEF Rows
  <2>3. copy' \in [Team -> 0 .. MaxGen]
    BY <1>0, <2>1
  <2>4. QED
    BY <1>0, <1>1, <2>1, <2>2, <2>3 DEF TypeOK, Op, OpStage
<1>7. CASE SaveRow
  <2>1. /\ op.user \in User /\ op.team \in Team /\ op.gen = current[op.user] /\ op.gen >= 1
        /\ op.gen \in 0 .. MaxGen
    BY <1>0, <1>7 DEF SaveRow, OpInv, Holding, Op
  <2>2. <<op.user, op.gen>> \in CommandId \ {Theirs}
    BY <2>1, Ids
  <2>3. /\ owner' = [owner EXCEPT ![op.team] = op.user]
        /\ copy' = [copy EXCEPT ![op.team] = op.gen]
        /\ command' = [command EXCEPT ![op.team] = IF op.created THEN <<op.user, op.gen>> ELSE @]
        /\ UNCHANGED <<current, remote>>
    BY <1>7 DEF SaveRow
  <2>4. owner' \in [Team -> User \cup {NoUser}] /\ copy' \in [Team -> 0 .. MaxGen]
    BY <1>0, <2>1, <2>3
  <2>5. command' \in [Team -> CommandId \ {Theirs}]
    BY <1>0, <2>1, <2>2, <2>3
  <2>6. ASSUME NEW t \in Team, owner'[t] # NoUser PROVE copy'[t] \in 1 .. current[owner'[t]]
    <3>1. CASE t = op.team
      <4>1. owner'[t] = op.user /\ copy'[t] = current[op.user]
        BY <1>0, <2>1, <2>3, <3>1
      <4>2. QED
        BY <2>1, <4>1
    <3>2. CASE t # op.team
      <4>1. owner'[t] = owner[t] /\ copy'[t] = copy[t]
        BY <1>0, <2>1, <2>3, <3>2
      <4>2. QED
        BY <1>0, <2>6, <4>1
    <3>3. QED
      BY <3>1, <3>2
  <2>7. QED
    BY <1>0, <1>1, <2>3, <2>4, <2>5, <2>6 DEF TypeOK, Op, OpStage
<1>8. CASE CreateCommand \/ DeleteCommand
  <2>1. /\ op.user \in User /\ op.team \in Team /\ op.gen >= 1 /\ op.gen \in 0 .. MaxGen
        /\ UNCHANGED <<current, owner, copy, command>>
    BY <1>0, <1>8 DEF CreateCommand, DeleteCommand, OpInv, Holding, Op, rows
  <2>2. <<op.user, op.gen>> \in CommandId \ {NoCommand}
    BY <2>1, Ids
  <2>3. \/ remote' = [remote EXCEPT ![op.team] = {<<op.user, op.gen>>}]
        \/ remote' = [remote EXCEPT ![op.team] = @ \ {<<op.user, op.gen>>}]
    BY <1>8 DEF CreateCommand, DeleteCommand
  <2>4. remote' \in [Team -> SUBSET (CommandId \ {NoCommand})]
    BY <1>0, <2>1, <2>2, <2>3
  <2>5. QED
    BY <1>0, <1>1, <2>1, <2>4 DEF TypeOK, Op, OpStage
<1>9. ASSUME NEW t \in Team, OtherCommand(t) PROVE TypeOK'
  <2>1. remote' = [remote EXCEPT ![t] = {Theirs}] /\ UNCHANGED <<current, owner, copy, command>>
    BY <1>9 DEF OtherCommand, rows
  <2>2. remote' \in [Team -> SUBSET (CommandId \ {NoCommand})]
    BY <1>0, <2>1, Ids
  <2>3. QED
    BY <1>0, <1>1, <2>1, <2>2 DEF TypeOK, Op, OpStage
<1>10. QED
  BY <1>2, <1>4, <1>5, <1>6, <1>7, <1>8, <1>9 DEF Next, Quiet

-----------------------------------------------------------------------------
(* The operation under way *)

LEMMA EndsIdle ==
  ASSUME op' = Idle
  PROVE  OpInv'
<1>1. op'.stage = "idle" /\ op'.todo = {} /\ ~op'.created
  BY IdleIs
<1>2. QED
  BY <1>1 DEF OpInv, Holding

\* The parts of OpInv, for an operation that goes on.
LEMMA OpGoesOn ==
  ASSUME op'.stage # "idle", op'.user \in User, op'.team \in Team,
         op'.stage \in Holding => op'.gen = current'[op'.user] /\ op'.gen >= 1,
         op'.todo \subseteq Rows(op.user)',
         op'.stage \notin {"save", "resave"} => op'.todo = {},
         op'.stage # "chosen",
         op'.stage = "undo" => op'.created,
         op'.created => /\ op'.stage \in {"saverow", "undo"}
                        /\ remote'[op'.team] = {<<op'.user, op'.gen>>}
  PROVE  OpInv'
  BY DEF OpInv

LEMMA OpStep ==
  ASSUME TypeOK, OpInv, [Next]_vars
  PROVE  OpInv'
<1> USE DEF Holding
<1>0. /\ op \in Op /\ remote \in [Team -> SUBSET (CommandId \ {NoCommand})]
      /\ current \in [User -> 0 .. MaxGen]
  BY Types
<1>1. CASE UNCHANGED vars
  BY <1>1 DEF vars, OpInv, Rows
<1>2. CASE op' = Idle
  BY <1>2, EndsIdle
<1>3. ASSUME NEW u \in User, NEW t \in Team, Authorize(u, t) PROVE OpInv'
  <2>1. /\ op'.stage = "whoami" /\ op'.user = u /\ op'.team = t /\ op'.gen = current[u] + 1
        /\ op'.todo = {} /\ ~op'.created
    BY <1>3 DEF Authorize, Idle
  <2>2. current'[u] = current[u] + 1 /\ current[u] \in Nat
    BY <1>3, Rotates DEF Authorize
  <2>3. QED
    BY <2>1, <2>2, OpGoesOn
<1>4. ASSUME NEW t \in Team, Save(t) \/ SaveFails(t) PROVE OpInv'
  <2>1. /\ op'.stage = op.stage /\ op'.user = op.user /\ op'.team = op.team /\ op'.gen = op.gen
        /\ op'.todo = op.todo \ {t} /\ op'.created = op.created
        /\ op.stage \in {"save", "resave"} /\ UNCHANGED <<current, owner>>
    BY <1>0, <1>4 DEF Save, SaveFails, Op, rows
  <2>2. /\ op.user \in User /\ op.team \in Team /\ op.gen = current[op.user] /\ op.gen >= 1
        /\ op.todo \subseteq Rows(op.user) /\ ~op.created
    BY <2>1 DEF OpInv
  <2>3. Rows(op.user)' = Rows(op.user)
    BY <2>1 DEF Rows
  <2>4. QED
    BY <2>1, <2>2, <2>3, OpGoesOn
<1>5. ASSUME NEW t \in Team, Client(t) PROVE OpInv'
  <2>1. /\ op'.stage = "chosen" /\ op'.user = owner[t] /\ op'.team = t /\ op'.gen = Newest(t)
        /\ op'.todo = {} /\ ~op'.created /\ UNCHANGED <<owner, copy>>
    BY <1>5 DEF Client, Idle, rows
  <2>2. /\ owner[t] \in User /\ Newest(t) \in {copy[s] : s \in Rows(owner[t])}
        /\ \A s \in Rows(owner[t]) : copy[s] <= Newest(t)
    BY <1>5, NewestIs DEF Client
  <2>3. Rows(op.user)' = Rows(owner[t])
    BY <2>1 DEF Rows
  <2>4. QED
    BY <2>1, <2>2, <2>3 DEF OpInv
<1>6. CASE WhoAmI
  <2>1. /\ op'.stage = "save" /\ op'.user = op.user /\ op'.team = op.team /\ op'.gen = op.gen
        /\ op'.todo = Rows(op.user) /\ op'.created = op.created
        /\ op.stage = "whoami" /\ UNCHANGED <<current, owner>>
    BY <1>0, <1>6 DEF WhoAmI, Op, rows
  <2>2. /\ op.user \in User /\ op.team \in Team /\ op.gen = current[op.user] /\ op.gen >= 1
        /\ ~op.created
    BY <2>1 DEF OpInv
  <2>3. Rows(op.user)' = Rows(op.user)
    BY <2>1 DEF Rows
  <2>4. QED
    BY <2>1, <2>2, <2>3, OpGoesOn
<1>7. CASE (Saved /\ op' # Idle) \/ CheckTeam \/ Reuse
  <2>1. /\ op'.stage \in {"team", "install", "saverow"} /\ op'.user = op.user /\ op'.team = op.team
        /\ op'.gen = op.gen /\ op'.todo = op.todo /\ op'.created = op.created
        /\ op.stage \in {"save", "team", "install"} /\ UNCHANGED <<current, owner>>
        /\ op.stage = "save" => op.todo = {}
    BY <1>0, <1>7 DEF Saved, CheckTeam, Reuse, Op, rows
  <2>2. /\ op.user \in User /\ op.team \in Team /\ op.gen = current[op.user] /\ op.gen >= 1
        /\ ~op.created /\ op.todo = {}
    BY <2>1 DEF OpInv
  <2>3. QED
    BY <2>1, <2>2, OpGoesOn
<1>8. CASE CreateCommand
  <2>1. /\ op'.stage = "saverow" /\ op'.user = op.user /\ op'.team = op.team /\ op'.gen = op.gen
        /\ op'.todo = op.todo /\ op'.created /\ op.stage = "install" /\ UNCHANGED current
        /\ remote' = [remote EXCEPT ![op.team] = {<<op.user, op.gen>>}]
    BY <1>0, <1>8 DEF CreateCommand, Op
  <2>2. /\ op.user \in User /\ op.team \in Team /\ op.gen = current[op.user] /\ op.gen >= 1
        /\ op.todo = {}
    BY <2>1 DEF OpInv
  <2>3. remote'[op.team] = {<<op.user, op.gen>>}
    BY <1>0, <2>1, <2>2
  <2>4. QED
    BY <2>1, <2>2, <2>3, OpGoesOn
<1>9. CASE SaveRowFails /\ op' # Idle
  <2>1. /\ op'.stage = "undo" /\ op'.user = op.user /\ op'.team = op.team /\ op'.gen = op.gen
        /\ op'.todo = op.todo /\ op'.created = op.created /\ op.created
        /\ op.stage = "saverow" /\ UNCHANGED <<current, remote>>
    BY <1>0, <1>9 DEF SaveRowFails, Op
  <2>2. /\ op.user \in User /\ op.team \in Team /\ op.gen = current[op.user] /\ op.gen >= 1
        /\ op.todo = {} /\ remote[op.team] = {<<op.user, op.gen>>}
    BY <2>1 DEF OpInv
  <2>3. QED
    BY <2>1, <2>2, OpGoesOn
<1>10. CASE Refresh
  <2>1. /\ op'.stage = "resave" /\ op'.user = op.user /\ op'.team = op.team /\ op'.gen = op.gen + 1
        /\ op'.todo = Rows(op.user) /\ op'.created = op.created
        /\ op.stage = "chosen" /\ UNCHANGED owner /\ Rotate(op.user) /\ op.gen = current[op.user]
    BY <1>0, <1>10 DEF Refresh, Op, rows
  <2>2. op.user \in User /\ op.team \in Team /\ ~op.created
    BY <2>1 DEF OpInv
  <2>3. Rows(op.user)' = Rows(op.user)
    BY <2>1 DEF Rows
  <2>4. current'[op.user] = current[op.user] + 1 /\ current[op.user] \in Nat
    BY <2>1, <2>2, Rotates
  <2>5. QED
    BY <2>1, <2>2, <2>3, <2>4, OpGoesOn
<1>11. ASSUME NEW t \in Team, OtherCommand(t) PROVE OpInv'
  <2>1. UNCHANGED <<current, owner, copy, op>> /\ remote[t] = {}
        /\ remote' = [remote EXCEPT ![t] = {Theirs}]
    BY <1>11 DEF OtherCommand, rows
  <2>2. op.created => remote'[op.team] = remote[op.team]
    BY <1>0, <2>1 DEF OpInv
  <2>3. QED
    BY <2>1, <2>2 DEF OpInv, Rows
<1>12. QED
  BY <1>1, <1>2, <1>3, <1>4, <1>5, <1>6, <1>7, <1>8, <1>9, <1>10, <1>11
  DEF Next, WhoAmIFails, SaveAborts, InstallFails, Collide, SaveRow, DeleteCommand, DeleteFails,
      Use, RefreshLost, BrokerCrash

-----------------------------------------------------------------------------
(* The grant *)

LEMMA BehindFinite ==
  \A u : /\ IsFiniteSet(Behind(u)) /\ Cardinality(Behind(u)) \in Nat
         /\ IsFiniteSet(Rows(u)) /\ Cardinality(Rows(u)) \in Nat
<1>1. ASSUME NEW u PROVE IsFiniteSet(Behind(u)) /\ IsFiniteSet(Rows(u))
  <2>1. Behind(u) \subseteq Team /\ Rows(u) \subseteq Team
    BY DEF Behind, Rows
  <2>2. QED
    BY <2>1, GrantAssumption, FS_Subset
<1>2. QED
  BY <1>1, FS_CardinalityType

\* Nobody else fell behind.
LEMMA NoMoreBehind ==
  ASSUME TypeOK, [Next]_vars, NEW u \in User, Cardinality(Behind(u)) <= failures,
         Behind(u)' \subseteq Behind(u)
  PROVE  Cardinality(Behind(u)') <= failures'
<1>1. Cardinality(Behind(u)') <= Cardinality(Behind(u)) /\ Cardinality(Behind(u)') \in Nat
  BY BehindFinite, FS_Subset, FS_CardinalityType
<1>2. failures \in Nat /\ failures' \in Nat /\ failures <= failures'
  BY FaultTypes, GrantAssumption DEF TypeOK
<1>3. QED
  BY <1>1, <1>2, BehindFinite

LEMMA GrantStep ==
  ASSUME TypeOK, OpInv, GrantInv, [Next]_vars
  PROVE  GrantInv'
<1>0. /\ op \in Op /\ current \in [User -> 0 .. MaxGen] /\ owner \in [Team -> User \cup {NoUser}]
      /\ copy \in [Team -> 0 .. MaxGen]
  BY Types
<1>1. SUFFICES ASSUME hard' = 0, NEW u \in User, ~(op'.stage = "whoami" /\ op'.user = u)
               PROVE  Cardinality(Behind(u)') <= failures'
  BY DEF GrantInv
<1>2. hard = 0 /\ hard \in Nat /\ failures \in Nat /\ ~HardFault
  <2>1. hard = 0 /\ hard \in Nat /\ failures \in Nat
    BY <1>1, FaultTypes, GrantAssumption DEF TypeOK
  <2>2. QED
    BY <1>1, <2>1 DEF HardFault
<1>3. ~(op.stage = "whoami" /\ op.user = u) => Cardinality(Behind(u)) <= failures
  BY <1>2 DEF GrantInv
<1>4. ASSUME ~(op.stage = "whoami" /\ op.user = u), Behind(u)' \subseteq Behind(u)
      PROVE  Cardinality(Behind(u)') <= failures'
  BY <1>3, <1>4, NoMoreBehind
<1>5. CASE /\ UNCHANGED <<current, owner, copy>> /\ op'.todo = op.todo
           /\ ~(op.stage = "whoami" /\ op.user = u)
  <2>1. Behind(u)' = Behind(u)
    BY <1>5 DEF Behind, Rows
  <2>2. QED
    BY <1>4, <1>5, <2>1
<1>6. CASE UNCHANGED vars
  BY <1>1, <1>5, <1>6 DEF vars
<1>7. ASSUME NEW v \in User, NEW t \in Team, Authorize(v, t)
      PROVE  Cardinality(Behind(u)') <= failures'
  <2>1. /\ op'.stage = "whoami" /\ op'.user = v /\ op'.todo = {} /\ op = Idle
        /\ Rotate(v) /\ UNCHANGED <<owner, copy>>
    BY <1>7 DEF Authorize, Idle, rows
  <2>2. v # u /\ op.stage = "idle" /\ op.todo = {}
    BY <1>1, <2>1, IdleIs
  <2>3. current'[u] = current[u]
    BY <2>1, <2>2, Rotates
  <2>4. Behind(u)' = Behind(u)
    BY <2>1, <2>2, <2>3 DEF Behind, Rows
  <2>5. QED
    BY <1>4, <2>2, <2>4
<1>8. CASE WhoAmI
  <2>1. /\ op'.todo = Rows(op.user) /\ op.stage = "whoami" /\ UNCHANGED <<current, owner, copy>>
    BY <1>0, <1>8 DEF WhoAmI, Op, rows
  <2>2. CASE op.user = u
    <3>1. Behind(u)' = {}
      BY <2>1, <2>2 DEF Behind, Rows
    <3>2. Cardinality(Behind(u)') = 0
      BY <3>1, FS_EmptySet
    <3>3. failures' \in Nat
      BY FaultTypes, GrantAssumption
    <3>4. QED
      BY <3>2, <3>3
  <2>3. CASE op.user # u
    <3>1. Behind(u)' \subseteq Behind(u)
      <4>1. op.todo = {}
        BY <2>1 DEF OpInv
      <4>2. QED
        BY <2>1, <4>1 DEF Behind, Rows
    <3>2. QED
      BY <1>4, <2>3, <3>1
  <2>4. QED
    BY <2>2, <2>3
<1>9. ASSUME NEW t \in Team, Save(t) PROVE Cardinality(Behind(u)') <= failures'
  <2>1. /\ copy' = [copy EXCEPT ![t] = op.gen] /\ op'.todo = op.todo \ {t}
        /\ op.stage \in {"save", "resave"} /\ t \in op.todo /\ UNCHANGED <<current, owner>>
    BY <1>0, <1>9 DEF Save, Op
  <2>2. op.gen = current[op.user] /\ owner[t] = op.user
    BY <2>1 DEF OpInv, Holding, Rows
  <2>3. ASSUME NEW s \in Behind(u)' PROVE s \in Behind(u)
    <3>1. s \in Team /\ owner[s] = u /\ s \notin op.todo \ {t} /\ copy'[s] # current[u]
      BY <2>1 DEF Behind, Rows
    <3>2. s # t
      BY <1>0, <2>1, <2>2, <3>1
    <3>3. copy'[s] = copy[s]
      BY <1>0, <2>1, <3>1, <3>2
    <3>4. QED
      BY <3>1, <3>2, <3>3 DEF Behind, Rows
  <2>4. QED
    BY <1>4, <2>1, <2>3
<1>10. ASSUME NEW t \in Team, SaveFails(t) PROVE Cardinality(Behind(u)') <= failures'
  <2>1. /\ op'.todo = op.todo \ {t} /\ failures' = failures + 1
        /\ op.stage \in {"save", "resave"} /\ t \in op.todo /\ UNCHANGED <<current, owner, copy>>
    BY <1>0, <1>10 DEF SaveFails, Op, rows, Failure
  <2>2. Behind(u)' \subseteq Behind(u) \cup {t}
    BY <2>1 DEF Behind, Rows
  <2>3. /\ IsFiniteSet(Behind(u) \cup {t}) /\ Cardinality(Behind(u) \cup {t}) \in Nat
        /\ Cardinality(Behind(u) \cup {t}) <= Cardinality(Behind(u)) + 1
    <3>1. /\ IsFiniteSet(Behind(u) \cup {t})
          /\ \/ Cardinality(Behind(u) \cup {t}) = Cardinality(Behind(u))
             \/ Cardinality(Behind(u) \cup {t}) = Cardinality(Behind(u)) + 1
      BY BehindFinite, FS_AddElement
    <3>2. QED
      BY <3>1, BehindFinite
  <2>4. Cardinality(Behind(u)') <= Cardinality(Behind(u) \cup {t}) /\ Cardinality(Behind(u)') \in Nat
    BY <2>2, <2>3, FS_Subset, FS_CardinalityType
  <2>5. Cardinality(Behind(u)) <= failures
    BY <1>3, <2>1
  <2>6. QED
    BY <1>2, <2>1, <2>3, <2>4, <2>5, BehindFinite
<1>11. CASE SaveRow
  <2>1. /\ owner' = [owner EXCEPT ![op.team] = op.user] /\ copy' = [copy EXCEPT ![op.team] = op.gen]
        /\ op' = Idle /\ op.stage = "saverow" /\ UNCHANGED current
    BY <1>11 DEF SaveRow
  <2>2. op.team \in Team /\ op.gen = current[op.user] /\ op.todo = {}
    BY <2>1 DEF OpInv, Holding
  <2>3. ASSUME NEW s \in Behind(u)' PROVE s \in Behind(u)
    <3>1. s \in Team /\ owner'[s] = u /\ copy'[s] # current[u]
      BY <2>1 DEF Behind, Rows
    <3>2. s # op.team
      BY <1>0, <2>1, <2>2, <3>1
    <3>3. owner'[s] = owner[s] /\ copy'[s] = copy[s]
      BY <1>0, <2>1, <3>1, <3>2
    <3>4. QED
      BY <2>2, <3>1, <3>3 DEF Behind, Rows
  <2>4. QED
    BY <1>4, <2>1, <2>3
<1>12. CASE Refresh
  <2>1. /\ op'.todo = Rows(op.user) /\ op.stage = "chosen" /\ Rotate(op.user)
        /\ UNCHANGED <<owner, copy>>
    BY <1>0, <1>12 DEF Refresh, Op, rows
  <2>2. op.user \in User /\ op.todo = {}
    BY <2>1 DEF OpInv
  <2>3. Behind(u)' \subseteq Behind(u)
    <3>1. CASE op.user = u
      BY <2>1, <3>1 DEF Behind, Rows
    <3>2. CASE op.user # u
      <4>1. current'[u] = current[u]
        BY <2>1, <2>2, <3>2, Rotates
      <4>2. QED
        BY <2>1, <2>2, <4>1 DEF Behind, Rows
    <3>3. QED
      BY <3>1, <3>2
  <2>4. QED
    BY <1>4, <2>1, <2>3
<1>13. CASE Saved \/ CheckTeam \/ InstallFails \/ Collide \/ Reuse \/ CreateCommand \/ SaveRowFails
            \/ DeleteCommand \/ Use
  <2>1. /\ op.stage \notin {"whoami", "idle"} /\ UNCHANGED <<current, owner, copy>>
        /\ op.stage \in {"save", "resave"} => op.todo = {}
        /\ op' = Idle \/ op'.todo = op.todo
    BY <1>0, <1>13 DEF Saved, CheckTeam, InstallFails, Collide, Reuse, CreateCommand, SaveRowFails,
       DeleteCommand, Use, Op, rows
  <2>2. op'.todo = op.todo
    BY <2>1, IdleIs DEF OpInv
  <2>3. QED
    BY <1>5, <2>1, <2>2
<1>14. ASSUME NEW t \in Team, Client(t) \/ OtherCommand(t)
       PROVE Cardinality(Behind(u)') <= failures'
  <2>1. /\ UNCHANGED <<current, owner, copy>> /\ op'.todo = op.todo
        /\ op.stage = "idle" \/ op' = op
    BY <1>14, IdleIs DEF Client, OtherCommand, Idle, rows
  <2>2. QED
    BY <1>1, <1>5, <2>1
<1>15. QED
  BY <1>2, <1>6, <1>7, <1>8, <1>9, <1>10, <1>11, <1>12, <1>13, <1>14
  DEF Next, WhoAmIFails, SaveAborts, DeleteFails, RefreshLost, BrokerCrash

-----------------------------------------------------------------------------
(* The commands *)

LEMMA CommandStep ==
  ASSUME TypeOK, OpInv, CommandInv, [Next]_vars
  PROVE  CommandInv'
<1> USE DEF Unknown
<1>0. /\ op \in Op /\ command \in [Team -> CommandId \ {Theirs}]
      /\ remote \in [Team -> SUBSET (CommandId \ {NoCommand})]
  BY Types
<1>1. SUFFICES ASSUME hard' = 0, NEW t \in Team, NEW id \in Unknown(t)'
               PROVE  id = Theirs \/ (op'.created /\ op'.team = t /\ id = <<op'.user, op'.gen>>)
  BY DEF CommandInv
<1>2. hard = 0 /\ ~HardFault
  <2>1. hard = 0 /\ hard \in Nat
    BY <1>1, FaultTypes, GrantAssumption DEF TypeOK
  <2>2. QED
    BY <1>1, <2>1 DEF HardFault
<1>3. id \in Unknown(t) => id = Theirs \/ (op.created /\ op.team = t /\ id = <<op.user, op.gen>>)
  BY <1>2 DEF CommandInv
<1>4. CASE /\ UNCHANGED <<command, remote>>
           /\ op.created => /\ op'.created /\ op'.team = op.team
                            /\ op'.user = op.user /\ op'.gen = op.gen
  BY <1>1, <1>3, <1>4
<1>5. CASE CreateCommand
  <2>1. /\ op'.created /\ op'.team = op.team /\ op'.user = op.user /\ op'.gen = op.gen
        /\ remote' = [remote EXCEPT ![op.team] = {<<op.user, op.gen>>}]
        /\ UNCHANGED command /\ op.stage = "install"
    BY <1>0, <1>5 DEF CreateCommand, Op, rows
  <2>2. ~op.created
    BY <2>1 DEF OpInv
  <2>3. CASE t = op.team
    BY <1>0, <1>1, <2>1, <2>3
  <2>4. CASE t # op.team
    BY <1>0, <1>1, <1>3, <2>1, <2>2, <2>4
  <2>5. QED
    BY <2>3, <2>4
<1>6. CASE SaveRow
  <2>1. /\ command' = [command EXCEPT ![op.team] = IF op.created THEN <<op.user, op.gen>> ELSE @]
        /\ UNCHANGED remote /\ op.stage = "saverow"
    BY <1>6 DEF SaveRow
  <2>2. op.team \in Team /\ op.user \in User /\ op.gen \in 1 .. MaxGen
    BY <1>0, <2>1 DEF OpInv, Holding, Op
  <2>3. CASE op.created /\ t = op.team
    <3>1. remote[t] = {<<op.user, op.gen>>} /\ command'[t] = <<op.user, op.gen>>
      BY <1>0, <2>1, <2>3 DEF OpInv
    <3>2. command'[t] # NoCommand
      BY <2>2, <3>1, Ids
    <3>3. QED
      BY <1>1, <2>1, <3>1, <3>2
  <2>4. CASE ~op.created \/ t # op.team
    <3>1. command'[t] = command[t]
      BY <1>0, <2>1, <2>4
    <3>2. QED
      BY <1>1, <1>3, <2>1, <2>4, <3>1
  <2>5. QED
    BY <2>3, <2>4
<1>7. CASE DeleteCommand
  <2>1. /\ remote' = [remote EXCEPT ![op.team] = @ \ {<<op.user, op.gen>>}]
        /\ UNCHANGED command /\ op.stage = "undo"
    BY <1>7 DEF DeleteCommand, rows
  <2>2. id \in Unknown(t) /\ ~(t = op.team /\ id = <<op.user, op.gen>>)
    BY <1>0, <1>1, <2>1
  <2>3. QED
    BY <1>3, <2>2
<1>8. ASSUME NEW s \in Team, OtherCommand(s)
      PROVE  id = Theirs \/ (op'.created /\ op'.team = t /\ id = <<op'.user, op'.gen>>)
  <2>1. /\ remote' = [remote EXCEPT ![s] = {Theirs}] /\ UNCHANGED <<command, op>>
    BY <1>8 DEF OtherCommand, rows
  <2>2. CASE s = t
    BY <1>0, <1>1, <2>1, <2>2
  <2>3. CASE s # t
    BY <1>0, <1>1, <1>3, <2>1, <2>3
  <2>4. QED
    BY <2>2, <2>3
<1>9. CASE SaveRowFails
  <2>1. /\ UNCHANGED <<command, remote>>
        /\ op.created => /\ op'.created /\ op'.team = op.team
                         /\ op'.user = op.user /\ op'.gen = op.gen
    BY <1>0, <1>9 DEF SaveRowFails, Op, rows
  <2>2. QED
    BY <1>4, <2>1
<1>10. CASE op.stage \notin {"saverow", "undo"} /\ UNCHANGED <<command, remote>>
  <2>1. ~op.created
    BY <1>10 DEF OpInv
  <2>2. QED
    BY <1>4, <1>10, <2>1
<1>11. CASE UNCHANGED vars
  BY <1>4, <1>11 DEF vars
<1>12. ASSUME NEW u \in User, NEW s \in Team, Authorize(u, s)
       PROVE  op.stage \notin {"saverow", "undo"} /\ UNCHANGED <<command, remote>>
  BY <1>12, IdleIs DEF Authorize, rows
<1>13. ASSUME NEW s \in Team, Save(s) \/ SaveFails(s) \/ Client(s)
       PROVE  op.stage \notin {"saverow", "undo"} /\ UNCHANGED <<command, remote>>
  BY <1>13, IdleIs DEF Save, SaveFails, Client, rows
<1>14. CASE WhoAmI \/ Saved \/ CheckTeam \/ InstallFails \/ Collide \/ Reuse \/ Use \/ Refresh
  <2>1. op.stage \notin {"saverow", "undo"} /\ UNCHANGED <<command, remote>>
    BY <1>14 DEF WhoAmI, Saved, CheckTeam, InstallFails, Collide, Reuse, Use, Refresh, rows
  <2>2. QED
    BY <1>10, <2>1
<1>15. QED
  BY <1>2, <1>5, <1>6, <1>7, <1>8, <1>9, <1>10, <1>11, <1>12, <1>13, <1>14
  DEF Next, WhoAmIFails, SaveAborts, DeleteFails, RefreshLost, BrokerCrash

-----------------------------------------------------------------------------
(* Theorems *)

\* Every step of callback, Client and the world keeps the invariant.
THEOREM OAuthInductive == Spec => []OAuthInv
<1>1. Init => OAuthInv
  <2> SUFFICES ASSUME Init PROVE OAuthInv
    OBVIOUS
  <2>1. TypeOK
    BY IdleIs, Ids, Types, GrantAssumption DEF Init
  <2>2. op = Idle /\ op.todo = {} /\ ~op.created /\ op.stage = "idle"
    BY IdleIs DEF Init
  <2>3. OpInv
    BY <2>2 DEF OpInv, Holding
  <2>4. GrantInv
    <3>1. ASSUME NEW u \in User PROVE Cardinality(Behind(u)) <= failures
      <4>1. Behind(u) = {}
        BY GrantAssumption DEF Init, Behind, Rows
      <4>2. QED
        BY <4>1, FS_EmptySet DEF Init
    <3>2. QED
      BY <3>1 DEF GrantInv
  <2>5. CommandInv
    BY DEF Init, CommandInv, Unknown
  <2>6. QED
    BY <2>1, <2>3, <2>4, <2>5 DEF OAuthInv
<1>2. OAuthInv /\ [Next]_vars => OAuthInv'
  BY TypeStep, OpStep, GrantStep, CommandStep DEF OAuthInv
<1>3. QED
  BY <1>1, <1>2, PTL DEF Spec

\* Type correctness: no row holds a generation that Mattermost never issued,
\* although callback and Client write them one by one.
THEOREM OAuthTypeCorrect == Spec => []TypeOK
<1>1. OAuthInv => TypeOK
  BY DEF OAuthInv
<1>2. QED
  BY <1>1, OAuthInductive, PTL

\* Of an administrator's rows no more fall behind than writes failed, so one
\* with more teams than that has the grant Mattermost accepts.
THEOREM GrantIsKept == Spec => []GrantSurvives
<1>1. ASSUME OAuthInv PROVE GrantSurvives
  <2>1. SUFFICES ASSUME op = Idle, hard = 0, NEW u \in User, Cardinality(Rows(u)) > failures,
                        \A t \in Rows(u) : copy[t] # current[u]
                 PROVE  FALSE
    BY DEF GrantSurvives
  <2>2. op.stage # "whoami" /\ op.todo = {}
    BY <2>1, IdleIs
  <2>3. Cardinality(Behind(u)) <= failures
    BY <1>1, <2>1, <2>2 DEF OAuthInv, GrantInv
  <2>4. Behind(u) = Rows(u)
    BY <2>1, <2>2 DEF Behind
  <2>5. failures \in Nat /\ Cardinality(Rows(u)) \in Nat
    BY <1>1, BehindFinite, GrantAssumption DEF OAuthInv, TypeOK
  <2>6. QED
    BY <2>1, <2>3, <2>4, <2>5
<1>2. QED
  BY <1>1, OAuthInductive, PTL

\* Client works with the newest copy, which is the current grant if any row of
\* the installer has it.
THEOREM ClientIsCurrent == Spec => []NoStaleClient
<1>1. ASSUME OAuthInv PROVE NoStaleClient
  <2>1. SUFFICES ASSUME op.stage = "chosen", NEW t \in Rows(op.user), copy[t] = current[op.user]
                 PROVE  op.gen = current[op.user]
    BY DEF NoStaleClient
  <2>2. op.user \in User /\ copy[t] <= op.gen
    BY <1>1, <2>1 DEF OAuthInv, OpInv
  <2>3. PICK s \in Rows(op.user) : op.gen = copy[s]
    BY <1>1, <2>1 DEF OAuthInv, OpInv
  <2>4. copy[s] \in 1 .. current[op.user] /\ current[op.user] \in Nat
    BY <1>1, <2>2, <2>3, GrantAssumption DEF OAuthInv, TypeOK, Rows
  <2>5. QED
    BY <2>1, <2>2, <2>3, <2>4
<1>2. QED
  BY <1>1, OAuthInductive, PTL

\* A callback that failed left no command in Mattermost that the team's row
\* does not know, unless the clean-up failed or the broker stopped.
THEOREM CommandsAreKnown == Spec => []NoOrphanCommand
<1>1. ASSUME OAuthInv PROVE NoOrphanCommand
  <2>1. SUFFICES ASSUME op = Idle, hard = 0, NEW t \in Team, NEW id \in Unknown(t)
                 PROVE  id = Theirs
    BY DEF NoOrphanCommand
  <2>2. QED
    BY <1>1, <2>1, IdleIs DEF OAuthInv, CommandInv
<1>2. QED
  BY <1>1, OAuthInductive, PTL
=============================================================================
