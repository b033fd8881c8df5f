----------------------------- MODULE OAuthGrant -----------------------------
(***************************************************************************)
(* The OAuth installation of the broker (broker/oauth/service.go).         *)
(*                                                                         *)
(* Mattermost keeps one grant per administrator; every exchange of a code  *)
(* or of a refresh token replaces it by the next generation, and only the  *)
(* newest refresh token is good.  The broker keeps a copy of the grant in  *)
(* the row of every team the administrator installed, and writes the       *)
(* copies one by one.  callback and Client run under one mutex, so at most *)
(* one of them is under way: op.                                           *)
(*                                                                         *)
(* A generation stands for the access token, the refresh token and the     *)
(* UpdatedAt of its exchange, with a clock that does not run backwards.    *)
(***************************************************************************)
EXTENDS Integers, FiniteSets, FiniteSetsExt

CONSTANTS
  User,         \* administrators
  Team,
  NoUser,
  MaxGen,       \* bound: exchanges per administrator
  MaxFailures,  \* bound: writes, team checks and calls of install that fail
  MaxHard       \* bound: grants given up before they are saved (a lost answer, a
                \* failing or adverse GetMe, an unreadable store), a failing undo, crashes

ASSUME GrantAssumption ==
  /\ IsFiniteSet(User) /\ IsFiniteSet(Team) /\ NoUser \notin User
  /\ MaxGen \in Nat /\ MaxFailures \in Nat /\ MaxHard \in Nat

VARIABLES
  current,      \* current[u]: the generation Mattermost accepts
  owner,        \* owner[t]: who installed t, or NoUser
  copy,         \* copy[t]: the generation in t's row
  command,      \* command[t]: the command id in t's row
  remote,       \* remote[t]: the /harness commands t has in Mattermost
  op,           \* what the holder of the mutex is doing
  failures, hard

rows == <<owner, copy, command>>
vars == <<current, owner, copy, command, remote, op, failures, hard>>

\* A command of the broker is named by the exchange of the callback that made
\* it; somebody else's by Theirs.
NoCommand == <<NoUser, 0>>
Theirs == <<NoUser, 1>>
CommandId == (User \X (1 .. MaxGen)) \cup {NoCommand, Theirs}

Idle == [stage |-> "idle", user |-> NoUser, team |-> NoUser, gen |-> 0,
         todo |-> {}, bad |-> FALSE, created |-> FALSE]

Rows(u) == {t \in Team : owner[t] = u}

\* The one type invariant; no row holds a generation Mattermost never issued.
TypeOK ==
  /\ current \in [User -> 0 .. MaxGen]
  /\ owner \in [Team -> User \cup {NoUser}]
  /\ copy \in [Team -> 0 .. MaxGen]
  /\ \A t \in Team : owner[t] # NoUser => copy[t] \in 1 .. current[owner[t]]
  /\ command \in [Team -> CommandId \ {Theirs}]
  /\ remote \in [Team -> SUBSET (CommandId \ {NoCommand})]
  /\ op \in [stage : {"idle", "whoami", "save", "team", "install", "saverow", "undo", "chosen", "resave"},
             user : User \cup {NoUser}, team : Team \cup {NoUser}, gen : 0 .. MaxGen,
             todo : SUBSET Team, bad : BOOLEAN, created : BOOLEAN]
  /\ failures \in 0 .. MaxFailures /\ hard \in 0 .. MaxHard

Init ==
  /\ current = [u \in User |-> 0]
  /\ owner = [t \in Team |-> NoUser]
  /\ copy = [t \in Team |-> 0]
  /\ command = [t \in Team |-> NoCommand]
  /\ remote = [t \in Team |-> {}]
  /\ op = Idle
  /\ failures = 0 /\ hard = 0

Failure == failures < MaxFailures /\ failures' = failures + 1 /\ UNCHANGED hard
HardFault == hard < MaxHard /\ hard' = hard + 1 /\ UNCHANGED failures
NoFault == UNCHANGED <<failures, hard>>

\* exchange: Mattermost replaces u's grant.
Rotate(u) == current[u] < MaxGen /\ current' = [current EXCEPT ![u] = @ + 1]

-----------------------------------------------------------------------------
(* callback: an administrator u authorises the installation for team t.    *)

\* The state and its cookie are good and used up; the code is exchanged.
Authorize(u, t) ==
  /\ op = Idle
  /\ Rotate(u)
  /\ op' = [Idle EXCEPT !.stage = "whoami", !.user = u, !.team = t, !.gen = current[u] + 1]
  /\ UNCHANGED <<rows, remote>> /\ NoFault

\* Fault: the grant is saved with the new team's row only.
WhoAmISkipsSave ==
  /\ op.stage = "whoami"
  /\ op' = [op EXCEPT !.stage = "team"]
  /\ UNCHANGED <<current, rows, remote>> /\ NoFault

\* GetMe: an administrator.  saveCredentials will write every row of theirs.
WhoAmI ==
  /\ op.stage = "whoami"
  /\ op' = [op EXCEPT !.stage = "save", !.todo = Rows(op.user)]
  /\ UNCHANGED <<current, rows, remote>> /\ NoFault

\* The answer of the exchange is lost, GetMe fails, or the user is no longer an
\* administrator: the new grant is gone.
WhoAmIFails ==
  /\ op.stage = "whoami" /\ HardFault
  /\ op' = Idle
  /\ UNCHANGED <<current, rows, remote>>

\* saveCredentials, one row.
Save(t) ==
  /\ op.stage \in {"save", "resave"} /\ t \in op.todo
  /\ copy' = [copy EXCEPT ![t] = op.gen]
  /\ op' = [op EXCEPT !.todo = @ \ {t}]
  /\ UNCHANGED <<current, owner, command, remote>> /\ NoFault

\* The row cannot be written; the loop goes on to the others.
SaveFails(t) ==
  /\ op.stage \in {"save", "resave"} /\ t \in op.todo /\ Failure
  /\ op' = [op EXCEPT !.todo = @ \ {t}, !.bad = TRUE]
  /\ UNCHANGED <<current, rows, remote>>

\* The rows cannot be listed, or a grant cannot be encrypted: the loop ends.
SaveAborts ==
  /\ op.stage \in {"save", "resave"} /\ op.todo # {} /\ HardFault
  /\ op' = Idle
  /\ UNCHANGED <<current, rows, remote>>

\* saveCredentials returns: to Client, which is done, or to callback, which
\* gives up after an error.
Saved ==
  /\ op.stage \in {"save", "resave"} /\ op.todo = {}
  /\ op' = IF op.stage = "resave" \/ op.bad THEN Idle ELSE [op EXCEPT !.stage = "team"]
  /\ UNCHANGED <<current, rows, remote>> /\ NoFault

\* The team exists, and the administrator is a member.
CheckTeam ==
  /\ op.stage = "team"
  /\ op' = [op EXCEPT !.stage = "install"]
  /\ UNCHANGED <<current, rows, remote>> /\ NoFault

\* The team checks, the lookup, or an API call of install fails before
\* anything was made.
InstallFails ==
  /\ op.stage \in {"team", "install"} /\ Failure
  /\ op' = Idle
  /\ UNCHANGED <<current, rows, remote>>

\* Commands of the team with the trigger "harness" that are not the row's.
Unknown(t) == remote[t] \ ({command[t]} \ {NoCommand})

\* install finds a command that is not the one in the row: errCollision.
Collide ==
  /\ op.stage = "install" /\ Unknown(op.team) # {}
  /\ op' = Idle
  /\ UNCHANGED <<current, rows, remote>> /\ NoFault

\* install keeps the row's command.
Reuse ==
  /\ op.stage = "install" /\ Unknown(op.team) = {} /\ remote[op.team] # {}
  /\ op' = [op EXCEPT !.stage = "saverow"]
  /\ UNCHANGED <<current, rows, remote>> /\ NoFault

\* Fault: a command that was made is not remembered for the clean-up.
CreateCommandUnnoted ==
  /\ op.stage = "install" /\ remote[op.team] = {}
  /\ remote' = [remote EXCEPT ![op.team] = {<<op.user, op.gen>>}]
  /\ op' = [op EXCEPT !.stage = "saverow"]
  /\ UNCHANGED <<current, rows>> /\ NoFault

CreateCommand ==
  /\ op.stage = "install" /\ remote[op.team] = {}
  /\ remote' = [remote EXCEPT ![op.team] = {<<op.user, op.gen>>}]
  /\ op' = [op EXCEPT !.stage = "saverow", !.created = TRUE]
  /\ UNCHANGED <<current, rows>> /\ NoFault

\* SaveInstallation: the row of the team, the installer's from now on.
SaveRow ==
  /\ op.stage = "saverow"
  /\ owner' = [owner EXCEPT ![op.team] = op.user]
  /\ copy' = [copy EXCEPT ![op.team] = op.gen]
  /\ command' = [command EXCEPT ![op.team] =
                   IF op.created THEN <<op.user, op.gen>> ELSE @]
  /\ op' = Idle
  /\ UNCHANGED <<current, remote>> /\ NoFault

SaveRowFails ==
  /\ op.stage = "saverow" /\ Failure
  /\ op' = IF op.created THEN [op EXCEPT !.stage = "undo"] ELSE Idle
  /\ UNCHANGED <<current, rows, remote>>

\* The deferred clean-up deletes the command that was made.
DeleteCommand ==
  /\ op.stage = "undo"
  /\ remote' = [remote EXCEPT ![op.team] = @ \ {<<op.user, op.gen>>}]
  /\ op' = Idle
  /\ UNCHANGED <<current, rows>> /\ NoFault

DeleteFails ==
  /\ op.stage = "undo" /\ HardFault
  /\ op' = Idle
  /\ UNCHANGED <<current, rows, remote>>

-----------------------------------------------------------------------------
(* Client: the credentials for an operation on team t.                     *)

\* Fault: the team's own copy is good enough.
NewestOwn(t) == copy[t]

\* The newest copy among the rows of t's installer.
Newest(t) == Max({copy[s] : s \in Rows(owner[t])})

Client(t) ==
  /\ op = Idle /\ owner[t] # NoUser
  /\ op' = [Idle EXCEPT !.stage = "chosen", !.user = owner[t], !.team = t, !.gen = Newest(t)]
  /\ UNCHANGED <<current, rows, remote>> /\ NoFault

\* The access token has more than a minute left, or the exchange is refused.
Use ==
  /\ op.stage = "chosen"
  /\ op' = Idle
  /\ UNCHANGED <<current, rows, remote>> /\ NoFault

\* It has not: the refresh token is exchanged, which an older one is not.
Refresh ==
  /\ op.stage = "chosen" /\ op.gen = current[op.user]
  /\ Rotate(op.user)
  /\ op' = [op EXCEPT !.stage = "resave", !.gen = @ + 1, !.todo = Rows(op.user)]
  /\ UNCHANGED <<rows, remote>> /\ NoFault

\* Mattermost rotated the grant, the answer never came.
RefreshLost ==
  /\ op.stage = "chosen" /\ op.gen = current[op.user] /\ HardFault
  /\ Rotate(op.user)
  /\ op' = Idle
  /\ UNCHANGED <<rows, remote>>

-----------------------------------------------------------------------------

\* Somebody adds a /harness command of their own.
OtherCommand(t) ==
  /\ remote[t] = {}
  /\ remote' = [remote EXCEPT ![t] = {Theirs}]
  /\ UNCHANGED <<current, rows, op>> /\ NoFault

\* The broker stops in the middle of an operation and starts again.
BrokerCrash ==
  /\ op # Idle /\ HardFault
  /\ op' = Idle
  /\ UNCHANGED <<current, rows, remote>>

Next ==
  \/ \E u \in User, t \in Team : Authorize(u, t)
  \/ \E t \in Team : Save(t) \/ SaveFails(t) \/ Client(t) \/ OtherCommand(t)
  \/ WhoAmI \/ WhoAmIFails \/ SaveAborts \/ Saved \/ CheckTeam \/ InstallFails
  \/ Collide \/ Reuse \/ CreateCommand \/ SaveRow \/ SaveRowFails
  \/ DeleteCommand \/ DeleteFails
  \/ Use \/ Refresh \/ RefreshLost \/ BrokerCrash

Spec == Init /\ [][Next]_vars

-----------------------------------------------------------------------------
(* Properties.                                                             *)

\* An administrator with more installed teams than there were failures has a
\* copy of the grant Mattermost accepts in one of them, whatever the callbacks
\* that rotated it came to ("Preserve a newly rotated grant for this
\* administrator's existing teams even when the requested team's membership
\* or command checks fail").  The count is generous: failed team checks and
\* calls of install are in it, though only a failed write costs a copy.  Not
\* covered (hard) is what makes callback or Client give a new grant up before
\* it is saved: a lost answer, a GetMe that fails or finds no administrator
\* any more, a failing ListInstallations, a crash.
GrantSurvives ==
  op = Idle /\ hard = 0 => \A u \in User :
    Cardinality(Rows(u)) > failures => \E t \in Rows(u) : copy[t] = current[u]

\* Client never works with an old grant while a row of the same installer has
\* the current one, although a partial write left the team's own copy behind
\* ("Always choose the newest durable grant for this installer").
NoStaleClient ==
  op.stage = "chosen" =>
    (op.gen = current[op.user] \/ \A t \in Rows(op.user) : copy[t] # current[op.user])

\* An installation that failed left no command of the broker's behind that the
\* team's row does not know, unless the clean-up itself failed or something
\* else that counts as hard happened, a crash above all.
NoOrphanCommand ==
  op = Idle /\ hard = 0 => \A t \in Team : Unknown(t) \subseteq {Theirs}
=============================================================================
