----------------------------- MODULE LocalLogin -----------------------------
(***************************************************************************)
(* The break-glass password login of one tenant, beside the sessions it    *)
(* shares with everybody else: server/auth/local.ts, sessions.ts, users.ts *)
(* and provision.ts, and the routes that call them.                        *)
(*                                                                         *)
(* A login reads the account, awaits the password check, and then uses     *)
(* what it read: between the two anything may happen to the account. The   *)
(* command that sets a password runs in a process of its own and shares    *)
(* nothing but the database. Time is counted in TOTP steps. Whether a      *)
(* password and a code match is decided by what the request carries and    *)
(* the row it read, so a request holds the outcome: the step its code      *)
(* belongs to, or none.                                                    *)
(***************************************************************************)
EXTENDS Integers, FiniteSets

CONSTANTS
  Users,          \* people who have, or may get, an account in the tenant
  Households,     \* the roles the tenant may start with
  WithPassword,   \* those who start with a local credential, if they have a row
  Requests,       \* local logins that may be in flight together
  Threshold,      \* LOCKOUT_THRESHOLD
  LockSteps,      \* LOCKOUT_MS, in steps
  Window,         \* TOTP_WINDOW
  Ttl,            \* the life of a session, in steps
  MaxClock,       \* bound on the clock
  MaxSessions,    \* bound on the sessions created
  MaxProvisions   \* bound on the passwords set

Roles == {"none", "owner", "viewer"}
HasOwner(household) ==
  (\E u \in Users : household[u] # "none") => \E u \in Users : household[u] = "owner"

ASSUME LocalLoginAssumption ==
  /\ Households \subseteq [Users -> Roles]
  /\ \A household \in Households : HasOwner(household)
  /\ WithPassword \subseteq Users
  /\ IsFiniteSet(Requests) /\ Requests # {}
  /\ Threshold \in Nat \ {0} /\ LockSteps \in Nat /\ Window \in Nat /\ Ttl \in Nat
  /\ MaxClock \in Nat /\ Window < MaxClock /\ MaxSessions \in Nat /\ MaxProvisions \in Nat

VARIABLES
  now,          \* the clock
  role,         \* users.role, or "none" for a person without a row
  disabled,     \* the users whose account is disabled
  credentialed, \* the users who have a row in local_credentials
  failed,       \* failedAttempts
  lockedUntil,  \* lockedUntil, 0 for null
  lastStep,     \* lastTotpStep, 0 for null
  request,      \* per local login, what it carries across its await
  sessions,     \* the sessions table
  command,      \* the command that sets a password
  created,      \* sessions created so far (bounded)
  provisions,   \* passwords set so far (bounded)
  uses,         \* history: how often a step was accepted since the last password
  guesses,      \* history: refusals since the last success, lock or password
  locked        \* history: refusals since the lock that stands

account == <<role, disabled>>
credential == <<credentialed, failed, lockedUntil, lastStep>>
history == <<uses, guesses, locked>>
vars == <<now, role, disabled, credentialed, failed, lockedUntil, lastStep, request,
          sessions, command, created, provisions, uses, guesses, locked>>

NoStep == 0
First == Window + 1           \* the clock starts late enough for every skew
Steps == 1 .. MaxClock + Window
NoUser == "nobody"

\* `overtaken` is history: the account was disabled, or its password set,
\* while this login awaited. `row` is the count of failures it read.
Waiting(u, step, row) == [at |-> "verifying", user |-> u, step |-> step, row |-> row,
                          started |-> now, overtaken |-> FALSE]
IdleRequest == [at |-> "idle", user |-> NoUser, step |-> NoStep, row |-> 0,
                started |-> 0, overtaken |-> FALSE]
Request == [at : {"idle", "verifying"}, user : Users \cup {NoUser},
            step : Steps \cup {NoStep}, row : Nat, started : Nat, overtaken : BOOLEAN]

\* `old` is history: the password was set after this session had been created.
NewSession(u, overtaken) ==
  [id |-> created + 1, user |-> u, expires |-> now + Ttl, overtaken |-> overtaken, old |-> FALSE]
Session == [id : Nat, user : Users, expires : Nat, overtaken : BOOLEAN, old : BOOLEAN]

(***************************************************************************)
(* Sessions                                                                *)
(***************************************************************************)
\* createSession sweeps what has expired and adds a row.
WithNewSession(ss, u, overtaken) ==
  {s \in ss : s.expires >= now} \cup {NewSession(u, overtaken)}

\* readSession: an expired row is deleted, a row past its half-life renewed,
\* the row of a disabled user left as it is and refused.
Resolves(s) == s.expires > now /\ s.user \notin disabled
AfterRead(s) ==
  IF s.expires <= now THEN sessions \ {s}
  ELSE IF s.user \notin disabled /\ 2 * (s.expires - now) < Ttl
       THEN (sessions \ {s}) \cup {[s EXCEPT !.expires = now + Ttl]}
       ELSE sessions

\* Any request that carries the cookie of s.
Read(s) ==
  /\ s \in sessions
  /\ sessions' = AfterRead(s)
  /\ UNCHANGED <<now, account, credential, request, command, created, provisions, history>>

\* /auth/logout deletes the row when the cookie resolved.
Logout(s) ==
  /\ s \in sessions
  /\ Resolves(s)
  /\ sessions' = sessions \ {s}
  /\ UNCHANGED <<now, account, credential, request, command, created, provisions, history>>

\* The session the browser already had goes when it signs in again.
SignedInAgain(ss, old) == ss \ old

\* /auth/callback for a known subject, as seen from its return from the
\* provider: the account is read after the await, in the same step.
OidcSignIn(u) ==
  /\ role[u] # "none"
  /\ u \notin disabled
  /\ created < MaxSessions
  /\ created' = created + 1
  /\ \E old \in {{}} \cup {{s} : s \in {t \in sessions : Resolves(t)}} :
       sessions' = WithNewSession(SignedInAgain(sessions, old), u, FALSE)
  /\ UNCHANGED <<now, account, credential, request, command, provisions, history>>

(***************************************************************************)
(* verifyLocalLogin and POST /auth/local/login                             *)
(***************************************************************************)
LockStands(u) == lockedUntil[u] > now

\* The account is read and found open, and the password check is awaited. A
\* refusal before the await changes nothing.
MayVerify(u) == u \in credentialed /\ u \notin disabled /\ ~LockStands(u)

Attempt(r, u) ==
  /\ request[r].at = "idle"
  /\ MayVerify(u)
  /\ \E step \in {NoStep} \cup now - Window .. now + Window :
       request' = [request EXCEPT ![r] = Waiting(u, step, failed[u])]
  /\ UNCHANGED <<now, account, credential, sessions, command, created, provisions, history>>

\* The conditional update: the step must be later than the one in the row now.
ConsumesStale(r) == request[r].step # NoStep
Consumes(r) ==
  /\ request[r].step # NoStep
  /\ request[r].step > lastStep[request[r].user]

Accept(r) ==
  LET u == request[r].user IN
  /\ request[r].at = "verifying"
  /\ Consumes(r)
  /\ created < MaxSessions
  /\ failed' = [failed EXCEPT ![u] = 0]
  /\ lockedUntil' = [lockedUntil EXCEPT ![u] = 0]
  /\ lastStep' = [lastStep EXCEPT ![u] = request[r].step]
  /\ created' = created + 1
  /\ \E old \in {{}} \cup {{s} : s \in sessions} :
       sessions' = WithNewSession(SignedInAgain(sessions, old), u, request[r].overtaken)
  /\ request' = [request EXCEPT ![r] = IdleRequest]
  /\ uses' = [uses EXCEPT ![u][request[r].step] = @ + 1]
  /\ guesses' = [guesses EXCEPT ![u] = 0]
  /\ locked' = [locked EXCEPT ![u] = 0]
  /\ UNCHANGED <<now, account, credentialed, command, provisions>>

\* recordFailure increments and compares in SQL, not in the row it read.
FailuresFromRow(r) == request[r].row + 1
FailuresNow(r) == failed[request[r].user] + 1

Refuse(r) ==
  LET u == request[r].user
      reached == FailuresNow(r) >= Threshold IN
  /\ request[r].at = "verifying"
  /\ ~Consumes(r)
  /\ failed' = [failed EXCEPT ![u] = IF reached THEN 0 ELSE FailuresNow(r)]
  /\ lockedUntil' = [lockedUntil EXCEPT ![u] =
                       IF reached THEN request[r].started + LockSteps ELSE @]
  /\ request' = [request EXCEPT ![r] = IdleRequest]
  /\ guesses' = [guesses EXCEPT ![u] = IF reached THEN 0 ELSE @ + 1]
  /\ locked' = [locked EXCEPT ![u] = IF ~reached /\ LockStands(u) THEN @ + 1 ELSE 0]
  /\ UNCHANGED <<now, account, credentialed, lastStep, sessions, command, created,
                 provisions, uses>>

\* What a change of the account does to the history of the logins in flight.
Overtaken(u) ==
  [r \in Requests |-> IF request[r].user = u THEN [request[r] EXCEPT !.overtaken = TRUE]
                      ELSE request[r]]

(***************************************************************************)
(* provisionLocalCredential, in the process of the command                 *)
(***************************************************************************)
NoCommand == [at |-> "idle", user |-> NoUser]

\* The first account of the tenant owns it, the next ones are viewers. Then
\* the hash is awaited.
RoleOfNew == IF \A v \in Users : role[v] = "none" THEN "owner" ELSE "viewer"
WithUser(u) == [role EXCEPT ![u] = IF @ = "none" THEN RoleOfNew ELSE @]

StartCommand(u) ==
  /\ command = NoCommand
  /\ provisions < MaxProvisions
  /\ provisions' = provisions + 1
  /\ role' = WithUser(u)
  /\ command' = [at |-> "hashing", user |-> u]
  /\ UNCHANGED <<now, disabled, credential, request, sessions, created, history>>

\* The credential is written; if there was one, the sessions are ended next.
EndedAfter(u) == IF u \in credentialed THEN [at |-> "written", user |-> u] ELSE NoCommand

WriteCredential ==
  LET u == command.user IN
  /\ command.at = "hashing"
  /\ credentialed' = credentialed \cup {u}
  /\ failed' = [failed EXCEPT ![u] = 0]
  /\ lockedUntil' = [lockedUntil EXCEPT ![u] = 0]
  /\ lastStep' = [lastStep EXCEPT ![u] = NoStep]
  /\ command' = EndedAfter(u)
  /\ request' = Overtaken(u)
  /\ sessions' = IF u \in credentialed
                 THEN {IF s.user = u THEN [s EXCEPT !.old = TRUE] ELSE s : s \in sessions}
                 ELSE sessions
  /\ uses' = [uses EXCEPT ![u] = [step \in Steps |-> 0]]
  /\ guesses' = [guesses EXCEPT ![u] = 0]
  /\ locked' = [locked EXCEPT ![u] = 0]
  /\ UNCHANGED <<now, account, created, provisions>>

\* destroyUserSessions
SessionsWithout(u) == {s \in sessions : s.user # u}

EndSessions ==
  /\ command.at = "written"
  /\ sessions' = SessionsWithout(command.user)
  /\ command' = NoCommand
  /\ UNCHANGED <<now, account, credential, request, created, provisions, history>>

(***************************************************************************)
(* PATCH /api/settings/users/:id, by an owner's session                    *)
(***************************************************************************)
OtherOwner(u) == \E v \in Users : role[v] = "owner"
OtherEnabledOwner(u) == \E v \in Users \ {u} : role[v] = "owner" /\ v \notin disabled

KeptSessions(by, u) == AfterRead(by)
KeptAfterDisabling(by, u) == {s \in AfterRead(by) : s.user # u}

Disable(by, u) ==
  /\ by \in sessions /\ Resolves(by) /\ role[by.user] = "owner"
  /\ role[u] # "none"
  /\ role[u] = "owner" => OtherEnabledOwner(u)
  /\ disabled' = disabled \cup {u}
  /\ sessions' = KeptAfterDisabling(by, u)
  /\ request' = Overtaken(u)
  /\ UNCHANGED <<now, role, credential, command, created, provisions, history>>

Enable(by, u) ==
  /\ by \in sessions /\ Resolves(by) /\ role[by.user] = "owner"
  /\ role[u] # "none"
  /\ disabled' = disabled \ {u}
  /\ sessions' = AfterRead(by)
  /\ UNCHANGED <<now, role, credential, request, command, created, provisions, history>>

Tick ==
  /\ now < MaxClock
  /\ now' = now + 1
  /\ UNCHANGED <<account, credential, request, sessions, command, created, provisions, history>>

Init ==
  /\ now = First
  /\ role \in Households
  /\ disabled = {}
  /\ credentialed = {u \in WithPassword : role[u] # "none"}
  /\ failed = [u \in Users |-> 0]
  /\ lockedUntil = [u \in Users |-> 0]
  /\ lastStep = [u \in Users |-> NoStep]
  /\ request = [r \in Requests |-> IdleRequest]
  /\ sessions = {}
  /\ command = NoCommand
  /\ created = 0 /\ provisions = 0
  /\ uses = [u \in Users |-> [step \in Steps |-> 0]]
  /\ guesses = [u \in Users |-> 0]
  /\ locked = [u \in Users |-> 0]

Next ==
  \/ \E r \in Requests, u \in Users : Attempt(r, u)
  \/ \E r \in Requests : Accept(r)
  \/ \E r \in Requests : Refuse(r)
  \/ \E u \in Users : OidcSignIn(u)
  \/ \E s \in sessions : Read(s)
  \/ \E s \in sessions : Logout(s)
  \/ \E u \in Users : StartCommand(u)
  \/ WriteCredential
  \/ EndSessions
  \/ \E by \in sessions, u \in Users : Disable(by, u)
  \/ \E by \in sessions, u \in Users : Enable(by, u)
  \/ Tick

Spec == Init /\ [][Next]_vars

(***************************************************************************)
(* What must hold                                                          *)
(***************************************************************************)

\* Every variable holds what the tables and the process can hold.
TypeOK ==
  /\ now \in First .. MaxClock
  /\ role \in [Users -> Roles]
  /\ disabled \subseteq {u \in Users : role[u] # "none"}
  /\ credentialed \subseteq {u \in Users : role[u] # "none"}
  /\ failed \in [Users -> Nat]
  /\ lockedUntil \in [Users -> Nat]
  /\ lastStep \in [Users -> Steps \cup {NoStep}]
  /\ request \in [Requests -> Request]
  /\ sessions \subseteq Session
  /\ command \in [at : {"idle", "hashing", "written"}, user : Users \cup {NoUser}]
  /\ created \in Nat /\ provisions \in Nat
  /\ uses \in [Users -> [Steps -> Nat]]
  /\ guesses \in [Users -> Nat]
  /\ locked \in [Users -> Nat]

\* One code signs in once, however many requests present it at the same time
\* (the conditional update of verifyLocalLogin): the count starts again with
\* the password, because the secret is another one then.
CodesAreSpentOnce == \A u \in Users, step \in Steps : uses[u][step] <= 1

\* No interleaving of logins loses a failure: an account that has taken
\* Threshold refusals since it was last opened is locked (recordFailure).
FailuresAreCounted == \A u \in Users : guesses[u] < Threshold

\* A lock that stands lets through only the guesses that had passed the check
\* before it was set, and those are fewer than the logins in flight.
LockStopsGuessing ==
  \A u \in Users : LockStands(u) => locked[u] < Cardinality(Requests)
GuessesAreBounded == FailuresAreCounted /\ LockStopsGuessing

\* Disabling an account and setting its password end the sessions it had: what
\* is left, or comes later, belongs to a login that was awaiting its password
\* check at that moment, or waits for the command to finish.
ChangesEndSessions ==
  \A s \in sessions :
    /\ s.user \in disabled => s.overtaken
    /\ s.old => command = [at |-> "written", user |-> s.user]

\* A tenant with users never loses its last enabled owner (setUserDisabled).
AnOwnerRemains ==
  (\E u \in Users : role[u] # "none")
    => \E u \in Users : role[u] = "owner" /\ u \notin disabled
=============================================================================
