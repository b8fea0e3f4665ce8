-------------------------- MODULE LocalLoginProofs --------------------------
(***************************************************************************)
(* Proofs about LocalLogin, for every set of people and of concurrent      *)
(* logins, every threshold, lock, skew and session life: a code is spent   *)
(* once, no failure is lost, a lock lets through only what was in flight,  *)
(* a change of the account ends its sessions, and an owner remains.        *)
(***************************************************************************)
EXTENDS LocalLogin, FiniteSetTheorems, TLAPS

(***************************************************************************)
(* The inductive invariant                                                 *)
(***************************************************************************)
\* A login in flight and a command at work are about somebody.
Somebody ==
  /\ \A r \in Requests : request[r].at = "verifying" => request[r].user \in Users
  /\ command.at # "idle" => command.user \in Users /\ role[command.user] # "none"

\* A step that was accepted is not later than the one in the row.
Spent == \A u \in Users, step \in Steps :
  /\ uses[u][step] \in {0, 1}
  /\ uses[u][step] = 1 => step <= lastStep[u]

\* The counter of the row is the number of refusals.
Counted == \A u \in Users : guesses[u] = failed[u] /\ failed[u] < Threshold

\* Under a lock, a guess answered is a login less in flight.
InFlight(u) == {r \in Requests : request[r].at = "verifying" /\ request[r].user = u}
LockHolds == \A u \in Users :
  LockStands(u) => locked[u] + Cardinality(InFlight(u)) < Cardinality(Requests)

\* A login that nothing overtook is about an account that is open.
OpenUnlessOvertaken == \A r \in Requests :
  request[r].at = "verifying" /\ ~request[r].overtaken => request[r].user \notin disabled

IInv == /\ TypeOK /\ Somebody /\ Spent /\ Counted /\ LockHolds
        /\ OpenUnlessOvertaken /\ ChangesEndSessions /\ AnOwnerRemains

(***************************************************************************)
(* Lemmas about the operators                                              *)
(***************************************************************************)
LEMMA RenewedIsSession ==
  ASSUME NEW s \in Session, NEW t \in Nat
  PROVE  /\ [s EXCEPT !.expires = t] \in Session
         /\ [s EXCEPT !.expires = t].user = s.user
         /\ [s EXCEPT !.expires = t].overtaken = s.overtaken
         /\ [s EXCEPT !.expires = t].old = s.old
BY DEF Session

LEMMA AgedIsSession ==
  ASSUME NEW s \in Session
  PROVE  /\ [s EXCEPT !.old = TRUE] \in Session
         /\ [s EXCEPT !.old = TRUE].user = s.user
         /\ [s EXCEPT !.old = TRUE].overtaken = s.overtaken
         /\ [s EXCEPT !.old = TRUE].old = TRUE
BY DEF Session

\* Whatever readSession leaves was there, but for its deadline.
LEMMA AfterReadKeeps ==
  ASSUME TypeOK, LocalLoginAssumption, NEW s \in sessions
  PROVE  /\ AfterRead(s) \subseteq Session
         /\ \A t \in AfterRead(s) : \E x \in sessions :
              t.user = x.user /\ t.overtaken = x.overtaken /\ t.old = x.old
<1>1. now + Ttl \in Nat /\ s \in Session
  BY DEF TypeOK, LocalLoginAssumption, First
<1>2. /\ [s EXCEPT !.expires = now + Ttl] \in Session
      /\ [s EXCEPT !.expires = now + Ttl].user = s.user
      /\ [s EXCEPT !.expires = now + Ttl].overtaken = s.overtaken
      /\ [s EXCEPT !.expires = now + Ttl].old = s.old
  BY <1>1, RenewedIsSession
<1>3. \A t \in AfterRead(s) : t \in sessions \/ t = [s EXCEPT !.expires = now + Ttl]
  BY DEF AfterRead
<1>4. sessions \subseteq Session
  BY DEF TypeOK
<1> QED BY <1>2, <1>3, <1>4

\* createSession adds one row, which nothing has aged yet.
LEMMA NewSessionShape ==
  ASSUME TypeOK, LocalLoginAssumption, NEW ss \in SUBSET sessions, NEW u \in Users,
         NEW b \in BOOLEAN
  PROVE  /\ WithNewSession(ss, u, b) \subseteq Session
         /\ \A t \in WithNewSession(ss, u, b) :
              t \in ss \/ (t.user = u /\ t.overtaken = b /\ t.old = FALSE)
<1>1. now + Ttl \in Nat /\ created + 1 \in Nat /\ sessions \subseteq Session
  BY DEF TypeOK, LocalLoginAssumption, First
<1>2. NewSession(u, b) \in Session
  BY <1>1 DEF NewSession, Session
<1>3. NewSession(u, b).user = u /\ NewSession(u, b).overtaken = b /\ NewSession(u, b).old = FALSE
  BY DEF NewSession
<1> QED BY <1>1, <1>2, <1>3 DEF WithNewSession

\* Marking a login overtaken changes nothing else of it.
LEMMA OvertakenShape ==
  ASSUME TypeOK, NEW u
  PROVE  /\ Overtaken(u) \in [Requests -> Request]
         /\ \A r \in Requests :
              /\ Overtaken(u)[r].at = request[r].at
              /\ Overtaken(u)[r].user = request[r].user
              /\ Overtaken(u)[r].overtaken = (request[r].overtaken \/ request[r].user = u)
<1>1. \A r \in Requests : request[r] \in Request
  BY DEF TypeOK
<1>2. \A r \in Requests : request[r].overtaken \in BOOLEAN
  BY <1>1 DEF Request
<1> QED BY <1>1, <1>2 DEF Overtaken, Request

LEMMA IdleIsRequest == IdleRequest \in Request /\ IdleRequest.at = "idle"
BY DEF IdleRequest, Request

(***************************************************************************)
(* Each part of the invariant                                              *)
(***************************************************************************)
LEMMA InitHolds ==
  ASSUME Init
  PROVE  IInv
<1> USE LocalLoginAssumption
<1>1. First \in Nat /\ First \in First .. MaxClock
  BY DEF First
<1>2. \A u \in Users : lockedUntil[u] = 0 /\ ~LockStands(u)
  BY <1>1 DEF Init, LockStands
<1>3. TypeOK
  <2>1. role \in [Users -> Roles] /\ credentialed \subseteq {u \in Users : role[u] # "none"}
    BY DEF Init
  <2>2. request \in [Requests -> Request]
    BY IdleIsRequest DEF Init
  <2> QED BY <1>1, <2>1, <2>2 DEF Init, TypeOK, NoCommand
<1>4. Somebody
  BY IdleIsRequest DEF Init, Somebody, NoCommand
<1>5. Spent /\ Counted
  BY DEF Init, Spent, Counted
<1>6. LockHolds
  BY <1>2 DEF LockHolds
<1>7. OpenUnlessOvertaken /\ ChangesEndSessions
  BY DEF Init, OpenUnlessOvertaken, ChangesEndSessions
<1>8. AnOwnerRemains
  <2>1. HasOwner(role) /\ disabled = {}
    BY DEF Init
  <2> QED BY <2>1 DEF AnOwnerRemains, HasOwner
<1> QED BY <1>3, <1>4, <1>5, <1>6, <1>7, <1>8 DEF IInv

LEMMA TypeStep ==
  ASSUME IInv, [Next]_vars
  PROVE  TypeOK' /\ Somebody'
<1> USE LocalLoginAssumption
<1>0. TypeOK /\ Somebody
  BY DEF IInv
<1>1. ASSUME NEW r \in Requests, NEW u \in Users, Attempt(r, u)
      PROVE  TypeOK' /\ Somebody'
  <2>1. PICK step \in {NoStep} \cup now - Window .. now + Window :
          request' = [request EXCEPT ![r] = Waiting(u, step, failed[u])]
    BY <1>1 DEF Attempt
  <2>2. step \in Steps \cup {NoStep}
    BY <1>0, <2>1 DEF TypeOK, First, Steps, NoStep
  <2>3. Waiting(u, step, failed[u]) \in Request
    BY <1>0, <2>2 DEF TypeOK, Waiting, Request, First
  <2>4. Waiting(u, step, failed[u]).user = u
    BY DEF Waiting
  <2> QED BY <1>0, <1>1, <2>1, <2>3, <2>4
          DEF TypeOK, Somebody, Attempt, account, credential, history
<1>2. ASSUME NEW r \in Requests, Accept(r)
      PROVE  TypeOK' /\ Somebody'
  <2>1. request[r] \in Request /\ request[r].user \in Users /\ request[r].overtaken \in BOOLEAN
    BY <1>0, <1>2 DEF TypeOK, Somebody, Accept, Request
  <2>2. request[r].step \in Steps
    BY <1>2, <2>1 DEF Accept, Consumes, Request
  <2>3. sessions' \subseteq Session
    <3>1. PICK old \in {{}} \cup {{s} : s \in sessions} :
            sessions' = WithNewSession(sessions \ old, request[r].user, request[r].overtaken)
      BY <1>2 DEF Accept, SignedInAgain
    <3> QED BY <1>0, <2>1, <3>1, NewSessionShape
  <2>4. uses' \in [Users -> [Steps -> Nat]]
    <3>1. uses[request[r].user] \in [Steps -> Nat]
      BY <1>0, <2>1 DEF TypeOK
    <3>2. [uses[request[r].user] EXCEPT ![request[r].step] = @ + 1] \in [Steps -> Nat]
      BY <2>2, <3>1
    <3>3. uses' = [uses EXCEPT ![request[r].user] =
                     [uses[request[r].user] EXCEPT ![request[r].step] = @ + 1]]
      BY <1>2 DEF Accept
    <3> QED BY <1>0, <3>2, <3>3 DEF TypeOK
  <2> QED BY <1>0, <1>2, <2>1, <2>2, <2>3, <2>4, IdleIsRequest
          DEF TypeOK, Somebody, Accept, account
<1>3. ASSUME NEW r \in Requests, Refuse(r)
      PROVE  TypeOK' /\ Somebody'
  <2>1. request[r] \in Request /\ request[r].user \in Users /\ request[r].started \in Nat
    BY <1>0, <1>3 DEF TypeOK, Somebody, Refuse, Request
  <2>2. FailuresNow(r) \in Nat
    BY <1>0, <2>1 DEF TypeOK, FailuresNow
  <2> QED BY <1>0, <1>3, <2>1, <2>2, IdleIsRequest DEF TypeOK, Somebody, Refuse, account
<1>4. ASSUME NEW u \in Users, OidcSignIn(u)
      PROVE  TypeOK' /\ Somebody'
  <2>1. PICK old \in {{}} \cup {{s} : s \in {t \in sessions : Resolves(t)}} :
          sessions' = WithNewSession(sessions \ old, u, FALSE)
    BY <1>4 DEF OidcSignIn, SignedInAgain
  <2>2. sessions' \subseteq Session
    BY <1>0, <2>1, NewSessionShape
  <2>3. created' \in Nat
    BY <1>0, <1>4 DEF TypeOK, OidcSignIn
  <2> HIDE LocalLoginAssumption
  <2>4. TypeOK'
    BY <1>0, <1>4, <2>2, <2>3 DEF TypeOK, OidcSignIn, account, credential, history
  <2> QED BY <1>0, <1>4, <2>4 DEF Somebody, OidcSignIn, account
<1>5. ASSUME NEW s \in sessions, Read(s) \/ Logout(s)
      PROVE  TypeOK' /\ Somebody'
  <2>1. sessions' \subseteq Session
    BY <1>0, <1>5, AfterReadKeeps DEF Read, Logout, TypeOK
  <2> QED BY <1>0, <1>5, <2>1 DEF TypeOK, Somebody, Read, Logout, account, credential, history
<1>6. ASSUME NEW u \in Users, StartCommand(u)
      PROVE  TypeOK' /\ Somebody'
  <2>1. role' \in [Users -> Roles]
    BY <1>0, <1>6 DEF StartCommand, WithUser, RoleOfNew, TypeOK, Roles
  <2>2. \A v \in Users : role[v] # "none" => role'[v] # "none"
    BY <1>0, <1>6 DEF StartCommand, WithUser, RoleOfNew, TypeOK
  <2>3. role'[u] # "none"
    BY <1>0, <1>6 DEF StartCommand, WithUser, RoleOfNew, TypeOK
  <2>4. command' = [at |-> "hashing", user |-> u]
    BY <1>6 DEF StartCommand
  <2> QED BY <1>0, <1>6, <2>1, <2>2, <2>3, <2>4
          DEF TypeOK, Somebody, StartCommand, credential, history
<1>7. CASE WriteCredential
  <2>1. command.user \in Users /\ role[command.user] # "none"
    BY <1>0, <1>7 DEF Somebody, WriteCredential
  <2>2. sessions' \subseteq Session
    <3>1. \A s \in sessions : [s EXCEPT !.old = TRUE] \in Session
      BY <1>0, AgedIsSession DEF TypeOK
    <3> QED BY <1>0, <1>7, <3>1 DEF WriteCredential, TypeOK
  <2>3. request' \in [Requests -> Request] /\ \A r \in Requests :
          request'[r].at = request[r].at /\ request'[r].user = request[r].user
    BY <1>0, <1>7, OvertakenShape DEF WriteCredential
  <2>4. command' \in [at : {"idle", "hashing", "written"}, user : Users \cup {NoUser}]
    BY <1>7, <2>1 DEF WriteCredential, EndedAfter, NoCommand
  <2>5. command'.at # "idle" => command'.user = command.user
    BY <1>7, <2>1 DEF WriteCredential, EndedAfter, NoCommand
  <2> QED BY <1>0, <1>7, <2>1, <2>2, <2>3, <2>4, <2>5
          DEF TypeOK, Somebody, WriteCredential, account, NoStep
<1>8. CASE EndSessions
  BY <1>0, <1>8 DEF TypeOK, Somebody, EndSessions, SessionsWithout, NoCommand,
                    account, credential, history
<1>9. ASSUME NEW by \in sessions, NEW u \in Users, Disable(by, u)
      PROVE  TypeOK' /\ Somebody'
  <2>1. sessions' \subseteq Session
    BY <1>0, <1>9, AfterReadKeeps DEF Disable, KeptAfterDisabling
  <2>2. request' \in [Requests -> Request] /\ \A r \in Requests :
          request'[r].at = request[r].at /\ request'[r].user = request[r].user
    BY <1>0, <1>9, OvertakenShape DEF Disable
  <2> QED BY <1>0, <1>9, <2>1, <2>2 DEF TypeOK, Somebody, Disable, credential, history
<1>10. ASSUME NEW by \in sessions, NEW u \in Users, Enable(by, u)
       PROVE  TypeOK' /\ Somebody'
  <2>1. sessions' \subseteq Session
    BY <1>0, <1>10, AfterReadKeeps DEF Enable
  <2> QED BY <1>0, <1>10, <2>1 DEF TypeOK, Somebody, Enable, credential, history
<1>11. CASE Tick
  BY <1>0, <1>11 DEF TypeOK, Somebody, Tick, First, account, credential, history
<1>12. CASE UNCHANGED vars
  BY <1>0, <1>12 DEF TypeOK, Somebody, vars
<1> QED BY <1>1, <1>2, <1>3, <1>4, <1>5, <1>6, <1>7, <1>8, <1>9, <1>10, <1>11, <1>12 DEF Next

LEMMA SpentStep ==
  ASSUME IInv, [Next]_vars
  PROVE  Spent'
<1>0. TypeOK /\ Somebody /\ Spent
  BY DEF IInv
<1>1. ASSUME NEW r \in Requests, Accept(r)
      PROVE  Spent'
  <2> DEFINE w == request[r].user
             n == request[r].step
  <2>1. w \in Users /\ n \in Steps /\ n > lastStep[w] /\ lastStep[w] \in Int
    BY <1>0, <1>1 DEF TypeOK, Somebody, Accept, Consumes, Request, Steps, NoStep
  <2>2. \A u \in Users : u # w => uses'[u] = uses[u] /\ lastStep'[u] = lastStep[u]
    BY <1>0, <1>1, <2>1 DEF TypeOK, Accept
  <2>3. lastStep'[w] = n /\ uses'[w] = [uses[w] EXCEPT ![n] = @ + 1]
    BY <1>0, <1>1, <2>1 DEF TypeOK, Accept
  <2>4. uses[w] \in [Steps -> Nat]
    BY <1>0, <2>1 DEF TypeOK
  <2>5. \A step \in Steps : uses[w][step] \in {0, 1} /\ (uses[w][step] = 1 => step <= lastStep[w])
    BY <1>0, <2>1 DEF Spent
  <2>6. uses[w][n] = 0
    BY <2>1, <2>5 DEF Steps
  <2>7. \A step \in Steps : uses'[w][step] \in {0, 1} /\ (uses'[w][step] = 1 => step <= lastStep'[w])
    BY <2>1, <2>3, <2>4, <2>5, <2>6 DEF Steps
  <2> QED BY <1>0, <2>2, <2>7 DEF Spent
<1>2. CASE WriteCredential
  <2>1. \A u \in Users : \/ uses'[u] = uses[u] /\ lastStep'[u] = lastStep[u]
                         \/ uses'[u] = [step \in Steps |-> 0]
    BY <1>0, <1>2 DEF TypeOK, WriteCredential
  <2> QED BY <1>0, <2>1 DEF Spent
<1>3. CASE UNCHANGED <<uses, lastStep>>
  BY <1>0, <1>3 DEF Spent
<1> QED BY <1>1, <1>2, <1>3
        DEF Next, vars, Attempt, Refuse, OidcSignIn, Read, Logout, StartCommand, EndSessions,
            Disable, Enable, Tick, credential, history

LEMMA CountedStep ==
  ASSUME IInv, [Next]_vars
  PROVE  Counted'
<1> USE LocalLoginAssumption
<1>0. TypeOK /\ Somebody /\ Counted
  BY DEF IInv
<1>1. ASSUME NEW r \in Requests, Accept(r)
      PROVE  Counted'
  BY <1>0, <1>1 DEF TypeOK, Counted, Accept
<1>2. ASSUME NEW r \in Requests, Refuse(r)
      PROVE  Counted'
  <2>1. request[r].user \in Users
    BY <1>0, <1>2 DEF Somebody, Refuse
  <2> QED BY <1>0, <1>2, <2>1 DEF TypeOK, Counted, Refuse, FailuresNow
<1>3. CASE WriteCredential
  BY <1>0, <1>3 DEF TypeOK, Counted, WriteCredential
<1>4. CASE UNCHANGED <<guesses, failed>>
  BY <1>0, <1>4 DEF Counted
<1> QED BY <1>1, <1>2, <1>3, <1>4
        DEF Next, vars, Attempt, OidcSignIn, Read, Logout, StartCommand, EndSessions,
            Disable, Enable, Tick, credential, history

\* A login that ends is one less in flight, and there are only so many.
LEMMA FlightsAreFew ==
  ASSUME NEW u, NEW r \in InFlight(u)
  PROVE  /\ IsFiniteSet(InFlight(u))
         /\ Cardinality(InFlight(u)) \in Nat
         /\ Cardinality(Requests) \in Nat
         /\ Cardinality(InFlight(u) \ {r}) = Cardinality(InFlight(u)) - 1
         /\ Cardinality(InFlight(u)) <= Cardinality(Requests)
<1>1. InFlight(u) \subseteq Requests /\ IsFiniteSet(Requests)
  BY LocalLoginAssumption DEF InFlight
<1> QED BY <1>1, FS_Subset, FS_RemoveElement, FS_CardinalityType

LEMMA LockStep ==
  ASSUME IInv, [Next]_vars
  PROVE  LockHolds'
<1> USE LocalLoginAssumption
<1>0. TypeOK /\ Somebody /\ LockHolds /\ now \in Nat /\ now > 0
  BY DEF IInv, TypeOK, First
<1>1. ASSUME NEW r \in Requests, NEW u \in Users, Attempt(r, u)
      PROVE  LockHolds'
  <2>1. PICK step : request' = [request EXCEPT ![r] = Waiting(u, step, failed[u])]
    BY <1>1 DEF Attempt
  <2>2. \A x \in Users \ {u} : InFlight(x)' = InFlight(x)
    BY <1>0, <1>1, <2>1 DEF Attempt, InFlight, Waiting, TypeOK
  <2>3. ~LockStands(u)
    BY <1>1 DEF Attempt, MayVerify
  <2> QED BY <1>0, <1>1, <2>2, <2>3 DEF Attempt, LockHolds, LockStands, credential, history
<1>2. ASSUME NEW r \in Requests, Accept(r)
      PROVE  LockHolds'
  <2>1. request[r].user \in Users
    BY <1>0, <1>2 DEF Somebody, Accept
  <2>2. \A x \in Users : x # request[r].user => InFlight(x)' = InFlight(x)
    BY <1>0, <1>2, IdleIsRequest DEF Accept, InFlight, TypeOK
  <2>3. lockedUntil'[request[r].user] = 0 /\ now' = now
    BY <1>0, <1>2, <2>1 DEF Accept, TypeOK
  <2>4. \A x \in Users : x # request[r].user =>
          lockedUntil'[x] = lockedUntil[x] /\ locked'[x] = locked[x]
    BY <1>0, <1>2, <2>1 DEF Accept, TypeOK
  <2> QED BY <1>0, <2>1, <2>2, <2>3, <2>4 DEF LockHolds, LockStands
<1>3. ASSUME NEW r \in Requests, Refuse(r)
      PROVE  LockHolds'
  <2>0. PICK w \in Users : w = request[r].user
    BY <1>0, <1>3 DEF Somebody, Refuse
  <2>1. w \in Users /\ r \in InFlight(w)
    BY <1>3, <2>0 DEF Refuse, InFlight
  <2>a. \A q \in Requests : request'[q] = IF q = r THEN IdleRequest ELSE request[q]
    BY <1>0, <1>3 DEF Refuse, TypeOK
  <2>2. \A x \in Users : x # w => InFlight(x)' = InFlight(x)
    BY <2>0, <2>a, IdleIsRequest DEF InFlight
  <2>3. InFlight(w)' = InFlight(w) \ {r}
    BY <2>0, <2>a, IdleIsRequest DEF InFlight
  <2>4. \A x \in Users : x # w => lockedUntil'[x] = lockedUntil[x] /\ locked'[x] = locked[x]
    BY <1>0, <1>3, <2>0 DEF Refuse, TypeOK
  <2>5. now' = now
    BY <1>3 DEF Refuse
  <2>6. LockStands(w)' => locked'[w] + Cardinality(InFlight(w)') < Cardinality(Requests)
    <3>1. CASE FailuresNow(r) >= Threshold
      <4>1. locked'[w] = 0
        BY <1>0, <1>3, <2>0, <3>1 DEF Refuse, TypeOK
      <4>2. Cardinality(InFlight(w) \ {r}) < Cardinality(Requests)
        BY <2>1, FlightsAreFew
      <4> QED BY <2>1, <2>3, <4>1, <4>2, FlightsAreFew
    <3>2. CASE ~(FailuresNow(r) >= Threshold)
      <4>1. lockedUntil'[w] = lockedUntil[w]
        BY <1>0, <1>3, <2>0, <3>2 DEF Refuse, TypeOK
      <4>2. LockStands(w) => locked'[w] = locked[w] + 1
        BY <1>0, <1>3, <2>0, <3>2 DEF Refuse, TypeOK
      <4>3. locked[w] \in Nat
        BY <1>0, <2>1 DEF TypeOK
      <4>4. LockStands(w)' => LockStands(w)
        BY <2>5, <4>1 DEF LockStands
      <4>5. LockStands(w) => locked[w] + Cardinality(InFlight(w)) < Cardinality(Requests)
        BY <1>0 DEF LockHolds
      <4>6. /\ Cardinality(InFlight(w)) \in Nat /\ Cardinality(Requests) \in Nat
            /\ Cardinality(InFlight(w) \ {r}) = Cardinality(InFlight(w)) - 1
        BY <2>1, FlightsAreFew
      <4> QED BY <2>3, <4>2, <4>3, <4>4, <4>5, <4>6
    <3> QED BY <3>1, <3>2
  <2> QED BY <1>0, <2>2, <2>4, <2>5, <2>6 DEF LockHolds, LockStands
<1>4. CASE WriteCredential
  <2>1. \A x : InFlight(x)' = InFlight(x)
    BY <1>0, <1>4, OvertakenShape DEF WriteCredential, InFlight
  <2>2. \A x \in Users : \/ lockedUntil'[x] = 0
                         \/ lockedUntil'[x] = lockedUntil[x] /\ locked'[x] = locked[x]
    BY <1>0, <1>4 DEF WriteCredential, TypeOK
  <2>3. now' = now
    BY <1>4 DEF WriteCredential
  <2> QED BY <1>0, <2>1, <2>2, <2>3 DEF LockHolds, LockStands
<1>5. ASSUME NEW by \in sessions, NEW u \in Users, Disable(by, u)
      PROVE  LockHolds'
  <2>1. \A x : InFlight(x)' = InFlight(x)
    BY <1>0, <1>5, OvertakenShape DEF Disable, InFlight
  <2> QED BY <1>0, <1>5, <2>1 DEF Disable, LockHolds, LockStands, credential, history
<1>6. CASE Tick
  <2>1. \A x \in Users : lockedUntil[x] \in Nat
    BY <1>0 DEF TypeOK
  <2> QED BY <1>0, <1>6, <2>1 DEF Tick, LockHolds, LockStands, InFlight, credential, history
<1>7. CASE UNCHANGED <<now, lockedUntil, locked, request>>
  BY <1>0, <1>7 DEF LockHolds, LockStands, InFlight
<1> QED BY <1>1, <1>2, <1>3, <1>4, <1>5, <1>6, <1>7
        DEF Next, vars, OidcSignIn, Read, Logout, StartCommand, EndSessions, Enable,
            credential, history

LEMMA SessionStep ==
  ASSUME IInv, [Next]_vars
  PROVE  OpenUnlessOvertaken' /\ ChangesEndSessions'
<1> USE LocalLoginAssumption
<1>0. TypeOK /\ Somebody /\ OpenUnlessOvertaken /\ ChangesEndSessions
  BY DEF IInv
<1>1. ASSUME NEW r \in Requests, NEW u \in Users, Attempt(r, u)
      PROVE  OpenUnlessOvertaken' /\ ChangesEndSessions'
  <2>1. PICK step : request' = [request EXCEPT ![r] = Waiting(u, step, failed[u])]
    BY <1>1 DEF Attempt
  <2>2. Waiting(u, step, failed[u]).user = u /\ u \notin disabled
    BY <1>1 DEF Waiting, Attempt, MayVerify
  <2> QED BY <1>0, <1>1, <2>1, <2>2
          DEF TypeOK, OpenUnlessOvertaken, ChangesEndSessions, Attempt, account
<1>2. ASSUME NEW r \in Requests, Accept(r)
      PROVE  OpenUnlessOvertaken' /\ ChangesEndSessions'
  <2>1. request[r].user \in Users /\ request[r].overtaken \in BOOLEAN /\ request[r].at = "verifying"
    BY <1>0, <1>2 DEF TypeOK, Somebody, Accept, Request
  <2>2. request[r].user \in disabled => request[r].overtaken
    BY <1>0, <2>1 DEF OpenUnlessOvertaken
  <2>3. PICK ss \in SUBSET sessions :
          sessions' = WithNewSession(ss, request[r].user, request[r].overtaken)
    BY <1>2 DEF Accept, SignedInAgain
  <2>4. \A s \in sessions' : s \in sessions \/
          (s.user = request[r].user /\ s.overtaken = request[r].overtaken /\ s.old = FALSE)
    <3>1. \A u \in Users, b \in BOOLEAN : \A t \in WithNewSession(ss, u, b) :
            t \in ss \/ (t.user = u /\ t.overtaken = b /\ t.old = FALSE)
      BY <1>0, NewSessionShape
    <3> DEFINE who == request[r].user
    <3> DEFINE late == request[r].overtaken
    <3>2. who \in Users /\ late \in BOOLEAN /\ sessions' = WithNewSession(ss, who, late)
      BY <2>1, <2>3
    <3> HIDE DEF who, late
    <3>3. \A s \in sessions' : s \in sessions \/ (s.user = who /\ s.overtaken = late /\ s.old = FALSE)
      BY <3>1, <3>2
    <3> QED BY <3>3 DEF who, late
  <2>5. ChangesEndSessions'
    BY <1>0, <1>2, <2>2, <2>4 DEF ChangesEndSessions, Accept, account
  <2>6. OpenUnlessOvertaken'
    BY <1>0, <1>2, IdleIsRequest DEF TypeOK, OpenUnlessOvertaken, Accept, account
  <2> QED BY <2>5, <2>6
<1>3. ASSUME NEW r \in Requests, Refuse(r)
      PROVE  OpenUnlessOvertaken' /\ ChangesEndSessions'
  BY <1>0, <1>3, IdleIsRequest DEF TypeOK, OpenUnlessOvertaken, ChangesEndSessions, Refuse, account
<1>4. ASSUME NEW u \in Users, OidcSignIn(u)
      PROVE  OpenUnlessOvertaken' /\ ChangesEndSessions'
  <2>1. PICK old \in {{}} \cup {{s} : s \in {t \in sessions : Resolves(t)}} :
          sessions' = WithNewSession(sessions \ old, u, FALSE)
    BY <1>4 DEF OidcSignIn, SignedInAgain
  <2>2. \A s \in sessions' : s \in sessions \/ (s.user = u /\ s.old = FALSE)
    BY <1>0, <2>1, NewSessionShape
  <2> QED BY <1>0, <1>4, <2>2 DEF OpenUnlessOvertaken, ChangesEndSessions, OidcSignIn, account
<1>5. ASSUME NEW s \in sessions, Read(s) \/ Logout(s)
      PROVE  OpenUnlessOvertaken' /\ ChangesEndSessions'
  <2>1. \A t \in sessions' : \E x \in sessions :
          t.user = x.user /\ t.overtaken = x.overtaken /\ t.old = x.old
    BY <1>0, <1>5, AfterReadKeeps DEF Read, Logout
  <2> QED BY <1>0, <1>5, <2>1 DEF OpenUnlessOvertaken, ChangesEndSessions, Read, Logout, account
<1>6. ASSUME NEW u \in Users, StartCommand(u)
      PROVE  OpenUnlessOvertaken' /\ ChangesEndSessions'
  <2>1. \A s \in sessions : ~s.old
    BY <1>0, <1>6 DEF ChangesEndSessions, StartCommand, NoCommand, TypeOK, Session
  <2> QED BY <1>0, <1>6, <2>1 DEF OpenUnlessOvertaken, ChangesEndSessions, StartCommand
<1>7. CASE WriteCredential
  <2> DEFINE w == command.user
  <2>1. \A s \in sessions : ~s.old
    <3>1. command.at # "written"
      BY <1>7 DEF WriteCredential
    <3> QED BY <1>0, <3>1 DEF ChangesEndSessions
  <2>2. \A t \in sessions' : \E x \in sessions : t.user = x.user /\ t.overtaken = x.overtaken
          /\ (t.old => t.user = w /\ w \in credentialed)
    <3>1. \A s \in sessions : [s EXCEPT !.old = TRUE].user = s.user
                              /\ [s EXCEPT !.old = TRUE].overtaken = s.overtaken
      BY <1>0, AgedIsSession DEF TypeOK
    <3> QED BY <1>7, <2>1, <3>1, ZenonT(40) DEF WriteCredential
  <2>3. w \in credentialed => command' = [at |-> "written", user |-> w]
    BY <1>7 DEF WriteCredential, EndedAfter
  <2>4. OpenUnlessOvertaken'
    BY <1>0, <1>7, OvertakenShape, ZenonT(40) DEF OpenUnlessOvertaken, WriteCredential, account
  <2> QED BY <1>0, <1>7, <2>2, <2>3, <2>4 DEF ChangesEndSessions, WriteCredential, account
<1>8. CASE EndSessions
  <2>1. \A s \in sessions : s.old => s.user = command.user
    BY <1>0 DEF ChangesEndSessions
  <2> QED BY <1>0, <1>8, <2>1
          DEF OpenUnlessOvertaken, ChangesEndSessions, EndSessions, SessionsWithout, account
<1>9. ASSUME NEW by \in sessions, NEW u \in Users, Disable(by, u)
      PROVE  OpenUnlessOvertaken' /\ ChangesEndSessions'
  <2>1. \A t \in sessions' : t.user # u /\ \E x \in sessions :
          t.user = x.user /\ t.overtaken = x.overtaken /\ t.old = x.old
    BY <1>0, <1>9, AfterReadKeeps DEF Disable, KeptAfterDisabling
  <2>2. ChangesEndSessions'
    BY <1>0, <1>9, <2>1 DEF ChangesEndSessions, Disable
  <2>3. OpenUnlessOvertaken'
    <3>1. request' = Overtaken(u) /\ disabled' = disabled \cup {u}
      BY <1>9 DEF Disable
    <3>2. \A r \in Requests : ~request'[r].overtaken => request[r].user # u /\ ~request[r].overtaken
      BY <1>0, <3>1, OvertakenShape
    <3>3. \A r \in Requests : request'[r].at = request[r].at /\ request'[r].user = request[r].user
      BY <1>0, <3>1, OvertakenShape
    <3> QED BY <1>0, <3>1, <3>2, <3>3 DEF OpenUnlessOvertaken
  <2> QED BY <2>2, <2>3
<1>10. ASSUME NEW by \in sessions, NEW u \in Users, Enable(by, u)
       PROVE  OpenUnlessOvertaken' /\ ChangesEndSessions'
  <2>1. \A t \in sessions' : \E x \in sessions :
          t.user = x.user /\ t.overtaken = x.overtaken /\ t.old = x.old
    BY <1>0, <1>10, AfterReadKeeps DEF Enable
  <2> QED BY <1>0, <1>10, <2>1 DEF OpenUnlessOvertaken, ChangesEndSessions, Enable
<1>11. CASE UNCHANGED <<disabled, request, sessions, command>>
  BY <1>0, <1>11 DEF OpenUnlessOvertaken, ChangesEndSessions
<1> QED BY <1>1, <1>2, <1>3, <1>4, <1>5, <1>6, <1>7, <1>8, <1>9, <1>10, <1>11
        DEF Next, vars, Tick, account

LEMMA OwnerStep ==
  ASSUME IInv, [Next]_vars
  PROVE  AnOwnerRemains'
<1>0. TypeOK /\ AnOwnerRemains
  BY DEF IInv
<1>1. ASSUME NEW u \in Users, StartCommand(u)
      PROVE  AnOwnerRemains'
  <2>1. CASE \A v \in Users : role[v] = "none"
    <3>1. role'[u] = "owner" /\ disabled' = {}
      BY <1>0, <1>1, <2>1 DEF TypeOK, StartCommand, WithUser, RoleOfNew
    <3> QED BY <3>1 DEF AnOwnerRemains
  <2>2. CASE \E v \in Users : role[v] # "none"
    <3>1. PICK o \in Users : role[o] = "owner" /\ o \notin disabled
      BY <1>0, <2>2 DEF AnOwnerRemains
    <3>2. role'[o] = "owner" /\ disabled' = disabled
      BY <1>0, <1>1, <3>1 DEF TypeOK, StartCommand, WithUser
    <3> QED BY <3>1, <3>2 DEF AnOwnerRemains
  <2> QED BY <2>1, <2>2
<1>2. ASSUME NEW by \in sessions, NEW u \in Users, Disable(by, u)
      PROVE  AnOwnerRemains'
  <2>1. PICK o \in Users \ {u} : role[o] = "owner" /\ o \notin disabled
    <3>1. CASE role[u] = "owner"
      BY <1>2, <3>1 DEF Disable, OtherEnabledOwner
    <3>2. CASE role[u] # "owner"
      BY <1>0, <1>2, <3>2 DEF Disable, AnOwnerRemains
    <3> QED BY <3>1, <3>2
  <2>2. role' = role /\ disabled' = disabled \cup {u}
    BY <1>2 DEF Disable
  <2> QED BY <2>1, <2>2 DEF AnOwnerRemains
<1>3. ASSUME NEW by \in sessions, NEW u \in Users, Enable(by, u)
      PROVE  AnOwnerRemains'
  BY <1>0, <1>3 DEF Enable, AnOwnerRemains
<1>4. CASE UNCHANGED <<role, disabled>>
  BY <1>0, <1>4 DEF AnOwnerRemains
<1> QED BY <1>1, <1>2, <1>3, <1>4
        DEF Next, vars, Attempt, Accept, Refuse, OidcSignIn, Read, Logout, WriteCredential,
            EndSessions, Tick, account

(***************************************************************************)
(* The theorems                                                            *)
(***************************************************************************)
THEOREM InductiveInvariant == Spec => []IInv
<1>1. IInv /\ [Next]_vars => IInv'
  BY TypeStep, SpentStep, CountedStep, LockStep, SessionStep, OwnerStep DEF IInv
<1> QED BY InitHolds, <1>1, PTL DEF Spec

\* The types hold (local.ts, sessions.ts, users.ts, provision.ts).
THEOREM LoginTypes == Spec => []TypeOK
<1>1. IInv => TypeOK
  BY DEF IInv
<1> QED BY <1>1, InductiveInvariant, PTL

\* However many logins present one code together, one of them is let in.
THEOREM SpentOnce == Spec => []CodesAreSpentOnce
<1>1. IInv => CodesAreSpentOnce
  BY DEF IInv, Spent, CodesAreSpentOnce
<1> QED BY <1>1, InductiveInvariant, PTL

\* No interleaving loses a failure before the threshold.
THEOREM FailuresCounted == Spec => []FailuresAreCounted
<1>1. IInv => FailuresAreCounted
  BY DEF IInv, Counted, FailuresAreCounted
<1> QED BY <1>1, InductiveInvariant, PTL

\* Under a lock only the logins in flight are still answered.
THEOREM LockStops == Spec => []LockStopsGuessing
<1>1. IInv => LockStopsGuessing
  <2> SUFFICES ASSUME IInv, NEW u \in Users, LockStands(u)
               PROVE  locked[u] < Cardinality(Requests)
    BY DEF LockStopsGuessing
  <2>1. locked[u] + Cardinality(InFlight(u)) < Cardinality(Requests) /\ locked[u] \in Nat
    BY DEF IInv, LockHolds, TypeOK
  <2>2. IsFiniteSet(Requests) /\ InFlight(u) \subseteq Requests
    BY LocalLoginAssumption DEF InFlight
  <2>3. Cardinality(InFlight(u)) \in Nat /\ Cardinality(Requests) \in Nat
    BY <2>2, FS_Subset, FS_CardinalityType
  <2> QED BY <2>1, <2>3
<1> QED BY <1>1, InductiveInvariant, PTL

\* Both: what an account takes before its lock, and what the lock lets through.
THEOREM GuessesBounded == Spec => []GuessesAreBounded
<1>1. FailuresAreCounted /\ LockStopsGuessing => GuessesAreBounded
  BY DEF GuessesAreBounded
<1> QED BY <1>1, FailuresCounted, LockStops, PTL

\* Disabling an account, or setting its password, ends the sessions it had.
THEOREM SessionsEnded == Spec => []ChangesEndSessions
<1>1. IInv => ChangesEndSessions
  BY DEF IInv
<1> QED BY <1>1, InductiveInvariant, PTL

\* A tenant keeps an enabled owner.
THEOREM OwnerRemains == Spec => []AnOwnerRemains
<1>1. IInv => AnOwnerRemains
  BY DEF IInv
<1> QED BY <1>1, InductiveInvariant, PTL
=============================================================================
