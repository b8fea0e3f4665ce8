-------------------------- MODULE OnboardingProofs --------------------------
(***************************************************************************)
(* Proofs about Onboarding, for every set of browsers, people, households  *)
(* and invites, and every lifetime of the rows: each household has its one *)
(* owner, invites and viewers go together, a revoked invite stays closed,  *)
(* a flow is used once, and the audit log says what the tables say.        *)
(*                                                                         *)
(* The tables change in four ways only, which StoresShape names; the rest  *)
(* of a step moves rows of the two short-lived tables and cookies.         *)
(***************************************************************************)
EXTENDS Onboarding, TLAPS

\* A row that names a household names one there is.
Placed ==
  /\ \A sub \in Subjects : users[sub].role # "none" => users[sub].tenant \in tenants
  /\ \A i \in Invites : invites[i].status # "none" => invites[i].tenant \in tenants

\* Only a redeemed invite names who redeemed it.
Named == \A i \in Invites : invites[i].by # Nobody => invites[i].status = "redeemed"

\* A flow in the table is the only one with its id, and no callback has had it.
FreshFlows ==
  /\ \A f \in flows : f.id <= started /\ exchanged[f.id] = 0
  /\ \A f, g \in flows : f.id = g.id => f = g
  /\ \A n \in 1 .. MaxFlows : n > started => exchanged[n] = 0

TableInv == EveryTenantHasItsOwner /\ InvitesBringTheViewers /\ RevokedOrRedeemed
            /\ OneHouseholdUnlessAllowed /\ TrailMatchesTables /\ Placed /\ Named
IInv == TypeOK /\ TableInv /\ FlowsAreUsedOnce /\ FreshFlows

(***************************************************************************)
(* What a step does to the tables                                          *)
(***************************************************************************)
NewTenant(sub, t) ==
  /\ ~Known(sub) /\ t \notin tenants /\ MayCreate
  /\ tenants' = tenants \cup {t}
  /\ users' = [users EXCEPT ![sub] = [role |-> "owner", tenant |-> t]]
  /\ audit' = Audited("tenant.create", t)
  /\ UNCHANGED invites

NewViewer(sub, i) ==
  /\ ~Known(sub) /\ invites[i].status = "open"
  /\ invites' = [invites EXCEPT ![i] = [invites[i] EXCEPT !.status = "redeemed", !.by = sub]]
  /\ users' = [users EXCEPT ![sub] = [role |-> "viewer", tenant |-> invites[i].tenant]]
  /\ audit' = Audited("tenant.invite.redeem", i)
  /\ UNCHANGED tenants

NewInvite(t, i) ==
  /\ t \in tenants /\ invites[i] = NoInvite
  /\ invites' = [invites EXCEPT ![i] = [status |-> "open", tenant |-> t,
                                        expires |-> now + InviteTtl, by |-> Nobody]]
  /\ audit' = Audited("tenant.invite.create", i)
  /\ UNCHANGED <<tenants, users>>

Closed(i) ==
  /\ invites[i].status = "open"
  /\ invites' = [invites EXCEPT ![i] = [invites[i] EXCEPT !.status = "revoked"]]
  /\ audit' = Audited("tenant.invite.revoke", i)
  /\ UNCHANGED <<tenants, users>>

StepsOnTables ==
  \/ \E sub \in Subjects, t \in Tenants : NewTenant(sub, t)
  \/ \E sub \in Subjects, i \in Invites : NewViewer(sub, i)
  \/ \E t \in Tenants, i \in Invites : NewInvite(t, i)
  \/ \E i \in Invites : Closed(i)
  \/ UNCHANGED tables

LEMMA PendingHasSubject ==
  ASSUME TypeOK, NEW p \in pending
  PROVE  p.sub \in Subjects
BY DEF TypeOK, Pending

LEMMA StoresShape ==
  ASSUME TypeOK, Placed, Next
  PROVE  StepsOnTables
<1>1. ASSUME NEW b \in Browsers, CreateTenant(b)
      PROVE  StepsOnTables
  <2>1. PICK p \in Peeked(b), t \in Tenants \ tenants : MayCreate /\ Store(Created(t, p.sub))
    BY <1>1 DEF CreateTenant
  <2>2. p.sub \in Subjects
    BY <2>1, PendingHasSubject DEF Peeked
  <2>3. CASE Known(p.sub)
    BY <2>1, <2>3 DEF Store, Created, Unchanged, StepsOnTables, tables
  <2>4. CASE ~Known(p.sub)
    BY <2>1, <2>2, <2>4 DEF Store, Created, Unchanged, StepsOnTables, NewTenant
  <2> QED BY <2>3, <2>4
<1>2. ASSUME NEW b \in Browsers, RedeemInvite(b)
      PROVE  StepsOnTables
  <2>1. PICK p \in Peeked(b), i \in Invites : Claims(i) /\ Store(Redeemed(i, p.sub))
    BY <1>2 DEF RedeemInvite
  <2>2. p.sub \in Subjects
    BY <2>1, PendingHasSubject DEF Peeked
  <2>3. CASE Known(p.sub)
    BY <2>1, <2>3 DEF Store, Redeemed, Unchanged, StepsOnTables, tables
  <2>4. CASE ~Known(p.sub)
    <3>1. invites[i].status = "open" /\ invites[i] \in Invite
      BY <2>1 DEF Claims, TypeOK
    <3>2. RedeemedBy(p.sub, i) = [invites[i] EXCEPT !.status = "redeemed", !.by = p.sub]
      BY <3>1 DEF RedeemedBy, Invite
    <3>3. NewViewer(p.sub, i)
      BY <2>1, <2>4, <3>1, <3>2 DEF Store, Redeemed, Unchanged, NewViewer
    <3> QED BY <2>2, <3>3 DEF StepsOnTables
  <2> QED BY <2>3, <2>4
<1>3. ASSUME NEW b \in Browsers, NEW i \in Invites, CreateInvite(b, i)
      PROVE  StepsOnTables
  <2>1. signedIn[b] \in Subjects /\ users[signedIn[b]].role # "none"
    BY <1>3 DEF CreateInvite, IsOwner, TypeOK
  <2>2. TenantOf(b) \in tenants /\ tenants \subseteq Tenants
    BY <2>1 DEF TenantOf, Placed, TypeOK
  <2>3. NewInvite(TenantOf(b), i)
    BY <1>3, <2>2 DEF CreateInvite, NewInvite
  <2> QED BY <2>2, <2>3 DEF StepsOnTables
<1>4. ASSUME NEW b \in Browsers, NEW i \in Invites, RevokeInvite(b, i)
      PROVE  StepsOnTables
  <2>1. invites[i] \in Invite /\ invites[i].status = "open"
    BY <1>4 DEF RevokeInvite, Revokes, TypeOK
  <2>2. Closed(i)
    BY <1>4, <2>1 DEF RevokeInvite, Closed, TypeOK
  <2> QED BY <2>2 DEF StepsOnTables
<1>5. ASSUME UNCHANGED tables
      PROVE  StepsOnTables
  BY <1>5 DEF StepsOnTables
<1> QED BY <1>1, <1>2, <1>3, <1>4, <1>5
        DEF Next, StartLogin, Callbacks, RefuseCallback, ReturnKnown, ReturnUnknown,
            ReturnFailed, Logout, Tick

LEMMA OpenIsUnnamed ==
  ASSUME Named, NEW i \in Invites, invites[i].status # "redeemed"
  PROVE  invites[i].by = Nobody
BY DEF Named

\* Whoever redeemed an invite has an account.
LEMMA NobodyNew ==
  ASSUME Named, InvitesBringTheViewers, NEW s \in Subjects, users[s].role = "none"
  PROVE  \A i \in Invites : invites[i].by # s
<1> SUFFICES ASSUME NEW i \in Invites, invites[i].by = s
             PROVE  FALSE
  OBVIOUS
<1>1. s # Nobody
  BY OnboardingAssumption DEF Nobody
<1>2. invites[i].status = "redeemed"
  BY <1>1 DEF Named
<1>3. users[invites[i].by] = [role |-> "viewer", tenant |-> invites[i].tenant]
  BY <1>2 DEF InvitesBringTheViewers
<1>4. users[s] = [role |-> "viewer", tenant |-> invites[i].tenant]
  BY <1>3
<1> QED BY <1>4

(***************************************************************************)
(* The tables keep their invariant                                         *)
(***************************************************************************)
LEMMA TablesStep ==
  ASSUME TypeOK, TableInv, StepsOnTables, multiTenant' = multiTenant
  PROVE  TableInv'
<1> USE OnboardingAssumption DEF TableInv
<1>1. ASSUME NEW s \in Subjects, NEW t \in Tenants, NewTenant(s, t)
      PROVE  TableInv'
  <2>1. \A x \in Subjects : users'[x] = IF x = s THEN [role |-> "owner", tenant |-> t] ELSE users[x]
    BY <1>1 DEF NewTenant, TypeOK
  <2>2. \A x \in Subjects : users[x] # [role |-> "owner", tenant |-> t]
    BY <1>1 DEF NewTenant, Placed
  <2>3. users[s].role = "none" /\ tenants' = tenants \cup {t} /\ invites' = invites
    BY <1>1 DEF NewTenant, Known
  <2>4. EveryTenantHasItsOwner'
    <3>1. ASSUME NEW z \in tenants
          PROVE  \E sub \in Subjects :
                   /\ users'[sub] = [role |-> "owner", tenant |-> z]
                   /\ \A other \in Subjects \ {sub} : users'[other] # [role |-> "owner", tenant |-> z]
      <4>1. PICK o \in Subjects : /\ users[o] = [role |-> "owner", tenant |-> z]
              /\ \A other \in Subjects \ {o} : users[other] # [role |-> "owner", tenant |-> z]
        BY DEF EveryTenantHasItsOwner
      <4>2. o # s /\ z # t
        BY <1>1, <2>3, <4>1 DEF NewTenant
      <4> QED BY <2>1, <4>1, <4>2
    <3> QED BY <2>1, <2>2, <2>3, <3>1 DEF EveryTenantHasItsOwner
  <2>5. InvitesBringTheViewers'
    <3>1. \A i \in Invites : invites[i].by # s
      BY <2>3, NobodyNew
    <3>2. \A i \in Invites : invites[i].status = "redeemed" => invites[i].by \in Subjects
      BY DEF TypeOK, Invite, InvitesBringTheViewers
    <3> QED BY <2>1, <2>3, <3>1, <3>2 DEF InvitesBringTheViewers
  <2>6. OneHouseholdUnlessAllowed'
    BY <1>1, <2>3 DEF NewTenant, MayCreate, OneHouseholdUnlessAllowed
  <2>7. TrailMatchesTables'
    BY <1>1, <2>3 DEF NewTenant, Audited, TrailMatchesTables
  <2> QED BY <2>1, <2>3, <2>4, <2>5, <2>6, <2>7 DEF RevokedOrRedeemed, Placed, Named
<1>2. ASSUME NEW s \in Subjects, NEW i \in Invites, NewViewer(s, i)
      PROVE  TableInv'
  <2>1. \A x \in Subjects : users'[x] =
          IF x = s THEN [role |-> "viewer", tenant |-> invites[i].tenant] ELSE users[x]
    BY <1>2 DEF NewViewer, TypeOK
  <2>2. /\ \A j \in Invites \ {i} : invites'[j] = invites[j]
        /\ invites'[i].status = "redeemed" /\ invites'[i].by = s
        /\ invites'[i].tenant = invites[i].tenant
    BY <1>2 DEF NewViewer, TypeOK, Invite
  <2>3. users[s].role = "none" /\ tenants' = tenants
    BY <1>2 DEF NewViewer, Known
  <2>4. \A j \in Invites : invites[j].by # s
    BY <2>3, NobodyNew
  <2>5. invites[i].by = Nobody /\ invites[i].status = "open"
    BY <1>2, OpenIsUnnamed DEF NewViewer
  <2>6. EveryTenantHasItsOwner'
    BY <2>1, <2>3 DEF EveryTenantHasItsOwner
  <2>7. InvitesBringTheViewers'
    <3>1. ASSUME NEW j \in Invites, invites'[j].status = "redeemed"
          PROVE  /\ invites'[j].by # Nobody
                 /\ users'[invites'[j].by] = [role |-> "viewer", tenant |-> invites'[j].tenant]
      <4>1. CASE j = i
        BY <2>1, <2>2, <4>1 DEF Nobody
      <4>2. CASE j # i
        <5>1. /\ invites[j].by # Nobody /\ invites[j].by # s
              /\ users[invites[j].by] = [role |-> "viewer", tenant |-> invites[j].tenant]
              /\ invites[j].by \in Subjects
          BY <2>2, <2>4, <3>1, <4>2 DEF InvitesBringTheViewers, TypeOK, Invite
        <5> QED BY <2>1, <2>2, <4>2, <5>1
      <4> QED BY <4>1, <4>2
    <3>2. ASSUME NEW x \in Subjects, users'[x].role = "viewer"
          PROVE  \E k \in Invites : invites'[k].by = x /\ \A j \in Invites \ {k} : invites'[j].by # x
      <4>1. CASE x = s
        BY <2>2, <2>4, <4>1
      <4>2. CASE x # s
        <5>1. PICK k \in Invites : invites[k].by = x /\ \A j \in Invites \ {k} : invites[j].by # x
          BY <2>1, <3>2, <4>2 DEF InvitesBringTheViewers
        <5>2. k # i
          BY <2>5, <5>1 DEF Nobody
        <5> QED BY <2>2, <4>2, <5>1, <5>2
      <4> QED BY <4>1, <4>2
    <3> QED BY <3>1, <3>2 DEF InvitesBringTheViewers
  <2>8. TrailMatchesTables'
    BY <1>2, <2>2, <2>3, <2>5 DEF NewViewer, Audited, TrailMatchesTables
  <2>9. Placed'
    BY <2>1, <2>2, <2>3, <2>5 DEF Placed
  <2>10. RevokedOrRedeemed' /\ Named' /\ OneHouseholdUnlessAllowed'
    BY <2>2, <2>3 DEF RevokedOrRedeemed, Named, OneHouseholdUnlessAllowed
  <2> QED BY <2>6, <2>7, <2>8, <2>9, <2>10
<1>3. ASSUME NEW t \in Tenants, NEW i \in Invites, NewInvite(t, i)
      PROVE  TableInv'
  <2>1. /\ \A j \in Invites \ {i} : invites'[j] = invites[j]
        /\ invites'[i].status = "open" /\ invites'[i].by = Nobody /\ invites'[i].tenant = t
        /\ t \in tenants /\ tenants' = tenants /\ users' = users
    BY <1>3 DEF NewInvite, TypeOK
  <2>2. invites[i].status = "none" /\ invites[i].by = Nobody
    BY <1>3 DEF NewInvite, NoInvite
  <2>3. TrailMatchesTables'
    BY <1>3, <2>1, <2>2 DEF NewInvite, Audited, TrailMatchesTables
  <2>4. InvitesBringTheViewers'
    BY <2>1, <2>2 DEF InvitesBringTheViewers
  <2> QED BY <2>1, <2>2, <2>3, <2>4
          DEF EveryTenantHasItsOwner, RevokedOrRedeemed, OneHouseholdUnlessAllowed, Placed, Named
<1>4. ASSUME NEW i \in Invites, Closed(i)
      PROVE  TableInv'
  <2>1. /\ \A j \in Invites \ {i} : invites'[j] = invites[j]
        /\ invites'[i].status = "revoked" /\ invites'[i].by = invites[i].by
        /\ invites'[i].tenant = invites[i].tenant
        /\ tenants' = tenants /\ users' = users
    BY <1>4 DEF Closed, TypeOK, Invite
  <2>2. invites[i].status = "open" /\ invites[i].by = Nobody
    BY <1>4, OpenIsUnnamed DEF Closed
  <2>3. TrailMatchesTables'
    BY <1>4, <2>1, <2>2 DEF Closed, Audited, TrailMatchesTables
  <2>4. InvitesBringTheViewers'
    BY <2>1, <2>2 DEF InvitesBringTheViewers
  <2> QED BY <2>1, <2>2, <2>3, <2>4
          DEF EveryTenantHasItsOwner, RevokedOrRedeemed, OneHouseholdUnlessAllowed, Placed, Named
<1>5. CASE UNCHANGED tables
  BY <1>5 DEF tables, EveryTenantHasItsOwner, InvitesBringTheViewers, RevokedOrRedeemed,
              OneHouseholdUnlessAllowed, TrailMatchesTables, Placed, Named
<1> QED BY <1>1, <1>2, <1>3, <1>4, <1>5 DEF StepsOnTables

\* The tables keep their types in each of the four ways.
LEMMA TableTypes ==
  ASSUME TypeOK, StepsOnTables
  PROVE  /\ tenants' \subseteq Tenants /\ users' \in [Subjects -> User]
         /\ invites' \in [Invites -> Invite] /\ audit' \subseteq Entry
<1> USE OnboardingAssumption
<1>1. ASSUME NEW s \in Subjects, NEW t \in Tenants, NewTenant(s, t)
      PROVE  /\ tenants' \subseteq Tenants /\ users' \in [Subjects -> User]
             /\ invites' \in [Invites -> Invite] /\ audit' \subseteq Entry
  BY <1>1 DEF TypeOK, NewTenant, Audited, User, Entry
<1>2. ASSUME NEW s \in Subjects, NEW i \in Invites, NewViewer(s, i)
      PROVE  /\ tenants' \subseteq Tenants /\ users' \in [Subjects -> User]
             /\ invites' \in [Invites -> Invite] /\ audit' \subseteq Entry
  <2>1. invites[i] \in Invite
    BY DEF TypeOK
  <2>2. [invites[i] EXCEPT !.status = "redeemed", !.by = s] \in Invite
    BY <2>1 DEF Invite
  <2>3. [role |-> "viewer", tenant |-> invites[i].tenant] \in User
    BY <2>1 DEF Invite, User
  <2>4. [action |-> "tenant.invite.redeem", of |-> i] \in Entry
    BY DEF Entry
  <2> QED BY <1>2, <2>2, <2>3, <2>4 DEF TypeOK, NewViewer, Audited
<1>3. ASSUME NEW t \in Tenants, NEW i \in Invites, NewInvite(t, i)
      PROVE  /\ tenants' \subseteq Tenants /\ users' \in [Subjects -> User]
             /\ invites' \in [Invites -> Invite] /\ audit' \subseteq Entry
  <2>1. [status |-> "open", tenant |-> t, expires |-> now + InviteTtl, by |-> Nobody] \in Invite
    BY DEF TypeOK, Invite
  <2>2. [action |-> "tenant.invite.create", of |-> i] \in Entry
    BY DEF Entry
  <2> QED BY <1>3, <2>1, <2>2 DEF TypeOK, NewInvite, Audited
<1>4. ASSUME NEW i \in Invites, Closed(i)
      PROVE  /\ tenants' \subseteq Tenants /\ users' \in [Subjects -> User]
             /\ invites' \in [Invites -> Invite] /\ audit' \subseteq Entry
  <2>1. [invites[i] EXCEPT !.status = "revoked"] \in Invite
    BY ZenonT(40) DEF TypeOK, Invite
  <2>2. [action |-> "tenant.invite.revoke", of |-> i] \in Entry
    BY DEF Entry
  <2> QED BY <1>4, <2>1, <2>2 DEF TypeOK, Closed, Audited
<1>5. CASE UNCHANGED tables
  BY <1>5 DEF TypeOK, tables
<1> QED BY <1>1, <1>2, <1>3, <1>4, <1>5 DEF StepsOnTables

(***************************************************************************)
(* Flows, and the types of the rest                                        *)
(***************************************************************************)
LEMMA FlowsStep ==
  ASSUME TypeOK, FlowsAreUsedOnce, FreshFlows, [Next]_vars
  PROVE  FlowsAreUsedOnce' /\ FreshFlows'
<1> USE OnboardingAssumption
<1>1. ASSUME NEW b \in Browsers, StartLogin(b)
      PROVE  FlowsAreUsedOnce' /\ FreshFlows'
  <2>1. started' = started + 1 /\ started' \in 1 .. MaxFlows /\ exchanged' = exchanged
    BY <1>1 DEF StartLogin, TypeOK
  <2>2. \A f \in flows' : f \in flows \/ f = [id |-> started', expires |-> now + FlowTtl]
    BY <1>1 DEF StartLogin
  <2>3. \A f \in flows : f.id # started' /\ f.id \in 1 .. MaxFlows
    BY <2>1 DEF FreshFlows, TypeOK, Flow
  <2> QED BY <2>1, <2>2, <2>3 DEF FlowsAreUsedOnce, FreshFlows, TypeOK
<1>2. ASSUME NEW b \in Browsers, Callbacks(b)
      PROVE  FlowsAreUsedOnce' /\ FreshFlows'
  <2>1. PICK f \in flows :
          /\ flows' = flows \ {f} /\ started' = started
          /\ exchanged' = [exchanged EXCEPT ![f.id] = @ + 1] \/ exchanged' = exchanged
    BY <1>2 DEF Callbacks, ConsumedFlows, counters
  <2>2. f.id \in 1 .. MaxFlows /\ f.id <= started /\ exchanged[f.id] = 0
    BY DEF FreshFlows, TypeOK, Flow
  <2>3. \A g \in flows' : g.id # f.id /\ g.id \in 1 .. MaxFlows /\ g \in flows
    BY <2>1 DEF FreshFlows, TypeOK, Flow
  <2>4. \A n \in 1 .. MaxFlows : n # f.id => exchanged'[n] = exchanged[n]
    BY <2>1, <2>2 DEF TypeOK
  <2>5. exchanged'[f.id] \in {0, 1}
    BY <2>1, <2>2 DEF TypeOK
  <2>6. \A n \in 1 .. MaxFlows : exchanged'[n] <= 1
    BY <2>4, <2>5 DEF FlowsAreUsedOnce
  <2>7. \A g \in flows' : g.id <= started' /\ exchanged'[g.id] = 0
    BY <2>1, <2>3, <2>4 DEF FreshFlows
  <2>8. \A n \in 1 .. MaxFlows : n > started' => exchanged'[n] = 0
    BY <2>1, <2>2, <2>4 DEF FreshFlows, TypeOK
  <2>9. \A g, h \in flows' : g.id = h.id => g = h
    BY <2>3 DEF FreshFlows
  <2> QED BY <2>6, <2>7, <2>8, <2>9 DEF FlowsAreUsedOnce, FreshFlows
<1>3. CASE UNCHANGED <<flows, started, exchanged>>
  BY <1>3 DEF FlowsAreUsedOnce, FreshFlows
<1> QED BY <1>1, <1>2, <1>3
        DEF Next, vars, RefuseCallback, ReturnKnown, ReturnUnknown, ReturnFailed, Replied,
            CreateTenant, RedeemInvite, CreateInvite, RevokeInvite, Logout, Tick, counters

\* finishOnboarding, on a row that is there.
LEMMA FinishedTypes ==
  ASSUME TypeOK, NEW b \in Browsers, NEW p \in pending, Finished(b, p)
  PROVE  /\ pending' \subseteq Pending
         /\ pendingCookie' \in [Browsers -> 0 .. MaxPending]
         /\ signedIn' \in [Browsers -> Subjects \cup {Nobody}]
<1>1. p.sub \in Subjects
  BY PendingHasSubject
<1> QED BY <1>1, OnboardingAssumption DEF TypeOK, Finished, None

LEMMA TypeStep ==
  ASSUME TypeOK, Placed, [Next]_vars
  PROVE  TypeOK'
<1> USE OnboardingAssumption
<1> DEFINE RestOK == /\ now' \in Nat /\ multiTenant' \in BOOLEAN
                     /\ flows' \subseteq Flow /\ pending' \subseteq Pending
                     /\ callbacks' \subseteq Callback
                     /\ flowCookie' \in [Browsers -> 0 .. MaxFlows]
                     /\ pendingCookie' \in [Browsers -> 0 .. MaxPending]
                     /\ signedIn' \in [Browsers -> Subjects \cup {Nobody}]
                     /\ started' \in 0 .. MaxFlows /\ parked' \in 0 .. MaxPending
                     /\ exchanged' \in [1 .. MaxFlows -> Nat]
<1>1. ASSUME NEW b \in Browsers, StartLogin(b)
      PROVE  RestOK
  <2>1. started' \in 1 .. MaxFlows /\ now + FlowTtl \in Nat
    BY <1>1 DEF StartLogin, TypeOK
  <2>2. flows' \subseteq Flow
    BY <1>1, <2>1 DEF StartLogin, TypeOK, Flow
  <2>3. flowCookie' \in [Browsers -> 0 .. MaxFlows] /\ started' \in 0 .. MaxFlows
    <3>1. started' \in 0 .. MaxFlows
      BY <2>1
    <3> QED BY <1>1, <3>1 DEF StartLogin, TypeOK
  <2> QED BY <1>1, <2>2, <2>3 DEF StartLogin, TypeOK
<1>2. ASSUME NEW b \in Browsers, Callbacks(b) \/ RefuseCallback(b)
      PROVE  RestOK
  <2>1. CASE RefuseCallback(b)
    BY <2>1 DEF RefuseCallback, TypeOK, None, counters
  <2>2. CASE Callbacks(b)
    <3>1. PICK f \in flows :
            /\ f.id = flowCookie[b] /\ flows' = flows \ {f}
            /\ \/ /\ callbacks' = callbacks \cup {[browser |-> b, flow |-> f.id]}
                  /\ exchanged' = [exchanged EXCEPT ![f.id] = @ + 1]
                  /\ UNCHANGED flowCookie
               \/ /\ flowCookie' = [flowCookie EXCEPT ![b] = None]
                  /\ UNCHANGED <<callbacks, exchanged>>
      BY <2>2 DEF Callbacks, ConsumedFlows
    <3>2. f.id \in 1 .. MaxFlows
      BY DEF TypeOK, Flow
    <3>3. [browser |-> b, flow |-> f.id] \in Callback
      BY <3>2 DEF Callback
    <3>4. exchanged' \in [1 .. MaxFlows -> Nat]
      <4>1. exchanged \in [1 .. MaxFlows -> Nat] /\ exchanged[f.id] + 1 \in Nat
        BY <3>2 DEF TypeOK
      <4> QED BY <3>1, <4>1
    <3>5. flowCookie' \in [Browsers -> 0 .. MaxFlows]
      BY <3>1 DEF TypeOK, None
    <3> QED BY <2>2, <3>1, <3>3, <3>4, <3>5 DEF Callbacks, TypeOK, counters
  <2> QED BY <1>2, <2>1, <2>2
<1>3. ASSUME NEW c \in callbacks, NEW sub \in Subjects,
             ReturnKnown(c, sub) \/ ReturnUnknown(c, sub) \/ ReturnFailed(c)
      PROVE  RestOK
  <2>1. c.browser \in Browsers
    BY DEF TypeOK, Callback
  <2>2. flowCookie' \in [Browsers -> 0 .. MaxFlows] /\ callbacks' \subseteq Callback
    <3>1. Replied(c)
      BY <1>3 DEF ReturnKnown, ReturnUnknown, ReturnFailed
    <3>2. 0 \in 0 .. MaxFlows
      OBVIOUS
    <3> QED BY <2>1, <3>1, <3>2 DEF Replied, TypeOK, None
  <2>3. CASE ReturnUnknown(c, sub)
    <3>1. parked' \in 1 .. MaxPending /\ now + PendingTtl \in Nat
      BY <2>3 DEF ReturnUnknown, TypeOK
    <3>2. [id |-> parked', sub |-> sub, expires |-> now + PendingTtl] \in Pending
      BY <3>1 DEF Pending
    <3>3. pending' \subseteq Pending
      BY <2>3, <3>2 DEF ReturnUnknown, TypeOK
    <3>4. parked' \in 0 .. MaxPending
      BY <3>1
    <3>5. pendingCookie' \in [Browsers -> 0 .. MaxPending]
      BY <2>1, <2>3, <3>4 DEF ReturnUnknown, TypeOK
    <3> QED BY <2>1, <2>2, <2>3, <3>3, <3>4, <3>5 DEF ReturnUnknown, TypeOK
  <2>4. CASE ReturnKnown(c, sub) \/ ReturnFailed(c)
    BY <2>2, <2>4 DEF ReturnKnown, ReturnFailed, TypeOK, counters
  <2> QED BY <1>3, <2>3, <2>4
<1>4. ASSUME NEW b \in Browsers, CreateTenant(b) \/ RedeemInvite(b)
      PROVE  RestOK
  <2>1. \/ UNCHANGED <<pending, pendingCookie, signedIn>>
        \/ \E p \in pending : Finished(b, p)
    BY <1>4 DEF CreateTenant, RedeemInvite, Peeked
  <2>2. /\ pending' \subseteq Pending
        /\ pendingCookie' \in [Browsers -> 0 .. MaxPending]
        /\ signedIn' \in [Browsers -> Subjects \cup {Nobody}]
    BY <2>1, FinishedTypes DEF TypeOK
  <2> QED BY <1>4, <2>2 DEF CreateTenant, RedeemInvite, TypeOK, counters
<1>5. ASSUME NEW b \in Browsers, NEW i \in Invites, CreateInvite(b, i) \/ RevokeInvite(b, i)
      PROVE  RestOK
  BY <1>5 DEF CreateInvite, RevokeInvite, TypeOK, cookies, counters
<1>6. ASSUME NEW b \in Browsers, Logout(b)
      PROVE  RestOK
  BY <1>6 DEF Logout, TypeOK, counters
<1>7. ASSUME Tick
      PROVE  RestOK
  BY <1>7 DEF Tick, TypeOK, cookies, counters
<1>8. CASE UNCHANGED vars
  BY <1>8 DEF TypeOK, vars
<1>9. CASE Next
  <2>1. RestOK
    <3> HIDE DEF RestOK
    <3>1. ASSUME NEW c \in callbacks, ReturnFailed(c)
          PROVE  RestOK
      <4>1. c.browser \in Browsers
        BY DEF TypeOK, Callback
      <4>2. flowCookie' \in [Browsers -> 0 .. MaxFlows] /\ callbacks' \subseteq Callback
        BY <3>1, <4>1 DEF ReturnFailed, Replied, TypeOK, None
      <4> QED BY <3>1, <4>2 DEF RestOK, ReturnFailed, TypeOK, counters
    <3> QED BY <1>1, <1>2, <1>3, <1>4, <1>5, <1>6, <1>7, <1>9, <3>1 DEF Next
  <2>2. /\ tenants' \subseteq Tenants /\ users' \in [Subjects -> User]
        /\ invites' \in [Invites -> Invite] /\ audit' \subseteq Entry
    BY <1>9, StoresShape, TableTypes
  <2> QED BY <2>1, <2>2 DEF TypeOK
<1> QED BY <1>8, <1>9

(***************************************************************************)
(* The theorems                                                            *)
(***************************************************************************)
LEMMA InitHolds ==
  ASSUME Init
  PROVE  IInv
<1> USE OnboardingAssumption
<1>1. TypeOK
  BY DEF Init, TypeOK, NoUser, NoInvite, User, Invite, Nobody, None
<1>2. TableInv
  BY DEF Init, TableInv, EveryTenantHasItsOwner, InvitesBringTheViewers, RevokedOrRedeemed,
         OneHouseholdUnlessAllowed, TrailMatchesTables, Placed, Named, NoUser, NoInvite, Nobody
<1>3. FlowsAreUsedOnce /\ FreshFlows
  BY DEF Init, FlowsAreUsedOnce, FreshFlows
<1> QED BY <1>1, <1>2, <1>3 DEF IInv

\* The invariant holds at the start and every step keeps it.
THEOREM InductiveInvariant == Spec => []IInv
<1>1. IInv /\ [Next]_vars => IInv'
  <2> SUFFICES ASSUME IInv, [Next]_vars
               PROVE  IInv'
    OBVIOUS
  <2>1. TypeOK /\ TableInv /\ Placed /\ FlowsAreUsedOnce /\ FreshFlows
    BY DEF IInv, TableInv
  <2>2. StepsOnTables /\ multiTenant' = multiTenant
    <3>1. CASE Next
      BY <2>1, <3>1, StoresShape
         DEF Next, StartLogin, Callbacks, RefuseCallback, ReturnKnown, ReturnUnknown,
             ReturnFailed, CreateTenant, RedeemInvite, CreateInvite, RevokeInvite, Logout, Tick
    <3>2. CASE UNCHANGED vars
      BY <3>2 DEF vars, StepsOnTables, tables
    <3> QED BY <3>1, <3>2
  <2> QED BY <2>1, <2>2, TypeStep, TablesStep, FlowsStep DEF IInv
<1> QED BY InitHolds, <1>1, PTL DEF Spec

\* The types hold (the tables of db/schema.ts and the cookies).
THEOREM OnboardingTypes == Spec => []TypeOK
<1>1. IInv => TypeOK
  BY DEF IInv
<1> QED BY <1>1, InductiveInvariant, PTL

\* No race of completions leaves a household without its one owner.
THEOREM TenantsHaveOwners == Spec => []EveryTenantHasItsOwner
<1>1. IInv => EveryTenantHasItsOwner
  BY DEF IInv, TableInv
<1> QED BY <1>1, InductiveInvariant, PTL

\* Each viewer came by one invite, and each redeemed invite brought one.
THEOREM ViewersCameByInvite == Spec => []InvitesBringTheViewers
<1>1. IInv => InvitesBringTheViewers
  BY DEF IInv, TableInv
<1> QED BY <1>1, InductiveInvariant, PTL

\* A revocation and a redemption never both take the invite.
THEOREM RevocationExcludesRedemption == Spec => []RevokedOrRedeemed
<1>1. IInv => RevokedOrRedeemed
  BY DEF IInv, TableInv
<1> QED BY <1>1, InductiveInvariant, PTL

\* A flow lets one callback through.
THEOREM FlowsOnce == Spec => []FlowsAreUsedOnce
<1>1. IInv => FlowsAreUsedOnce
  BY DEF IInv
<1> QED BY <1>1, InductiveInvariant, PTL

\* Without the flag there is one household at most.
THEOREM OneHousehold == Spec => []OneHouseholdUnlessAllowed
<1>1. IInv => OneHouseholdUnlessAllowed
  BY DEF IInv, TableInv
<1> QED BY <1>1, InductiveInvariant, PTL

\* The audit log and the tables never disagree about tenants and invites.
THEOREM TrailMatches == Spec => []TrailMatchesTables
<1>1. IInv => TrailMatchesTables
  BY DEF IInv, TableInv
<1> QED BY <1>1, InductiveInvariant, PTL

\* Tables and audit log tell one story, whatever races.
THEOREM OneStory == Spec => []TablesAndTrailAgree
<1>1. IInv => TablesAndTrailAgree
  BY DEF IInv, TableInv, TablesAndTrailAgree
<1> QED BY <1>1, InductiveInvariant, PTL
=============================================================================
