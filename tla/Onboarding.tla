----------------------------- MODULE Onboarding -----------------------------
(***************************************************************************)
(* How a person comes to have an account: the redirect to the identity     *)
(* provider and back, the identity that has no tenant yet, and the two     *)
(* ways to give it one, a household of its own or an invite into another   *)
(* (server/auth/login-flow.ts, onboarding.ts, users.ts, domain/tenant,     *)
(* and the routes over them).                                              *)
(*                                                                         *)
(* Every handler runs to its end in one step but the callback, which       *)
(* awaits the provider between the flow it consumes and the identity it    *)
(* gets. A browser is its cookies: it may send the same request twice, and *)
(* hold on to a cookie whose row is gone. A transaction that throws leaves *)
(* the tables as they were.                                                *)
(***************************************************************************)
EXTENDS Integers, FiniteSets

CONSTANTS
  Browsers,     \* cookie jars
  Subjects,     \* identities the provider may return
  Tenants,      \* ids for households
  Invites,      \* ids for invites
  FlowTtl,      \* LOGIN_FLOW_TTL_MS
  PendingTtl,   \* PENDING_IDENTITY_TTL_MS
  InviteTtl,    \* INVITE_TTL_MS
  MaxClock,     \* bound on the clock
  MaxFlows,     \* bound on the logins started
  MaxPending    \* bound on the identities sent to onboarding

ASSUME OnboardingAssumption ==
  /\ "nobody" \notin Subjects
  /\ FlowTtl \in Nat /\ PendingTtl \in Nat /\ InviteTtl \in Nat
  /\ MaxClock \in Nat /\ MaxFlows \in Nat /\ MaxPending \in Nat

VARIABLES
  now,          \* the clock
  multiTenant,  \* MULTI_TENANT_ONBOARDING_ENABLED, read once at start
  tenants,      \* the households there are
  users,        \* per subject, its row in users
  invites,      \* per id, its row in tenant_invites
  audit,        \* what the audit log tells of tenants and invites
  flows,        \* the login_flows table
  pending,      \* the pending_identities table
  flowCookie,   \* per browser, the flow its cookie names
  pendingCookie,\* per browser, the pending identity its cookie names
  signedIn,     \* per browser, the user of the session its cookie opens
  callbacks,    \* callbacks that await the provider
  started,      \* logins started so far (bounded)
  parked,       \* identities sent to onboarding so far (bounded)
  exchanged     \* history: per flow, how many callbacks it let through

tables == <<tenants, users, invites, audit>>
cookies == <<flowCookie, pendingCookie, signedIn>>
counters == <<started, parked>>
vars == <<now, multiTenant, tenants, users, invites, audit, flows, pending, flowCookie,
          pendingCookie, signedIn, callbacks, started, parked, exchanged>>

Nobody == "nobody"
None == 0
NoUser == [role |-> "none", tenant |-> "none"]
NoInvite == [status |-> "none", tenant |-> "none", expires |-> 0, by |-> Nobody]

User == [role : {"none", "owner", "viewer"}, tenant : Tenants \cup {"none"}]
\* "open" is a row with neither redeemedAt nor revokedAt; the two columns are
\* kept apart so that a row could hold both.
Invite == [status : {"none", "open", "redeemed", "revoked", "both"},
           tenant : Tenants \cup {"none"}, expires : Nat, by : Subjects \cup {Nobody}]
Flow == [id : 1 .. MaxFlows, expires : Nat]
Pending == [id : 1 .. MaxPending, sub : Subjects, expires : Nat]
Callback == [browser : Browsers, flow : 1 .. MaxFlows]
Entry == [action : {"tenant.create", "tenant.invite.create", "tenant.invite.revoke",
                    "tenant.invite.redeem"}, of : Tenants \cup Invites]

Known(sub) == users[sub].role # "none"
IsOwner(b) == signedIn[b] # Nobody /\ users[signedIn[b]].role = "owner"
TenantOf(b) == users[signedIn[b]].tenant
Audited(action, of) == audit \cup {[action |-> action, of |-> of]}

(***************************************************************************)
(* The redirect to the provider and back                                   *)
(***************************************************************************)
\* GET /auth/login: sweep, insert, and a cookie unless building the provider's
\* address fails.
StartLogin(b) ==
  /\ started < MaxFlows
  /\ started' = started + 1
  /\ flows' = {f \in flows : f.expires >= now} \cup {[id |-> started', expires |-> now + FlowTtl]}
  /\ \/ flowCookie' = [flowCookie EXCEPT ![b] = started']
     \/ UNCHANGED flowCookie
  /\ UNCHANGED <<now, multiTenant, tables, pending, pendingCookie, signedIn, callbacks,
                 parked, exchanged>>

\* consumeLoginFlow deletes the row and answers by what it deleted.
KeptFlows(f) == flows
ConsumedFlows(f) == flows \ {f}

\* GET /auth/callback, to its await. A flow that is gone or expired ends it,
\* and the reply clears the cookie.
Callbacks(b) ==
  \E f \in flows :
    /\ f.id = flowCookie[b]
    /\ flows' = ConsumedFlows(f)
    /\ IF f.expires > now
       THEN /\ callbacks' = callbacks \cup {[browser |-> b, flow |-> f.id]}
            /\ exchanged' = [exchanged EXCEPT ![f.id] = @ + 1]
            /\ UNCHANGED flowCookie
       ELSE /\ flowCookie' = [flowCookie EXCEPT ![b] = None]
            /\ UNCHANGED <<callbacks, exchanged>>
    /\ UNCHANGED <<now, multiTenant, tables, pending, pendingCookie, signedIn, counters>>

RefuseCallback(b) ==
  /\ flowCookie[b] # None
  /\ \A f \in flows : f.id # flowCookie[b]
  /\ flowCookie' = [flowCookie EXCEPT ![b] = None]
  /\ UNCHANGED <<now, multiTenant, tables, flows, pending, pendingCookie, signedIn,
                 callbacks, counters, exchanged>>

Replied(c) ==
  /\ c \in callbacks
  /\ callbacks' = callbacks \ {c}
  /\ flowCookie' = [flowCookie EXCEPT ![c.browser] = None]

\* The provider vouches for sub, who has an account: the session of the
\* browser becomes theirs.
ReturnKnown(c, sub) ==
  /\ Replied(c)
  /\ Known(sub)
  /\ signedIn' = [signedIn EXCEPT ![c.browser] = sub]
  /\ UNCHANGED <<now, multiTenant, tables, flows, pending, pendingCookie, counters, exchanged>>

\* beginOnboarding: sweep, insert, and the onboarding cookie. The session the
\* browser had is ended.
ReturnUnknown(c, sub) ==
  /\ Replied(c)
  /\ ~Known(sub)
  /\ parked < MaxPending
  /\ parked' = parked + 1
  /\ pending' = {p \in pending : p.expires >= now}
                  \cup {[id |-> parked', sub |-> sub, expires |-> now + PendingTtl]}
  /\ pendingCookie' = [pendingCookie EXCEPT ![c.browser] = parked']
  /\ signedIn' = [signedIn EXCEPT ![c.browser] = Nobody]
  /\ UNCHANGED <<now, multiTenant, tables, flows, started, exchanged>>

ReturnFailed(c) ==
  /\ Replied(c)
  /\ UNCHANGED <<now, multiTenant, tables, flows, pending, pendingCookie, signedIn,
                 counters, exchanged>>

(***************************************************************************)
(* The two ways out of onboarding                                          *)
(***************************************************************************)
\* What a transaction leaves in the tables.
Unchanged == [tenants |-> tenants, users |-> users, invites |-> invites, audit |-> audit]
Store(t) ==
  /\ tenants' = t.tenants /\ users' = t.users /\ invites' = t.invites /\ audit' = t.audit

\* createTenantAndOwner: one transaction. The subject is unique in users, so
\* the insert of a subject that has a row throws and takes the tenant with it.
CreatedLeavingTenant(t, sub) ==
  IF Known(sub) THEN [Unchanged EXCEPT !.tenants = tenants \cup {t}]
  ELSE [Unchanged EXCEPT !.tenants = tenants \cup {t},
                         !.users[sub] = [role |-> "owner", tenant |-> t],
                         !.audit = Audited("tenant.create", t)]
Created(t, sub) ==
  IF Known(sub) THEN Unchanged
  ELSE [Unchanged EXCEPT !.tenants = tenants \cup {t},
                         !.users[sub] = [role |-> "owner", tenant |-> t],
                         !.audit = Audited("tenant.create", t)]

\* The wait for the cookie's row: peekPendingIdentity leaves it in place.
Peeked(b) == {p \in pending : p.id = pendingCookie[b] /\ p.expires > now}

\* consumePendingIdentity and finishOnboarding, once the account exists.
Finished(b, p) ==
  /\ pending' = pending \ {p}
  /\ pendingCookie' = [pendingCookie EXCEPT ![b] = None]
  /\ signedIn' = [signedIn EXCEPT ![b] = p.sub]

MayCreate == multiTenant \/ tenants = {}

CreateTenant(b) ==
  \E p \in Peeked(b), t \in Tenants \ tenants :
    /\ MayCreate
    /\ Store(Created(t, p.sub))
    /\ IF Known(p.sub) THEN UNCHANGED <<pending, pendingCookie, signedIn>> ELSE Finished(b, p)
    /\ UNCHANGED <<now, multiTenant, flows, flowCookie, callbacks, counters, exchanged>>

\* claimInvite: one conditional update; the expiry is part of it.
Claims(i) == invites[i].status = "open" /\ invites[i].expires > now

\* redeemInviteAsViewer: the claim, the viewer and the trail stand together,
\* and the unique subject takes all three back.
RedeemedBy(sub, i) ==
  [invites[i] EXCEPT !.status = IF @ = "revoked" THEN "both" ELSE "redeemed", !.by = sub]
RedeemedKeepingClaim(i, sub) ==
  IF Known(sub) THEN [Unchanged EXCEPT !.invites[i] = RedeemedBy(Nobody, i)]
  ELSE [Unchanged EXCEPT !.invites[i] = RedeemedBy(sub, i),
                         !.users[sub] = [role |-> "viewer", tenant |-> invites[i].tenant],
                         !.audit = Audited("tenant.invite.redeem", i)]
Redeemed(i, sub) ==
  IF Known(sub) THEN Unchanged
  ELSE [Unchanged EXCEPT !.invites[i] = RedeemedBy(sub, i),
                         !.users[sub] = [role |-> "viewer", tenant |-> invites[i].tenant],
                         !.audit = Audited("tenant.invite.redeem", i)]

RedeemInvite(b) ==
  \E p \in Peeked(b), i \in Invites :
    /\ Claims(i)
    /\ Store(Redeemed(i, p.sub))
    /\ IF Known(p.sub) THEN UNCHANGED <<pending, pendingCookie, signedIn>> ELSE Finished(b, p)
    /\ UNCHANGED <<now, multiTenant, flows, flowCookie, callbacks, counters, exchanged>>

(***************************************************************************)
(* The owner's side of an invite                                           *)
(***************************************************************************)
CreateInvite(b, i) ==
  /\ IsOwner(b)
  /\ invites[i] = NoInvite
  /\ invites' = [invites EXCEPT ![i] = [status |-> "open", tenant |-> TenantOf(b),
                                        expires |-> now + InviteTtl, by |-> Nobody]]
  /\ audit' = Audited("tenant.invite.create", i)
  /\ UNCHANGED <<now, multiTenant, tenants, users, flows, pending, cookies, callbacks,
                 counters, exchanged>>

\* revokeInvite does nothing to an invite of another tenant, or a closed one;
\* an expired one it revokes.
Revokes(i) == invites[i].status = "open"

RevokeInvite(b, i) ==
  /\ IsOwner(b)
  /\ Revokes(i)
  /\ invites[i].tenant = TenantOf(b)
  /\ invites' = [invites EXCEPT ![i].status = IF @ = "redeemed" THEN "both" ELSE "revoked"]
  /\ audit' = Audited("tenant.invite.revoke", i)
  /\ UNCHANGED <<now, multiTenant, tenants, users, flows, pending, cookies, callbacks,
                 counters, exchanged>>

Logout(b) ==
  /\ signedIn[b] # Nobody
  /\ signedIn' = [signedIn EXCEPT ![b] = Nobody]
  /\ UNCHANGED <<now, multiTenant, tables, flows, pending, flowCookie, pendingCookie,
                 callbacks, counters, exchanged>>

Tick ==
  /\ now < MaxClock
  /\ now' = now + 1
  /\ UNCHANGED <<multiTenant, tables, flows, pending, cookies, callbacks, counters, exchanged>>

Init ==
  /\ now = 0
  /\ multiTenant \in BOOLEAN
  /\ tenants = {}
  /\ users = [sub \in Subjects |-> NoUser]
  /\ invites = [i \in Invites |-> NoInvite]
  /\ audit = {}
  /\ flows = {} /\ pending = {} /\ callbacks = {}
  /\ flowCookie = [b \in Browsers |-> None]
  /\ pendingCookie = [b \in Browsers |-> None]
  /\ signedIn = [b \in Browsers |-> Nobody]
  /\ started = 0 /\ parked = 0
  /\ exchanged = [f \in 1 .. MaxFlows |-> 0]

Next ==
  \/ \E b \in Browsers : StartLogin(b)
  \/ \E b \in Browsers : Callbacks(b)
  \/ \E b \in Browsers : RefuseCallback(b)
  \/ \E c \in callbacks, sub \in Subjects : ReturnKnown(c, sub)
  \/ \E c \in callbacks, sub \in Subjects : ReturnUnknown(c, sub)
  \/ \E c \in callbacks : ReturnFailed(c)
  \/ \E b \in Browsers : CreateTenant(b)
  \/ \E b \in Browsers : RedeemInvite(b)
  \/ \E b \in Browsers, i \in Invites : CreateInvite(b, i)
  \/ \E b \in Browsers, i \in Invites : RevokeInvite(b, i)
  \/ \E b \in Browsers : Logout(b)
  \/ Tick

Spec == Init /\ [][Next]_vars

(***************************************************************************)
(* What must hold                                                          *)
(***************************************************************************)

\* Every variable holds what the tables and the cookies can hold.
TypeOK ==
  /\ now \in Nat /\ multiTenant \in BOOLEAN
  /\ tenants \subseteq Tenants
  /\ users \in [Subjects -> User]
  /\ invites \in [Invites -> Invite]
  /\ audit \subseteq Entry
  /\ flows \subseteq Flow /\ pending \subseteq Pending /\ callbacks \subseteq Callback
  /\ flowCookie \in [Browsers -> 0 .. MaxFlows]
  /\ pendingCookie \in [Browsers -> 0 .. MaxPending]
  /\ signedIn \in [Browsers -> Subjects \cup {Nobody}]
  /\ started \in 0 .. MaxFlows /\ parked \in 0 .. MaxPending
  /\ exchanged \in [1 .. MaxFlows -> Nat]

\* No completion leaves a household without an owner, or with two, whatever
\* races to the unique subject (createTenantAndOwner).
EveryTenantHasItsOwner ==
  \A t \in tenants : \E sub \in Subjects :
    /\ users[sub] = [role |-> "owner", tenant |-> t]
    /\ \A other \in Subjects \ {sub} : users[other] # [role |-> "owner", tenant |-> t]

\* Invites and viewers go together: an invite brings one viewer into its own
\* household, a viewer came by one invite, and an attempt that fails burns
\* none (redeemInviteAsViewer, claimInvite).
InvitesBringTheViewers ==
  /\ \A i \in Invites : invites[i].status = "redeemed" =>
       /\ invites[i].by # Nobody
       /\ users[invites[i].by] = [role |-> "viewer", tenant |-> invites[i].tenant]
  /\ \A sub \in Subjects : users[sub].role = "viewer" =>
       \E i \in Invites : /\ invites[i].by = sub
                          /\ \A j \in Invites \ {i} : invites[j].by # sub

\* A revoked invite lets nobody in, and a redeemed one is not revoked
\* (revokeInvite against claimInvite).
RevokedOrRedeemed == \A i \in Invites : invites[i].status # "both"

\* A flow lets one callback through to the provider, however often the browser
\* presents it (consumeLoginFlow).
FlowsAreUsedOnce == \A f \in 1 .. MaxFlows : exchanged[f] <= 1

\* With multi-tenant onboarding off there is one household at most, whoever
\* completes first (POST /auth/onboarding/create-tenant).
OneHouseholdUnlessAllowed == ~multiTenant => \A t, u \in tenants : t = u

\* The audit log says of tenants and invites what the tables say, no more and
\* no less (recordAudit inside each transaction).
TrailMatchesTables ==
  /\ \A t \in Tenants : [action |-> "tenant.create", of |-> t] \in audit <=> t \in tenants
  /\ \A i \in Invites :
       /\ [action |-> "tenant.invite.create", of |-> i] \in audit <=> invites[i].status # "none"
       /\ [action |-> "tenant.invite.revoke", of |-> i] \in audit <=> invites[i].status \in {"revoked", "both"}
       /\ [action |-> "tenant.invite.redeem", of |-> i] \in audit <=> invites[i].status \in {"redeemed", "both"}

\* One story whatever races: invites and viewers go together, an invite is redeemed
\* or revoked and never both, no second household slips in where one is allowed, and
\* the audit log tells what the tables say.
TablesAndTrailAgree ==
  /\ InvitesBringTheViewers /\ RevokedOrRedeemed
  /\ OneHouseholdUnlessAllowed /\ TrailMatchesTables
=============================================================================
