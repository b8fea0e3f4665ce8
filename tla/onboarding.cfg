SPECIFICATION Spec
CONSTANTS
  Browsers = {b1, b2}
  Subjects = {ann, ben, cas}
  Tenants = {t1, t2}
  Invites = {i1, i2}
  FlowTtl = 1
  PendingTtl = 1
  InviteTtl = 1
  MaxClock = 2
  MaxFlows = 3
  MaxPending = 3
SYMMETRY OnboardingSymmetry
INVARIANTS EveryTenantHasItsOwner FlowsAreUsedOnce TablesAndTrailAgree
CHECK_DEADLOCK FALSE
