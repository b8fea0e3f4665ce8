SPECIFICATION Spec
CONSTANTS
  meta = meta
  transaction = transaction
  budget = budget
  Meta <- OneMeta
  Transactions <- OneTransaction
  Budgets <- OneBudget
  Makers = {g, h}
  Appliers = {a, b}
  RemoteMayGiveUp = TRUE
  MayCrash = TRUE
  MaxProposals = 2
SYMMETRY ActorSymmetry
INVARIANTS PendingIsNewest TrailIsTheDecision AppliedIsWritten
PROPERTIES KeepsTheLedger
CHECK_DEADLOCK FALSE
