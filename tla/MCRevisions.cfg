SPECIFICATION Spec
CONSTANTS
  Last = 3
  Aur <- MCAur
  Vcs <- MCVcs
  Tree <- MCTree
  Syncers = {loop, request}
  Loop = loop
  MaxEvents = 1
INVARIANTS
  TypeOK
  OnlyNewestOpen
  BaselineIsNewest
  HumanFirst
  ApprovalJustified
PROPERTIES
  VerdictStays
  PendingReviewed
  NewestIngested
