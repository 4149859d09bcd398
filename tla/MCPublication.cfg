SPECIFICATION Spec
CONSTANTS
  a = a
  b = b
  Plans = {1, 2, 3}
  Artifacts = {a, b}
  Content <- MCContent
  Events = {"change", "daemon_crash", "signer_crash", "timeout", "rollback", "failure"}
  MaxEvents = 4
INVARIANTS
  TypeOK
  PublishedIsCurrent
  NeverStarved
PROPERTIES
  PendingResolves
  Converges
  ImplementsRepository
