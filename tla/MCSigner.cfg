SPECIFICATION Spec
CONSTANTS
  old1 = old1
  new1 = new1
  other = other
  keyring = keyring
  Plans = {1, 2, 3}
  Packages = {1, 2}
  Key = 3
  Content <- MCContent
  KeyBytes = keyring
  Size <- MCSize
  NoBytes = none
  Events = {"change", "crash", "failure", "timeout", "rollback"}
  MaxEvents = 3
INVARIANTS
  TypeOK
  ServedWhole
  NeverStarved
PROPERTIES
  ImplementsRepository
  Converges
\* With the desired plan published and no event left, both loops idle.
CHECK_DEADLOCK FALSE
