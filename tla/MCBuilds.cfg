SPECIFICATION FairSpec
CONSTANTS
  BuildIds = {b1}
  NoBuild = none
  Requests = {r1, r2}
  Loop = loop
  MaxRetries = 2
  MaxFaults = 1
INVARIANTS
  TypeOK
  AttemptBound
  FreshAttempt
  SucceededFilesMatch
PROPERTY
  EventuallySettles
\* Once every row is succeeded or failed nothing is left to do.
CHECK_DEADLOCK FALSE
