SPECIFICATION Spec
CONSTANTS
  BuildIds = {b1}
  NoBuild = none
  Requests = {r1}
  Loop = loop
  MaxRetries = 2
  MaxFaults = 1
INVARIANT
  VerifiedUpload
CHECK_DEADLOCK FALSE
