SPECIFICATION Spec
CONSTANTS
  Bases <- one_Bases
  Names = {}
  Requires <- one_Requires
  Own <- one_Own
  AurBase <- none
  Official = {}
  Providers <- none
  SameName = {}
  Subscribed <- const_Subscribed
  Ingested <- one_Bases
  MaxClosure = 2
  KeptPlans = 1
  Requests <- two_Requests
  Loop = "loop"
  Events <- many_Events
  MaxEvents = 3
INVARIANTS ActiveBound
PROPERTIES EventuallyBuilt
