SPECIFICATION Spec
CONSTANTS
  Bases <- one_Bases
  Names = {}
  Requires <- one_Requires
  Own <- one_Own
  AurBase <- none
  Official = {}
  Providers <- none
  SameName = {}
  Subscribed <- const_Subscribed
  Ingested <- one_Bases
  MaxClosure = 2
  KeptPlans = 1
  Requests <- const_Requests
  Loop = "loop"
  Events <- again_Events
  MaxEvents = 2
PROPERTIES ClosureBuilt
