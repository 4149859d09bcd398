SPECIFICATION Spec
CONSTANTS
  Bases <- const_Bases
  Names <- const_Names
  Requires <- const_Requires
  Own <- const_Own
  AurBase <- const_AurBase
  Official <- const_Official
  Providers <- const_Providers
  SameName <- const_SameName
  Subscribed <- const_Subscribed
  Ingested <- const_Ingested
  MaxClosure = 2
  KeptPlans = 1
  Requests <- const_Requests
  Loop = "loop"
  Events <- const_Events
  MaxEvents = 2
INVARIANTS TypeOK ClosureIsReach
PROPERTIES SelfContained GarbageOnly EventuallyBuilt
