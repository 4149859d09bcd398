SPECIFICATION Spec
CONSTANTS
  Tasks = {t1, t2}
  Handlers = {h1, h2}
  Nobody = nobody
  Size = 2
  MaxRetries = 2
  MaxTries = 2
  Events <- const_Events
  MaxEvents = 2
INVARIANTS TypeOK UploadedWhole ResumesWhere
PROPERTIES KeptWhileWanted Settled
CHECK_DEADLOCK FALSE
