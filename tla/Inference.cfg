SPECIFICATION MCSpec
CONSTANTS
  Callers = {a, b}
  NoCaller = NoCaller
  RequestCount = 1
  MaxLoads = 2
  MaxJobs = 2
CHECK_DEADLOCK FALSE
INVARIANTS
  OwnAnswer
  QuietAfterRelease
  DetectionsTrue
PROPERTIES
  CallsReturn
