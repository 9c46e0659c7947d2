SPECIFICATION FairSpec

CONSTANTS
  None = None
  Uploads = {u1}
  MaxRuns = 3
  Patchers = {}
  Contents = {c1}
  Renditions = {}
  Faults = {"put", "enqueue", "crash"}
  VideoVisibilities = {"public"}
  PosterChoices = {TRUE, FALSE}
  Deleters = {d1}

INVARIANTS
  ProcessingIsOwned

PROPERTIES
  ProcessingEnds
  RawReclaimed

\* Requests and jobs come to an end.
CHECK_DEADLOCK FALSE
