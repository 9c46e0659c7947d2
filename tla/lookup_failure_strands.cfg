SPECIFICATION Spec

CONSTANTS
  None = None
  Uploads = {u1}
  MaxRuns = 1
  Patchers = {}
  Contents = {c1}
  Renditions = {}
  Faults = {"lookup"}
  VideoVisibilities = {"public"}
  PosterChoices = {FALSE}
  Deleters = {}

INVARIANTS
  ProcessingIsOwned

\* Requests and jobs come to an end.
CHECK_DEADLOCK FALSE
