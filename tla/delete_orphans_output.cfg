SPECIFICATION Spec

CONSTANTS
  None = None
  Uploads = {u1}
  MaxRuns = 1
  Patchers = {}
  Contents = {c1}
  Renditions = {}
  Faults = {}
  VideoVisibilities = {"public"}
  PosterChoices = {FALSE}
  Deleters = {d1}

INVARIANTS
  NoOrphanLeft

\* Requests and jobs come to an end.
CHECK_DEADLOCK FALSE
