SPECIFICATION PatchedSpec

CONSTANTS
  None = None
  Uploads = {u1}
  MaxRuns = 1
  Patchers = {p1}
  Contents = {c1}
  Renditions = {}
  Faults = {}
  VideoVisibilities = {"public", "private"}
  PosterChoices = {FALSE}
  Deleters = {}

INVARIANTS
  PrivateVideoBehindPrefix

\* Requests and jobs come to an end.
CHECK_DEADLOCK FALSE
