SPECIFICATION PatchedSpec

CONSTANTS
  None = None
  Uploads = {u1}
  MaxRuns = 1
  Patchers = {p1}
  Contents = {c1}
  Renditions = {}
  Faults = {"put"}
  VideoVisibilities = {"public", "private"}
  PosterChoices = {TRUE, FALSE}
  Deleters = {d1}

INVARIANTS
  ReadyHasObject
  RawReadyOnlyByPatch
  ExposedOnlyByPatch
  PosterFollowsVideo

PROPERTIES
  SettledIsFinal

\* Requests and jobs come to an end.
CHECK_DEADLOCK FALSE
