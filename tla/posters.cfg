SPECIFICATION Spec

CONSTANTS
  None = None
  Uploads = {v1, q1, q2}
  Videos = {v1}
  PosterRequests = {q1, q2}
  MaxRuns = 1
  Patchers = {p1}
  Contents = {}
  Renditions = {}
  Faults = {"lookup", "metadata", "put", "disk", "enqueue"}
  Deleters = {d1}

SYMMETRY Symmetry

INVARIANTS
  LinkedPosterHasObject
  LivePosterKept
  StrandedOnlyByCopy
  PosterSharesPrivacy

PROPERTIES
  KeptPosterIsLinked

\* Requests and jobs come to an end.
CHECK_DEADLOCK FALSE
