SPECIFICATION FairSpec

CONSTANTS
  None = None
  Uploads = {u1, u2}
  MaxRuns = 1
  Patchers = {}
  Contents = {c1}
  Renditions = {}
  Faults = {"put", "enqueue"}
  VideoVisibilities = {"public"}
  PosterChoices = {TRUE, FALSE}
  Deleters = {d1}

INVARIANTS
  AttachedRowKept
  EventsMatchRecord
  StrandedOnlyByRace

PROPERTIES
  ImplementsLifecycle

\* Requests and jobs come to an end.
CHECK_DEADLOCK FALSE
