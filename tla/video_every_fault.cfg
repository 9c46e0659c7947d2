\* Everything that may fail, at once, with a client that polls for the outcome.
SPECIFICATION PollSpec

CONSTANTS
  None = None
  Uploads = {u1}
  MaxRuns = 2
  Patchers = {}
  Contents = {c1}
  Renditions = {}
  Faults <- FaultKinds
  VideoVisibilities = {"public"}
  PosterChoices = {TRUE, FALSE}
  Deleters = {d1}

INVARIANTS
  JobHasRecord
  NoResurrection

PROPERTY
  PollsTellOutcome

\* Requests and jobs come to an end.
CHECK_DEADLOCK FALSE
