SPECIFICATION Spec

CONSTANTS
  None = None
  Uploads = {u1}
  MaxRuns = 2
  Patchers = {}
  Contents = {c1}
  Renditions = {}
  Faults = {"crash"}
  VideoVisibilities = {"public"}
  PosterChoices = {FALSE}
  Deleters = {}

PROPERTIES
  SettledIsFinal

\* Requests and jobs come to an end.
CHECK_DEADLOCK FALSE
