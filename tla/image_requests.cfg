SPECIFICATION Spec

CONSTANTS
  None = None
  Uploads = {u1, u2}
  MaxRuns = 0
  Patchers = {p1, p2}
  Contents = {c1}
  Renditions = {r1}
  Faults = {"lookup", "metadata", "put", "disk"}
  Deleters = {d1}
  Forms <- AllForms

SYMMETRY Symmetry

INVARIANTS
  RowHasObjects
  KeysUnshared
  StrandedOnlyByOverlap
  PrivateBehindPrefix

PROPERTIES
  AnsweredAsAsked

\* Requests and jobs come to an end.
CHECK_DEADLOCK FALSE
