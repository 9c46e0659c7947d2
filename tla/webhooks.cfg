SPECIFICATION Spec

CONSTANTS
  Messages = {m1, m2}
  MaxAttempts = 2
  MaxRuns = 2
  Faults = {"lookup", "metadata", "notify", "crash"}

INVARIANTS
  TypeOK
  ReceivedIsTerminal
  DeliveredWasAccepted
  DeadLetterIsExhausted

PROPERTIES
  PendingEnds

\* Deliveries come to an end.
CHECK_DEADLOCK FALSE
