SPECIFICATION Spec
CONSTANTS
  Driver = "postgres"
  Workers = {w1, w2}
  Handlers = {h1, h2}
  Followed = {"PUBLISH"}
  MaxVersion = 3
  MaxAttempts = 2
  MaxEvents = 3
SYMMETRY MCSymmetry
INVARIANTS
  SentOnceUndisturbed
  ScheduledHasPublisher
  ReceiptIsReal
PROPERTIES
  ReceiptIsKept
  CancelledIsFinal
CHECK_DEADLOCK FALSE
