SPECIFICATION Spec
CONSTANTS
  Officials = {u1, u2}
  Nobody = Nobody
  Handlers = {h1, h2}
  MaxHandlers = 4
SYMMETRY MCSymmetry
INVARIANTS
  SubmittedIsBacked
  AllSubmittedNoticed
PROPERTIES
  HistoricallyOverdue
  SubmissionStays
CHECK_DEADLOCK FALSE
