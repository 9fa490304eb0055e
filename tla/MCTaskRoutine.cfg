SPECIFICATION Spec
CONSTANTS
  Driver = "postgres"
  Workers = {w1}
  Handlers = {h1, h2}
  Followed = {"PUBLISH", "DEADLINE", "RECURRENCE"}
  MaxVersion = 2
  MaxAttempts = 1
  MaxEvents = 2
SYMMETRY MCSymmetry
INVARIANTS
  RoutineSurvives
CHECK_DEADLOCK FALSE
