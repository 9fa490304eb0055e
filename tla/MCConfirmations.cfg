SPECIFICATION Spec
CONSTANTS
  Admins = {a1, a2}
  Slots = {s1, s2}
  Requests = {r1}
  MaxMessages = 3
  MaxConfs = 2
  MaxEvents = 2
SYMMETRY MCSymmetry
INVARIANTS
  ActedWithConsent
  DoneIsDone
  ConsentIsActedOn
PROPERTIES
  CancelsWhatWasShown
CHECK_DEADLOCK FALSE
