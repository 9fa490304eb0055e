SPECIFICATION FairSpec
CONSTANTS
  Driver = "postgres"
  Workers = {w1, w2}
  Handlers = {h1, h2}
  MaxVersion = 3
  MaxAttempts = 2
  MaxEvents = 2
INVARIANTS
  PostedOnceUndisturbed
PROPERTIES
  LifecycleSpec
  AnnouncementSettles
CHECK_DEADLOCK FALSE
