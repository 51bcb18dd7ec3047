CONSTANTS
  Handles = {h1}
  Kinds = {"SessionStarted", "MessageAdded", "CheckpointCreated",
           "SessionPaused", "SessionResumed", "SessionEnded", "Unknown"}
  NoEvent = NoEvent
  MaxEmits = 3
SPECIFICATION Spec
INVARIANTS TypeOK StateMatchesLog Reopenable AckedSurvive FailedAppendsContained
