CONSTANTS
  Handles = {h1}
  Kinds = {"SessionStarted", "MessageAdded"}
  NoEvent = NoEvent
  MaxEmits = 2
SPECIFICATION Spec
INVARIANT KilledWriterRecovered
