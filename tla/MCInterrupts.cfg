SPECIFICATION Spec
CONSTANTS
  NUM_PROCESS = 2
  NUM_TERM = 2
  KB_QUEUE = 1
  Drawing = {1}
  Chords <- Typed
INVARIANTS
  InterruptsTypeOK
  InServiceDrained
  GatesReady
  MemoryApart
  KeysTyped
PROPERTY
  RequestsServed
