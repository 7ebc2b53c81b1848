CONSTANTS
  Quantum = 2
  HandlerLength = 2
  Controls = {{}, {"run", "int"}, {"wake"}}
SPECIFICATION FairSpec
INVARIANTS
  HandlerNotReentered
PROPERTIES
  SleepIsUndisturbed
  ImportOnlyAsleep
  RequestsServed
  PendingTaken
