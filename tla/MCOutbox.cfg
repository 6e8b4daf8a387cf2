CONSTANTS
  Messages = {1, 2, 3}
  Parts <- MCParts
  MaxAttempts = 2
  MaxFaults = 2
  NoMessage = 0
SPECIFICATION Spec
INVARIANTS TypeOK SendingIsOwned DuplicateOnlyInDoubt
PROPERTIES ConcludedIsSilent NoOvertaking KeepsContract
