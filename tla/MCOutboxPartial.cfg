CONSTANTS
  Messages = {1, 2}
  Parts <- MCParts
  MaxAttempts = 2
  MaxFaults = 2
  NoMessage = 0
SPECIFICATION Spec
PROPERTIES PartialNeverRetried
