CONSTANTS
  Deliveries = {d1, d2}
  Requests = {a1, a2}
  MaxRetries = 1
  MaxRetriggers = 1
  MaxSecrets = 2
  MaxFaults = 1
  None = None
SPECIFICATION Spec
PROPERTIES RotationIsInstant
CHECK_DEADLOCK FALSE
