CONSTANTS
  Deliveries = {d1, d2}
  Requests = {a1, a2}
  MaxRetries = 1
  MaxRetriggers = 1
  MaxSecrets = 1
  MaxFaults = 1
  None = None
SPECIFICATION Spec
PROPERTIES OnlyFailedIsRetriggered
CHECK_DEADLOCK FALSE
