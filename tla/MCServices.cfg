CONSTANTS
  Threads = {h1, h2, h3}
  Limit = 2
  Window = 3
  LimLag = 1
  LimMaxTime = 8
  Ids = {1, 2, 3, 4}
  PageLimit = 2
  PagMaxTime = 2
  Containers = {api, worker}
  Scripts <- MCScripts
  Idempotent = {2}
  MaxKills = 3
  RepMessages = {m1, m2}
  Numbers = {n1, n2}
  MaxParts = 2
  Modulus = 2
  MaxSubmits = 5
  NoReference = NoReference
  Capacity = 2
  Token = 2
  MaxCost = 3
  Poll = 1
  BackoffFirst = 1
  BackoffCap = 3
  MaxAge = 6
  MaxBoots = 1
  Single7 = 160
  Part7 = 153
  SingleU = 70
  PartU = 67
  MaxSegments = 3
  MaxBody = 400
SPECIFICATION ServSpec
INVARIANTS ServTypeOK WindowIsBounded NoRowTwice SkippedOnlyWhenOvertaken UpMeansComplete WrongOnlyAfterWrap RateIsBounded BucketIsMeter StaleMeansBusy ChargedIsSent
PROPERTIES DenialIsEarned OwnReportCounts ContainersComeUp
CHECK_DEADLOCK FALSE
