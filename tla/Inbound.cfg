CONSTANTS
  Texts = {{p1, p2}, {q1}}
  Reports = {r1}
  MaxFaults = 2
SPECIFICATION Spec
INVARIANTS TypeOK LossOnlyWhenExposed SecondRowOnlyWhenKept TornOnlyByPollsOrFaults
PROPERTIES EveryTextIsStored
