CONSTANTS
  Texts = {{p1, p2}, {q1}}
  Reports = {r1}
  MaxFaults = 1
SPECIFICATION Spec
INVARIANTS NoTextIsLost
