CONSTANTS
  Tok = {k1}
  Calls = {c1, c2}
  TokAdmins = {a1, a2}
  Refresh = 2
  TokHold = 1
  TokMaxTime = 5
  Names = {root, ann, bob}
  EnvAdmin = root
  Passwords = {p1, p2}
  Browsers = {b1, b2}
  MaxAccounts = 2
  NoName = NoName
  SetRequests = {s1, s2, s3}
SPECIFICATION PanelSpec
INVARIANTS PanelTypeOK RevokedIsRefused LastUsedIsEvidence RevocationNotPostdated NamesAreUnique  RestartIsHonoured
PROPERTIES SessionNeedsAccount
CHECK_DEADLOCK FALSE
