CONSTANTS
  Names = {root, ann}
  EnvAdmin = root
  Passwords = {p1, p2}
  Browsers = {b1, b2}
  MaxAccounts = 2
  NoName = NoName
SPECIFICATION AccSpec
PROPERTIES DeletedSessionsStayEnded
CHECK_DEADLOCK FALSE
