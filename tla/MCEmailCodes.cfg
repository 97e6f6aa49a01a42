CONSTANTS
  Emails = {alice, bob}
  Codes = {c1, c2}
  CodeTTL = 2
  RateWindow = 2
  PerWindowCap = 2
  Requests = {r1, r2}
  MaxClock = 4
  MaxIssues = 3
  EmailKey = "secret"
  TokenTTL = 2
  Skew = 1
  Relays <- MCRelays
  HostTokens <- MCHostTokens
SYMMETRY Symmetry
SPECIFICATION SignInSpec
INVARIANTS
  TypeOK
  IssueRate
  MailWorks
  OneIdentity
PROPERTY
  ImplementsOneTimeCodes
