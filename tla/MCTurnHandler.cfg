CONSTANTS
  Sessions = {s1, s2}
  Tenants = {t1}
  Requests = {r1, r2}
  MaxTurns = 2
  MaxInputTokens = 2
  SessionTTL = 1
  MaxDailyIn = 3
  MaxDailyOut = 1
  MaxTokens = 1
  Estimates = {2}
  MaxActualIn = 2
  MaxActualOut = 1
  ModesAnonymous = TRUE
  MaxClock = 2
  MaxDay = 1
SYMMETRY Symmetry
SPECIFICATION Spec
INVARIANTS
  TypeOK
  MapsAgree
  SessionOvershoot
  BudgetOvershoot
PROPERTY
  ImplementsPolicy
