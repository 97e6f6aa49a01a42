CONSTANTS
  Tokens = {t1, t2}
  NoToken = NoToken
  Requests = {q1, q2}
  Sessions = {s1, s2}
  ReplayTTL = 2
  TokenLife = 2
  MaxTime = 4
SPECIFICATION FairSpec
INVARIANTS
  OneSessionPerToken
PROPERTIES
  AskedOncePerTTL
  RefusedOnlyIfAsked
  InitAnswered
