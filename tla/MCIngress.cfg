CONSTANTS
  IPs = {a, b, p}
  Rate = 1
  Cost = 2
  Burst = 1
  IdleTTL = 2
  TicksPerSecond = 1
  MaxClock = 6
  Trusted = {p}
  NoIP = none
  Clients = {a, p}
  Hops = {a, b, p, none}
  MaxForged = 2
  MaxProxies = 2
SPECIFICATION IngressSpec
INVARIANTS
  ClientBound
  RetryAfterSuffices
PROPERTY
  ImplementsTokenBucket
