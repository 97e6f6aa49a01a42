CONSTANTS
  IPs = {a}
  Rate = 1
  Cost = 5
  Burst = 1
  IdleTTL = 8
  TicksPerSecond = 2
  MaxClock = 12
SPECIFICATION Spec
INVARIANT RetryAfterSuffices
