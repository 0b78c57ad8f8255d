SPECIFICATION FairSpec
CONSTANTS
  Events <- TwoEvents
  Malformed <- OneMalformed
  Workers = {w1, w2}
  Tokens = {t1, t2, t3}
  NoClaim = NoClaim
  NoWork = NoWork
  LeaseTicks = 2
  TimeoutTicks = 1
  RetryBase = 1
  RetryMax = 1
  AttemptLimits <- LimitsOneOrTwo
  BatchSize = 1
  MaxFaults = 1
INVARIANT HealthyWorkersKeepTheirClaim
PROPERTIES SettledOnce LeaseRespected DeadLetterAtTheLimit EveryEventSettles ImplementsDelivery
