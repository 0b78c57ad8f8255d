SPECIFICATION FairSpec
CONSTANTS
  Updates = {u1, u2}
  Unscoped = {u2}
  Scripts = {s1, s2}
  Raising = {u1, s1}
  MaxTries = 2
INVARIANTS MatchMeansFresh TablesNeverAhead
PROPERTIES ImplementsSerialStore EveryUpdateSettles
CHECK_DEADLOCK FALSE
