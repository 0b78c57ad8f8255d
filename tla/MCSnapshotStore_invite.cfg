SPECIFICATION Spec
CONSTANTS
  Updates = {u1, u2}
  Unscoped = {u2}
  Scripts = {s1}
  Raising = {u1}
  MaxTries = 2
PROPERTIES AcceptedInviteStays
CHECK_DEADLOCK FALSE
