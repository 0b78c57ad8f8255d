SPECIFICATION HygieneSpec
CONSTANTS
  Contacts = {c1, c2}
  Emails = {a, b}
  AtCompany = {a}
  NoEmail = NoEmail
  Domain = Domain
  Absent = Absent
  Merged = Merged
  Deliveries = {w, stop}
  SmsDeliveries = {stop}
  MaxCrmSteps = 3
SYMMETRY ContactSymmetry
INVARIANT OptOutBlocksOutreach
CHECK_DEADLOCK FALSE
