SPECIFICATION OperationsSpec
CONSTANTS
  Contacts = {c1, c2}
  Emails = {a, b}
  AtCompany = {a}
  NoEmail = NoEmail
  Domain = Domain
  Absent = Absent
  Merged = Merged
  Deliveries = {w, stop}
  SmsDeliveries = {stop}
  MaxCrmSteps = 3
  Clicks = {k1, k2}
  DirectRequests = {r1, s1}
  SmsRequests = {s1}
  BulkRequests = {q}
  Campaign = Campaign
  NoKey = NoKey
  SdkAttempts = 2
  MaxPosts = 2
  EventKeys = {e1, e2, e3}
  Sources = {o1, o2}
  Spenders = {y1, y2}
  Amounts <- AmountValues
  NoRow = NoRow
  MaxAnswers = 4
  Leads = {"l1", "l2", "l3"}
  Accounts = {"alpha", "beta"}
  AccountOf <- OneAndTwo
  LeadOrder <- InArrayOrder
  Ended = {}
  Prompted = {"l1", "l3"}
  Reps = {"p", "q"}
  Nobody = Nobody
  Unassigned = Unassigned
  Target = 2
  Wrapups = {1, 2, 3}
  MaxSdrSteps = 4
  Uploads = {u1, u2}
  ManualJobs = {m1}
  MaxAttempts = 2
  MaxRuns = 3
  Callees = {c1, c2}
  Stranger = Stranger
  NoCall = NoCall
  MaxCalls = 2
  MaxDials = 2
  Addresses = {x, y}
  Missing = Missing
  EmailProviders = {"apollo", "hunter", "millionverifier"}
  Price <- CallPrice
  Templates <- JustLiveEmail
  Caps = {5}
  WaterfallRuns = {1, 2}
  MaxEdits = 1
  Users = {u}
  AuthSessions = {v1, v2}
  Invites = {i}
  ResetTokens = {t}
  AuthCalls = {n1, n2}
  LockAfter = 2
  MaxFailed = 2
SYMMETRY OperationsSymmetry
INVARIANTS
  AtMostOnce
  HistoryTellsTheTruth
  OptOutSticks
  BookedOnce
  TotalsCountWhatStands
  OneRepOneStep
  ImportIsWhole
  OneLiveCall
  
  NoOldWayIn
PROPERTIES NobodyIsSkipped GradeIsOfTheAddress
CHECK_DEADLOCK FALSE
