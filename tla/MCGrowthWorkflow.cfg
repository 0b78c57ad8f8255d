SPECIFICATION GrowthSpec
CONSTANTS
  Approvals <- ThreeRows
  Runs = {r1}
  Keys = {k1}
  Users = {u1, u2}
  cheap = cheap
  dear = dear
  Docs = {cheap, dear}
  CostOf <- Cost
  Thresholds <- AlwaysOrNever
  NoThreshold = NoThreshold
  None = None
  Requests = {q1, q2}
  ResearchRuns <- TwoRuns
  Agents = {a1}
  Calls = {c1, c2}
  OlderThan <- Older
  Full = 1
  MaxPuts = 2
  Nothing = Nothing
SYMMETRY Symmetry
CHECK_DEADLOCK FALSE
INVARIANTS
  RevisionChain
  LaunchedOnce
  EventsTellTheTruth
  HandedOutOnce
  RequestFollowsItsRuns
  BriefBehindResearch
  CompletedIsWhole
PROPERTIES TwoPersonRule DecisionsAreFinal DeadlineBinds ImplementsNicheGate
