SPECIFICATION Spec
CONSTANTS
  w1 = w1
  w2 = w2
  p1 = p1
  p2 = p2
  m1 = m1
  s1 = s1
  a1 = a1
  NoWorker = NoWorker
  Sources = {s1}
  Approvers = {a1}
  MaxVersions = 1
  MaxEvents = 1
  Workers = {w1}
  Fenced = FALSE
  MaxToken = 1
  Plans = {p1, p2}
  ManualRequests = {}
  SourceOf <- OneSource
  StartTimes <- Now
  TransportWorkers = {w1}
  ApiKeys <- NoApiKeys
  Interval = 1
  Window = 2
  RatePerWindow = 1
  BatchLimit = 1
  LeaseCoversCycle = TRUE
  MaxTime = 2
  MaxCrashes = 0
SYMMETRY PlanSymmetry
INVARIANTS
  RateWindow
