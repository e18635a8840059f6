SPECIFICATION FairSpec
CONSTANTS
  Null = Null
  p1 = p1  f1 = f1  m1 = m1  m2 = m2  r1 = r1  r2 = r2  h1 = h1  h2 = h2
  Phones = {p1}
  Flows = {f1}
  Mpls = {m1, m2}
  Keys <- OneKey
  Requests = {r1, r2}
  Configs <- TwoRetriesBatched
  Outcomes <- BothOutcomes
  HttpSlots = {h1}
  MaxRuns = 1
  RetryLimit = 1
  Inputs <- AllInputs
  Budget <- OneByOneBudget
  Faults = {"callRefused", "callLost"}
INVARIANTS
  RetryCap
PROPERTIES
  ScheduledLeaves
  HandlersReturn
  CtaHonoured
