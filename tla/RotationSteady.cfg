\* A canary and a second target; deployments and logins fail, nothing else does.
SPECIFICATION Spec
CONSTANTS
  Targets = {t1, t2}
  Canary = {t1}
  SingleKey = {}
  Outsiders = {}
  Consumers = {c1}
  OldKey = OldKey
  Successors = {k1}
  NoKey = NoKey
  Workers = {w1, w2}
  NoTarget = NoTarget
  NoJob = NoJob
  Thresholds = {0, 50}
  MaxAttempts = 3
  MaxFaults = 0
  FaultKinds = {}
  Requests = {"approve", "dry"}
INVARIANTS
  ConsumersKeepAccess
  RetiredMeansGone
PROPERTIES
  FinishedIsFinal
  TargetsOnlyAdvance
\* A finished rotation with no jobs left is the end of a behaviour.
CHECK_DEADLOCK FALSE
