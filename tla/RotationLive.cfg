\* One target and a fault, under the fairness of the workers' loops and tickers.
SPECIFICATION FairSpec
CONSTANTS
  Targets = {t1}
  Canary = {}
  SingleKey = {}
  Outsiders = {}
  Consumers = {}
  OldKey = OldKey
  Successors = {k1, k2}
  NoKey = NoKey
  Workers = {w1, w2}
  NoTarget = NoTarget
  NoJob = NoJob
  Thresholds = {50}
  MaxAttempts = 2
  MaxFaults = 1
  FaultKinds = {"crash", "error", "denied"}
  Requests = {"approve"}
PROPERTIES
  RotationFinishes
\* A finished rotation with no jobs left is the end of a behaviour.
CHECK_DEADLOCK FALSE
