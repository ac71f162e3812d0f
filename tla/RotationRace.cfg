\* One target, two drivers: late Starts and ticks, redelivered jobs, and aborts.
SPECIFICATION Spec
CONSTANTS
  Targets = {t1}
  Canary = {}
  SingleKey = {}
  Outsiders = {o1}
  Consumers = {}
  OldKey = OldKey
  Successors = {k1, k2}
  NoKey = NoKey
  Workers = {w1, w2}
  NoTarget = NoTarget
  NoJob = NoJob
  Thresholds = {50}
  MaxAttempts = 3
  MaxFaults = 1
  FaultKinds = {"stale", "crash"}
  Requests = {"abort", "assign"}
SYMMETRY RotationSymmetry
PROPERTIES
  ImplementsPromise
\* A finished rotation with no jobs left is the end of a behaviour.
CHECK_DEADLOCK FALSE
