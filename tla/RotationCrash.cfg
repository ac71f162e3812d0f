\* A shared canary and a single-key target, one fault at any point of the rotation.
SPECIFICATION Spec
CONSTANTS
  Targets = {t1, t2}
  Canary = {t1}
  SingleKey = {t2}
  Outsiders = {}
  Consumers = {}
  OldKey = OldKey
  Successors = {k1, k2}
  NoKey = NoKey
  Workers = {w1, w2}
  NoTarget = NoTarget
  NoJob = NoJob
  Thresholds = {50}
  MaxAttempts = 2
  MaxFaults = 1
  FaultKinds = {"crash", "unpruned"}
  Requests = {}
SYMMETRY RotationSymmetry
INVARIANTS
  TypeOK
  ProofBeforeRemoval
  SoakBeforeRemoval
  CanaryFirst
  NeverKeyless
\* A finished rotation with no jobs left is the end of a behaviour.
CHECK_DEADLOCK FALSE
