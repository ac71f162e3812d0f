\* Two instances; the lock of the one that leads may be lost in mid-tick.
SPECIFICATION Spec
CONSTANTS
  Instances = {i1, i2}
  Nobody = Nobody
  Policies = {byCron, byAge}
  Cron = {byCron}
  Approval = {byCron}
  Keys = {k1}
  Principals = {p1, p2}
  MaxRotations = 2
  MaxDeliveries = 1
  MaxAttempts = 2
  DrainLimit = 1
  Faults = {"drop", "crash", "query", "receiver"}
  MaxFaults = 2
  MaxTicks = 2
  MaxRequests = 1
SYMMETRY BackgroundSymmetry
CONSTRAINT Disturbances
INVARIANTS
  TypeOK
  DeliveryIsLeased
  StartedIsWhole
CHECK_DEADLOCK FALSE
