\* One account on any platform; two workers deploy, heal and roll back.
SPECIFICATION Spec
CONSTANTS
  k1 = k1
  k2 = k2
  Keys = {k1}
  Created <- OneKey
  PageLimit = 1
  Strangers = {s1}
  Principals = {p1}
  AutoHeal = {p1}
  Platforms = {"file", "api", "device", "login", "blind", "single", "script"}
  Workers = {w1, w2}
  Edits = {"deploy", "assign", "unassign", "hand", "dry", "rollback",
           "absent", "revoke", "adopt", "ignore"}
  MaxEdits = 2
  Faults = {"error", "lost"}
  MaxFaults = 1
  NoKey = NoKey
  Nobody = Nobody
CONSTRAINT Disturbances
SYMMETRY DeploymentSymmetry
INVARIANT TypeOK
PROPERTIES
  NeverEmptied
  StrangersSurvive
  RecordsWhatLanded
CHECK_DEADLOCK FALSE
