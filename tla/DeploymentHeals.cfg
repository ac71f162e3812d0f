\* Auto-heal brings an account back, through crashes and failing calls.
SPECIFICATION LiveSpec
CONSTANTS
  k1 = k1
  k2 = k2
  Keys = {k1, k2}
  Created <- TwoKeys
  PageLimit = 1
  Strangers = {s1}
  Principals = {p1}
  AutoHeal = {p1}
  Platforms = {"file", "api", "device", "login"}
  Workers = {w1}
  Edits = {"assign", "unassign", "absent", "hand", "revoke", "rollback"}
  MaxEdits = 2
  Faults = {"crash", "error", "partial", "lost"}
  MaxFaults = 1
  NoKey = NoKey
  Nobody = Nobody
PROPERTIES
  WantedKeysArrive
  UnwantedKeysLeave
  DriftClears
CHECK_DEADLOCK FALSE
