\* A revoked key that is still assigned is never taken off the machine.
SPECIFICATION LiveSpec
CONSTANTS
  k1 = k1
  k2 = k2
  Keys = {k1, k2}
  Created <- TwoKeys
  PageLimit = 2
  Strangers = {s1}
  Principals = {p1}
  AutoHeal = {p1}
  Platforms = {"file"}
  Workers = {w1}
  Edits = {"assign", "revoke"}
  MaxEdits = 3
  Faults = {}
  MaxFaults = 0
  NoKey = NoKey
  Nobody = Nobody
PROPERTIES
  RevokedKeysLeave
CHECK_DEADLOCK FALSE
