\* Two requests at a time on three keypairs, an archive and two KEKs.
SPECIFICATION Spec
CONSTANTS
  Prints = {f1, f2, f3}
  MaxRows = 3
  MaxKek = 2
  Names = {n1}
  Workers = {w1, w2}
  Ops = {"generate", "import", "reveal", "status", "prove", "rotation", "delete", "assign",
         "unseal", "rotate", "backup", "verify", "restore", "unbackup", "prune"}
  MaxOps = 3
  Faults = {"crash", "audit", "read"}
  MaxFaults = 1
  PageLimit = 2
  BatchSize = 1
SYMMETRY KeyVaultSymmetry
CONSTRAINT Budget
INVARIANTS
  TypeOK
  ChainLinked
  RevealIsRecorded
  PrivateMeansMaterial
  RotatedMeansRewrapped
  ArchiveHoldsKeys
PROPERTIES
  RevokedStaysRevoked
CHECK_DEADLOCK FALSE
