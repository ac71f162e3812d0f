\* Two requests at a time on two accounts.
SPECIFICATION Spec
CONSTANTS
  Users = {u1, u2}
  Sessions = {s1, s2}
  Tokens = {t1}
  Secrets = {k1, k2}
  NoSecret = NoSecret
  Workers = {w1, w2}
  MaxFailed = 2
  Ops = {"bootstrap", "login", "stepup", "token", "totp", "create",
         "update", "password", "delete"}
  MaxOps = 3
  MaxLogins = 4
SYMMETRY AccountsSymmetry
CONSTRAINT Crowd
INVARIANTS
  TypeOK
  LockoutHolds
  EnrolmentIsProved
PROPERTIES
  AdministratorRemains
CHECK_DEADLOCK FALSE
