SPECIFICATION Spec
CONSTANTS
  Names = {u1, u2}
  Passwords = {w1, w2}
  Tokens = {t1, t2}
  Requests = {r1, r2}
  Faults = TRUE
  None = none
SYMMETRY AccountSymmetry
INVARIANTS
  TypeOK
  NoOutlived
PROPERTIES
  LastAdminKept
  SetupClosed
