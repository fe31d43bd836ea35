SPECIFICATION Spec
CONSTANTS
  Users = {u1, u2}
  Tokens = {t1}
  MaxSupply = 3
  Word = 4
SYMMETRY UserSymmetry
INVARIANTS
  TypeOK
  Conserved
  DiskCurrent
PROPERTIES
  RestartKeepsEquity
