SPECIFICATION Spec
CONSTANTS
  Users = {u1, u2}
  Tokens = {t1}
  MaxSupply = 2
  Word = 4
PROPERTIES
  RestartReloadsLiveState
