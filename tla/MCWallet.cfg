CONSTANTS
  Accounts <- MCAccounts
  Deterministic <- MCDeterministic
  Evm <- MCEvm
  Balance <- MCBalance
  Word = 3
  Amounts <- MCAmounts
  Exact <- MCExact
  Tokens = 2
  MaxOps = 3
  MaxFaults = 1
SPECIFICATION Spec
INVARIANTS TypeOK ConnectedIsBound KeyKept PaymentGuarded Backed SlipKept DebitedOnce FaucetCardTrue
PROPERTIES OpsEnd
CHECK_DEADLOCK FALSE
