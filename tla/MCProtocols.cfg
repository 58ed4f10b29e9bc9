SPECIFICATION ProtocolsSpec
CONSTANTS
  Off = Off
  Timeout = 2
  TraceBudget = 3
  FlowBudget = 3
  Idles = {0, 2, 4}
  Grace = 1
  OutCap = 3
  EarlyCap = 2
  MaxNow = 18
INVARIANTS
  H1Inv
  H2Inv
  TlsInv
  FramingIsExact
  SocksInv
  KeysAreTyped
  ConnectionInv
  SuccessIsEarned
