CONSTANTS
  p1 = p1
  Protocols <- MCProtocols
  MaxWrites <- MCMaxWrites
SPECIFICATION Spec
CHECK_DEADLOCK FALSE
INVARIANT
  NoSecureConnectAfterDestroy
