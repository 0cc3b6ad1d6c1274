CONSTANTS
  Chars <- MCChars
  LowerOf <- MCLowerOf
  Star = "*"
  Xn = "xn--"
  Del = "DEL"
  Space = " "
  Uni = "U"
  IPForms <- MCIPForms
  Canon <- MCCanon
  CheckHosts <- MCCheckHosts
  Patterns <- MCPatterns
  Hosts <- MCHosts
  Certs <- MCCerts
SPECIFICATION Spec
CHECK_DEADLOCK FALSE
INVARIANTS
  TypeOK
  CheckSoundOnDnsNames
  VerifySound
