CONSTANTS
  undef = undef
  Undefined <- undef
  O_RDONLY <- MC_O_RDONLY
  O_WRONLY <- MC_O_WRONLY
  O_RDWR <- MC_O_RDWR
  O_CREAT <- MC_O_CREAT
  O_EXCL <- MC_O_EXCL
  O_TRUNC <- MC_O_TRUNC
  O_APPEND <- MC_O_APPEND
  Bits <- MCBits
  Modes <- MCModes
  EncNames <- MCEncNames
  Lower <- MCLower
SPECIFICATION Spec
INVARIANTS
  FlagsTranslatedOnce
  PosixFlagsHonoured
  EncodingCaseInsensitive
