CONSTANTS
  r1 = r1
  r2 = r2
  r3 = r3
  Regs <- MCRegs
SPECIFICATION Spec
INVARIANTS
  DisposedBeforeAbortNeverCalled
PROPERTIES
  EventuallyCalled
  CalledAfterReturn
CHECK_DEADLOCK FALSE
