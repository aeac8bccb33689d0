SPECIFICATION Spec
CONSTANTS
  Modulus = 64
  WordBits = 6
  HwBits = 3
  PageBase <- MCPageBase
  GPRegs <- MCGPRegs
  TEXT = 12
  DATA = 32
  KERNEL = 48
  Input = {2}
  Junk = {1}
  InitMem <- MCInitMem
  Cached = TRUE
  d = 2
  B = 8
  Programs <- MCPrograms
  JunkInsn <- MCHaltJunk
  SP0 = 32
  entry = 12
  CycleMax = 14
  AluRes <- alu_res
  AluFlags <- alu_flags
  cond_holds <- cond_true
INVARIANT NoErrorCtl
INVARIANT HaltOrigin
INVARIANT CountdownBounded
PROPERTY FrozenInFlight
CHECK_DEADLOCK FALSE
