SPECIFICATION Spec
CONSTANTS
  Modulus = 128
  WordBits = 7
  HwBits = 3
  PageBase <- MCPageBase
  GPRegs <- TestRegs
  TEXT = 16
  DATA = 80
  KERNEL = 96
  Input = {2}
  Junk = {1}
  InitMem <- MCInitMem
  Cached = FALSE
  d = 2
  B = 8
  Programs <- RetHazard
  JunkInsn <- MCJunkInsn
  SP0 = 88
  entry = 16
  CycleMax = 40
  AluRes <- alu_res
  AluFlags <- alu_flags
  cond_holds <- cond_true
INVARIANT RetHazardPrints
CHECK_DEADLOCK FALSE
