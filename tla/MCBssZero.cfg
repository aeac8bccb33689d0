SPECIFICATION Spec
CONSTANTS
  PAGESIZE = 4
  HASHSIZE = 2
  ptable_hash <- MCHash
  AddrMod = 48
  ByteMod = 256
  WORD = 2
  seg_starts <- MCStarts
  UIntMod = 16
  MAX_NUM_INSTR = 9
  AdrpPage = 8
  HalfWord = 32
  Samples <- MCSamples
  Boots <- MCBoots
  GuestAddrs = {9, 24, 37, 40}
  GuestBytes = {7}
  MaxSteps = 2
INVARIANT BssZero
CHECK_DEADLOCK FALSE
