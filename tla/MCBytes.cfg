SPECIFICATION Spec
CONSTANTS
  PAGESIZE = 2
  HASHSIZE = 2
  ptable_hash <- MCHash
  AddrMod = 6
  ByteMod = 2
  Widths = {1, 4}
  TEXT = 1
  DATA = 3
  code_order = "L_ENDIAN"
  data_order = "B_ENDIAN"
INVARIANT TypeOK
INVARIANT PagesUnique
PROPERTY FlatSpec
