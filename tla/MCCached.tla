------------------------------ MODULE MCCached ------------------------------
(* Every program of four instructions with a data cache configured; the     *)
(* words below the text segment fail to decode or look like a halt.         *)
EXTENDS MCBase

CachedInsns == {HltInsn, Branch("NE", 2), I("RET", 0, 0, 31, 0), I("MOVZ", 0, 0, 0, 40),
                I("LDUR", 0, SP, 0, 0), I("LDUR", 1, SP, 0, 8), I("STUR", 0, SP, 0, 0),
                I("ADDS_RR", 0, 0, 1, 0), I("B", 0, 0, 0, 63)}

MCHaltJunk == MCJunkInsn \cup {HltInsn}
MCPrograms == Straight(4, CachedInsns)

\* Two loads of the same word, each one miss.
TwoLoads == {Text(<<I("LDUR", 0, SP, 0, 0), I("LDUR", 1, SP, 0, 0), ZeroInsn, ZeroInsn>>)}
=============================================================================
