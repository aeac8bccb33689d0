------------------------------ MODULE MCFaults ------------------------------
(* Every program of three instructions that halt, fail, jump or have a      *)
(* hazard, the unsupported patterns and fetches outside the text segment    *)
(* included.                                                                *)
EXTENDS MCBase

FaultInsns == {ZeroInsn, HltInsn, [ZeroInsn EXCEPT !.op = "ERROR"],
               Branch("NE", 2), I("B", 0, 0, 0, 63), I("RET", 0, 0, 31, 0),
               I("MOVZ", 0, 0, 0, 36), I("LDUR", 0, SP, 0, 0), I("STUR", 0, 0, 0, 0),
               I("STUR", 0, SP, 0, 8), I("ADDS_RR", 1, 0, 1, 0)}

MCPrograms == Straight(3, FaultInsns)
MCJunk2 == {[ZeroInsn EXCEPT !.op = "ERROR"], I("STUR", 0, SP, 0, 0)}
=============================================================================
