----------------------------- MODULE MCLockstep -----------------------------
(* Every straight-line program of four data instructions; every program of  *)
(* four loads, stores and address computations that reach each kind of      *)
(* address: a cell, a misaligned one, one outside data memory and the null, *)
(* character and checkpoint addresses; and every program of four control    *)
(* transfers and their company.                                             *)
EXTENDS MCBase, Lockstep, Conditions

\* The ALU of the run is the one the theorem about the flags is about.
ASSUME AluOfCode == AluSetsFlags

DataInsns == {I("MOVZ", 0, 0, 0, 5), I("ADDS_RR", 0, 0, 1, 0), I("SUBS_RR", 1, 0, 1, 0),
              I("LDUR", 0, SP, 0, 0), I("STUR", 0, SP, 0, 8),
              I("MVN", 1, 0, 31, 0), I("ADDS_RR", 31, 0, 1, 0)}

MemInsns == {I("MOVZ", 0, 0, 0, 36), I("MOVZ", 0, 0, 0, 55), I("ADRP", 0, 0, 0, 16),
             I("MVN", 0, 0, 31, 0), I("LDUR", 1, 0, 0, 0), I("STUR", 1, 0, 0, 0)}

ControlInsns == {ZeroInsn, HltInsn, [ZeroInsn EXCEPT !.op = "ERROR"],
                 Branch("EQ", 2), Branch("NE", 2), Branch("NE", 63),
                 I("B", 0, 0, 0, 2), I("BL", 0, 0, 0, 2), I("RET", 0, 30, 31, 0)}

MCPrograms == UNION {Straight(4, T) : T \in {DataInsns, MemInsns, ControlInsns}}
=============================================================================
