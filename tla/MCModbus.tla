------------------------------ MODULE MCModbus ------------------------------
(* Instances of Modbus for TLC: regA and regB on one device, regC on         *)
(* another.                                                                  *)
EXTENDS Modbus, TLC

CONSTANTS regA, regB, regC, v1, none, crc_bytes

MCUnit == (regA :> 1) @@ (regB :> 1) @@ (regC :> 2)
MCTwoReg == {regA, regB}
MCTwoDev == {regA, regC}

\* regA and regB differ in nothing.
MCSymmetry == Permutations({regA, regB})
=============================================================================
