------------------------------- MODULE MCDevice -------------------------------
(* The modbus master, the values it moves, the modbus configuration and the   *)
(* firmware update for TLC, where they do not meet: part says which runs, the *)
(* others stay as they start.                                                 *)
EXTENDS MCModbus, MCFwUpdate, ModbusMem, ModbusValue

VARIABLE part

\* With bytes of four values: the ends of every type's range and what is near
\* them, and numbers whose four bytes differ (27 is 0123 in base 4, 228 3210).
MCNumber == {-128, -127, -9, -8, -1, 0, 1, 3, 4, 7, 8, 15, 16, 27, 127, 128, 228, 255, 256}

MCInit == /\ part \in {"modbus", "value", "config", "firmware"}
          /\ Init /\ ValueInit /\ MemInit /\ FwInit
          /\ part # "value" => mb_reg = [type |-> "U16", bytes |-> "MSB", words |-> "MSW"]
MCMaster == part = "modbus" /\ Next /\ UNCHANGED <<part, valueVars, memVars, fwVars>>
MCValue == part = "value" /\ ValueNext /\ UNCHANGED <<part, vars, memVars, fwVars>>
MCConfig == part = "config" /\ MemNext /\ UNCHANGED <<part, vars, valueVars, fwVars>>
MCFirmware == part = "firmware" /\ FwNext /\ UNCHANGED <<part, vars, valueVars, memVars>>
MCSpec == MCInit /\ [][MCMaster \/ MCValue \/ MCConfig \/ MCFirmware]_<<part, vars, valueVars, memVars, fwVars>>
--------------------------------------------------------------------------------
(* What the variables of the modbus master and of the update hold.  (Those of *)
(* the configuration are looked at by MemIsWhole.)                            *)
DeviceTypeOK == TypeOK /\ FwTypeOK
==============================================================================
