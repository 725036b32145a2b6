------------------------------- MODULE MCModems -------------------------------
(* The drivers of both modems for TLC.  A device has one of them              *)
(* (comms_name, comms.h): fitted says which, the other is not configured.     *)
EXTENDS Rak3172, Rak4270

VARIABLE fitted

MCVars == <<fitted, vars, rak4270Vars>>

MCInit == /\ Init /\ Rak4270Init
          /\ \/ fitted = "rak3172" /\ ~configured
             \/ fitted = "rak4270" /\ ~config_is_valid

Use3172 == fitted = "rak3172" /\ Next /\ UNCHANGED <<fitted, rak4270Vars>>
Use4270 == fitted = "rak4270" /\ Rak4270Next /\ UNCHANGED <<fitted, vars>>

Fair3172 == WF_vars(Process) /\ WF_vars(PowerOn) /\ WF_vars(TimedOut)
              /\ WF_vars(SendEnd)
Fair4270 == WF_rak4270Vars(Hear) /\ WF_rak4270Vars(LoopOff)
              /\ WF_rak4270Vars(LoopTimeout)

MCSpec == /\ MCInit /\ [][Use3172 \/ Use4270]_MCVars
          /\ fitted = "rak3172" => Fair3172
          /\ fitted = "rak4270" => Fair4270
--------------------------------------------------------------------------------
\* What the variables of both drivers hold.
ModemsTypeOK == TypeOK /\ Rak4270TypeOK

\* Whatever is lost, refused or commanded, a driver with a configuration joins
\* in the end, and a send of the RAK4270 ends.
ModemsConnect == GetsConnected /\ Rak4270Connects /\ Send4Ends
===============================================================================
