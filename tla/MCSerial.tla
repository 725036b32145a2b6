------------------------------- MODULE MCSerial -------------------------------
(* Bytes in and out, for TLC.  part says which is looked at: the ring with any *)
(* client (Ring) and its use for lines (UartLines), what a UART sends          *)
(* (UartOut), the payload of an uplink (Payload), the ESP32's connection and   *)
(* measurements (Esp32, EspJson), and the sleep a received line ends (Sleep).  *)
EXTENDS UartLines, UartOut, Sleep, Payload, EspJson

CONSTANTS letter, lf, cr

\* Both sides of each bound of a type of 1, 2, 4 and 8 bytes of two bits.
MCValue == {-129, -128, -9, -8, -3, -2, -1, 0, 1, 3, 4, 15, 16, 127, 128, 255, 256}
MCSample == {-127, -1, 0, 3, 16, 127}

VARIABLE part

MCVars == <<part, lvars, outVars, sleepVars, payloadVars, espVars, jsonVars>>

\* What is not looked at starts in one state and stays there.
MCInit ==
  /\ part \in {"ring", "lines", "out", "sleep", "payload", "esp", "json"}
  /\ LInit /\ UInit /\ SInit /\ PInit /\ EInit /\ JInit
  /\ part \notin {"ring", "lines"} => buf = [i \in Slot |-> letter]
  /\ part # "out" => line = "debug"
  /\ part # "esp" => wifi = {}
  /\ part # "json" => connected = FALSE

UseRing == /\ \/ part = "ring" /\ Next /\ UNCHANGED <<stream, lines>>
              \/ part = "lines" /\ LNext
           /\ UNCHANGED <<part, outVars, sleepVars, payloadVars, espVars, jsonVars>>
UseOut == /\ part = "out" /\ UNext
          /\ UNCHANGED <<part, lvars, sleepVars, payloadVars, espVars, jsonVars>>
UseSleep == /\ part = "sleep" /\ SNext
            /\ UNCHANGED <<part, lvars, outVars, payloadVars, espVars, jsonVars>>
UsePayload == /\ part = "payload" /\ PNext
              /\ UNCHANGED <<part, lvars, outVars, sleepVars, espVars, jsonVars>>
UseEsp == /\ part = "esp" /\ ENext
          /\ UNCHANGED <<part, lvars, outVars, sleepVars, payloadVars, jsonVars>>
UseJson == /\ part = "json" /\ JNext
           /\ UNCHANGED <<part, lvars, outVars, sleepVars, payloadVars, espVars>>

\* The fairness of each module, for the part that is looked at.
MCSpec ==
  /\ MCInit
  /\ [][UseRing \/ UseOut \/ UseSleep \/ UsePayload \/ UseEsp \/ UseJson]_MCVars
  /\ WF_lvars(part = "lines" /\ Received)
  /\ WF_lvars(part = "lines" /\ (Drain \/ Handle))
  /\ WF_outVars(part = "out" /\ MainPass)
  /\ WF_outVars(part = "out" /\ Hardware)
  /\ WF_sleepVars(part = "sleep" /\ Goes)
  /\ WF_espVars(part = "esp" /\ LoopWifi)
  /\ WF_espVars(part = "esp" /\ LoopMqtt)
  /\ WF_espVars(part = "esp" /\ (LoopCommand \/ ReadCell \/ Answer))
  /\ WF_espVars(part = "esp" /\ GotIp)
  /\ WF_espVars(part = "esp" /\ MqttConnected)
  /\ WF_espVars(part = "esp" /\ (CopyCell \/ CopyReady))
-------------------------------------------------------------------------------
\* What the variables hold, the type invariants of the parts.
SerialTypeOK == TypeOK /\ UartOutTypeOK /\ SleepTypeOK /\ PayloadTypeOK
                /\ EspTypeOK /\ JsonTypeOK

\* What was given is sent, every sleep ends, the ESP32 connects and answers.
NothingHangs == OutDrains /\ SleepEnds /\ EspConnects
===============================================================================
