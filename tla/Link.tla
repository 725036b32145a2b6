--------------------------------- MODULE Link ---------------------------------
(***************************************************************************)
(* What the measurements see of the LoRaWAN modem driver (comms/src/       *)
(* rak3172.c): it is connected or not, ready to send or not, one packet is *)
(* on its way at a time, and a packet ends in an acknowledgement, in a     *)
(* timeout that is reported, or in a loss that is not.                     *)
(***************************************************************************)
VARIABLE link

LinkState == {"down", "idle", "wait_ok", "wait_ack"}

Connected == link # "down"       \* rak3172_get_connected
SendReady == link = "idle"       \* rak3172_send_ready

LinkInit == link = "down"

LinkUp == link = "down" /\ link' = "idle"
LinkSend == link = "idle" /\ link' = "wait_ok"
LinkOk == link = "wait_ok" /\ link' = "wait_ack"
LinkAck == link = "wait_ack" /\ link' = "idle"

\* No acknowledgement came in time: reported, and the modem is reset.
LinkAckTimeout == link = "wait_ack" /\ link' = "down"

\* A reset that nobody is told of: no "OK" in time, a refusal by the network,
\* a command, or a send that was pending for too long.
LinkLost == link # "down" /\ link' = "down"

LinkNext == LinkUp \/ LinkSend \/ LinkOk \/ LinkAck \/ LinkAckTimeout \/ LinkLost

LinkSpec == LinkInit /\ [][LinkNext]_link
===============================================================================
