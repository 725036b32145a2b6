-------------------------------- MODULE Esp32 -------------------------------
(***************************************************************************)
(* The ESP32's connection (ports/esp32/src/protocol.c): the main loop      *)
(* starts WiFi and then MQTT, the WiFi and MQTT tasks tell it what happens *)
(* in flags, and the MQTT task hands it a command in _cmd, which it runs   *)
(* and answers.  A message is two cells, copied and read one at a time; a  *)
(* LoRaWAN configuration is wiped by the first WiFi setting, or by one     *)
(* that is refused.                                                        *)
(***************************************************************************)
EXTENDS Integers, Sequences

CONSTANTS Command,   \* the messages
          TooLong,    \* those that do not fit _cmd
          MaxDrops,    \* bound: times the network or the broker is lost
          MaxMessages, \* bound: messages the broker sends
          MaxSettings  \* bound: settings

ASSUME EspAssumption == TooLong \subseteq Command

VARIABLES
  wifi,           \* comms_config: {} of another type, or the fields set
  wifi_started, mqtt_started,
  has_ip_addr, has_mqtt,
  session,        \* the client's connection with the broker
  handler,        \* the MQTT task: "idle", or before "copy1", "copy2", "ready"
  message,        \* event->data
  cmd, cmd_ready, \* _cmd, two cells, and its flag
  main,           \* "loop", "read1", "read2", "answer"
  command,        \* what cmds_process has read
  drops, settings,
  messages,       \* history: how many were sent
  taken, run   \* history: the messages taken and the commands run

flags == <<wifi_started, mqtt_started, has_ip_addr, has_mqtt, session>>
slotVars == <<handler, message, cmd, cmd_ready, main, command, messages, taken, run>>
espVars == <<wifi, flags, slotVars, drops, settings>>

EInit ==
  /\ wifi \in {{}, {"type", "ssid", "password", "autostart"}}
  /\ wifi_started = FALSE /\ mqtt_started = FALSE
  /\ has_ip_addr = FALSE /\ has_mqtt = FALSE /\ session = FALSE
  /\ handler = "idle" /\ message = "" /\ cmd = <<"", "">> /\ cmd_ready = FALSE
  /\ main = "loop" /\ command = <<>>
  /\ drops = 0 /\ settings = 0 /\ messages = 0
  /\ taken = <<>> /\ run = <<>>

-----------------------------------------------------------------------------
(* The main loop: protocol_loop_iteration and the command "comms_conn".    *)

\* _wifi_start.
MayStart == {"type", "ssid", "password"} \subseteq wifi
WifiStart == wifi_started' = (wifi_started \/ MayStart)

\* On its own a second after boot, or by comms_conn.
LoopWifi ==
  /\ main = "loop" /\ ~wifi_started
  /\ {"type", "autostart"} \subseteq wifi
  /\ WifiStart
  /\ UNCHANGED <<wifi, mqtt_started, has_ip_addr, has_mqtt, session, slotVars,
                 drops, settings>>
LoopMqtt ==
  /\ main = "loop" /\ wifi_started /\ ~mqtt_started /\ has_ip_addr
  /\ mqtt_started' = TRUE
  /\ UNCHANGED <<wifi, wifi_started, has_ip_addr, has_mqtt, session, slotVars,
                 drops, settings>>
CommsConn ==
  /\ main = "loop" /\ ~wifi_started
  /\ WifiStart
  /\ UNCHANGED <<wifi, mqtt_started, has_ip_addr, has_mqtt, session, slotVars,
                 drops, settings>>

\* A command: cmds_process reads it, its answer is published, and only then
\* the slot is free again.
LoopCommand ==
  /\ main = "loop" /\ cmd_ready
  /\ main' = "read1" /\ command' = <<>>
  /\ UNCHANGED <<wifi, flags, handler, message, cmd, cmd_ready, messages,
                 taken, run, drops, settings>>
ReadCell ==
  /\ main \in {"read1", "read2"}
  /\ command' = Append(command, cmd[Len(command) + 1])
  /\ main' = IF main = "read1" THEN "read2" ELSE "answer"
  /\ run' = IF main = "read2" THEN Append(run, command') ELSE run
  /\ UNCHANGED <<wifi, flags, handler, message, cmd, cmd_ready, messages,
                 taken, drops, settings>>
Answer ==
  /\ main = "answer"
  /\ main' = "loop" /\ cmd_ready' = FALSE
  /\ UNCHANGED <<wifi, flags, handler, message, cmd, command, messages,
                 taken, run, drops, settings>>

-----------------------------------------------------------------------------
(* Settings (comms_config), by a command from a UART.                      *)

\* _prep_config.
Prepared == IF "type" \in wifi THEN wifi ELSE {"type"}

SetString == \E field \in {"ssid", "password"}, fits \in BOOLEAN :
  /\ main = "loop" /\ ~wifi_started /\ settings < MaxSettings
  /\ settings' = settings + 1
  /\ wifi' = IF fits THEN Prepared \cup {field} ELSE Prepared
  /\ UNCHANGED <<flags, slotVars, drops>>
\* _am_cb: a mode that is not known is refused, after _prep_config.
SetAuthmode ==
  /\ main = "loop" /\ ~wifi_started /\ settings < MaxSettings
  /\ settings' = settings + 1
  /\ wifi' = Prepared
  /\ UNCHANGED <<flags, slotVars, drops>>
SetAutostart == \E on \in BOOLEAN :
  /\ main = "loop" /\ ~wifi_started /\ settings < MaxSettings
  /\ settings' = settings + 1
  /\ "type" \in wifi
  /\ wifi' = IF on THEN wifi \cup {"autostart"} ELSE wifi \ {"autostart"}
  /\ UNCHANGED <<flags, slotVars, drops>>

-----------------------------------------------------------------------------
(* The tasks.                                                              *)

\* _wifi_event_handler: an address, or WiFi lost and connected to again.  The
\* client's session may outlast a short loss.
GotIp ==
  /\ wifi_started /\ ~has_ip_addr
  /\ has_ip_addr' = TRUE
  /\ UNCHANGED <<wifi, wifi_started, mqtt_started, has_mqtt, session, slotVars,
                 drops, settings>>
WifiLost == \E survives \in BOOLEAN :
  /\ has_ip_addr /\ drops < MaxDrops
  /\ drops' = drops + 1
  /\ has_ip_addr' = FALSE /\ has_mqtt' = FALSE
  /\ session' = (session /\ survives)
  /\ UNCHANGED <<wifi, wifi_started, mqtt_started, slotVars, settings>>

\* _mqtt_event_handler.
MqttConnected ==
  /\ mqtt_started /\ has_ip_addr /\ ~session /\ handler = "idle"
  /\ session' = TRUE /\ has_mqtt' = TRUE
  /\ UNCHANGED <<wifi, wifi_started, mqtt_started, has_ip_addr, slotVars,
                 drops, settings>>
MqttDisconnected ==
  /\ session /\ handler = "idle" /\ drops < MaxDrops
  /\ drops' = drops + 1
  /\ session' = FALSE /\ has_mqtt' = FALSE
  /\ UNCHANGED <<wifi, wifi_started, mqtt_started, has_ip_addr, slotVars, settings>>

\* Mutated form of MqttData: a command that is not yet run is overwritten.
MqttDataAnyway == \E c \in Command :
  /\ session /\ handler = "idle" /\ messages < MaxMessages
  /\ messages' = messages + 1
  /\ cmd' = <<"", "">>
  /\ IF c \in TooLong THEN UNCHANGED <<handler, message>>
     ELSE handler' = "copy1" /\ message' = c
  /\ UNCHANGED <<wifi, flags, cmd_ready, main, command, taken, run, drops, settings>>

\* MQTT_EVENT_DATA: dropped while a command waits or runs, and if too long.
MqttData == \E c \in Command :
  /\ session /\ handler = "idle" /\ messages < MaxMessages
  /\ messages' = messages + 1
  /\ cmd' = IF cmd_ready THEN cmd ELSE <<"", "">>
  /\ IF cmd_ready \/ c \in TooLong THEN UNCHANGED <<handler, message>>
     ELSE handler' = "copy1" /\ message' = c
  /\ UNCHANGED <<wifi, flags, cmd_ready, main, command, taken, run, drops, settings>>
CopyCell ==
  /\ handler \in {"copy1", "copy2"}
  /\ cmd' = IF handler = "copy1" THEN <<message, cmd[2]>> ELSE <<cmd[1], message>>
  /\ handler' = IF handler = "copy1" THEN "copy2" ELSE "ready"
  /\ UNCHANGED <<wifi, flags, message, cmd_ready, main, command, messages,
                 taken, run, drops, settings>>
CopyReady ==
  /\ handler = "ready"
  /\ handler' = "idle" /\ cmd_ready' = TRUE
  /\ taken' = Append(taken, <<message, message>>)
  /\ UNCHANGED <<wifi, flags, message, cmd, main, command, messages, run, drops,
                 settings>>

-----------------------------------------------------------------------------

MainLoop == LoopWifi \/ LoopMqtt \/ LoopCommand \/ ReadCell \/ Answer
Wifi == GotIp
Mqtt == MqttConnected \/ CopyCell \/ CopyReady
ENext == MainLoop \/ CommsConn \/ SetString \/ SetAuthmode \/ SetAutostart
         \/ Wifi \/ WifiLost \/ Mqtt \/ MqttDisconnected \/ MqttData

\* The main loop goes on, WiFi and the broker come back when lost.
ESpec == /\ EInit /\ [][ENext]_espVars
         /\ WF_espVars(LoopWifi) /\ WF_espVars(LoopMqtt)
         /\ WF_espVars(LoopCommand \/ ReadCell \/ Answer)
         /\ WF_espVars(Wifi) /\ WF_espVars(MqttConnected)
         /\ WF_espVars(CopyCell \/ CopyReady)

-----------------------------------------------------------------------------
(* Properties.                                                             *)

EspTypeOK ==
  /\ wifi \subseteq {"type", "ssid", "password", "autostart"}
  /\ wifi # {} => "type" \in wifi
  /\ mqtt_started => wifi_started
  /\ has_mqtt => session /\ mqtt_started
  /\ handler \in {"idle", "copy1", "copy2", "ready"}
  /\ main \in {"loop", "read1", "read2", "answer"}
  /\ Len(command) <= 2 /\ Len(taken) <= messages

\* The commands run are the messages taken, each once, in order and whole,
\* however the MQTT task and the main loop interleave.
CommandIsWhole ==
  /\ Len(run) <= Len(taken)
  /\ \A i \in DOMAIN run : run[i] = taken[i]

\* A device set to start on its own reaches the broker, and a command that was
\* taken is answered.
EspConnects ==
  /\ {"type", "ssid", "password", "autostart"} \subseteq wifi
       ~> (wifi_started \/ "autostart" \notin wifi)
  /\ (wifi_started /\ ~session) ~> session
  /\ cmd_ready ~> ~cmd_ready
=============================================================================
