-------------------------------- MODULE Rak4270 --------------------------------
(***************************************************************************)
(* comms/src/rak4270.c: the driver of the earlier LoRaWAN modem.  Unlike   *)
(* that of the RAK3172 it keeps the packet it sent: an error of the radio  *)
(* makes it send the packet again, up to RAK4270_MAX_RESEND times.  It     *)
(* does not wait in a nested main loop, and its own packet, which says     *)
(* that the device is alive, is sent and acknowledged like any other.      *)
(***************************************************************************)
EXTENDS Integers, Sequences

CONSTANTS
  InitSteps,     \* ARRAY_SIZE(_init_msgs)
  MaxResend,     \* RAK4270_MAX_RESEND
  FastResets,    \* resets before the modem is left off for 15 minutes
  MaxPackets,    \* bound: packets of the measurements
  MaxMisses,     \* bound: lines lost and errors of the modem
  MaxConfigs     \* bound: comms_config commands

ASSUME Rak4270Assumption ==
  /\ {InitSteps, MaxResend, FastResets, MaxPackets} \subseteq Nat \ {0}
  /\ MaxMisses \in Nat /\ MaxConfigs \in Nat

VARIABLES
  modem, init_step, resets, resend_count,  \* _rak4270_state_machine
  backup,        \* _rak4270_backup_message: the packet held, or 0
  configured,    \* lw_persist_data_is_valid
  powered,       \* the reset GPIO
  heard,         \* lines of the modem that were not processed yet
  on_air,        \* packet the modem was last given; 0 says "alive"
  sent,          \* packets the measurements have handed over
  acked,         \* those they were told are acknowledged
  report,        \* what the last step told them
  misses, configs

ctx == <<modem, init_step, resets, resend_count, backup, configured>>
world == <<powered, heard, on_air, sent, acked, misses>>
rak4270Vars == <<ctx, world, report, configs>>

InSend == {"wait_ok", "wait_ack"}
Rak4270Connected == modem \in InSend \cup {"idle"}
Rak4270SendReady == modem = "idle"

-----------------------------------------------------------------------------
(* The modem: what it says to a message, or an error, or nothing.          *)

Answer(rest, good, bad) ==
  \/ heard' = rest \o good /\ UNCHANGED misses
  \/ /\ misses < MaxMisses /\ misses' = misses + 1
     /\ \E b \in bad : heard' = rest \o b

ToMessage(line) == Answer(Tail(heard), <<line>>, {<<>>, <<"fatal">>})

ToPacket(rest) ==
  Answer(rest, <<"ok", "ack">>,
         {<<>>, <<"ok">>, <<"retry">>, <<"ok", "rx">>, <<"ok", "fatal">>,
          <<"size">>, <<"ok", "mic", "ack">>})

HeadIs(lines) == heard # <<>> /\ Head(heard) \in lines
Taken4 == heard' = Tail(heard) /\ UNCHANGED misses
Silent4 == report' = "nothing" /\ UNCHANGED acked

-----------------------------------------------------------------------------
(* Turning it on and off.                                                  *)

\* _rak4270_chip_on: the modem boots only if it was off.
ChipOn ==
  /\ modem' = "wait_init" /\ init_step' = 0
  /\ powered' = TRUE
  /\ heard' = IF powered THEN heard ELSE <<"boot">>

\* rak4270_reset, when the driver is not OFF already.
ChipReset ==
  /\ modem' = "off" /\ powered' = FALSE /\ heard' = <<>>
  /\ resets' = IF resets > FastResets THEN resets ELSE resets + 1

Reset4 == IF modem = "off" THEN /\ UNCHANGED <<modem, powered, resets>>
                                /\ heard' = Tail(heard)
                           ELSE ChipReset

Rak4270Init ==
  /\ configured \in BOOLEAN /\ powered = configured
  /\ modem = IF configured THEN "wait_init" ELSE "unconfigured"
  /\ heard = IF configured THEN <<"boot">> ELSE <<>>
  /\ init_step = 0 /\ resets = 0 /\ resend_count = 0 /\ backup = 0
  /\ on_air = 0 /\ sent = 0 /\ acked = {} /\ report = "nothing"
  /\ misses = 0 /\ configs = 0

-----------------------------------------------------------------------------
(* rak4270_process: a line the state waits for.                            *)

HearInit ==
  /\ modem = "wait_init" /\ HeadIs({"boot"})
  /\ modem' = "wait_init_ok" /\ init_step' = init_step + 1
  /\ ToMessage("ok") /\ Silent4
  /\ UNCHANGED <<resets, resend_count, backup, configured, powered, on_air, sent,
                 configs>>

\* The next init message, or the soft reset after the last.
HearInitOk ==
  /\ modem = "wait_init_ok" /\ HeadIs({"ok"})
  /\ IF init_step = InitSteps
     THEN /\ modem' = "wait_reinit" /\ ToMessage("boot")
          /\ UNCHANGED init_step
     ELSE /\ init_step' = init_step + 1 /\ ToMessage("ok")
          /\ UNCHANGED modem
  /\ Silent4
  /\ UNCHANGED <<resets, resend_count, backup, configured, powered, on_air, sent,
                 configs>>

\* Joined again, the modem says it is alive: a packet that takes no backup.
HearBoot ==
  /\ \/ /\ modem = "wait_reinit" /\ HeadIs({"boot"})
        /\ modem' = "wait_conn" /\ ToMessage("joined") /\ UNCHANGED on_air
     \/ /\ modem = "wait_conn" /\ HeadIs({"joined"})
        /\ modem' = "wait_ok" /\ on_air' = 0 /\ ToPacket(Tail(heard))
  /\ Silent4
  /\ UNCHANGED <<init_step, resets, resend_count, backup, configured, powered,
                 sent, configs>>

\* "OK Join Success" begins with "OK": msg_is takes it for one.
HearOk ==
  /\ modem = "wait_ok" /\ HeadIs({"ok", "joined"})
  /\ modem' = "wait_ack"
  /\ Taken4 /\ Silent4
  /\ UNCHANGED <<init_step, resets, resend_count, backup, configured, powered,
                 on_air, sent, configs>>

HearAck ==
  /\ modem = "wait_ack" /\ HeadIs({"ack"})
  /\ modem' = "idle" /\ resets' = 0 /\ resend_count' = 0 /\ backup' = 0
  /\ report' = "acked" /\ acked' = acked \cup {on_air}
  /\ Taken4
  /\ UNCHANGED <<init_step, configured, powered, on_air, sent, configs>>

Expected4 == CASE modem = "wait_init" -> {"boot"}
               [] modem = "wait_init_ok" -> {"ok"}
               [] modem = "wait_reinit" -> {"boot"}
               [] modem = "wait_conn" -> {"joined"}
               [] modem = "wait_ok" -> {"ok", "joined"}
               [] modem = "wait_ack" -> {"ack"}
               [] OTHER -> {}

\* A line the state does not wait for, and the errors that need no answer.
HearOther ==
  /\ heard # <<>> /\ Head(heard) \notin Expected4 \cup {"retry", "rx", "size", "fatal"}
  /\ Taken4 /\ Silent4
  /\ UNCHANGED <<ctx, powered, on_air, sent, configs>>

-----------------------------------------------------------------------------
(* _rak4270_handle_error.                                                  *)

ResendBackup ==
  modem' = "wait_ok" /\ on_air' = backup /\ ToPacket(Tail(heard))

\* Too many resends: the modem is reset and the measurements are told.
\* Otherwise the packet held, if any, goes out again.
RetryWrite ==
  IF resend_count >= MaxResend
  THEN /\ resend_count' = 0 /\ Reset4
       /\ report' = "failed" /\ UNCHANGED <<acked, on_air, misses>>
  ELSE /\ resend_count' = resend_count + 1
       /\ IF backup = 0 THEN Taken4 /\ UNCHANGED <<modem, on_air>>
                        ELSE ResendBackup
       /\ Silent4
       /\ UNCHANGED <<powered, resets>>

HearRetry ==
  /\ HeadIs({"retry"}) \/ (HeadIs({"rx"}) /\ Rak4270Connected)
  /\ RetryWrite
  /\ UNCHANGED <<init_step, backup, configured, sent, configs>>

\* The packet was too long, which is told; any other error is not.
HearFatal ==
  /\ HeadIs({"size", "fatal"}) \/ (HeadIs({"rx"}) /\ ~Rak4270Connected)
  /\ Reset4
  /\ report' = IF HeadIs({"size"}) THEN "failed" ELSE "nothing"
  /\ UNCHANGED <<init_step, resend_count, backup, configured, on_air, sent, acked,
                 misses, configs>>

-----------------------------------------------------------------------------
(* rak4270_loop_iteration, rak4270_send and the command comms_config.      *)

LoopOff ==
  /\ modem = "off" /\ configured
  /\ ChipOn /\ Silent4
  /\ UNCHANGED <<resets, resend_count, backup, configured, on_air, sent, misses,
                 configs>>

\* Mutated form of LoopTimeout: only sends are watched.
LoopTimeoutInSend ==
  /\ modem \in InSend /\ heard = <<>>
  /\ report' = "failed"
  /\ ChipReset
  /\ UNCHANGED <<init_step, resend_count, backup, configured, on_air, sent, acked,
                 misses, configs>>

\* No line for RAK4270_CONFIG_TIMEOUT_S.
LoopTimeout ==
  /\ modem \notin {"off", "idle", "unconfigured"} /\ heard = <<>>
  /\ report' = IF modem \in InSend THEN "failed" ELSE "nothing"
  /\ ChipReset
  /\ UNCHANGED <<init_step, resend_count, backup, configured, on_air, sent, acked,
                 misses, configs>>

\* Mutated form of Send4: a packet that was held is kept in place of the new.
Send4KeepsOld ==
  /\ modem = "idle" /\ sent < MaxPackets
  /\ modem' = "wait_ok" /\ sent' = sent + 1 /\ on_air' = sent'
  /\ backup' = IF sent = 0 THEN sent' ELSE backup
  /\ ToPacket(heard) /\ Silent4
  /\ UNCHANGED <<init_step, resets, resend_count, configured, powered, configs>>

Send4 ==
  /\ modem = "idle" /\ sent < MaxPackets
  /\ modem' = "wait_ok" /\ sent' = sent + 1 /\ on_air' = sent' /\ backup' = sent'
  /\ ToPacket(heard) /\ Silent4
  /\ UNCHANGED <<init_step, resets, resend_count, configured, powered, configs>>

\* _rak4270_reload_config sets the state to OFF before rak4270_reset, which
\* then takes the modem for one that is being reset: it stays on.
ConfigSetup4 ==
  /\ configs < MaxConfigs /\ configs' = configs + 1
  /\ \/ configured' = FALSE /\ UNCHANGED <<modem, resets>>
     \/ configured' = TRUE /\ modem' = "off" /\ resets' = 0
  /\ Silent4
  /\ UNCHANGED <<init_step, resend_count, backup, powered, heard, on_air, sent,
                 misses>>

Hear == \/ HearInit \/ HearInitOk \/ HearBoot \/ HearOk \/ HearAck \/ HearOther
        \/ HearRetry \/ HearFatal

Rak4270Next == Hear \/ LoopOff \/ LoopTimeout \/ Send4 \/ ConfigSetup4

-----------------------------------------------------------------------------
(* Properties.                                                             *)

\* Type invariant.
Rak4270TypeOK ==
  /\ modem \in InSend \cup {"off", "unconfigured", "wait_init", "wait_init_ok",
                            "wait_reinit", "wait_conn", "idle"}
  /\ init_step \in 0..InitSteps /\ resets \in 0..(FastResets + 1)
  /\ resend_count \in 0..MaxResend
  /\ {backup, on_air} \subseteq 0..sent /\ sent \in 0..MaxPackets
  /\ {configured, powered} \subseteq BOOLEAN
  /\ heard \in Seq({"boot", "ok", "joined", "ack", "retry", "rx", "size", "fatal",
                    "mic"})
  /\ acked \subseteq 0..sent /\ report \in {"nothing", "acked", "failed"}
  /\ misses \in 0..MaxMisses /\ configs \in 0..MaxConfigs

\* A packet the measurements were told is acknowledged is not sent again, by a
\* late error, after a reset or instead of the next packet.
NoResend ==
  on_air' # 0 /\ modem' = "wait_ok" /\ (modem # "wait_ok" \/ on_air' # on_air)
    => on_air' \notin acked

\* A packet of the measurements on its way is the one held to be sent again:
\* no error makes the driver repeat an older one in its place.
HoldsTheLatest ==
  modem \in InSend /\ on_air # 0 => backup = on_air /\ on_air = sent

\* What is sent, and sent again, is the latest packet and not acknowledged.
SendsTheLatest == [][HoldsTheLatest' /\ NoResend]_rak4270Vars

\* A packet ends: acknowledged, or with the modem reset.
Send4Ends == [](modem \in InSend => <>(modem \in {"idle", "off"}))

\* Configured, it connects in the end, after lost lines, errors and commands.
Rak4270Connects == [](configured => <>(Rak4270Connected \/ ~configured))

Rak4270Spec == Rak4270Init /\ [][Rak4270Next]_rak4270Vars
                 /\ WF_rak4270Vars(Hear) /\ WF_rak4270Vars(LoopOff)
                 /\ WF_rak4270Vars(LoopTimeout)
================================================================================
