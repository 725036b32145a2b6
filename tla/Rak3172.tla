-------------------------------- MODULE Rak3172 --------------------------------
(***************************************************************************)
(* comms/src/rak3172.c: the driver of the LoRaWAN modem.  It turns the     *)
(* modem on, waits for its boot message, sends the init messages one by    *)
(* one, joins, and then sends packets.  rak3172_process takes the lines    *)
(* the modem says, rak3172_loop_iteration looks at timeouts, and a send    *)
(* waits in a nested main loop in which lines are processed.               *)
(*                                                                         *)
(* A line is a member of a small set; the modem is modelled from what the  *)
(* driver expects of it.  It has said all it will say when a timeout comes.*)
(***************************************************************************)
EXTENDS Integers, Sequences

CONSTANTS
  InitMsgs,      \* ARRAY_SIZE(_rak3172_init_msgs)
  ShortResets,   \* RAK3172_SHORT_RESET_COUNT
  MayConnect,    \* TRUE: the command "connect" is used
  MaxFailures,   \* bound: lines lost, joins and packets refused
  MaxCommands    \* bound: commands from the console or the network

ASSUME RakAssumption ==
  /\ InitMsgs \in Nat /\ InitMsgs > 2 /\ ShortResets \in Nat
  /\ MayConnect \in BOOLEAN /\ MaxFailures \in Nat /\ MaxCommands \in Nat

VARIABLES
  state, init_count, reset_count, config_is_valid,   \* _rak3172_ctx ...
  err_code,      \* ... and whether its err_code is not 0
  sending,       \* what rak3172_send, waiting in the nested main loop, sends
  told,          \* what the last step told the measurements
  said,          \* lines of the modem the driver has not processed
  echo,          \* the modem repeats commands ("ATE")
  failures, commands

driver == <<state, init_count, reset_count, config_is_valid, err_code, sending>>
bounds == <<failures, commands>>
vars == <<driver, told, said, echo, bounds>>

Connected == state \in {"idle", "send_wait_ok", "send_wait_ack"}
Starting == {"init_wait_boot", "init_wait_ok", "init_wait_replay",
             "join_wait_replay", "join_wait_ok", "join_wait_join"}

Init ==
  /\ state = "off" /\ init_count = 0 /\ reset_count = 0
  /\ config_is_valid \in BOOLEAN /\ err_code = FALSE
  /\ sending = "no" /\ told = "nothing"
  /\ said = IF config_is_valid THEN <<"boot">> ELSE <<>>
  /\ echo = FALSE
  /\ failures = 0 /\ commands = 0

-----------------------------------------------------------------------------
(* The modem.                                                              *)

Echo(lines) == IF echo THEN <<"replay">> \o lines ELSE lines

\* What it says after rest: to init message i, of which the first reboots it,
\* the second seems to, and the third is "ATE" ...
SaysToInit(i, rest) ==
  /\ echo' = (i = 2 \/ (i # 0 /\ echo))
  /\ \/ i = 0 /\ said' = rest \o <<"boot">>
     \/ i = 1 /\ said' \in {rest \o <<"ok">>, rest \o <<"boot">>}
     \/ i > 1 /\ said' = rest \o Echo(<<"ok">>)

\* ... and to a join or a packet, which may be refused or go unanswered.
SaysTo(good, bad, rest) ==
  /\ UNCHANGED echo
  /\ \/ said' = rest \o Echo(<<"ok", good>>) /\ UNCHANGED failures
     \/ /\ failures < MaxFailures /\ failures' = failures + 1
        /\ said' \in {rest \o Echo(<<"ok", bad>>), rest \o Echo(<<"ok">>)}

\* The reset line: off, and a boot when it is on again.
Off == said' = <<>> /\ UNCHANGED echo
On == said' = <<"boot">> /\ echo' = FALSE

-----------------------------------------------------------------------------
(* rak3172_process: one action per state.  The line is taken; one that the  *)
(* state does not wait for has no other effect.                             *)

Line(l) == said # <<>> /\ Head(said) = l
Taken == said' = Tail(said) /\ UNCHANGED echo
Quiet == told' = "nothing"

Expected == CASE state \in {"off", "init_wait_boot"} -> {"boot"}
              [] state = "init_wait_ok" ->
                   IF init_count = 1 THEN {"ok", "boot"} ELSE {"ok"}
              [] state \in {"init_wait_replay", "join_wait_replay"} -> {"replay"}
              [] state \in {"join_wait_ok", "send_wait_ok"} -> {"ok"}
              [] state = "join_wait_join" -> {"joined", "join_failed"}
              [] state = "send_wait_ack" -> {"ack", "alive_ack", "nack"}
              [] OTHER -> {}

ProcessOther ==
  /\ said # <<>>
  /\ Head(said) \notin Expected \/ (state = "off" /\ ~config_is_valid)
  /\ Taken /\ Quiet
  /\ UNCHANGED <<driver, bounds>>

ProcessOff ==
  /\ state = "off" /\ config_is_valid /\ Line("boot")
  /\ state' = "init_wait_boot" /\ init_count' = 0
  /\ SaysToInit(0, Tail(said)) /\ Quiet
  /\ UNCHANGED <<reset_count, config_is_valid, err_code, sending, bounds>>

ProcessInitWaitBoot ==
  /\ state = "init_wait_boot" /\ Line("boot")
  /\ state' = "init_wait_ok" /\ init_count' = init_count + 1
  /\ SaysToInit(init_count', Tail(said)) /\ Quiet
  /\ UNCHANGED <<reset_count, config_is_valid, err_code, sending, bounds>>

ProcessInitWaitReplay ==
  /\ state = "init_wait_replay" /\ Line("replay")
  /\ state' = "init_wait_ok"
  /\ Taken /\ Quiet
  /\ UNCHANGED <<init_count, reset_count, config_is_valid, err_code, sending,
                 bounds>>

\* Mutated form of ProcessInitWaitOk: one message too many.
ProcessInitWaitOkPastEnd ==
  /\ state = "init_wait_ok"
  /\ Line("ok") \/ (init_count = 1 /\ Line("boot"))
  /\ IF init_count = InitMsgs
     THEN /\ state' = "join_wait_replay" /\ UNCHANGED init_count
          /\ SaysTo("joined", "join_failed", Tail(said))
     ELSE /\ state' = IF init_count > 2 THEN "init_wait_replay" ELSE "init_wait_ok"
          /\ init_count' = init_count + 1
          /\ SaysToInit(init_count', Tail(said)) /\ UNCHANGED failures
  /\ Quiet
  /\ UNCHANGED <<reset_count, config_is_valid, err_code, sending, commands>>

\* "ATE is 3rd command so first 3 commands wont have replay".
ProcessInitWaitOk ==
  /\ state = "init_wait_ok"
  /\ Line("ok") \/ (init_count = 1 /\ Line("boot"))
  /\ IF init_count + 1 = InitMsgs
     THEN /\ state' = "join_wait_replay" /\ UNCHANGED init_count
          /\ SaysTo("joined", "join_failed", Tail(said))
     ELSE /\ state' = IF init_count > 2 THEN "init_wait_replay" ELSE "init_wait_ok"
          /\ init_count' = init_count + 1
          /\ SaysToInit(init_count', Tail(said)) /\ UNCHANGED failures
  /\ Quiet
  /\ UNCHANGED <<reset_count, config_is_valid, err_code, sending, commands>>

ProcessJoinWaitReplay ==
  /\ state = "join_wait_replay" /\ Line("replay")
  /\ state' = "join_wait_ok"
  /\ Taken /\ Quiet
  /\ UNCHANGED <<init_count, reset_count, config_is_valid, err_code, sending,
                 bounds>>

ProcessJoinWaitOk ==
  /\ state = "join_wait_ok" /\ Line("ok")
  /\ state' = "join_wait_join"
  /\ Taken /\ Quiet
  /\ UNCHANGED <<init_count, reset_count, config_is_valid, err_code, sending,
                 bounds>>

\* rak3172_reset, with the resets counted from n: after too many the modem
\* stays off for long.
ResetFrom(n) ==
  /\ state' = "resetting"
  /\ reset_count' = IF n < ShortResets THEN n + 1 ELSE n
  /\ Off

ProcessJoinWaitJoin ==
  /\ state = "join_wait_join"
  /\ \/ /\ Line("joined")
        /\ state' = "idle" /\ reset_count' = 0
        /\ Taken
     \/ Line("join_failed") /\ ResetFrom(reset_count)
  /\ Quiet
  /\ UNCHANGED <<init_count, config_is_valid, err_code, sending, bounds>>

ProcessSendOk ==
  /\ state = "send_wait_ok" /\ Line("ok")
  /\ state' = "send_wait_ack"
  /\ Taken /\ Quiet
  /\ UNCHANGED <<init_count, reset_count, config_is_valid, err_code, sending,
                 bounds>>

\* Mutated form of ProcessSendAck: the measurements are told of a packet the
\* network refused as they are of one it took.
ProcessSendAckAny ==
  /\ state = "send_wait_ack"
  /\ \/ /\ Line("ack") \/ Line("alive_ack")
        /\ state' = "idle" /\ reset_count' = 0
        /\ Taken
     \/ Line("nack") /\ ResetFrom(reset_count)
  /\ told' = "acked"
  /\ UNCHANGED <<init_count, config_is_valid, err_code, sending, bounds>>

\* The acknowledgement is passed on; a refusal is not.
ProcessSendAck ==
  /\ state = "send_wait_ack"
  /\ \/ /\ Line("ack") \/ Line("alive_ack")
        /\ state' = "idle" /\ reset_count' = 0
        /\ Taken
        /\ told' = "acked"
     \/ /\ Line("nack")
        /\ ResetFrom(reset_count)
        /\ Quiet
  /\ UNCHANGED <<init_count, config_is_valid, err_code, sending, bounds>>

Process == \/ ProcessOther \/ ProcessOff \/ ProcessInitWaitBoot
           \/ ProcessInitWaitReplay \/ ProcessInitWaitOk
           \/ ProcessJoinWaitReplay \/ ProcessJoinWaitOk \/ ProcessJoinWaitJoin
           \/ ProcessSendOk \/ ProcessSendAck

-----------------------------------------------------------------------------
(* rak3172_loop_iteration; it is not called in the nested main loop.       *)

\* The delay after a reset, 10 ms or 15 minutes, is over.
PowerOn ==
  /\ sending = "no" /\ state = "resetting"
  /\ state' = "off"
  /\ On /\ Quiet
  /\ UNCHANGED <<init_count, reset_count, config_is_valid, err_code, sending,
                 bounds>>

\* The modem said nothing for RAK3172_TIMEOUT_MS, or did not acknowledge in
\* RAK3172_ACK_TIMEOUT_MS: only then the measurements are told.
TimedOut ==
  /\ sending = "no" /\ said = <<>>
  /\ state \in Starting \cup {"send_wait_ok", "send_wait_ack"}
  /\ told' = IF state = "send_wait_ack" THEN "failed" ELSE "nothing"
  /\ ResetFrom(reset_count)
  /\ UNCHANGED <<init_count, config_is_valid, err_code, sending, bounds>>

\* rak3172_send, for the measurements or for an error code.
SendBegin ==
  /\ state = "idle" /\ sending = "no"
  /\ sending' \in {"packet"} \cup (IF err_code THEN {"error code"} ELSE {})
  /\ Quiet
  /\ UNCHANGED <<state, init_count, reset_count, config_is_valid, err_code, said,
                 echo, bounds>>

\* Mutated form of SendEnd: the state is not changed.
SendEndKeepsState ==
  /\ sending # "no"
  /\ sending' = "no"
  /\ err_code' = (err_code /\ sending # "error code")
  /\ UNCHANGED state
  /\ SaysTo("ack", "nack", said)
  /\ Quiet
  /\ UNCHANGED <<init_count, reset_count, config_is_valid, commands>>

\* After the wait the packet is written, whatever happened meanwhile; an error
\* code is cleared.
SendEnd ==
  /\ sending # "no"
  /\ sending' = "no"
  /\ err_code' = (err_code /\ sending # "error code")
  /\ state' = "send_wait_ok"
  /\ IF state = "resetting" THEN UNCHANGED <<said, echo, failures>>
                            ELSE SaysTo("ack", "nack", said)
  /\ Quiet
  /\ UNCHANGED <<init_count, reset_count, config_is_valid, commands>>

-----------------------------------------------------------------------------
(* Commands, from the console or, in the nested main loop too, from the    *)
(* network.                                                                *)

Command ==
  /\ commands < MaxCommands /\ commands' = commands + 1
  /\ sending = "no" \/ Connected
  /\ Quiet

\* comms_restart.
Restart ==
  /\ Command
  /\ state' = "off" /\ reset_count' = 0
  /\ On
  /\ UNCHANGED <<init_count, config_is_valid, err_code, sending, failures>>

\* comms_config: a valid one resets the modem.
ConfigSetup ==
  /\ Command
  /\ \/ /\ config_is_valid' = FALSE
        /\ UNCHANGED <<state, reset_count, said, echo>>
     \/ /\ config_is_valid' = TRUE
        /\ IF state = "resetting"
           THEN reset_count' = 0 /\ UNCHANGED <<state, said, echo>>
           ELSE ResetFrom(0)
  /\ UNCHANGED <<init_count, err_code, sending, failures>>

\* connect: a packet of its own, which the driver does not remember.
Connect ==
  /\ MayConnect /\ Command
  /\ state = "idle"
  /\ said' = said \o Echo(<<"ok", "alive_ack">>) /\ UNCHANGED echo
  /\ UNCHANGED <<driver, failures>>

\* A confirmed command from the network leaves an error code to send.
ConfirmedCommand ==
  /\ Command
  /\ Connected
  /\ err_code' = TRUE
  /\ UNCHANGED <<state, init_count, reset_count, config_is_valid, sending, said,
                 echo, failures>>

Next == \/ Process \/ PowerOn \/ TimedOut \/ SendBegin \/ SendEnd
        \/ Restart \/ ConfigSetup \/ Connect \/ ConfirmedCommand

Spec == Init /\ [][Next]_vars

\* The main loop runs and time passes.
FairSpec == /\ Spec
            /\ WF_vars(Process) /\ WF_vars(PowerOn) /\ WF_vars(TimedOut)
            /\ WF_vars(SendEnd)

-----------------------------------------------------------------------------
(* Properties.                                                             *)

LineKind == {"boot", "ok", "replay", "joined", "join_failed", "ack", "nack",
             "alive_ack"}

TypeOK ==
  /\ state \in Starting \cup {"off", "resetting", "idle", "send_wait_ok",
                              "send_wait_ack"}
  /\ init_count \in 0..(InitMsgs - 1)   \* an index of _rak3172_init_msgs
  /\ reset_count \in 0..ShortResets
  /\ {config_is_valid, err_code, echo} \subseteq BOOLEAN
  /\ sending \in {"no", "packet", "error code"}
  /\ told \in {"nothing", "acked", "failed"}
  /\ said \in Seq(LineKind)
  /\ failures \in 0..MaxFailures /\ commands \in 0..MaxCommands

\* What the measurements may count on (Link.tla): they see one packet at a time
\* go out, be acknowledged or lost, whatever commands come in the nested loop.
Seen == IF sending # "no" \/ state = "send_wait_ok" THEN "wait_ok"
        ELSE IF state = "send_wait_ack" THEN "wait_ack"
        ELSE IF state = "idle" THEN "idle" ELSE "down"

Driver == INSTANCE Link WITH link <- Seen
IsLink == Driver!LinkSpec

\* The measurements are told of an acknowledgement exactly when a packet ended
\* with one, and of a failure only when the modem is given up.
ToldTheTruth ==
  [][/\ (told' = "acked") <=> (Seen = "wait_ack" /\ Seen' = "idle")
     /\ told' = "failed" => Seen = "wait_ack" /\ Seen' = "down"]_vars

\* "Function to tell subsystem measurement was successfully sent."
\* (measurements.h): the acknowledgement passed on is that of the packet of
\* the measurements.
AckIsForThePacket ==
  [][told' = "acked" => Head(said) = "ack"]_vars

\* With a valid configuration the modem connects in the end, after lost
\* answers, refused joins, resets and commands.
GetsConnected == [](config_is_valid => <>(Connected \/ ~config_is_valid))
================================================================================
