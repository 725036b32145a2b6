------------------------------ MODULE RakProofs ------------------------------
(***************************************************************************)
(* Theorems about the drivers of the two modems.  That of the RAK3172, for *)
(* every number of init messages, resets, failures and commands, is what   *)
(* Link.tla promises the measurements, and they are told the truth about   *)
(* their packets.                                                          *)
(*                                                                         *)
(* That of the RAK4270 sends, and sends again, only the latest packet and  *)
(* only until it is acknowledged.  HoldsTheLatest is not inductive alone: a *)
(* resend puts the packet that is held back on the air, so what is held must *)
(* be the latest and must not be acknowledged in every state of the driver, *)
(* also when nothing is on its way, with the modem off, or while it is set *)
(* up again.                                                               *)
(***************************************************************************)
EXTENDS MCModems, TLAPS

\* While a send waits in the nested main loop no other packet is on its way.
OnePacket == sending # "no" => state \notin {"send_wait_ok", "send_wait_ack"}

\* The init messages start from the first one.
FromTheFirst == state = "init_wait_boot" => init_count = 0

RakInv == TypeOK /\ OnePacket /\ FromTheFirst

(* What the modem says is made of lines.                                   *)

LEMMA EchoLines ==
  ASSUME NEW lines \in Seq(LineKind), echo \in BOOLEAN
  PROVE  Echo(lines) \in Seq(LineKind)
<1>1. <<"replay">> \in Seq(LineKind)
  BY DEF LineKind
<1> QED
  BY <1>1 DEF Echo

LEMMA InitLines ==
  ASSUME NEW rest \in Seq(LineKind), NEW i \in Nat, echo \in BOOLEAN,
         SaysToInit(i, rest)
  PROVE  said' \in Seq(LineKind) /\ echo' \in BOOLEAN
<1>1. <<"ok">> \in Seq(LineKind) /\ <<"boot">> \in Seq(LineKind)
  BY DEF LineKind
<1>2. rest \o Echo(<<"ok">>) \in Seq(LineKind)
  <2>1. Echo(<<"ok">>) \in Seq(LineKind)
    BY <1>1, EchoLines
  <2> QED
    BY <2>1
<1>3. rest \o <<"ok">> \in Seq(LineKind) /\ rest \o <<"boot">> \in Seq(LineKind)
  BY <1>1
<1> QED
  BY <1>2, <1>3 DEF SaysToInit

LEMMA SendLines ==
  ASSUME NEW rest \in Seq(LineKind), NEW good \in LineKind, NEW bad \in LineKind,
         echo \in BOOLEAN, SaysTo(good, bad, rest),
         failures \in 0..MaxFailures
  PROVE  /\ said' \in Seq(LineKind) /\ echo' \in BOOLEAN
         /\ failures' \in 0..MaxFailures
<1>1. /\ <<"ok", good>> \in Seq(LineKind) /\ <<"ok", bad>> \in Seq(LineKind)
      /\ <<"ok">> \in Seq(LineKind)
  BY DEF LineKind
<1>2. /\ rest \o Echo(<<"ok", good>>) \in Seq(LineKind)
      /\ rest \o Echo(<<"ok", bad>>) \in Seq(LineKind)
      /\ rest \o Echo(<<"ok">>) \in Seq(LineKind)
  <2>1. /\ Echo(<<"ok", good>>) \in Seq(LineKind)
        /\ Echo(<<"ok", bad>>) \in Seq(LineKind)
        /\ Echo(<<"ok">>) \in Seq(LineKind)
    BY <1>1, EchoLines
  <2> QED
    BY <2>1
<1>3. said' \in Seq(LineKind) /\ echo' \in BOOLEAN
  BY <1>2 DEF SaysTo
<1>4. failures' \in 0..MaxFailures
  <2>1. failures' = failures \/ (failures < MaxFailures /\ failures' = failures + 1)
    BY DEF SaysTo
  <2> QED
    BY <2>1, RakAssumption
<1> QED
  BY <1>3, <1>4

-----------------------------------------------------------------------------
(* The invariant.                                                          *)

LEMMA RakInit == Init => RakInv
<1> SUFFICES ASSUME Init PROVE RakInv
  OBVIOUS
<1>1. said \in Seq(LineKind)
  <2>1. <<>> \in Seq(LineKind) /\ <<"boot">> \in Seq(LineKind)
    BY DEF LineKind
  <2> QED
    BY <2>1 DEF Init
<1>2. /\ init_count \in 0..(InitMsgs - 1) /\ reset_count \in 0..ShortResets
      /\ failures \in 0..MaxFailures /\ commands \in 0..MaxCommands
  BY RakAssumption DEF Init
<1>3. {config_is_valid, err_code, echo} \subseteq BOOLEAN
  BY DEF Init
<1> QED
  BY <1>1, <1>2, <1>3 DEF Init, RakInv, TypeOK, OnePacket, FromTheFirst

\* A line was taken, and the rest is made of lines.
LEMMA TailLines ==
  ASSUME NEW lines \in Seq(LineKind), lines # <<>>
  PROVE  Tail(lines) \in Seq(LineKind)
OBVIOUS

LEMMA TakenLines ==
  ASSUME RakInv, NEW l, Line(l)
  PROVE  Tail(said) \in Seq(LineKind)
BY TailLines DEF RakInv, TypeOK, Line

LEMMA ResetInv ==
  ASSUME RakInv, ResetFrom(reset_count) \/ ResetFrom(0)
  PROVE  /\ state' = "resetting" /\ reset_count' \in 0..ShortResets
         /\ said' \in Seq(LineKind) /\ echo' \in BOOLEAN
<1>1. <<>> \in Seq(LineKind)
  OBVIOUS
<1>2. said' \in Seq(LineKind)
  BY <1>1 DEF ResetFrom, Off
<1>3. echo' \in BOOLEAN
  BY DEF ResetFrom, Off, RakInv, TypeOK
<1>4. reset_count' \in 0..ShortResets
  <2>1. reset_count \in 0..ShortResets
    BY DEF RakInv, TypeOK
  <2>2. \/ reset_count' = IF reset_count < ShortResets THEN reset_count + 1
                                                      ELSE reset_count
        \/ reset_count' = IF 0 < ShortResets THEN 0 + 1 ELSE 0
    BY DEF ResetFrom
  <2> QED
    BY <2>1, <2>2, RakAssumption
<1> QED
  BY <1>2, <1>3, <1>4 DEF ResetFrom

LEMMA RakNext == RakInv /\ [Next]_vars => RakInv'
<1> SUFFICES ASSUME RakInv, [Next]_vars PROVE RakInv'
  OBVIOUS
<1> USE DEF Quiet
<1>t. /\ echo \in BOOLEAN /\ said \in Seq(LineKind)
      /\ failures \in 0..MaxFailures /\ commands \in 0..MaxCommands
      /\ init_count \in 0..(InitMsgs - 1)
  BY DEF RakInv, TypeOK
<1>0. /\ 0 \in 0..(InitMsgs - 1) /\ 1 \in 0..(InitMsgs - 1)
      /\ 0 \in 0..ShortResets
  BY RakAssumption
<1>1. CASE ProcessOther
  <2>1. said' \in Seq(LineKind)
    BY <1>1, <1>t, TailLines DEF ProcessOther, Taken
  <2> QED
    BY <1>1, <2>1 DEF ProcessOther, Taken, driver, bounds, RakInv, TypeOK,
                      OnePacket, FromTheFirst
<1>2. CASE ProcessOff
  <2>1. said' \in Seq(LineKind) /\ echo' \in BOOLEAN
    <3>1. Tail(said) \in Seq(LineKind)
      BY <1>2, TakenLines DEF ProcessOff
    <3> QED
      BY <1>2, <1>t, <3>1, InitLines DEF ProcessOff
  <2> QED
    BY <1>0, <1>2, <2>1 DEF ProcessOff, bounds, RakInv, TypeOK,
                            OnePacket, FromTheFirst, Starting
<1>3. CASE ProcessInitWaitBoot
  <2>1. init_count' = 1
    BY <1>3 DEF ProcessInitWaitBoot, RakInv, FromTheFirst
  <2>2. said' \in Seq(LineKind) /\ echo' \in BOOLEAN
    <3>1. Tail(said) \in Seq(LineKind)
      BY <1>3, TakenLines DEF ProcessInitWaitBoot
    <3> QED
      BY <1>3, <1>t, <2>1, <3>1, InitLines DEF ProcessInitWaitBoot
  <2> QED
    BY <1>0, <1>3, <2>1, <2>2 DEF ProcessInitWaitBoot, bounds, RakInv,
         TypeOK, OnePacket, FromTheFirst, Starting
<1>4. CASE ProcessInitWaitReplay \/ ProcessJoinWaitReplay \/ ProcessJoinWaitOk
  <2>1. said' \in Seq(LineKind)
    <3>1. Tail(said) \in Seq(LineKind)
      BY <1>4, TakenLines DEF ProcessInitWaitReplay, ProcessJoinWaitReplay,
                              ProcessJoinWaitOk
    <3> QED
      BY <1>4, <3>1 DEF ProcessInitWaitReplay, ProcessJoinWaitReplay,
                        ProcessJoinWaitOk, Taken
  <2> QED
    BY <1>4, <2>1 DEF ProcessInitWaitReplay, ProcessJoinWaitReplay,
         ProcessJoinWaitOk, Taken, bounds, RakInv, TypeOK, OnePacket,
         FromTheFirst, Starting
<1>5. CASE ProcessInitWaitOk
  <2>1. Tail(said) \in Seq(LineKind)
    BY <1>5, TakenLines DEF ProcessInitWaitOk
  <2>2. CASE init_count + 1 = InitMsgs
    <3>1. SaysTo("joined", "join_failed", Tail(said))
      BY <1>5, <2>2 DEF ProcessInitWaitOk
    <3>2. /\ said' \in Seq(LineKind) /\ echo' \in BOOLEAN
          /\ failures' \in 0..MaxFailures
      BY <1>t, <2>1, <3>1, SendLines DEF LineKind
    <3> QED
      BY <1>5, <2>2, <3>2 DEF ProcessInitWaitOk, RakInv, TypeOK, OnePacket,
                              FromTheFirst, Starting
  <2>3. CASE init_count + 1 # InitMsgs
    <3>1. init_count' \in 0..(InitMsgs - 1) /\ init_count' \in Nat
      <4>1. init_count' = init_count + 1
        BY <1>5, <2>3 DEF ProcessInitWaitOk
      <4> QED
        BY <1>t, <2>3, <4>1, RakAssumption
    <3>2. SaysToInit(init_count', Tail(said))
      BY <1>5, <2>3 DEF ProcessInitWaitOk
    <3>3. said' \in Seq(LineKind) /\ echo' \in BOOLEAN
      BY <1>t, <2>1, <3>1, <3>2, InitLines
    <3> QED
      BY <1>5, <2>3, <3>1, <3>3 DEF ProcessInitWaitOk, RakInv, TypeOK,
                                    OnePacket, FromTheFirst, Starting
  <2> QED
    BY <2>2, <2>3
<1>6. CASE ProcessJoinWaitJoin
  <2>1. Tail(said) \in Seq(LineKind)
    BY <1>6, TakenLines DEF ProcessJoinWaitJoin, RakInv, TypeOK, Line
  <2>2. /\ state' \in {"idle", "resetting"} /\ reset_count' \in 0..ShortResets
        /\ said' \in Seq(LineKind) /\ echo' \in BOOLEAN
    BY <1>6, <1>t, <2>1, ResetInv, RakAssumption DEF ProcessJoinWaitJoin, Taken
  <2> QED
    BY <1>6, <2>2 DEF ProcessJoinWaitJoin, bounds, RakInv, TypeOK, OnePacket,
                      FromTheFirst
<1>7. CASE ProcessSendOk
  <2>1. Tail(said) \in Seq(LineKind)
    BY <1>7, TakenLines DEF ProcessSendOk
  <2> QED
    BY <1>7, <2>1 DEF ProcessSendOk, Taken, bounds, RakInv, TypeOK, OnePacket,
                      FromTheFirst
<1>8. CASE ProcessSendAck
  <2>1. Tail(said) \in Seq(LineKind)
    BY <1>8, TakenLines DEF ProcessSendAck
  <2>2. /\ state' \in {"idle", "resetting"} /\ reset_count' \in 0..ShortResets
        /\ said' \in Seq(LineKind) /\ echo' \in BOOLEAN
        /\ told' \in {"nothing", "acked"}
    BY <1>8, <1>t, <2>1, ResetInv, RakAssumption DEF ProcessSendAck, Taken
  <2> QED
    BY <1>8, <2>2 DEF ProcessSendAck, bounds, RakInv, TypeOK, OnePacket,
                      FromTheFirst
<1>9. CASE PowerOn
  <2>1. said' \in Seq(LineKind) /\ echo' = FALSE
    BY <1>9 DEF PowerOn, On, LineKind
  <2> QED
    BY <1>9, <2>1 DEF PowerOn, bounds, RakInv, TypeOK, OnePacket, FromTheFirst
<1>10. CASE TimedOut
  <2>1. /\ state' = "resetting" /\ reset_count' \in 0..ShortResets
        /\ said' \in Seq(LineKind) /\ echo' \in BOOLEAN
    BY <1>10, ResetInv DEF TimedOut
  <2> QED
    BY <1>10, <2>1 DEF TimedOut, bounds, RakInv, TypeOK, OnePacket, FromTheFirst
<1>11. CASE SendBegin
  BY <1>11 DEF SendBegin, bounds, RakInv, TypeOK, OnePacket, FromTheFirst
<1>12. CASE SendEnd
  <2>1. /\ said' \in Seq(LineKind) /\ echo' \in BOOLEAN
        /\ failures' \in 0..MaxFailures
    <3>1. CASE state = "resetting"
      BY <1>12, <1>t, <3>1 DEF SendEnd
    <3>2. CASE state # "resetting"
      BY <1>12, <1>t, <3>2, SendLines DEF SendEnd, LineKind
    <3> QED
      BY <3>1, <3>2
  <2>2. err_code' \in BOOLEAN
    BY <1>12 DEF SendEnd
  <2> QED
    BY <1>12, <2>1, <2>2 DEF SendEnd, RakInv, TypeOK, OnePacket, FromTheFirst
<1>c. ASSUME Command PROVE commands' \in 0..MaxCommands
  BY <1>c, <1>t, RakAssumption DEF Command
<1>13. CASE Restart
  <2>1. said' \in Seq(LineKind) /\ echo' = FALSE /\ commands' \in 0..MaxCommands
    BY <1>13, <1>c DEF Restart, On, LineKind
  <2> QED
    BY <1>0, <1>13, <2>1 DEF Restart, Command, RakInv, TypeOK, OnePacket,
                             FromTheFirst
<1>14. CASE ConfigSetup
  <2>1. commands' \in 0..MaxCommands
    BY <1>14, <1>c DEF ConfigSetup
  <2>2. config_is_valid' \in BOOLEAN
    BY <1>14 DEF ConfigSetup
  <2>3. /\ state' \in {state, "resetting"} /\ reset_count' \in 0..ShortResets
        /\ said' \in Seq(LineKind) /\ echo' \in BOOLEAN
    <3>1. CASE ResetFrom(0)
      BY <3>1, ResetInv
    <3>2. CASE /\ UNCHANGED <<state, said, echo>>
               /\ reset_count' = reset_count \/ reset_count' = 0
      <4>1. reset_count \in 0..ShortResets
        BY DEF RakInv, TypeOK
      <4> QED
        BY <1>0, <1>t, <3>2, <4>1
    <3> QED
      BY <1>14, <3>1, <3>2 DEF ConfigSetup
  <2> QED
    BY <1>14, <2>1, <2>2, <2>3 DEF ConfigSetup, Command, RakInv, TypeOK,
                             OnePacket, FromTheFirst
<1>15. CASE Connect
  <2>1. said' \in Seq(LineKind) /\ echo' \in BOOLEAN
    <3>1. <<"ok", "alive_ack">> \in Seq(LineKind)
      BY DEF LineKind
    <3>2. Echo(<<"ok", "alive_ack">>) \in Seq(LineKind)
      BY <1>t, <3>1, EchoLines
    <3> QED
      BY <1>15, <1>t, <3>2 DEF Connect
  <2>2. commands' \in 0..MaxCommands
    BY <1>15, <1>c DEF Connect
  <2> QED
    BY <1>15, <2>1, <2>2 DEF Connect, Command, driver, RakInv, TypeOK,
                             OnePacket, FromTheFirst
<1>16. CASE ConfirmedCommand
  <2>1. commands' \in 0..MaxCommands
    BY <1>16, <1>c DEF ConfirmedCommand
  <2> QED
    BY <1>16, <2>1 DEF ConfirmedCommand, Command, RakInv, TypeOK, OnePacket,
                       FromTheFirst
<1>17. CASE UNCHANGED vars
  BY <1>17 DEF vars, driver, bounds, RakInv, TypeOK, OnePacket, FromTheFirst
<1> QED
  BY <1>1, <1>2, <1>3, <1>4, <1>5, <1>6, <1>7, <1>8, <1>9, <1>10, <1>11, <1>12,
     <1>13, <1>14, <1>15, <1>16, <1>17 DEF Next, Process

-----------------------------------------------------------------------------
(* The theorems.                                                           *)

\* The types hold, init_count is always an index of the init messages, and no
\* packet is on its way while a send waits.
THEOREM RakTypes == Spec => []TypeOK
<1>1. RakInv => TypeOK
  BY DEF RakInv
<1> QED
  BY <1>1, RakInit, RakNext, PTL DEF Spec

LEMMA LinkInitMap == Init => Driver!LinkInit
BY DEF Init, Driver!LinkInit, Seen

\* Each step of the driver is a step of the link or leaves it as it is.
LEMMA LinkStepMap ==
  ASSUME RakInv, [Next]_vars
  PROVE  [Driver!LinkNext]_Seen
<1> USE DEF Seen, Driver!LinkNext, Driver!LinkUp, Driver!LinkSend, Driver!LinkOk,
            Driver!LinkAck, Driver!LinkAckTimeout, Driver!LinkLost
<1>1. CASE Process
  BY <1>1 DEF Process, ProcessOther, ProcessOff, ProcessInitWaitBoot,
     ProcessInitWaitReplay, ProcessInitWaitOk, ProcessJoinWaitReplay,
     ProcessJoinWaitOk, ProcessJoinWaitJoin, ProcessSendOk, ProcessSendAck,
     ResetFrom, driver, RakInv, OnePacket
<1>2. CASE PowerOn \/ TimedOut
  BY <1>2 DEF PowerOn, TimedOut, ResetFrom
<1>3. CASE SendBegin \/ SendEnd
  BY <1>3 DEF SendBegin, SendEnd
<1>4. CASE Restart \/ ConfigSetup \/ Connect \/ ConfirmedCommand
  BY <1>4 DEF Restart, ConfigSetup, Connect, ConfirmedCommand, ResetFrom, driver
<1>5. CASE UNCHANGED vars
  BY <1>5 DEF vars, driver
<1> QED
  BY <1>1, <1>2, <1>3, <1>4, <1>5 DEF Next

\* The driver implements the link the measurements are built on.
THEOREM RakIsLink == Spec => IsLink
<1>1. RakInv /\ [Next]_vars => [Driver!LinkNext]_Seen
  BY LinkStepMap
<1> QED
  BY <1>1, LinkInitMap, RakInit, RakNext, PTL DEF Spec, IsLink, Driver!LinkSpec

\* An acknowledgement or a failure is passed on only for a packet that ended so.
LEMMA TruthStep ==
  ASSUME RakInv, [Next]_vars
  PROVE  [/\ (told' = "acked") <=> (Seen = "wait_ack" /\ Seen' = "idle")
          /\ told' = "failed" => Seen = "wait_ack" /\ Seen' = "down"]_vars
<1> SUFFICES ASSUME Next
             PROVE  /\ (told' = "acked") <=> (Seen = "wait_ack" /\ Seen' = "idle")
                    /\ told' = "failed" => Seen = "wait_ack" /\ Seen' = "down"
  OBVIOUS
<1> USE DEF Seen, Quiet
<1>1. CASE Process
  BY <1>1 DEF Process, ProcessOther, ProcessOff, ProcessInitWaitBoot,
     ProcessInitWaitReplay, ProcessInitWaitOk, ProcessJoinWaitReplay,
     ProcessJoinWaitOk, ProcessJoinWaitJoin, ProcessSendOk, ProcessSendAck,
     ResetFrom, driver, RakInv, OnePacket
<1>2. CASE PowerOn \/ TimedOut
  BY <1>2 DEF PowerOn, TimedOut, ResetFrom
<1>3. CASE SendBegin \/ SendEnd
  BY <1>3 DEF SendBegin, SendEnd
<1>4. CASE Restart \/ ConfigSetup \/ Connect \/ ConfirmedCommand
  BY <1>4 DEF Restart, ConfigSetup, Connect, ConfirmedCommand, Command,
     ResetFrom, driver
<1> QED
  BY <1>1, <1>2, <1>3, <1>4 DEF Next

\* The measurements are told the truth.
THEOREM RakTellsTheTruth == Spec => ToldTheTruth
<1>1. RakInv /\ [Next]_vars =>
        [/\ (told' = "acked") <=> (Seen = "wait_ack" /\ Seen' = "idle")
         /\ told' = "failed" => Seen = "wait_ack" /\ Seen' = "down"]_vars
  BY TruthStep
<1> QED
  BY <1>1, RakInit, RakNext, PTL DEF Spec, ToldTheTruth

-----------------------------------------------------------------------------
(* The earlier modem.                                                     *)

\* What is held is nothing or the latest packet.
HeldIsLatest == sent \in Nat /\ backup \in {0, sent}

\* Packets are acknowledged once they were given to the modem.
AckedAreSent == on_air \in 0..sent /\ acked \subseteq 0..sent

\* What is held is not acknowledged.
HeldIsOpen == backup # 0 => backup \notin acked

SendInv == HeldIsLatest /\ AckedAreSent /\ HeldIsOpen /\ HoldsTheLatest


-----------------------------------------------------------------------------

\* The driver starts with nothing held and nothing sent.
LEMMA SendInvInit == Rak4270Init => SendInv
  BY DEF Rak4270Init, SendInv, HeldIsLatest, AckedAreSent, HeldIsOpen,
         HoldsTheLatest, InSend

\* A step that only leaves a send, or goes on with it, changes no packet.
LEMMA QuietStep ==
  ASSUME SendInv, UNCHANGED <<backup, on_air, sent, acked>>,
         modem' \in InSend => modem \in InSend,
         modem' = "wait_ok" => modem = "wait_ok"
  PROVE  SendInv' /\ NoResend
  BY DEF SendInv, HeldIsLatest, AckedAreSent, HeldIsOpen, HoldsTheLatest,
         NoResend, InSend

\* Turning the modem off, or leaving it off, leaves any send.
LEMMA ResetLeaves ==
  ASSUME Reset4
  PROVE  modem' = "off"
  BY DEF Reset4, ChipReset

\* rak4270_process, a line the state waits for: only the packet that says the
\* device is alive starts here, and an acknowledgement lets go of what is held.
LEMMA HearKeeps ==
  ASSUME SendInv, HearInit \/ HearInitOk \/ HearBoot \/ HearOk \/ HearOther
  PROVE  SendInv' /\ NoResend
<1>1. CASE HearInit
  BY <1>1, QuietStep DEF HearInit, Silent4, InSend
<1>2. CASE HearInitOk
  BY <1>2, QuietStep DEF HearInitOk, Silent4, InSend
<1>3. CASE HearBoot
  <2>1. UNCHANGED <<backup, sent, acked>>
    BY <1>3 DEF HearBoot, Silent4
  <2>2. CASE modem' = "wait_conn" /\ UNCHANGED on_air
    BY <2>1, <2>2, QuietStep DEF InSend
  <2>3. CASE modem' = "wait_ok" /\ on_air' = 0
    BY <2>1, <2>3 DEF SendInv, HeldIsLatest, AckedAreSent, HeldIsOpen,
                      HoldsTheLatest, NoResend, InSend
  <2>4. QED
    BY <1>3, <2>2, <2>3 DEF HearBoot
<1>4. CASE HearOk
  BY <1>4, QuietStep DEF HearOk, Silent4, InSend
<1>5. CASE HearOther
  BY <1>5, QuietStep DEF HearOther, Silent4, ctx
<1>6. QED
  BY <1>1, <1>2, <1>3, <1>4, <1>5

LEMMA AckKeeps ==
  ASSUME SendInv, HearAck
  PROVE  SendInv' /\ NoResend
  BY DEF HearAck, SendInv, HeldIsLatest, AckedAreSent, HeldIsOpen,
         HoldsTheLatest, NoResend, InSend

\* _rak4270_handle_error: the packet that goes out again is the one held.
LEMMA ErrorKeeps ==
  ASSUME SendInv, HearRetry \/ HearFatal
  PROVE  SendInv' /\ NoResend
<1>1. CASE HearRetry
  <2>1. UNCHANGED <<backup, sent, acked>>
    BY <1>1 DEF HearRetry, RetryWrite, Silent4
  <2>2. CASE Reset4 /\ UNCHANGED on_air
    BY <2>1, <2>2, ResetLeaves, QuietStep DEF InSend
  <2>3. CASE UNCHANGED <<modem, on_air>>
    BY <2>1, <2>3, QuietStep
  <2>4. CASE backup # 0 /\ ResendBackup
    BY <2>1, <2>4 DEF ResendBackup, SendInv, HeldIsLatest, AckedAreSent,
                      HeldIsOpen, HoldsTheLatest, NoResend, InSend
  <2>5. QED
    BY <1>1, <2>2, <2>3, <2>4 DEF HearRetry, RetryWrite
<1>2. CASE HearFatal
  BY <1>2, ResetLeaves, QuietStep DEF HearFatal, InSend
<1>3. QED
  BY <1>1, <1>2

\* rak4270_loop_iteration and the command comms_config.
LEMMA LoopKeeps ==
  ASSUME SendInv, LoopOff \/ LoopTimeout \/ ConfigSetup4
  PROVE  SendInv' /\ NoResend
<1>1. CASE LoopOff
  BY <1>1, QuietStep DEF LoopOff, ChipOn, Silent4, InSend
<1>2. CASE LoopTimeout
  BY <1>2, QuietStep DEF LoopTimeout, ChipReset, InSend
<1>3. CASE ConfigSetup4
  BY <1>3, QuietStep DEF ConfigSetup4, Silent4, InSend
<1>4. QED
  BY <1>1, <1>2, <1>3

\* rak4270_send: a new packet is above every packet that was acknowledged.
LEMMA SendKeeps ==
  ASSUME SendInv, Send4
  PROVE  SendInv' /\ NoResend
<1>1. sent \in Nat /\ sent' = sent + 1 /\ acked \subseteq 0..sent /\ acked' = acked
  BY DEF SendInv, HeldIsLatest, AckedAreSent, Send4, Silent4
<1>2. sent' \in Nat /\ sent' # 0 /\ sent' \in 0..sent' /\ sent' \notin acked
      /\ acked' \subseteq 0..sent'
  BY <1>1
<1>3. backup' = sent' /\ on_air' = sent'
  BY DEF Send4
<1>4. HeldIsLatest' /\ AckedAreSent' /\ HeldIsOpen' /\ HoldsTheLatest' /\ NoResend
  BY <1>1, <1>2, <1>3
  DEF HeldIsLatest, AckedAreSent, HeldIsOpen, HoldsTheLatest, NoResend
<1>5. QED
  BY <1>4 DEF SendInv

\* Every step keeps the invariant and repeats no packet that was acknowledged.
LEMMA SendStep ==
  ASSUME SendInv, [Rak4270Next]_rak4270Vars
  PROVE  SendInv' /\ (NoResend \/ UNCHANGED rak4270Vars)
<1>1. CASE Hear
  BY <1>1, HearKeeps, AckKeeps, ErrorKeeps DEF Hear
<1>2. CASE LoopOff \/ LoopTimeout \/ ConfigSetup4
  BY <1>2, LoopKeeps
<1>3. CASE Send4
  BY <1>3, SendKeeps
<1>4. CASE UNCHANGED rak4270Vars
  <2>1. UNCHANGED <<modem, backup, on_air, sent, acked>>
    BY <1>4 DEF rak4270Vars, ctx, world
  <2>2. QED
    BY <1>4, <2>1, QuietStep
<1>5. QED
  BY <1>1, <1>2, <1>3, <1>4 DEF Rak4270Next

\* The driver of the RAK4270 sends, and after an error sends again, the packet
\* the measurements handed it last, and never one they were told is
\* acknowledged (rak4270_send, _rak4270_handle_error, rak4270_process).
THEOREM Rak4270SendsTheLatest == Rak4270Spec => SendsTheLatest
<1>1. Rak4270Init => SendInv
  BY SendInvInit
<1>2. SendInv /\ [Rak4270Next]_rak4270Vars => SendInv'
  BY SendStep
<1>3. SendInv /\ SendInv' /\ [Rak4270Next]_rak4270Vars
        => [HoldsTheLatest' /\ NoResend]_rak4270Vars
  BY SendStep DEF SendInv
<1>4. QED
  BY <1>1, <1>2, <1>3, PTL DEF Rak4270Spec, SendsTheLatest
-----------------------------------------------------------------------------
(* The types of both.                                                     *)

Line4 == {"boot", "ok", "joined", "ack", "retry", "rx", "size", "fatal", "mic"}

\* Each set-up starts from the first init message.
FirstStep == modem = "wait_init" => init_step = 0

Types4 == Rak4270TypeOK /\ FirstStep

\* What the modem says to a message or a packet is made of lines.
LEMMA AnswerLines ==
  ASSUME NEW rest \in Seq(Line4), misses \in 0..MaxMisses, NEW good \in Seq(Line4), NEW bad,
         bad \subseteq Seq(Line4), Answer(rest, good, bad)
  PROVE  heard' \in Seq(Line4) /\ misses' \in 0..MaxMisses
<1>1. CASE heard' = rest \o good /\ UNCHANGED misses
  BY <1>1
<1>2. CASE /\ misses < MaxMisses /\ misses' = misses + 1
           /\ \E b \in bad : heard' = rest \o b
  <2>1. PICK b \in Seq(Line4) : heard' = rest \o b
    BY <1>2
  <2>2. heard' \in Seq(Line4)
    BY <2>1
  <2>3. misses' \in 0..MaxMisses
    BY <1>2, Rak4270Assumption
  <2>4. QED
    BY <2>2, <2>3
<1>3. QED
  BY <1>1, <1>2 DEF Answer

\* The lines of the modem, when the driver hears one and when it answers.
LEMMA Said4 ==
  ASSUME heard \in Seq(Line4), misses \in 0..MaxMisses
  PROVE  /\ heard # <<>> => Tail(heard) \in Seq(Line4)
         /\ \A line \in Line4 : heard # <<>> /\ ToMessage(line) =>
              heard' \in Seq(Line4) /\ misses' \in 0..MaxMisses
         /\ \A rest \in Seq(Line4) : ToPacket(rest) =>
              heard' \in Seq(Line4) /\ misses' \in 0..MaxMisses
<1>1. heard # <<>> => Tail(heard) \in Seq(Line4)
  OBVIOUS
<1>2. ASSUME NEW line \in Line4, heard # <<>>, ToMessage(line)
      PROVE  heard' \in Seq(Line4) /\ misses' \in 0..MaxMisses
  <2>1. <<line>> \in Seq(Line4) /\ {<<>>, <<"fatal">>} \subseteq Seq(Line4)
    BY DEF Line4
  <2>2. QED
    BY <1>1, <1>2, <2>1, AnswerLines DEF ToMessage
<1>3. ASSUME NEW rest \in Seq(Line4), ToPacket(rest)
      PROVE  heard' \in Seq(Line4) /\ misses' \in 0..MaxMisses
  <2> DEFINE good == <<"ok", "ack">>
             bad == {<<>>, <<"ok">>, <<"retry">>, <<"ok", "rx">>, <<"ok", "fatal">>,
                     <<"size">>, <<"ok", "mic", "ack">>}
  <2>1. good \in Seq(Line4) /\ bad \subseteq Seq(Line4)
    BY DEF Line4
  <2>2. Answer(rest, good, bad)
    BY <1>3 DEF ToPacket
  <2> HIDE DEF good, bad
  <2>3. QED
    BY <2>1, <2>2, AnswerLines
<1>4. QED
  BY <1>1, <1>2, <1>3

\* A device starts with the types.
LEMMA TypesInit == Rak4270Init => Types4
<1>1. <<"boot">> \in Seq(Line4) /\ <<>> \in Seq(Line4)
  BY DEF Line4
<1>2. SUFFICES ASSUME Rak4270Init PROVE Types4
  OBVIOUS
<1>3. heard \in Seq(Line4)
  BY <1>1, <1>2 DEF Rak4270Init
<1>4. /\ init_step \in 0..InitSteps /\ resets \in 0..(FastResets + 1)
      /\ resend_count \in 0..MaxResend /\ misses \in 0..MaxMisses /\ configs \in 0..MaxConfigs
      /\ sent \in 0..MaxPackets /\ {backup, on_air} \subseteq 0..sent /\ acked \subseteq 0..sent
  BY <1>2, Rak4270Assumption DEF Rak4270Init
<1>5. /\ modem \in {"wait_init", "unconfigured"} /\ {configured, powered} \subseteq BOOLEAN
      /\ report = "nothing" /\ init_step = 0
  BY <1>2, Zenon DEF Rak4270Init
<1>6. QED
  BY <1>3, <1>4, <1>5 DEF Types4, Rak4270TypeOK, FirstStep, Line4

\* A reset leaves the modem off.
LEMMA ResetTypes ==
  ASSUME Types4, Reset4, heard # <<>>
  PROVE  /\ modem' = "off" /\ heard' \in Seq(Line4)
         /\ resets' \in 0..(FastResets + 1) /\ powered' \in BOOLEAN
<1>1. heard \in Seq(Line4) /\ resets \in 0..(FastResets + 1) /\ powered \in BOOLEAN
  BY DEF Types4, Rak4270TypeOK, Line4
<1>2. CASE modem = "off"
  BY <1>1, <1>2 DEF Reset4
<1>3. CASE modem # "off"
  <2>1. modem' = "off" /\ powered' = FALSE /\ heard' = <<>>
        /\ resets' = IF resets > FastResets THEN resets ELSE resets + 1
    BY <1>3 DEF Reset4, ChipReset
  <2>2. resets' \in 0..(FastResets + 1)
    BY <1>1, <2>1, Rak4270Assumption
  <2>3. <<>> \in Seq(Line4)
    OBVIOUS
  <2>4. QED
    BY <2>1, <2>2, <2>3
<1>4. QED
  BY <1>2, <1>3

\* Every step of the driver of the RAK4270 keeps the types.
LEMMA TypesStep == ASSUME Types4, [Rak4270Next]_rak4270Vars PROVE Types4'
<1> USE DEF Types4, Rak4270TypeOK, FirstStep, InSend
<1>1. /\ heard \in Seq(Line4) /\ misses \in 0..MaxMisses /\ init_step \in 0..InitSteps
      /\ {InitSteps, MaxResend, FastResets, MaxPackets} \subseteq Nat \ {0}
      /\ MaxMisses \in Nat /\ MaxConfigs \in Nat
      /\ {"boot", "ok", "joined"} \subseteq Line4
  BY Rak4270Assumption DEF Line4
<1>2. CASE HearInit
  <2>1. heard # <<>> /\ ToMessage("ok")
    BY <1>2 DEF HearInit, HeadIs
  <2>2. heard' \in Seq(Line4) /\ misses' \in 0..MaxMisses
    BY <1>1, <2>1, Said4
  <2>3. init_step' \in 0..InitSteps /\ modem' = "wait_init_ok"
    BY <1>1, <1>2 DEF HearInit
  <2>4. QED
    BY <1>2, <2>2, <2>3 DEF HearInit, Silent4, Line4
<1>3. CASE HearInitOk
  <2>1. heard # <<>> /\ (ToMessage("ok") \/ ToMessage("boot"))
    BY <1>3 DEF HearInitOk, HeadIs
  <2>2. heard' \in Seq(Line4) /\ misses' \in 0..MaxMisses
    BY <1>1, <2>1, Said4
  <2>3. init_step' \in 0..InitSteps /\ modem' \in {"wait_reinit", "wait_init_ok"}
    BY <1>1, <1>3 DEF HearInitOk
  <2>4. QED
    BY <1>3, <2>2, <2>3 DEF HearInitOk, Silent4, Line4
<1>4. CASE HearBoot
  <2>1. heard # <<>> /\ (ToMessage("joined") \/ ToPacket(Tail(heard)))
    BY <1>4 DEF HearBoot, HeadIs
  <2>2. heard' \in Seq(Line4) /\ misses' \in 0..MaxMisses
    BY <1>1, <2>1, Said4
  <2>3. on_air' \in 0..sent /\ modem' \in {"wait_conn", "wait_ok"}
    BY <1>4 DEF HearBoot
  <2>4. QED
    BY <1>4, <2>2, <2>3 DEF HearBoot, Silent4, Line4
<1>5. CASE HearOk \/ HearAck \/ HearOther
  <2>1. heard' \in Seq(Line4) /\ misses' = misses
    BY <1>1, <1>5, Said4 DEF HearOk, HearAck, HearOther, HeadIs, Taken4
  <2>2. CASE HearOk
    BY <2>1, <2>2 DEF HearOk, Silent4, Line4
  <2>3. CASE HearAck
    <3>1. /\ modem' = "idle" /\ resets' = 0 /\ resend_count' = 0 /\ backup' = 0
          /\ report' = "acked" /\ acked' = acked \cup {on_air}
          /\ UNCHANGED <<init_step, configured, powered, on_air, sent, configs>>
      BY <2>3 DEF HearAck
    <3>2. 0 \in 0..(FastResets + 1) /\ 0 \in 0..MaxResend /\ 0 \in 0..sent
      BY <1>1
    <3>3. QED
      BY <2>1, <3>1, <3>2 DEF Line4
  <2>4. CASE HearOther
    BY <2>1, <2>4 DEF HearOther, Silent4, Line4, ctx
  <2>5. QED
    BY <1>5, <2>2, <2>3, <2>4
<1>6. CASE HearRetry
  <2>1. heard # <<>>
    BY <1>6 DEF HearRetry, HeadIs
  <2>2. CASE resend_count >= MaxResend
    <3>1. /\ resend_count' = 0 /\ Reset4 /\ report' = "failed"
          /\ UNCHANGED <<acked, on_air, misses, init_step, backup, configured, sent, configs>>
      BY <1>6, <2>2 DEF HearRetry, RetryWrite
    <3>2. modem' = "off" /\ heard' \in Seq(Line4) /\ resets' \in 0..(FastResets + 1)
          /\ powered' \in BOOLEAN
      BY <2>1, <3>1, ResetTypes
    <3>3. resend_count' \in 0..MaxResend
      BY <1>1, <3>1
    <3>4. QED
      BY <3>1, <3>2, <3>3 DEF Line4
  <2>3. CASE ~(resend_count >= MaxResend)
    <3>1. resend_count' \in 0..MaxResend
      BY <1>1, <1>6, <2>3 DEF HearRetry, RetryWrite
    <3>2. CASE backup = 0
      <4>1. heard' \in Seq(Line4) /\ UNCHANGED <<misses, modem, on_air>>
        BY <1>1, <1>6, <2>1, <2>3, <3>2, Said4 DEF HearRetry, RetryWrite, Taken4
      <4>2. QED
        BY <1>6, <2>3, <3>1, <4>1 DEF HearRetry, RetryWrite, Silent4, Line4
    <3>3. CASE backup # 0
      <4>1. ResendBackup
        BY <1>6, <2>3, <3>3 DEF HearRetry, RetryWrite
      <4>2. heard' \in Seq(Line4) /\ misses' \in 0..MaxMisses
        BY <1>1, <2>1, <4>1, Said4 DEF ResendBackup
      <4>3. modem' = "wait_ok" /\ on_air' \in 0..sent
        BY <4>1 DEF ResendBackup
      <4>4. QED
        BY <1>6, <2>3, <3>1, <4>2, <4>3 DEF HearRetry, RetryWrite, Silent4, Line4
    <3>4. QED
      BY <3>2, <3>3
  <2>4. QED
    BY <2>2, <2>3
<1>7. CASE HearFatal
  <2>1. heard # <<>> /\ Reset4
    BY <1>7 DEF HearFatal, HeadIs
  <2>2. QED
    BY <1>7, <2>1, ResetTypes DEF HearFatal, Line4
<1>8. CASE LoopOff
  <2>1. heard' \in Seq(Line4)
    BY <1>1, <1>8 DEF LoopOff, ChipOn
  <2>2. QED
    BY <1>1, <1>8, <2>1 DEF LoopOff, ChipOn, Silent4, Line4
<1>9. CASE LoopTimeout
  <2>1. /\ modem' = "off" /\ powered' = FALSE /\ heard' = <<>>
        /\ resets' = IF resets > FastResets THEN resets ELSE resets + 1
        /\ report' \in {"failed", "nothing"}
        /\ UNCHANGED <<init_step, resend_count, backup, configured, on_air, sent, acked,
                       misses, configs>>
    BY <1>9 DEF LoopTimeout, ChipReset
  <2>2. resets' \in 0..(FastResets + 1)
    BY <1>1, <2>1
  <2>3. heard' \in Seq(Line4)
    BY <2>1
  <2>4. QED
    BY <2>1, <2>2, <2>3 DEF Line4
<1>10. CASE Send4
  <2>1. ToPacket(heard)
    BY <1>10 DEF Send4
  <2>2. heard' \in Seq(Line4) /\ misses' \in 0..MaxMisses
    BY <1>1, <2>1, Said4
  <2>3. /\ sent' \in 0..MaxPackets /\ {backup', on_air'} \subseteq 0..sent'
        /\ acked' \subseteq 0..sent' /\ modem' = "wait_ok"
    BY <1>1, <1>10 DEF Send4, Silent4
  <2>4. QED
    BY <1>10, <2>2, <2>3 DEF Send4, Silent4, Line4
<1>11. CASE ConfigSetup4
  <2>1. /\ configs' = configs + 1 /\ configs < MaxConfigs
        /\ \/ configured' = FALSE /\ UNCHANGED <<modem, resets>>
           \/ configured' = TRUE /\ modem' = "off" /\ resets' = 0
        /\ report' = "nothing"
        /\ UNCHANGED <<init_step, resend_count, backup, powered, heard, on_air, sent, misses, acked>>
    BY <1>11 DEF ConfigSetup4, Silent4
  <2>2. configs' \in 0..MaxConfigs /\ resets' \in 0..(FastResets + 1)
    BY <1>1, <2>1
  <2>3. CASE UNCHANGED <<modem, resets>> /\ configured' = FALSE
    BY <2>1, <2>2, <2>3
  <2>4. CASE modem' = "off" /\ configured' = TRUE
    BY <2>1, <2>2, <2>4
  <2>5. QED
    BY <2>1, <2>3, <2>4
<1>12. CASE UNCHANGED rak4270Vars
  BY <1>12 DEF rak4270Vars, ctx, world
<1>13. QED
  BY <1>2, <1>3, <1>4, <1>5, <1>6, <1>7, <1>8, <1>9, <1>10, <1>11, <1>12
  DEF Rak4270Next, Hear

\* Whichever modem is fitted, whatever it says, loses and is told: the index of
\* the init messages, the counts of resets and resends and the packets of both
\* drivers stay what the code takes them to be (rak3172.c, rak4270.c).
THEOREM ModemsKeepTypes == MCSpec => []ModemsTypeOK
<1> DEFINE I == RakInv /\ Types4
<1>1. MCInit => I
  BY RakInit, TypesInit DEF MCInit
<1>2. I /\ [Use3172 \/ Use4270]_MCVars => I'
  <2>1. [Use3172 \/ Use4270]_MCVars => [Next]_vars /\ [Rak4270Next]_rak4270Vars
    BY DEF Use3172, Use4270, MCVars
  <2>2. QED
    BY <2>1, RakNext, TypesStep
<1>3. I => ModemsTypeOK
  BY DEF RakInv, Types4, ModemsTypeOK
<1>4. QED
  BY <1>1, <1>2, <1>3, PTL DEF MCSpec
==============================================================================
