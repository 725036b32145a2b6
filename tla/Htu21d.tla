-------------------------------- MODULE Htu21d --------------------------------
(***************************************************************************)
(* The temperature and humidity sensor (sensors/src/htu21d.c) as its       *)
(* measurements "T" and "H" see it.  Both share one chip: a measurement    *)
(* raises its flag, iterations request a temperature and then, if humidity *)
(* is wanted, a humidity, and collect each when it has had its pause; get  *)
(* takes the flag down and returns the value that is valid.                *)
(*                                                                         *)
(* An operation is an operator from the driver's state to a record of the  *)
(* new state and what the callback returns.  ok is whether the chip        *)
(* answers a read with a good CRC.                                         *)
(***************************************************************************)
HtuName == {"T", "H"}

(* flags; per value its state, "ripe" when the pause is over, and is_valid; *)
(* new are the values read from the chip that no get has returned yet.      *)
HtuState == [flags : SUBSET HtuName, state : [HtuName -> {"idle", "req", "ripe"}],
             valid : SUBSET HtuName, new : SUBSET HtuName]
HtuAtStart == [flags |-> {}, state |-> [n \in HtuName |-> "idle"], valid |-> {}, new |-> {}]

Is(htu, resp) == [htu |-> htu, resp |-> resp]
Req(htu, n) == [htu EXCEPT !.state[n] = "req"]

\* time passes: longer than HTU21D_PAUSE_TIME
Pause(htu) == [htu EXCEPT !.state = [n \in HtuName |-> IF @[n] = "req" THEN "ripe" ELSE @[n]]]

\* _htu21d_temp_measurements_init, _htu21d_humi_measurements_init: both ask the
\* chip for a temperature, unless the other measurement has.
HtuInit(htu, n) ==
  IF n \in htu.flags THEN Is(htu, "BUSY")
  ELSE LET flagged == [htu EXCEPT !.flags = @ \cup {n}]
       IN  Is(IF htu.flags = {} THEN Req(flagged, "T") ELSE flagged, "SUCCESS")

Read(htu, n) == [htu EXCEPT !.state[n] = "idle", !.valid = @ \cup {n}, !.new = @ \cup {n}]
Unread(htu, n) == [htu EXCEPT !.state[n] = "idle"]

\* A failure is told only to the measurement of the value that failed.
Fails(htu, n, of) == Is(htu, IF n = of THEN "ERROR" ELSE "BUSY")

\* the part of an iteration for the temperature, then that for the humidity
CollectHumi(htu, n, ok) ==
  LET wasValid == "T" \in htu.valid
      after == IF wasValid /\ ok THEN Read(htu, "H") ELSE Unread(htu, "H")
      done == IF htu.flags = {"H"} THEN [after EXCEPT !.valid = @ \ {"T"}] ELSE after
  IN  IF htu.state["H"] # "ripe" THEN Is(htu, "BUSY")
      ELSE IF wasValid /\ ok THEN Is(done, "SUCCESS") ELSE Fails(done, n, "H")

HtuIterate(htu, n, ok) ==
  IF htu.flags = {} THEN Is(htu, "BUSY")
  ELSE IF htu.state["T"] # "ripe"
  THEN IF htu.flags = {"T"} THEN Is(htu, "BUSY") ELSE CollectHumi(htu, n, ok)
  ELSE IF ~ok THEN Fails(Unread(htu, "T"), n, "T")
  ELSE IF htu.flags = {"T"} THEN Is(Read(htu, "T"), "SUCCESS")
  ELSE Is(Req(Read(htu, "T"), "H"), "BUSY")

\* Mutated: a value that is not valid keeps its flag
HtuGetKeeps(htu, n) ==
  IF n \in htu.flags /\ n \in htu.valid
  THEN Is([htu EXCEPT !.flags = @ \ {n}, !.new = @ \ {n}], "SUCCESS") ELSE Is(htu, "ERROR")
\* _htu21d_temp_measurements_get, _htu21d_humi_measurements_get
HtuGet(htu, n) ==
  Is([htu EXCEPT !.flags = @ \ {n}, !.new = @ \ {n}],
     IF n \in htu.flags /\ n \in htu.valid THEN "SUCCESS" ELSE "ERROR")
================================================================================
