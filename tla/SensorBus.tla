----------------------------- MODULE SensorBus -----------------------------
(***************************************************************************)
(* The two I2C sensors of the Sense HAT, LPS25H and HTS221, as the code of *)
(* RPi/ drives them in one-shot mode: CTRL_REG1 = 0x00 powers the sensor   *)
(* down, CTRL_REG1 = 0x84 powers it up, CTRL_REG2 = 0x01 asks for one      *)
(* measurement, and CTRL_REG2 reads 0 again once that measurement is done. *)
(* A sensor is a record of what those registers say:                       *)
(*   on    it is powered                                                   *)
(*   busy  the ONE_SHOT bit is set                                         *)
(*   conv  who asked for the measurement under way                         *)
(*   out   who asked for the measurement in the output registers           *)
(* The sensors are hardware, not code of this repository.                  *)
(***************************************************************************)
CONSTANT Nobody     \* the "who" of a sensor nobody has used yet

Sensor(Users) == [on : BOOLEAN, busy : BOOLEAN,
                  conv : Users \union {Nobody}, out : Users \union {Nobody}]

Asleep == [on |-> FALSE, busy |-> FALSE, conv |-> Nobody, out |-> Nobody]

(* Power-down during a measurement: the bit may stay set or be cleared,    *)
(* and the measurement never reaches the output registers.                 *)
PoweredDown(s) == {[s EXCEPT !.on = FALSE], [s EXCEPT !.on = FALSE, !.busy = FALSE]}

(* From now on nothing in the sensor counts as a measurement of user. *)
Forgotten(s, user) == [s EXCEPT !.conv = IF @ = user THEN Nobody ELSE @,
                                !.out = IF @ = user THEN Nobody ELSE @]

PoweredUp(s) == [s EXCEPT !.on = TRUE]

Started(s, user) == [s EXCEPT !.busy = TRUE, !.conv = user]

CanFinish(s) == s.on /\ s.busy

Finished(s) == [s EXCEPT !.busy = FALSE, !.out = s.conv]
=============================================================================
