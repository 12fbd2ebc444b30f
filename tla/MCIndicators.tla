----------------------------- MODULE MCIndicators -----------------------------
(***************************************************************************)
(* Constants of Indicators for TLC: one point of a sensor that may stop    *)
(* the thread, one of another, and two settings of an upper and a lower    *)
(* bound: for the first reading both give an alarm, and a mixture of them  *)
(* gives none; for the second only one does.                               *)
(***************************************************************************)
EXTENDS Indicators

MCPoints == {"tem", "gas"}
MCSensors == {"dht11", "lm75a"}
MCSensorOf == [p \in MCPoints |-> IF p = "tem" THEN "dht11" ELSE "lm75a"]
MCValues == 0..2
Sample(t, g) == [p \in MCPoints |-> IF p = "tem" THEN t ELSE g]
MCReadings == {Sample(1, 1), Sample(1, 2)}
MCOrder == << <<"tem", "max">>, <<"gas", "min">> >>
Setting(high, low) == [f \in {MCOrder[1], MCOrder[2]} |-> IF f[2] = "max" THEN high ELSE low]
MCSettings == {Setting(0, 0), Setting(1, 2)}
=============================================================================
