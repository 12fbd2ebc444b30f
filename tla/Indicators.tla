------------------------------ MODULE Indicators ------------------------------
(***************************************************************************)
(* The LED and the buzzer: the collect thread of core/main.c with the      *)
(* devices it reads and writes (hal/sensor_hal.c, the driver of the DHT11) *)
(* against the UI thread that sets the thresholds (core/alarm_mgr.c).      *)
(*                                                                         *)
(* AlarmMgrGetThreshold hands out a pointer and no lock is taken: a pass   *)
(* of the collect thread reads one bound after the other while the struct  *)
(* is being assigned.  Bounds are whole numbers, of which a double differs *)
(* in one word only, so each of them is read old or new.                   *)
(*                                                                         *)
(* A point is a quantity of the board or of a bus device.                  *)
(***************************************************************************)
EXTENDS Integers, Sequences, FiniteSets

CONSTANTS
    Points,         \* what is measured
    Sensors,        \* devices that are read
    SensorOf,       \* which one measures a point
    Values,         \* measured values and bounds
    Readings,       \* what the sensors may measure: Points -> Values
    Settings,       \* thresholds a user may set: Fields -> Values
    Order,          \* the bounds, in the order they are compared in
    SpinLocks,      \* whether the kernel's spinlocks are more than a flag
    MaxDown         \* bound of the model: devices that fail at a time

Fields == {Order[i] : i \in 1..Len(Order)}
Devices == Sensors \cup {"led", "beep"}

ASSUME IndicatorsAssumption ==
    /\ Values \subseteq Int /\ 0 \in Values
    /\ SensorOf \in [Points -> Sensors] /\ "dht11" \in Sensors
    /\ Readings \subseteq [Points -> Values] /\ Settings \subseteq [Fields -> Values]
    /\ Order \in Seq(Points \X {"max", "min"}) /\ Order # <<>>
    /\ SpinLocks \in BOOLEAN

VARIABLES
    reading,        \* what there is to measure
    down,           \* devices that do not work
    threshold,      \* threshold of alarm_mgr.c
    given, copying, \* AlarmMgrSetThreshold: its argument, fields to copy
    pc, k,          \* collect thread: where it is, next comparison
    seen,           \* tmpdata
    any_alarm,      \* any_alarm
    led, beep,      \* the two devices
    locked,         \* dht11_read returned with its lock held
    inForce,        \* history: values of each bound during this pass
    written         \* history: devices written in the last pass

user == <<threshold, given, copying>>
env == <<reading, down>>
vars == <<env, user, pc, k, seen, any_alarm, led, beep, locked, inForce, written>>

TypeOK ==
    /\ reading \in Readings /\ down \subseteq Devices
    /\ threshold \in [Fields -> Values] /\ given \in Settings /\ copying \subseteq Fields
    /\ pc \in {"sleep", "scan", "led", "beep", "hung"} /\ k \in 1..Len(Order)
    /\ seen \in [Points -> Values]
    /\ {any_alarm, led, beep, locked} \subseteq BOOLEAN
    /\ inForce \in [Fields -> SUBSET Values]
    /\ written \subseteq {"led", "beep"}

(* What a comparison finds.                                                *)
Exceeds(v, f, bound) == IF f[2] = "max" THEN v > bound ELSE v < bound
OutOfBounds(sample, bounds) == \E f \in Fields : Exceeds(sample[f[1]], f, bounds[f])

(* AlarmMgrInit has run; the devices are off.                              *)
Init ==
    /\ reading \in Readings /\ down = {}
    /\ given \in Settings /\ threshold = given /\ copying = {}
    /\ pc = "sleep" /\ k = 1 /\ seen = [p \in Points |-> 0]
    /\ any_alarm = FALSE /\ led = FALSE /\ beep = FALSE /\ locked = FALSE
    /\ inForce = [f \in Fields |-> {}] /\ written = {}

-----------------------------------------------------------------------------
(* The world: what is measured changes, devices fail and come back.        *)
Change ==
    /\ reading' \in Readings
    /\ UNCHANGED <<down, user, pc, k, seen, any_alarm, led, beep, locked, inForce, written>>

FailOrHeal ==
    /\ \/ \E d \in Devices \ down : Cardinality(down) < MaxDown /\ down' = down \cup {d}
       \/ \E d \in down : down' = down \ {d}
    /\ UNCHANGED <<reading, user, pc, k, seen, any_alarm, led, beep, locked, inForce, written>>

(* AlarmMgrSetThreshold, threshold = *thr: the fields in any order.        *)
AlarmMgrSetThreshold ==
    /\ copying = {} /\ given' \in Settings /\ copying' = Fields
    /\ UNCHANGED <<env, threshold, pc, k, seen, any_alarm, led, beep, locked, inForce, written>>

Assign ==
    /\ \E f \in copying :
          /\ threshold' = [threshold EXCEPT ![f] = given[f]]
          /\ copying' = copying \ {f}
          /\ inForce' = IF pc = "scan" THEN [inForce EXCEPT ![f] = @ \cup {given[f]}] ELSE inForce
    /\ UNCHANGED <<env, given, pc, k, seen, any_alarm, led, beep, locked, written>>

-----------------------------------------------------------------------------
(* Dht11Read, Lm75aRead, Adxl345Read: a sensor that fails leaves a 0.  When *)
(* the DHT11 does not answer in time, dht11_read keeps the lock it has      *)
(* taken.                                                                   *)
Measured_Marked(p) ==        \* mutant: what a failed sensor leaves is marked
    IF SensorOf[p] \in down THEN -1 ELSE reading[p]

Measured(p) == IF SensorOf[p] \in down THEN 0 ELSE reading[p]

StartScan_NoReset ==    \* mutant: any_alarm is left from the last pass
    /\ pc' = "scan" /\ k' = 1 /\ any_alarm' = any_alarm /\ written' = {}
    /\ inForce' = [f \in Fields |-> {threshold[f]}]

StartScan ==
    /\ pc' = "scan" /\ k' = 1 /\ any_alarm' = FALSE /\ written' = {}
    /\ inForce' = [f \in Fields |-> {threshold[f]}]

ReadSensors ==
    /\ pc = "sleep" /\ ~(locked /\ SpinLocks)
    /\ seen' = [p \in Points |-> Measured(p)]
    /\ locked' \in IF "dht11" \in down THEN {locked, TRUE} ELSE {locked}
    /\ StartScan
    /\ UNCHANGED <<env, user, led, beep>>

(* A read of the DHT11 that does not return: it waits for the lock that a   *)
(* read before it has kept, where locks are more than a flag, or the sensor *)
(* has failed after it answered, or holds its line down, and the driver     *)
(* waits for the line to change with no limit.                              *)
Hang ==
    /\ pc = "sleep"
    /\ \/ locked /\ SpinLocks
       \/ "dht11" \in down
    /\ pc' = "hung"
    /\ UNCHANGED <<env, user, k, seen, any_alarm, led, beep, locked, inForce, written>>

(* One comparison after the other.                                         *)
Compare ==
    /\ pc = "scan"
    /\ any_alarm' = (any_alarm \/ LET f == Order[k] IN Exceeds(seen[f[1]], f, threshold[f]))
    /\ IF k < Len(Order) THEN k' = k + 1 /\ UNCHANGED pc ELSE pc' = "led" /\ UNCHANGED k
    /\ UNCHANGED <<env, user, seen, led, beep, locked, inForce, written>>

(* LedControl, BeepControl: a device that cannot be written stays as it is. *)
LedControl_On ==             \* mutant: the LED is switched on only
    /\ pc = "led" /\ pc' = "beep"
    /\ IF "led" \in down \/ ~any_alarm THEN UNCHANGED <<led, written>>
       ELSE led' = TRUE /\ written' = written \cup {"led"}
    /\ UNCHANGED <<env, user, k, seen, any_alarm, beep, locked, inForce>>

LedControl ==
    /\ pc = "led" /\ pc' = "beep"
    /\ IF "led" \in down THEN UNCHANGED <<led, written>>
       ELSE led' = any_alarm /\ written' = written \cup {"led"}
    /\ UNCHANGED <<env, user, k, seen, any_alarm, beep, locked, inForce>>

BeepControl ==
    /\ pc = "beep" /\ pc' = "sleep"
    /\ IF "beep" \in down THEN UNCHANGED <<beep, written>>
       ELSE beep' = any_alarm /\ written' = written \cup {"beep"}
    /\ UNCHANGED <<env, user, k, seen, any_alarm, led, locked, inForce>>

pthread_collect == ReadSensors \/ Hang \/ Compare \/ LedControl \/ BeepControl

Next == Change \/ FailOrHeal \/ AlarmMgrSetThreshold \/ Assign \/ pthread_collect

Spec == Init /\ [][Next]_vars

(* The threads are run; users and the world do as they like.               *)
FairSpec == Spec /\ WF_vars(pthread_collect) /\ WF_vars(Assign)

-----------------------------------------------------------------------------
(* Although thresholds are read while they are assigned, a pass finds an   *)
(* alarm only for a value beyond a bound that was in force during it, and  *)
(* none only if every value was within one; unless the setting changed,    *)
(* that is what the one setting says.  The devices written in the pass     *)
(* show what it found.                                                     *)
Justified ==
    pc \in {"led", "beep", "sleep"} /\ inForce # [f \in Fields |-> {}] =>
        /\ any_alarm => \E f \in Fields : \E b \in inForce[f] : Exceeds(seen[f[1]], f, b)
        /\ ~any_alarm => \A f \in Fields : \E b \in inForce[f] : ~Exceeds(seen[f[1]], f, b)
        /\ "led" \in written => led = any_alarm
        /\ "beep" \in written => beep = any_alarm

(* When nothing changes and no device fails any more, LED and buzzer come  *)
(* to say together whether a value is out of its thresholds, and go on     *)
(* saying it, unless a read of the DHT11 has stopped the thread for ever.  *)
IndicatorsFollow ==
    \A r \in Readings, s \in Settings :
        <>[](reading = r /\ threshold = s /\ down = {})
            => <>[](pc = "hung" \/ (led = OutOfBounds(r, s) /\ beep = led))
=============================================================================
