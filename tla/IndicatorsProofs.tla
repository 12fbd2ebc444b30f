---------------------------- MODULE IndicatorsProofs ----------------------------
(***************************************************************************)
(* Theorems about Indicators: its types, and that LED and buzzer show what *)
(* bounds in force during the pass justify, for every number of points and *)
(* every interleaving of the collect thread with an assignment of the      *)
(* thresholds.                                                             *)
(***************************************************************************)
EXTENDS Indicators, TLAPS

(* The bounds are compared one by one, so every field has a place.         *)
LEMMA Places ==
    /\ Len(Order) \in Nat \ {0} /\ 1 \in 1..Len(Order)
    /\ \A i \in 1..Len(Order) : Order[i] \in Fields
    /\ \A f \in Fields : f \in Points \X {"max", "min"} /\ \E i \in 1..Len(Order) : f = Order[i]
<1>1. Order \in Seq(Points \X {"max", "min"}) /\ Order # <<>>
  BY IndicatorsAssumption
<1>2. Len(Order) \in Nat \ {0} /\ 1 \in 1..Len(Order)
  BY <1>1
<1>3. \A i \in 1..Len(Order) : Order[i] \in Points \X {"max", "min"}
  BY <1>1
<1>. QED
  BY <1>2, <1>3 DEF Fields

(* Every variable of the collect thread and of the settings keeps its      *)
(* type, whatever fails and whoever assigns.                               *)
THEOREM TypeCorrect == Spec => []TypeOK
<1>1. Init => TypeOK
  <2> SUFFICES ASSUME Init PROVE TypeOK
    OBVIOUS
  <2>1. seen \in [Points -> Values]
    BY IndicatorsAssumption DEF Init
  <2>2. threshold \in [Fields -> Values] /\ given \in Settings
    BY IndicatorsAssumption DEF Init
  <2>3. k \in 1..Len(Order)
    BY Places DEF Init
  <2>. QED
    BY <2>1, <2>2, <2>3 DEF Init, TypeOK
<1>2. TypeOK /\ [Next]_vars => TypeOK'
  <2> SUFFICES ASSUME TypeOK, [Next]_vars PROVE TypeOK'
    OBVIOUS
  <2> USE DEF env, user
  <2>1. CASE Change
    BY <2>1 DEF Change, TypeOK
  <2>2. CASE FailOrHeal
    BY <2>2 DEF FailOrHeal, TypeOK
  <2>3. CASE AlarmMgrSetThreshold
    BY <2>3 DEF AlarmMgrSetThreshold, TypeOK
  <2>4. CASE Assign
    <3>1. PICK f \in copying :
            /\ threshold' = [threshold EXCEPT ![f] = given[f]]
            /\ copying' = copying \ {f}
            /\ inForce' = IF pc = "scan" THEN [inForce EXCEPT ![f] = @ \cup {given[f]}] ELSE inForce
      BY <2>4 DEF Assign
    <3>2. f \in Fields /\ given[f] \in Values
      BY IndicatorsAssumption DEF TypeOK
    <3>3. UNCHANGED <<env, given, pc, k, seen, any_alarm, led, beep, locked, written>>
      BY <2>4 DEF Assign
    <3>4. threshold' \in [Fields -> Values] /\ inForce' \in [Fields -> SUBSET Values]
      BY <3>1, <3>2 DEF TypeOK
    <3>. QED
      BY <3>1, <3>3, <3>4 DEF TypeOK
  <2>5. CASE ReadSensors
    <3>1. \A p \in Points : Measured(p) \in Values
      BY IndicatorsAssumption DEF Measured, TypeOK
    <3>2. seen' \in [Points -> Values]
      BY <2>5, <3>1 DEF ReadSensors
    <3>3. inForce' \in [Fields -> SUBSET Values] /\ k' \in 1..Len(Order)
      BY <2>5, Places DEF ReadSensors, StartScan, TypeOK
    <3>4. /\ pc' = "scan" /\ any_alarm' = FALSE /\ written' = {}
          /\ UNCHANGED <<env, user, led, beep>>
      BY <2>5 DEF ReadSensors, StartScan
    <3>5. locked' \in BOOLEAN
      BY <2>5 DEF ReadSensors, TypeOK
    <3>. QED
      BY <3>2, <3>3, <3>4, <3>5 DEF TypeOK
  <2>6. CASE Hang
    BY <2>6 DEF Hang, TypeOK
  <2>7. CASE Compare
    <3>1. pc' \in {"scan", "led"} /\ k' \in 1..Len(Order)
      BY <2>7, Places DEF Compare, TypeOK
    <3>2. UNCHANGED <<env, user, seen, led, beep, locked, inForce, written>>
      BY <2>7 DEF Compare
    <3>3. any_alarm' \in BOOLEAN
      BY <2>7 DEF Compare, TypeOK
    <3>. QED
      BY <3>1, <3>2, <3>3 DEF TypeOK
  <2>8. CASE LedControl
    BY <2>8 DEF LedControl, TypeOK
  <2>9. CASE BeepControl
    BY <2>9 DEF BeepControl, TypeOK
  <2>10. CASE UNCHANGED vars
    BY <2>10 DEF vars, TypeOK
  <2>. QED
    BY <2>1, <2>2, <2>3, <2>4, <2>5, <2>6, <2>7, <2>8, <2>9, <2>10 DEF Next, pthread_collect
<1>. QED
  BY <1>1, <1>2, PTL DEF Spec

-----------------------------------------------------------------------------
(* What the comparisons up to place n have found, and with which bounds.   *)
FoundUpTo(n) ==
    /\ any_alarm => \E f \in Fields : \E b \in inForce[f] : Exceeds(seen[f[1]], f, b)
    /\ ~any_alarm => \A i \in 1..n : \E b \in inForce[Order[i]] : ~Exceeds(seen[Order[i][1]], Order[i], b)

(* While a pass compares, each bound that is in force is recorded; once it *)
(* is over, a device says what it was told in the pass.                    *)
PassOK ==
    /\ pc = "scan" => /\ \A f \in Fields : threshold[f] \in inForce[f]
                      /\ FoundUpTo(k - 1) /\ written = {}
    /\ pc \in {"led", "beep", "sleep"} /\ inForce # [f \in Fields |-> {}] =>
          /\ FoundUpTo(Len(Order))
          /\ "led" \in written => led = any_alarm
          /\ "beep" \in written => beep = any_alarm
    /\ pc = "led" => written = {}
    /\ pc = "beep" => "beep" \notin written

(* FoundUpTo is kept when bounds are added to what was in force.           *)
LEMMA FoundGrows ==
    ASSUME NEW n \in 0..Len(Order), FoundUpTo(n), any_alarm' = any_alarm, seen' = seen,
           \A f \in Fields : inForce[f] \subseteq inForce'[f]
    PROVE  FoundUpTo(n)'
<1>1. \A i \in 1..n : Order[i] \in Fields
  BY Places
<1>2. any_alarm' => \E f \in Fields : \E b \in inForce'[f] : Exceeds(seen'[f[1]], f, b)
  BY DEF FoundUpTo, Exceeds
<1>3. ~any_alarm' => \A i \in 1..n : \E b \in inForce'[Order[i]] :
                        ~Exceeds(seen'[Order[i][1]], Order[i], b)
  BY <1>1 DEF FoundUpTo, Exceeds
<1>. QED
  BY <1>2, <1>3 DEF FoundUpTo, Exceeds

LEMMA CompareKeeps == TypeOK /\ PassOK /\ Compare => PassOK'
<1> SUFFICES ASSUME TypeOK, PassOK, Compare PROVE PassOK'
  OBVIOUS
<1> DEFINE f == Order[k]
           over == Exceeds(seen[f[1]], f, threshold[f])
<1>1. k \in 1..Len(Order) /\ Len(Order) \in Nat /\ f \in Fields
  BY Places DEF TypeOK
<1>2. pc = "scan" /\ threshold[f] \in inForce[f] /\ FoundUpTo(k - 1) /\ written = {}
  BY <1>1 DEF Compare, PassOK
<1>3. /\ any_alarm' = (any_alarm \/ over)
      /\ UNCHANGED <<seen, threshold, inForce, written, led, beep>>
  BY DEF Compare, user
<1>. PICK n \in 1..Len(Order) : n = k
  BY <1>1
<1>4. FoundUpTo(n)'
  <2>1. any_alarm' => \E g \in Fields : \E b \in inForce'[g] : Exceeds(seen'[g[1]], g, b)
    <3>1. CASE any_alarm
      BY <1>2, <1>3, <3>1 DEF FoundUpTo, Exceeds
    <3>2. CASE over
      BY <1>1, <1>2, <1>3, <3>2 DEF Exceeds
    <3>. QED
      BY <1>3, <3>1, <3>2
  <2>2. ASSUME ~any_alarm', NEW i \in 1..n
        PROVE  \E b \in inForce'[Order[i]] : ~Exceeds(seen'[Order[i][1]], Order[i], b)
    <3>1. ~any_alarm /\ ~over
      BY <1>3, <2>2
    <3>2. CASE i = n
      BY <1>2, <1>3, <3>1, <3>2 DEF Exceeds
    <3>3. CASE i # n
      <4>1. i \in 1..(k - 1)
        BY <1>1, <2>2, <3>3
      <4>. QED
        BY <1>2, <1>3, <3>1, <4>1 DEF FoundUpTo, Exceeds
    <3>. QED
      BY <3>2, <3>3
  <2>. QED
    BY <2>1, <2>2 DEF FoundUpTo, Exceeds
<1>5. CASE k < Len(Order)
  <2>1. pc' = "scan" /\ k' = k + 1
    BY <1>2, <1>5 DEF Compare
  <2>2. FoundUpTo(k - 1)'
    <3>1. k' - 1 = n
      BY <1>1, <2>1
    <3>. QED
      BY <1>4, <3>1 DEF FoundUpTo
  <2>. QED
    BY <1>2, <1>3, <2>1, <2>2 DEF PassOK
<1>6. CASE ~(k < Len(Order))
  <2>1. pc' = "led" /\ k = Len(Order)
    BY <1>1, <1>6 DEF Compare
  <2>. QED
    BY <1>2, <1>3, <1>4, <2>1 DEF PassOK, FoundUpTo, Exceeds
<1>. QED
  BY <1>5, <1>6

LEMMA PassKept == TypeOK /\ PassOK /\ [Next]_vars => PassOK'
<1> SUFFICES ASSUME TypeOK, PassOK, [Next]_vars PROVE PassOK'
  OBVIOUS
<1> USE DEF env, user
<1>1. CASE Compare
  BY <1>1, CompareKeeps
<1>2. CASE Change \/ FailOrHeal \/ AlarmMgrSetThreshold \/ UNCHANGED vars
  <2>1. UNCHANGED <<threshold, pc, k, seen, any_alarm, led, beep, inForce, written>>
    BY <1>2 DEF Change, FailOrHeal, AlarmMgrSetThreshold, vars
  <2>. QED
    BY <2>1 DEF PassOK, FoundUpTo, Exceeds
<1>3. CASE Assign
  <2>1. PICK f \in copying :
          /\ threshold' = [threshold EXCEPT ![f] = given[f]]
          /\ inForce' = IF pc = "scan" THEN [inForce EXCEPT ![f] = @ \cup {given[f]}] ELSE inForce
    BY <1>3 DEF Assign
  <2>2. UNCHANGED <<pc, k, seen, any_alarm, led, beep, written>>
    BY <1>3 DEF Assign
  <2>3. CASE pc = "scan"
    <3>1. f \in Fields
      BY DEF TypeOK
    <3>2. \A g \in Fields : inForce[g] \subseteq inForce'[g] /\ threshold'[g] \in inForce'[g]
      BY <2>1, <2>3, <3>1 DEF TypeOK, PassOK
    <3>. PICK n \in 0..Len(Order) : n = k - 1
      BY Places DEF TypeOK
    <3>3. FoundUpTo(n)'
      BY <2>2, <2>3, <3>2, FoundGrows DEF PassOK
    <3>4. k' - 1 = n
      BY <2>2
    <3>5. FoundUpTo(k - 1)'
      BY <3>3, <3>4 DEF FoundUpTo
    <3>. QED
      BY <2>2, <2>3, <3>2, <3>5 DEF PassOK
  <2>4. CASE pc # "scan"
    BY <2>1, <2>2, <2>4 DEF PassOK, FoundUpTo, Exceeds
  <2>. QED
    BY <2>3, <2>4
<1>4. CASE ReadSensors
  <2>1. /\ pc' = "scan" /\ k' = 1 /\ any_alarm' = FALSE /\ written' = {}
        /\ inForce' = [f \in Fields |-> {threshold[f]}] /\ UNCHANGED threshold
    BY <1>4 DEF ReadSensors, StartScan
  <2>2. FoundUpTo(k - 1)'
    BY <2>1 DEF FoundUpTo
  <2>. QED
    BY <2>1, <2>2 DEF PassOK
<1>5. CASE Hang
  BY <1>5 DEF Hang, PassOK
<1>6. CASE LedControl
  BY <1>6 DEF LedControl, PassOK, FoundUpTo, Exceeds
<1>7. CASE BeepControl
  BY <1>7 DEF BeepControl, PassOK, FoundUpTo, Exceeds
<1>. QED
  BY <1>1, <1>2, <1>3, <1>4, <1>5, <1>6, <1>7 DEF Next, pthread_collect

(* LED and buzzer show what a bound in force during the pass justifies,    *)
(* although no lock keeps the assignment of the thresholds apart from the  *)
(* comparisons.                                                            *)
THEOREM VerdictJustified == Spec => []Justified
<1>1. Init => PassOK
  BY DEF Init, PassOK
<1>2. PassOK => Justified
  <2> SUFFICES ASSUME PassOK, pc \in {"led", "beep", "sleep"}, inForce # [f \in Fields |-> {}]
               PROVE  /\ FoundUpTo(Len(Order))
                      /\ "led" \in written => led = any_alarm
                      /\ "beep" \in written => beep = any_alarm
                      /\ FoundUpTo(Len(Order)) =>
                            /\ any_alarm => \E f \in Fields : \E b \in inForce[f] : Exceeds(seen[f[1]], f, b)
                            /\ ~any_alarm => \A f \in Fields : \E b \in inForce[f] : ~Exceeds(seen[f[1]], f, b)
    BY DEF Justified
  <2>1. ASSUME FoundUpTo(Len(Order)), ~any_alarm, NEW f \in Fields
        PROVE  \E b \in inForce[f] : ~Exceeds(seen[f[1]], f, b)
    <3>1. PICK i \in 1..Len(Order) : f = Order[i]
      BY Places
    <3>. QED
      BY <2>1, <3>1 DEF FoundUpTo
  <2>. QED
    BY <2>1 DEF PassOK, FoundUpTo
<1>3. TypeOK /\ PassOK /\ [Next]_vars => PassOK'
  BY PassKept
<1>. QED
  BY <1>1, <1>2, <1>3, TypeCorrect, PTL DEF Spec

(* A pass during which no setting was being assigned says of its readings  *)
(* exactly what the one setting in force says, whenever LED and buzzer are *)
(* written; what the missing lock costs is limited to the passes in which  *)
(* a bound had two values.                                                 *)
THEOREM VerdictExact ==
    Spec => [](\A s \in [Fields -> Values] :
                  pc \in {"led", "beep", "sleep"} /\ inForce = [f \in Fields |-> {s[f]}]
                     => /\ any_alarm = OutOfBounds(seen, s)
                        /\ "led" \in written => led = OutOfBounds(seen, s)
                        /\ "beep" \in written => beep = OutOfBounds(seen, s))
<1> DEFINE Exact(s) ==
        pc \in {"led", "beep", "sleep"} /\ inForce = [f \in Fields |-> {s[f]}]
           => /\ any_alarm = OutOfBounds(seen, s)
              /\ "led" \in written => led = OutOfBounds(seen, s)
              /\ "beep" \in written => beep = OutOfBounds(seen, s)
<1>1. ASSUME TypeOK, Justified, NEW s \in [Fields -> Values] PROVE Exact(s)
  <2> SUFFICES ASSUME pc \in {"led", "beep", "sleep"}, inForce = [f \in Fields |-> {s[f]}]
               PROVE  /\ any_alarm = OutOfBounds(seen, s)
                      /\ "led" \in written => led = OutOfBounds(seen, s)
                      /\ "beep" \in written => beep = OutOfBounds(seen, s)
    OBVIOUS
  <2>1. \A f \in Fields : inForce[f] = {s[f]}
    OBVIOUS
  <2>2. Order[1] \in Fields
    BY Places, IndicatorsAssumption DEF Fields
  <2>3. inForce # [f \in Fields |-> {}]
    <3>1. inForce[Order[1]] # {}
      BY <2>1, <2>2
    <3>2. [f \in Fields |-> {}][Order[1]] = {}
      BY <2>2
    <3>3. QED BY <3>1, <3>2
  <2>4. /\ any_alarm => \E f \in Fields : \E b \in inForce[f] : Exceeds(seen[f[1]], f, b)
        /\ ~any_alarm => \A f \in Fields : \E b \in inForce[f] : ~Exceeds(seen[f[1]], f, b)
        /\ "led" \in written => led = any_alarm
        /\ "beep" \in written => beep = any_alarm
    BY <1>1, <2>3, Zenon DEF Justified
  <2>5. any_alarm => OutOfBounds(seen, s)
    BY <2>1, <2>4 DEF OutOfBounds
  <2>6. ~any_alarm => ~OutOfBounds(seen, s)
    BY <2>1, <2>4 DEF OutOfBounds
  <2>7. any_alarm \in BOOLEAN /\ OutOfBounds(seen, s) \in BOOLEAN
    <3>1. any_alarm \in BOOLEAN
      BY <1>1 DEF TypeOK
    <3>2. OutOfBounds(seen, s) \in BOOLEAN
      BY Zenon DEF OutOfBounds
    <3>3. QED BY <3>1, <3>2
  <2>8. QED BY <2>4, <2>5, <2>6, <2>7
<1>2. TypeOK /\ Justified => \A s \in [Fields -> Values] : Exact(s)
  BY <1>1
<1>3. QED BY <1>2, TypeCorrect, VerdictJustified, PTL
=============================================================================
