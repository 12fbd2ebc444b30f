---------------------------- MODULE AlarmMgrProofs ----------------------------
(***************************************************************************)
(* Theorems about AlarmMgr for all points, samples, thresholds, sizes of   *)
(* the tables and cooldowns.                                               *)
(***************************************************************************)
EXTENDS AlarmMgr, SequenceTheorems, FiniteSetTheorems, TLAPS

(* The sizes are numbers.                                                  *)
LEMMA Sizes ==
    /\ DedupSlots \in Nat /\ DedupSlots > 0
    /\ MaxRecords \in Nat /\ MaxRecords > 0
    /\ Cooldown \in Nat /\ Cooldown > 0
BY AlarmAssumption

Comparison == [reading : Reading, side : {"high", "low"}]

(* The comparisons of a sample have a reading and a side.                  *)
LEMMA ComparisonsType ==
    ASSUME NEW s \in Samples
    PROVE  Comparisons(s) \in Seq(Comparison)
<1> DEFINE n == 2 * Len(s)
<1>1. s \in Seq(Reading) /\ Len(s) \in Nat /\ n \in Nat
  BY AlarmAssumption
<1>2. \A k \in 1..n : (k + 1) \div 2 \in 1..Len(s)
  BY <1>1
<1>3. \A i \in 1..Len(s) : s[i] \in Reading
  BY <1>1
<1>4. Comparisons(s) \in [1..n -> Comparison]
  BY <1>2, <1>3 DEF Comparisons, Comparison
<1>5. QED BY <1>1, <1>4

(* Counting down from the newest stays within the list.                    *)
LEMMA Mirror ==
    ASSUME NEW n \in Nat, NEW j \in 1..n
    PROVE  n + 1 - j \in 1..n
OBVIOUS

(* A list is drawn as a sequence of alarms.                                *)
LEMMA DrawingType ==
    ASSUME NEW l \in Seq([alarm : Alarms, logged : BOOLEAN])
    PROVE  Drawing(l) \in Seq(Alarms)
<1>1. Len(l) \in Nat /\ DOMAIN l = 1..Len(l)
  OBVIOUS
<1>2. \A j \in 1..Len(l) : Len(l) + 1 - j \in 1..Len(l)
  BY <1>1, Mirror
<1>3. \A j \in 1..Len(l) : l[j].alarm \in Alarms
  <2>1. \A j \in 1..Len(l) : l[j] \in [alarm : Alarms, logged : BOOLEAN]
    BY <1>1, ElementOfSeq
  <2>2. QED BY <2>1
<1>4. Drawing(l) \in [1..Len(l) -> Alarms]
  BY <1>1, <1>2, <1>3 DEF Drawing
<1>5. QED BY <1>1, <1>4

(* An age grows up to the cooldown.                                        *)
LEMMA OlderType ==
    ASSUME NEW age \in {None} \cup 0..Cooldown
    PROVE  /\ Older(age) \in {None} \cup 0..Cooldown
           /\ (Older(age) = None) <=> (age = None)
BY AlarmAssumption DEF Older, None

(* The table after an alarm was recorded: the alarm has age 0 in its slot, *)
(* in a new one, or in none because the table is full.                     *)
Slot == [alarm : Alarms, age : 0..Cooldown]

LEMMA StampedTable ==
    ASSUME TypeOK, NEW a \in Alarms
    PROVE  /\ Stamped(a) \in Seq(Slot) /\ Len(Stamped(a)) <= DedupSlots
           /\ DOMAIN dedup \subseteq DOMAIN Stamped(a)
           /\ \A j \in DOMAIN dedup :
                 Stamped(a)[j] = IF dedup[j].alarm = a THEN [alarm |-> a, age |-> 0] ELSE dedup[j]
           /\ \A j \in DOMAIN Stamped(a) \ DOMAIN dedup :
                 /\ Stamped(a)[j] = [alarm |-> a, age |-> 0] /\ a \notin Slotted
                 /\ Len(dedup) < DedupSlots /\ j = Len(dedup) + 1
           /\ a \notin Slotted /\ Len(dedup) < DedupSlots
                 => Len(dedup) + 1 \in DOMAIN Stamped(a)
<1> DEFINE n == Len(dedup)
           e == [alarm |-> a, age |-> 0]
<1>1. n \in Nat /\ n <= DedupSlots /\ DOMAIN dedup = 1..n /\ dedup \in Seq(Slot)
  BY DEF TypeOK, Slot
<1>2. e \in Slot
  BY AlarmAssumption DEF Slot
<1>3. CASE a \in Slotted
  <2>1. Stamped(a) = [j \in 1..n |-> IF dedup[j].alarm = a THEN e ELSE dedup[j]]
    BY <1>1, <1>3 DEF Stamped
  <2> HIDE DEF e
  <2>2. Stamped(a) \in [1..n -> Slot]
    BY <1>1, <1>2, <2>1
  <2>3. Stamped(a) \in Seq(Slot) /\ Len(Stamped(a)) = n /\ DOMAIN Stamped(a) = 1..n
    BY <1>1, <2>2
  <2>4. QED BY <1>1, <1>3, <2>1, <2>3 DEF e
<1>4. CASE a \notin Slotted /\ n < DedupSlots
  <2>1. Stamped(a) = Append(dedup, e)
    BY <1>4 DEF Stamped
  <2> HIDE DEF e
  <2>2. /\ Stamped(a) \in Seq(Slot) /\ Len(Stamped(a)) = n + 1
        /\ DOMAIN Stamped(a) = 1..(n + 1)
        /\ \A j \in 1..n : Stamped(a)[j] = dedup[j]
        /\ Stamped(a)[n + 1] = e
    BY <1>1, <1>2, <2>1
  <2>3. \A j \in 1..n : dedup[j].alarm # a
    BY <1>1, <1>4 DEF Slotted
  <2>4. n + 1 <= DedupSlots
    BY <1>1, <1>4, AlarmAssumption
  <2>5. \A j \in 1..(n + 1) : j \in 1..n \/ j = n + 1
    BY <1>1
  <2>6. QED BY <1>1, <1>4, <2>2, <2>3, <2>4, <2>5 DEF e
<1>5. CASE a \notin Slotted /\ ~(n < DedupSlots)
  <2>1. Stamped(a) = dedup
    BY <1>5 DEF Stamped
  <2>2. \A j \in 1..n : dedup[j].alarm # a
    BY <1>1, <1>5 DEF Slotted
  <2>3. QED BY <1>1, <1>5, <2>1, <2>2
<1>6. QED BY <1>3, <1>4, <1>5

-----------------------------------------------------------------------------
(* The parts of the type invariant that different steps touch.             *)
RestOK ==
    /\ slot \in Samples \cup {NoSample}
    /\ ui \in {"idle", "check", "save"} /\ page \in {"login", "alarm", "other"}
    /\ todo \in Seq(Comparison)
    /\ {threshold, saved, chosen} \subseteq [Points -> Bounds]
    /\ icon \in BOOLEAN /\ unsaved \in BOOLEAN /\ misread \in BOOLEAN
    /\ restarts \in 0..MaxRestart

ListOK ==
    /\ records \in Seq([alarm : Alarms, logged : BOOLEAN]) /\ Len(records) <= MaxRecords
    /\ unread \in BOOLEAN /\ changed \in BOOLEAN /\ drawn \in Seq(Alarms)

TableOK ==
    /\ dedup \in Seq(Slot) /\ Len(dedup) <= DedupSlots
    /\ since \in [Alarms -> {None} \cup 0..Cooldown] /\ early \subseteq Alarms

(* The type invariant is their conjunction.                                *)
LEMMA TypeParts == TypeOK <=> RestOK /\ ListOK /\ TableOK
<1>1. ASSUME TypeOK PROVE RestOK /\ ListOK /\ TableOK
  <2>1. RestOK
    BY <1>1 DEF TypeOK, RestOK, Comparison
  <2>2. ListOK
    BY <1>1 DEF TypeOK, ListOK
  <2>3. TableOK
    BY <1>1 DEF TypeOK, TableOK, Slot
  <2>4. QED BY <2>1, <2>2, <2>3
<1>2. ASSUME RestOK, ListOK, TableOK PROVE TypeOK
  <2>1. {unread, changed, icon, unsaved, misread} \subseteq BOOLEAN
    BY <1>2 DEF RestOK, ListOK
  <2>2. QED BY <1>2, <2>1, Zenon DEF TypeOK, RestOK, ListOK, TableOK, Comparison, Slot
<1>3. QED BY <1>1, <1>2

(* The values of a program that has just started.                          *)
LEMMA StartTypes ==
    /\ \A S : <<>> \in Seq(S)
    /\ Len(<<>>) = 0 /\ 0 <= DedupSlots /\ 0 <= MaxRecords
    /\ 0 \in 0..MaxRestart
    /\ NotYet \in [Alarms -> {None} \cup 0..Cooldown]
BY AlarmAssumption, EmptySeq DEF NotYet

(* What the comparison of AlarmMgrCheck works on.                          *)
LEMMA NextComparison ==
    ASSUME TypeOK, todo # <<>>
    PROVE  /\ Head(todo) \in Comparison /\ Tail(todo) \in Seq(Comparison)
           /\ Alarm(Head(todo)) \in Alarms
<1>1. Head(todo) \in Comparison /\ Tail(todo) \in Seq(Comparison)
  <2>1. todo \in Seq(Comparison)
    BY DEF TypeOK, Comparison
  <2>2. QED BY <2>1, HeadTailProperties
<1>2. Alarm(Head(todo)) \in Alarms
  BY <1>1 DEF Comparison, Alarm, Alarms, Reading
<1>3. QED BY <1>1, <1>2

(* A record is added within the array.                                     *)
LEMMA AddRecordTypes ==
    ASSUME TypeOK, NEW a \in Alarms, AddRecord(a)
    PROVE  /\ records' \in Seq([alarm : Alarms, logged : BOOLEAN])
           /\ Len(records') <= MaxRecords
           /\ unread' \in BOOLEAN /\ changed' \in BOOLEAN
           /\ TableOK'
<1> DEFINE R == [alarm : Alarms, logged : BOOLEAN]
<1>1. PICK logged \in BOOLEAN : records' = Append(Room, [alarm |-> a, logged |-> logged])
  BY DEF AddRecord, StorageInsertAlarm
<1>2. records \in Seq(R) /\ Len(records) \in Nat /\ Len(records) <= MaxRecords
  BY DEF TypeOK
<1>3. Room \in Seq(R) /\ Len(Room) \in Nat /\ Len(Room) + 1 <= MaxRecords
  <2>1. CASE Len(records) >= MaxRecords
    <3>1. Room = Tail(records) /\ records # <<>>
      BY <1>2, <2>1, AlarmAssumption DEF Room
    <3>2. QED BY <1>2, <3>1, AlarmAssumption
  <2>2. CASE ~(Len(records) >= MaxRecords)
    BY <1>2, <2>2, AlarmAssumption DEF Room
  <2>3. QED BY <2>1, <2>2
<1>4. [alarm |-> a, logged |-> logged] \in R
  OBVIOUS
<1>5. records' \in Seq(R) /\ Len(records') <= MaxRecords
  BY <1>1, <1>3, <1>4, AlarmAssumption
<1>6. dedup' \in Seq(Slot) /\ Len(dedup') <= DedupSlots
  BY StampedTable DEF AddRecord
<1>7. since' \in [Alarms -> {None} \cup 0..Cooldown]
  BY AlarmAssumption DEF AddRecord, TypeOK
<1>8. early' \subseteq Alarms
  BY DEF AddRecord, TypeOK
<1>9. unread' \in BOOLEAN /\ changed' \in BOOLEAN
  BY DEF AddRecord, Bumped
<1>10. QED BY <1>5, <1>6, <1>7, <1>8, <1>9 DEF TableOK

(* Every variable of the alarm manager keeps its type: neither the list of *)
(* records nor the table of the times outgrows its array.                  *)
THEOREM TypeCorrect == Spec => []TypeOK
<1> USE AlarmAssumption
<1>1. Init => TypeOK
  <2> SUFFICES ASSUME Init PROVE RestOK /\ ListOK /\ TableOK
    BY TypeParts
  <2>1. {threshold, saved, chosen} \subseteq [Points -> Bounds]
    <3>1. saved \in [Points -> Bounds] /\ chosen = saved
      BY DEF Init
    <3>2. threshold = saved \/ threshold = Default
      BY DEF Init
    <3>3. QED BY <3>1, <3>2
  <2>2. RestOK
    BY <2>1, StartTypes DEF Init, RestOK
  <2>3. ListOK
    BY StartTypes DEF Init, ListOK
  <2>4. TableOK
    BY StartTypes DEF Init, TableOK
  <2>5. QED BY <2>2, <2>3, <2>4
<1>2. TypeOK /\ [Next]_vars => TypeOK'
  <2> SUFFICES ASSUME TypeOK, [Next]_vars PROVE RestOK' /\ ListOK' /\ TableOK'
    BY TypeParts, PTL
  <2>0. RestOK /\ ListOK /\ TableOK
    BY TypeParts
  <2> USE DEF list, screen, settings, cooling
  <2>1. CASE LvglUiUpdateData
    <3>1. RestOK'
      BY <2>0, <2>1 DEF LvglUiUpdateData, RestOK
    <3>2. QED BY <2>0, <2>1, <3>1 DEF LvglUiUpdateData, ListOK, TableOK
  <2>2. CASE Tick
    <3>1. since' \in [Alarms -> {None} \cup 0..Cooldown]
      BY <2>0, <2>2, OlderType DEF Tick, TableOK
    <3>2. dedup' \in Seq(Slot) /\ Len(dedup') <= DedupSlots
      <4>1. dedup \in Seq(Slot) /\ Len(dedup) \in Nat /\ DOMAIN dedup = 1..Len(dedup)
            /\ Len(dedup) <= DedupSlots
        BY <2>0 DEF TableOK
      <4>2. \A j \in 1..Len(dedup) : dedup[j] \in Slot
        BY <4>1
      <4>3. \A j \in 1..Len(dedup) : [dedup[j] EXCEPT !.age = Older(@)] \in Slot
        BY <4>2 DEF Slot, Older, None
      <4>4. dedup' \in [1..Len(dedup) -> Slot]
        BY <2>2, <4>1, <4>3 DEF Tick
      <4>5. QED BY <4>1, <4>4
    <3>3. QED BY <2>0, <2>2, <3>1, <3>2 DEF Tick, RestOK, ListOK, TableOK
  <2>3. CASE TakeSample
    <3>1. todo' \in Seq(Comparison)
      BY <2>0, <2>3, ComparisonsType DEF TakeSample, RestOK
    <3>2. QED BY <2>0, <2>3, <3>1 DEF TakeSample, RestOK, ListOK, TableOK
  <2>4. CASE AlarmMgrCheck
    <3> DEFINE a == Alarm(Head(todo))
    <3>1. todo # <<>> /\ todo' = Tail(todo)
      BY <2>4 DEF AlarmMgrCheck
    <3>2. todo' \in Seq(Comparison) /\ a \in Alarms
      BY <3>1, NextComparison
    <3>3. UNCHANGED <<slot, ui, settings, screen, restarts>>
      BY <2>4 DEF AlarmMgrCheck
    <3>4. RestOK'
      BY <2>0, <3>2, <3>3 DEF RestOK
    <3>5. AddRecord(a) \/ UNCHANGED <<list, cooling>>
      BY <2>4 DEF AlarmMgrCheck, AfterSuppressed
    <3> HIDE DEF a
    <3>6. CASE AddRecord(a)
      <4>1. ListOK' /\ TableOK'
        BY <2>0, <3>2, <3>3, <3>6, AddRecordTypes DEF ListOK
      <4>2. QED BY <3>4, <4>1
    <3>7. CASE UNCHANGED <<list, cooling>>
      BY <2>0, <3>3, <3>4, <3>7 DEF ListOK, TableOK
    <3>8. QED BY <3>5, <3>6, <3>7
  <2>5. CASE ShowAlarms
    <3>1. ListOK'
      BY <2>0, <2>5, DrawingType DEF ShowAlarms, ListOK, Refresh
    <3>2. QED BY <2>0, <2>5, <3>1 DEF ShowAlarms, RestOK, ListOK, TableOK
  <2>6. CASE SwitchPage
    <3>1. ListOK'
      BY <2>0, <2>6, DrawingType DEF SwitchPage, ListOK, Refresh
    <3>2. QED BY <2>0, <2>6, <3>1 DEF SwitchPage, RestOK, TableOK
  <2>7. CASE ClearAll
    <3>1. ListOK'
      <4>1. records' = <<>> /\ unread' = FALSE /\ changed' = FALSE /\ drawn' = Drawing(<<>>)
        BY <2>7 DEF ClearAll, Refresh, Bumped
      <4>2. Drawing(<<>>) \in Seq(Alarms)
        BY StartTypes, DrawingType
      <4>3. QED BY <4>1, <4>2, StartTypes DEF ListOK
    <3>2. TableOK'
      BY <2>7, StartTypes DEF ClearAll, TableOK
    <3>3. QED BY <2>0, <2>7, <3>1, <3>2 DEF ClearAll, RestOK
  <2>8. CASE SetThreshold
    <3>1. TableOK'
      BY <2>8, StartTypes DEF SetThreshold, TableOK
    <3>2. QED BY <2>0, <2>8, <3>1 DEF SetThreshold, RestOK, ListOK
  <2>9. CASE SaveThreshold
    BY <2>0, <2>9 DEF SaveThreshold, RestOK, ListOK, TableOK
  <2>10. CASE PowerFails
    <3>1. TableOK'
      BY <2>10, StartTypes DEF PowerFails, TableOK
    <3>2. ListOK'
      BY <2>10, StartTypes DEF PowerFails, ListOK
    <3>3. RestOK'
      <4>1. restarts + 1 \in 0..MaxRestart
        BY <2>0, <2>10 DEF PowerFails, RestOK
      <4>2. saved \in [Points -> Bounds] /\ <<>> \in Seq(Comparison)
        BY <2>0, StartTypes DEF RestOK
      <4>3. /\ {threshold', saved'} \subseteq [Points -> Bounds]
            /\ misread' \in BOOLEAN
        BY <2>10, <4>2, AlarmAssumption DEF PowerFails, LoadThreshold, Inserted
      <4>4. QED BY <2>0, <2>10, <4>1, <4>2, <4>3 DEF PowerFails, RestOK
    <3>4. QED BY <3>1, <3>2, <3>3
  <2>11. CASE UNCHANGED vars
    BY <2>0, <2>11 DEF vars, RestOK, ListOK, TableOK
  <2>12. QED
    BY <2>1, <2>2, <2>3, <2>4, <2>5, <2>6, <2>7, <2>8, <2>9, <2>10, <2>11
       DEF Next, User, UiTimer
<1>3. QED BY <1>1, <1>2, PTL DEF Spec
-----------------------------------------------------------------------------
(* DrawnIsCurrent is not inductive: while a sample is checked the page may *)
(* be behind the list, and then the version says so.                       *)
ScreenOK ==
    /\ ~changed => drawn = Drawing(records)
    /\ page = "alarm" /\ ui = "idle" => ~changed
    /\ ui = "save" => page = "other"

(* The alarm page shows the list as it is whenever the UI thread waits for *)
(* the user or the timer.                                                  *)
THEOREM DrawnCurrent == Spec => []DrawnIsCurrent
<1> USE DEF list, screen, settings, cooling
<1>1. Init => ScreenOK
  BY DEF Init, ScreenOK
<1>2. ScreenOK /\ [Next]_vars => ScreenOK'
  <2> SUFFICES ASSUME ScreenOK, [Next]_vars PROVE ScreenOK'
    OBVIOUS
  <2>1. CASE LvglUiUpdateData \/ Tick \/ UNCHANGED vars
    BY <2>1 DEF LvglUiUpdateData, Tick, vars, ScreenOK, Drawing
  <2>2. CASE TakeSample
    BY <2>2 DEF TakeSample, ScreenOK, Drawing
  <2>3. CASE AlarmMgrCheck
    <3>1. ui = "check" /\ UNCHANGED <<ui, page, drawn>>
      BY <2>3 DEF AlarmMgrCheck
    <3>2. changed' = TRUE \/ UNCHANGED list
      BY <2>3 DEF AlarmMgrCheck, AddRecord, Bumped
    <3>3. QED BY <3>1, <3>2 DEF ScreenOK, Drawing
  <2>4. CASE ShowAlarms
    BY <2>4 DEF ShowAlarms, Refresh, ScreenOK, Drawing
  <2>5. CASE SwitchPage
    BY <2>5 DEF SwitchPage, Refresh, ScreenOK, Drawing
  <2>6. CASE ClearAll
    BY <2>6 DEF ClearAll, Refresh, Bumped, ScreenOK, Drawing
  <2>7. CASE SetThreshold
    BY <2>7 DEF SetThreshold, ScreenOK, Drawing
  <2>8. CASE SaveThreshold
    BY <2>8 DEF SaveThreshold, ScreenOK, Drawing
  <2>9. CASE PowerFails
    BY <2>9 DEF PowerFails, ScreenOK
  <2>10. QED BY <2>1, <2>2, <2>3, <2>4, <2>5, <2>6, <2>7, <2>8, <2>9
             DEF Next, User, UiTimer
<1>3. ScreenOK => DrawnIsCurrent
  BY DEF ScreenOK, DrawnIsCurrent
<1>4. QED BY <1>1, <1>2, <1>3, PTL DEF Spec

(* ThresholdsKept is not inductive: saving writes what is in force, which  *)
(* must be what the user has just set.                                     *)
SettingsOK == ThresholdsKept /\ (ui = "save" => threshold = chosen)

(* What the user has set survives power failures, and starts that cannot   *)
(* read the row: StorageLoadThreshold leaves the row alone then.           *)
THEOREM ThresholdsSurvive == Spec => []ThresholdsKept
<1> USE DEF list, screen, settings, cooling
<1>1. Init => SettingsOK
  BY DEF Init, SettingsOK, ThresholdsKept
<1>2. SettingsOK /\ [Next]_vars => SettingsOK'
  <2> SUFFICES ASSUME SettingsOK, [Next]_vars PROVE SettingsOK'
    OBVIOUS
  <2>1. CASE UNCHANGED settings /\ (ui' = "save" => ui = "save")
    BY <2>1 DEF SettingsOK, ThresholdsKept
  <2>2. CASE SetThreshold
    BY <2>2 DEF SetThreshold, SettingsOK, ThresholdsKept
  <2>3. CASE SaveThreshold
    <3>1. threshold = chosen
      BY <2>3 DEF SaveThreshold, SettingsOK
    <3>2. CASE saved' = threshold /\ unsaved' = FALSE
      BY <2>3, <3>1, <3>2 DEF SaveThreshold, SettingsOK, ThresholdsKept
    <3>3. CASE UNCHANGED <<saved, unsaved>>
      BY <2>3, <3>1, <3>3 DEF SaveThreshold, SettingsOK, ThresholdsKept
    <3>4. QED BY <2>3, <3>2, <3>3 DEF SaveThreshold
  <2>4. CASE PowerFails
    <3>1. UNCHANGED saved
      BY <2>4 DEF PowerFails, LoadThreshold, Inserted
    <3>2. threshold' = saved \/ (misread' = TRUE /\ threshold' = Default)
      BY <2>4 DEF PowerFails, LoadThreshold
    <3>3. QED BY <2>4, <3>1, <3>2 DEF PowerFails, SettingsOK, ThresholdsKept
  <2>5. \/ UNCHANGED settings /\ (ui' = "save" => ui = "save")
        \/ SetThreshold \/ SaveThreshold \/ PowerFails
    BY DEF Next, User, UiTimer, vars, LvglUiUpdateData, Tick, TakeSample, AlarmMgrCheck,
           ShowAlarms, SwitchPage, ClearAll
  <2>6. QED BY <2>1, <2>2, <2>3, <2>4, <2>5
<1>3. SettingsOK => ThresholdsKept
  BY DEF SettingsOK
<1>4. QED BY <1>1, <1>2, <1>3, PTL DEF Spec

-----------------------------------------------------------------------------
(* The table of the times and the history agree: the age of a slot is that *)
(* of the last record of its alarm; an alarm that has been recorded and    *)
(* has no slot came when the table was full.                               *)
CoolingOK ==
    /\ \A j \in DOMAIN dedup : since[dedup[j].alarm] = dedup[j].age
    /\ \A a \in Alarms \ Slotted : since[a] # None => Len(dedup) = DedupSlots
    /\ RepeatOnlyWithoutSlot

(* Nothing is recorded: the table is as after a start.                     *)
LEMMA CoolingReset ==
    dedup' = <<>> /\ since' = NotYet /\ early' = {} => CoolingOK'
<1>1. DOMAIN <<>> = {}
  OBVIOUS
<1>2. QED BY <1>1 DEF CoolingOK, RepeatOnlyWithoutSlot, NotYet

(* A record of an alarm that is not suppressed keeps the two in agreement. *)
LEMMA CoolingAfterRecord ==
    ASSUME TypeOK, CoolingOK, NEW a \in Alarms, AddRecord(a), ~Suppressed(a)
    PROVE  CoolingOK'
<1> DEFINE n == Len(dedup)
           e == [alarm |-> a, age |-> 0]
<1>1. /\ dedup' = Stamped(a)
      /\ since' = [since EXCEPT ![a] = 0]
      /\ early' = IF since[a] \in 0..(Cooldown - 1) THEN early \cup {a} ELSE early
  BY DEF AddRecord
<1>2. /\ n \in Nat /\ n <= DedupSlots /\ DOMAIN dedup = 1..n /\ dedup \in Seq(Slot)
      /\ since \in [Alarms -> {None} \cup 0..Cooldown] /\ early \subseteq Alarms
  BY DEF TypeOK, Slot
<1>3. /\ \A j \in DOMAIN dedup : since[dedup[j].alarm] = dedup[j].age
      /\ \A b \in Alarms \ Slotted : since[b] # None => n = DedupSlots
      /\ \A b \in early : b \notin Slotted /\ n = DedupSlots
  BY DEF CoolingOK, RepeatOnlyWithoutSlot
<1>4. /\ since'[a] = 0
      /\ \A b \in Alarms \ {a} : since'[b] = since[b]
  BY <1>1, <1>2
<1>5. \A j \in DOMAIN dedup : dedup'[j] = IF dedup[j].alarm = a THEN e ELSE dedup[j]
  BY <1>1, StampedTable
<1>6. \A j \in DOMAIN dedup' \ DOMAIN dedup :
          dedup'[j] = e /\ a \notin Slotted /\ n < DedupSlots
  BY <1>1, StampedTable
<1>7. DOMAIN dedup \subseteq DOMAIN dedup' /\ dedup' \in Seq(Slot) /\ Len(dedup') <= DedupSlots
  BY <1>1, StampedTable
<1>8. DOMAIN dedup' = 1..Len(dedup') /\ Len(dedup') \in Nat
  BY <1>7
<1>9. \A j \in DOMAIN dedup : dedup'[j].alarm = dedup[j].alarm
  BY <1>5
<1>10. Slotted \subseteq Slotted'
  BY <1>7, <1>9 DEF Slotted
<1>11. n = DedupSlots => Slotted' \subseteq Slotted /\ Len(dedup') = DedupSlots
  <2> SUFFICES ASSUME n = DedupSlots
               PROVE  Slotted' \subseteq Slotted /\ Len(dedup') = DedupSlots
    OBVIOUS
  <2>1. DOMAIN dedup' = DOMAIN dedup
    BY <1>2, <1>6, <1>7, AlarmAssumption
  <2>2. Slotted' \subseteq Slotted
    BY <1>9, <2>1 DEF Slotted
  <2>3. Len(dedup') = n
    BY <1>2, <1>8, <2>1
  <2>4. QED BY <2>2, <2>3
<1>12. a \notin Slotted' => n = DedupSlots
  <2> SUFFICES ASSUME a \notin Slotted', n # DedupSlots PROVE FALSE
    OBVIOUS
  <2>1. a \notin Slotted /\ n < DedupSlots
    <3>1. a \notin Slotted
      BY <1>10
    <3>2. n < DedupSlots
      <4> HIDE DEF n
      <4>1. n \in Nat /\ n <= DedupSlots
        BY <1>2, Zenon
      <4>2. QED BY <4>1, Sizes
    <3>3. QED BY <3>1, <3>2
  <2>2. n + 1 \in DOMAIN dedup' /\ n + 1 \notin DOMAIN dedup
    <3>1. n + 1 \in DOMAIN Stamped(a)
      BY <2>1, StampedTable
    <3>2. n + 1 \notin 1..n
      BY <1>2
    <3>3. QED BY <1>1, <1>2, <3>1, <3>2
  <2>3. QED BY <1>6, <2>2 DEF Slotted
<1>13. \A j \in DOMAIN dedup' : since'[dedup'[j].alarm] = dedup'[j].age
  <2> SUFFICES ASSUME NEW j \in DOMAIN dedup' PROVE since'[dedup'[j].alarm] = dedup'[j].age
    OBVIOUS
  <2>1. CASE dedup'[j] = e
    BY <1>4, <2>1
  <2>2. CASE j \in DOMAIN dedup /\ dedup'[j] = dedup[j] /\ dedup[j].alarm # a
    <3>1. dedup[j] \in Slot
      BY <1>2, <2>2, ElementOfSeq
    <3>2. dedup[j].alarm \in Alarms
      BY <3>1 DEF Slot
    <3>3. QED BY <1>3, <1>4, <2>2, <3>2
  <2>3. QED BY <1>5, <1>6, <2>1, <2>2
<1>14. \A b \in Alarms \ Slotted' : since'[b] # None => Len(dedup') = DedupSlots
  BY <1>3, <1>4, <1>10, <1>11, <1>12
<1>15. \A b \in early' : b \notin Slotted' /\ Len(dedup') = DedupSlots
  <2> SUFFICES ASSUME NEW b \in early' PROVE b \notin Slotted /\ n = DedupSlots
    BY <1>11
  <2>1. CASE b \in early
    BY <1>3, <2>1
  <2>2. CASE b = a /\ since[a] \in 0..(Cooldown - 1)
    <3>1. a \notin Slotted
      <4> SUFFICES ASSUME a \in Slotted PROVE FALSE
        OBVIOUS
      <4>1. PICK j \in DOMAIN dedup : dedup[j].alarm = a
        BY DEF Slotted
      <4>2. dedup[j].age < Cooldown
        BY <1>3, <2>2, <4>1, AlarmAssumption
      <4>3. QED BY <4>1, <4>2 DEF Suppressed
    <3>2. since[a] # None
      BY <2>2, AlarmAssumption DEF None
    <3>3. QED BY <1>3, <2>2, <3>1, <3>2
  <2>3. QED BY <1>1, <2>1, <2>2
<1>16. QED BY <1>13, <1>14, <1>15 DEF CoolingOK, RepeatOnlyWithoutSlot

(* An alarm is raised again within the cooldown only if the table of the   *)
(* times was full when it came first, and what is out of its thresholds is *)
(* never passed over.                                                      *)
LEMMA CoolingCorrect == Spec => [](TypeOK /\ CoolingOK)
<1> USE DEF list, screen, settings, cooling
<1>1. Init => CoolingOK
  <2> SUFFICES ASSUME Init PROVE CoolingOK
    OBVIOUS
  <2>1. dedup = <<>> /\ since = NotYet /\ early = {} /\ DOMAIN <<>> = {}
    BY DEF Init
  <2>2. QED BY <2>1 DEF CoolingOK, RepeatOnlyWithoutSlot, NotYet
<1>2. TypeOK /\ CoolingOK /\ [Next]_vars => CoolingOK'
  <2> SUFFICES ASSUME TypeOK, CoolingOK, [Next]_vars PROVE CoolingOK'
    OBVIOUS
  <2>1. CASE UNCHANGED cooling
    BY <2>1 DEF CoolingOK, RepeatOnlyWithoutSlot, Slotted
  <2>2. CASE dedup' = <<>> /\ since' = NotYet /\ early' = {}
    BY <2>2, CoolingReset
  <2>3. CASE Tick
    <3>1. /\ dedup' = [j \in DOMAIN dedup |-> [dedup[j] EXCEPT !.age = Older(@)]]
          /\ since' = [a \in Alarms |-> Older(since[a])] /\ early' = early
      BY <2>3 DEF Tick
    <3>2. /\ dedup \in Seq(Slot) /\ Len(dedup) \in Nat /\ DOMAIN dedup = 1..Len(dedup)
          /\ since \in [Alarms -> {None} \cup 0..Cooldown] /\ early \subseteq Alarms
      BY DEF TypeOK, Slot
    <3>3. \A j \in DOMAIN dedup : dedup[j] \in Slot
      BY <3>2, ElementOfSeq
    <3>4. \A j \in DOMAIN dedup : /\ dedup'[j].alarm = dedup[j].alarm
                                  /\ dedup'[j].age = Older(dedup[j].age)
      BY <3>1, <3>3 DEF Slot
    <3>5. DOMAIN dedup' = DOMAIN dedup /\ Len(dedup') = Len(dedup)
      BY <3>1, <3>2
    <3>6. Slotted' = Slotted
      BY <3>4, <3>5 DEF Slotted
    <3>7. \A j \in DOMAIN dedup' : since'[dedup'[j].alarm] = dedup'[j].age
      BY <3>1, <3>3, <3>4, <3>5 DEF CoolingOK, Slot
    <3>8. \A a \in Alarms : since'[a] # None => since[a] # None
      BY <3>1, <3>2, OlderType
    <3>9. QED BY <3>1, <3>5, <3>6, <3>7, <3>8 DEF CoolingOK, RepeatOnlyWithoutSlot
  <2>4. CASE AlarmMgrCheck
    <3> DEFINE a == Alarm(Head(todo))
    <3>1. \/ ~Suppressed(a) /\ AddRecord(a)
          \/ UNCHANGED cooling
      BY <2>4 DEF AlarmMgrCheck, AfterSuppressed
    <3>2. a \in Alarms
      BY <2>4, NextComparison DEF AlarmMgrCheck
    <3> HIDE DEF a
    <3>3. QED BY <2>1, <3>1, <3>2, CoolingAfterRecord
  <2>5. \/ UNCHANGED cooling
        \/ dedup' = <<>> /\ since' = NotYet /\ early' = {}
        \/ Tick \/ AlarmMgrCheck
    BY DEF Next, User, UiTimer, vars, LvglUiUpdateData, TakeSample, ShowAlarms, SwitchPage,
           ClearAll, SetThreshold, SaveThreshold, PowerFails
  <2>6. QED BY <2>1, <2>2, <2>3, <2>4, <2>5
<1>3. QED BY <1>1, <1>2, TypeCorrect, PTL DEF Spec

(* An alarm is raised again within the cooldown only if the table of the   *)
(* times was full when it came first.                                      *)
THEOREM RepeatsExplained == Spec => []RepeatOnlyWithoutSlot
<1>1. CoolingOK => RepeatOnlyWithoutSlot
  BY DEF CoolingOK
<1>2. QED BY <1>1, CoolingCorrect, PTL

(* What is out of its thresholds has a record of the cooldown's time after *)
(* the comparison.                                                         *)
THEOREM NothingMissed == Spec => NoMissedAlarm
<1>1. TypeOK /\ CoolingOK /\ [Next]_vars => [Recorded]_vars
  <2> SUFFICES ASSUME TypeOK, CoolingOK, Next,
                      ui = "check", ui' = "check", todo # <<>>, todo' # todo,
                      Exceeds(Head(todo))
               PROVE  since'[Alarm(Head(todo))] \in 0..(Cooldown - 1)
    BY DEF Recorded
  <2> DEFINE a == Alarm(Head(todo))
  <2>1. AlarmMgrCheck
    BY DEF Next, User, UiTimer, LvglUiUpdateData, Tick, TakeSample, ShowAlarms, SwitchPage,
           ClearAll, SetThreshold, SaveThreshold, PowerFails
  <2>2. a \in Alarms
    BY NextComparison
  <2>3. \/ AddRecord(a)
        \/ Suppressed(a) /\ UNCHANGED since
    BY <2>1 DEF AlarmMgrCheck
  <2> HIDE DEF a
  <2>4. CASE AddRecord(a)
    <3>1. since'[a] = 0
      BY <2>2, <2>4 DEF AddRecord, TypeOK
    <3>2. 0 \in 0..(Cooldown - 1)
      BY Sizes
    <3>3. QED BY <3>1, <3>2 DEF a
  <2>5. CASE Suppressed(a) /\ UNCHANGED since
    <3>1. PICK j \in DOMAIN dedup : dedup[j].alarm = a /\ dedup[j].age < Cooldown
      BY <2>5 DEF Suppressed
    <3>2. dedup \in Seq(Slot)
      BY DEF TypeOK, Slot
    <3>3. dedup[j].age \in 0..Cooldown
      <4>1. dedup[j] \in Slot
        BY <3>2, ElementOfSeq
      <4>2. QED BY <4>1 DEF Slot
    <3>4. since[a] = dedup[j].age
      BY <3>1 DEF CoolingOK
    <3>5. dedup[j].age \in 0..(Cooldown - 1)
      BY <3>1, <3>3, Sizes
    <3>6. QED BY <2>5, <3>4, <3>5 DEF a
  <2>6. QED BY <2>3, <2>4, <2>5 DEF a
<1>2. QED BY <1>1, CoolingCorrect, PTL DEF Spec, NoMissedAlarm

-----------------------------------------------------------------------------
(* No alarm takes two slots of the table.                                  *)
SlotsDistinct ==
    \A i, j \in DOMAIN dedup : dedup[i].alarm = dedup[j].alarm => i = j

(* A slot is appended only for an alarm that has none.                     *)
LEMMA StampedDistinct ==
    ASSUME TypeOK, SlotsDistinct, NEW a \in Alarms, dedup' = Stamped(a)
    PROVE  SlotsDistinct'
<1>1. /\ \A j \in DOMAIN dedup : dedup'[j].alarm = dedup[j].alarm
      /\ \A j \in DOMAIN dedup' \ DOMAIN dedup :
            dedup'[j].alarm = a /\ a \notin Slotted /\ j = Len(dedup) + 1
  <2>1. /\ \A j \in DOMAIN dedup :
              dedup'[j] = IF dedup[j].alarm = a THEN [alarm |-> a, age |-> 0] ELSE dedup[j]
        /\ \A j \in DOMAIN dedup' \ DOMAIN dedup :
              /\ dedup'[j] = [alarm |-> a, age |-> 0]
              /\ a \notin Slotted /\ j = Len(dedup) + 1
    BY StampedTable
  <2>2. QED BY <2>1
<1>2. SUFFICES ASSUME NEW i \in DOMAIN dedup', NEW j \in DOMAIN dedup',
                      dedup'[i].alarm = dedup'[j].alarm
               PROVE  i = j
  BY DEF SlotsDistinct
<1>3. CASE i \in DOMAIN dedup /\ j \in DOMAIN dedup
  BY <1>1, <1>2, <1>3 DEF SlotsDistinct
<1>4. CASE i \notin DOMAIN dedup /\ j \notin DOMAIN dedup
  BY <1>1, <1>4
<1>5. CASE i \in DOMAIN dedup /\ j \notin DOMAIN dedup
  BY <1>1, <1>2, <1>5 DEF Slotted
<1>6. CASE i \notin DOMAIN dedup /\ j \in DOMAIN dedup
  BY <1>1, <1>2, <1>6 DEF Slotted
<1>7. QED BY <1>3, <1>4, <1>5, <1>6

LEMMA DistinctKept == Spec => []SlotsDistinct
<1> USE DEF list, screen, settings, cooling
<1>1. Init => SlotsDistinct
  <2>1. DOMAIN <<>> = {}
    OBVIOUS
  <2>2. QED BY <2>1 DEF Init, SlotsDistinct
<1>2. TypeOK /\ SlotsDistinct /\ [Next]_vars => SlotsDistinct'
  <2> SUFFICES ASSUME TypeOK, SlotsDistinct, [Next]_vars PROVE SlotsDistinct'
    OBVIOUS
  <2>1. CASE UNCHANGED dedup
    BY <2>1 DEF SlotsDistinct
  <2>2. CASE dedup' = <<>>
    <3>1. DOMAIN <<>> = {}
      OBVIOUS
    <3>2. QED BY <2>2, <3>1 DEF SlotsDistinct
  <2>3. CASE Tick
    <3>1. dedup \in Seq(Slot)
      BY DEF TypeOK, Slot
    <3>2. \A j \in DOMAIN dedup : dedup[j] \in Slot
      BY <3>1, ElementOfSeq
    <3>3. /\ DOMAIN dedup' = DOMAIN dedup
          /\ \A j \in DOMAIN dedup : dedup'[j].alarm = dedup[j].alarm
      BY <2>3, <3>2 DEF Tick, Slot
    <3>4. QED BY <3>3 DEF SlotsDistinct
  <2>4. CASE AlarmMgrCheck
    <3> DEFINE a == Alarm(Head(todo))
    <3>1. dedup' = Stamped(a) \/ UNCHANGED dedup
      BY <2>4 DEF AlarmMgrCheck, AddRecord, AfterSuppressed
    <3>2. a \in Alarms
      BY <2>4, NextComparison DEF AlarmMgrCheck
    <3> HIDE DEF a
    <3>3. QED BY <2>1, <3>1, <3>2, StampedDistinct
  <2>5. UNCHANGED dedup \/ dedup' = <<>> \/ Tick \/ AlarmMgrCheck
    BY DEF Next, User, UiTimer, vars, LvglUiUpdateData, TakeSample, ShowAlarms, SwitchPage,
           ClearAll, SetThreshold, SaveThreshold, PowerFails
  <2>6. QED BY <2>1, <2>2, <2>3, <2>4, <2>5
<1>3. QED BY <1>1, <1>2, TypeCorrect, PTL DEF Spec

(* A full table that has no slot for some alarm holds fewer alarms than    *)
(* there are.                                                              *)
LEMMA FullTable ==
    ASSUME TypeOK, SlotsDistinct, IsFiniteSet(Alarms),
           NEW a \in Alarms, a \notin Slotted, Len(dedup) = DedupSlots
    PROVE  DedupSlots < Cardinality(Alarms)
<1> DEFINE others == Alarms \ {a}
           f == [j \in 1..DedupSlots |-> dedup[j].alarm]
<1>1. dedup \in Seq(Slot) /\ DOMAIN dedup = 1..DedupSlots
  BY DEF TypeOK, Slot
<1>2. \A j \in 1..DedupSlots : dedup[j].alarm \in others
  <2>1. \A j \in 1..DedupSlots : dedup[j] \in Slot
    BY <1>1, ElementOfSeq
  <2>2. QED BY <1>1, <2>1 DEF Slot, Slotted
<1>3. f \in Injection(1..DedupSlots, others)
  BY <1>1, <1>2 DEF Injection, IsInjective, SlotsDistinct
<1>4. /\ IsFiniteSet(others) /\ Cardinality(others) = Cardinality(Alarms) - 1
      /\ Cardinality(Alarms) \in Nat
  BY FS_RemoveElement, FS_CardinalityType
<1>5. Cardinality(1..DedupSlots) <= Cardinality(others)
  <2> HIDE DEF f, others
  <2>1. QED BY <1>3, <1>4, FS_Injection
<1>6. Cardinality(1..DedupSlots) = DedupSlots
  BY Sizes, FS_Interval
<1>7. QED BY <1>4, <1>5, <1>6, Sizes

(* What alarm_mgr.c:22 says holds as long as every alarm can have its slot *)
(* (DEDUP_SLOTS is 64; the board and each device can raise eight and four  *)
(* different alarms): then none is raised again within 30 seconds unless   *)
(* the list was cleared or the thresholds were changed.                    *)
THEOREM CooldownKept ==
    ASSUME IsFiniteSet(Alarms), Cardinality(Alarms) <= DedupSlots
    PROVE  Spec => [](early = {})
<1>1. TypeOK /\ SlotsDistinct /\ RepeatOnlyWithoutSlot => early = {}
  <2> SUFFICES ASSUME TypeOK, SlotsDistinct, RepeatOnlyWithoutSlot, NEW a \in early
               PROVE  FALSE
    OBVIOUS
  <2>1. a \in Alarms /\ a \notin Slotted /\ Len(dedup) = DedupSlots
    BY DEF TypeOK, RepeatOnlyWithoutSlot
  <2>2. DedupSlots < Cardinality(Alarms)
    BY <2>1, FullTable
  <2>3. Cardinality(Alarms) \in Nat
    BY FS_CardinalityType
  <2>4. QED BY <2>2, <2>3, Sizes
<1>2. QED BY <1>1, TypeCorrect, DistinctKept, RepeatsExplained, PTL
=============================================================================
