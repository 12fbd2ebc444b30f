-------------------------------- MODULE AlarmMgr --------------------------------
(***************************************************************************)
(* Alarms: core/alarm_mgr.c with the UI thread that calls it (lvgl_ui.c,   *)
(* ui_alarm.c, ui_settings.c) and the thresholds in the database           *)
(* (storage.c).                                                            *)
(*                                                                         *)
(* Only the UI thread runs this code; it is interleaved with the thread    *)
(* that hands over samples, with the clock, and with power failures.  A    *)
(* check makes one step of each comparison, since the time is read and the *)
(* database is written for each of them; time goes by in between.          *)
(*                                                                         *)
(* Times are kept as ages, which stop counting at the cooldown, and the    *)
(* version of the list as the answer to the only question asked about it,  *)
(* whether it differs from the version drawn last.                         *)
(***************************************************************************)
EXTENDS Integers, Sequences

CONSTANTS
    Points,         \* what is measured: a quantity of a device or of the board
    Values,         \* measured values and bounds
    Samples,        \* samples: sequences of readings [point, val]
    Settings,       \* thresholds a user may set: Points -> [min, max], equal
                    \* for points of the same quantity
    Default,        \* the thresholds of StorageLoadThreshold
    DedupSlots,     \* DEDUP_SLOTS
    MaxRecords,     \* ALARM_MAX_RECORDS
    Cooldown,       \* ALARM_COOLDOWN_SEC
    NoSample,       \* nothing new to show
    MaxRestart      \* bound of the model: how often the power fails

Bounds == [min : Values, max : Values]
Reading == [point : Points, val : Values]

ASSUME AlarmAssumption ==
    /\ Values \subseteq Int
    /\ Samples \subseteq Seq(Reading) /\ NoSample \notin Samples
    /\ Settings \subseteq [Points -> Bounds] /\ Default \in [Points -> Bounds]
    /\ DedupSlots \in Nat \ {0} /\ MaxRecords \in Nat \ {0} /\ Cooldown \in Nat \ {0}
    /\ MaxRestart \in Nat

Alarms == Points \X {"high", "low"}     \* type and source
None == -1                              \* not recorded since the last reset

VARIABLES
    slot,       \* latest_data, or NoSample when has_new_data is 0
    ui, page,   \* UI thread: where it is; g_current_page
    todo,       \* AlarmMgrCheck: comparisons still to be made
    threshold,  \* threshold
    saved,      \* the row of alert_thresholds, the defaults while there is none
    dedup,      \* g_dedup up to g_dedup_count, with ages for last_ts
    records,    \* alarm_list.records up to count, with whether it is in alarm_log
    unread,     \* alarm_list.unread > 0
    changed,    \* alarm_list.version # g_last_alarm_version
    drawn,      \* what the alarm page shows
    icon,       \* the alarm symbol of the status bar
    restarts,   \* power failures so far
    since,      \* history: age of the last record of an alarm since a reset
    early,      \* history: alarms recorded again within the cooldown
    chosen,     \* history: what the user has set last, or the row at first
    unsaved,    \* history: that has not been saved
    misread     \* history: the row could not be read at the last start, and
                \* nothing has been set since

list == <<records, unread, changed>>
screen == <<page, drawn, icon>>
settings == <<threshold, saved, chosen, unsaved, misread>>
cooling == <<dedup, since, early>>
vars == <<slot, ui, todo, settings, list, screen, cooling, restarts>>

NotYet == [a \in Alarms |-> None]
Slotted == {dedup[j].alarm : j \in DOMAIN dedup}

-----------------------------------------------------------------------------
(* StorageLoadThreshold: the row, unless the SELECT fails.  Then the        *)
(* defaults are in force, and are inserted unless there is a row; nobody    *)
(* is told.                                                                *)
Inserted_Replaces == Default    \* mutant: INSERT OR REPLACE
Inserted == saved

LoadThreshold ==
    \/ threshold' = saved /\ misread' = FALSE /\ UNCHANGED saved
    \/ threshold' = Default /\ misread' = TRUE /\ saved' = Inserted

(* AlarmMgrInit, with whatever row there is.                               *)
Init ==
    /\ slot = NoSample /\ ui = "idle" /\ todo = <<>>
    /\ saved \in Settings \cup {Default} /\ chosen = saved /\ unsaved = FALSE
    /\ misread \in BOOLEAN /\ threshold = IF misread THEN Default ELSE saved
    /\ dedup = <<>> /\ since = NotYet /\ early = {}
    /\ records = <<>> /\ unread = FALSE /\ changed = TRUE
    /\ page = "login" /\ drawn = <<>> /\ icon = FALSE
    /\ restarts = 0

(* The program starts again with what the database holds.                  *)
PowerFails ==
    /\ restarts < MaxRestart /\ restarts' = restarts + 1
    /\ slot' = NoSample /\ ui' = "idle" /\ todo' = <<>>
    /\ LoadThreshold
    /\ dedup' = <<>> /\ since' = NotYet /\ early' = {}
    /\ records' = <<>> /\ unread' = FALSE /\ changed' = TRUE
    /\ page' = "login" /\ drawn' = <<>> /\ icon' = FALSE
    /\ UNCHANGED <<chosen, unsaved>>

(* LvglUiUpdateData: the newest sample replaces one not looked at yet.     *)
LvglUiUpdateData ==
    /\ slot' \in Samples
    /\ UNCHANGED <<ui, todo, settings, list, screen, cooling, restarts>>

(* A second passes.                                                        *)
Older(age) == IF age = None \/ age = Cooldown THEN age ELSE age + 1

Tick ==
    /\ dedup' = [j \in DOMAIN dedup |-> [dedup[j] EXCEPT !.age = Older(@)]]
    /\ since' = [a \in Alarms |-> Older(since[a])]
    /\ UNCHANGED <<slot, ui, todo, settings, list, screen, early, restarts>>

-----------------------------------------------------------------------------
(* A reading is compared with its upper, then with its lower threshold.    *)
Comparisons(s) ==
    [k \in 1..(2 * Len(s)) |->
        [reading |-> s[(k + 1) \div 2], side |-> IF k % 2 = 1 THEN "high" ELSE "low"]]

Alarm(c) == <<c.reading.point, c.side>>

Exceeds(c) ==
    LET bounds == threshold[c.reading.point]
    IN  IF c.side = "high" THEN c.reading.val > bounds.max ELSE c.reading.val < bounds.min

(* dedup_check                                                             *)
Suppressed(a) == \E j \in DOMAIN dedup : dedup[j].alarm = a /\ dedup[j].age < Cooldown

(* Mutant: a new slot is taken even if there is one.                       *)
Stamped_Appends(a) ==
    IF Len(dedup) < DedupSlots THEN Append(dedup, [alarm |-> a, age |-> 0]) ELSE dedup

Stamped(a) ==
    IF a \in Slotted
    THEN [j \in DOMAIN dedup |-> IF dedup[j].alarm = a THEN [alarm |-> a, age |-> 0]
                                                       ELSE dedup[j]]
    ELSE IF Len(dedup) < DedupSlots THEN Append(dedup, [alarm |-> a, age |-> 0]) ELSE dedup

(* Mutant: the time is noted although the alarm is suppressed.             *)
AfterSuppressed_Stamped(a) == Stamped(a)
AfterSuppressed(a) == dedup

(* The oldest record makes room for a new one.                             *)
Room_NotMade == records         \* mutant: the array grows
Room == IF Len(records) >= MaxRecords THEN Tail(records) ELSE records

Bumped_Not == changed           \* mutant: version++ is forgotten
Bumped == TRUE

(* Whether the record is persisted: not when the storage lock is taken or  *)
(* the INSERT fails.                                                       *)
StorageInsertAlarm == BOOLEAN

(* add_record                                                              *)
AddRecord(a) ==
    /\ \E logged \in StorageInsertAlarm : records' = Append(Room, [alarm |-> a, logged |-> logged])
    /\ unread' = TRUE /\ changed' = Bumped
    /\ dedup' = Stamped(a)
    /\ since' = [since EXCEPT ![a] = 0]
    /\ early' = IF since[a] \in 0..(Cooldown - 1) THEN early \cup {a} ELSE early

(* ui_alarm_refresh, for the list l: the newest record comes first.        *)
Drawing(l) == [j \in DOMAIN l |-> l[Len(l) + 1 - j].alarm]

Refresh(l, differs) ==
    /\ drawn' = IF differs THEN Drawing(l) ELSE drawn
    /\ changed' = FALSE

-----------------------------------------------------------------------------
(* The UI thread: update_timer_cb                                          *)

TakeSample ==
    /\ ui = "idle" /\ slot # NoSample
    /\ slot' = NoSample /\ ui' = "check" /\ todo' = Comparisons(slot)
    /\ UNCHANGED <<settings, list, screen, cooling, restarts>>

(* One comparison of AlarmMgrCheck, with the add_record it may call.       *)
AlarmMgrCheck ==
    /\ ui = "check" /\ todo # <<>> /\ todo' = Tail(todo)
    /\ LET c == Head(todo)
           a == Alarm(c)
       IN  \/ Exceeds(c) /\ ~Suppressed(a) /\ AddRecord(a)
           \/ /\ Exceeds(c) /\ Suppressed(a)
              /\ dedup' = AfterSuppressed(a)
              /\ UNCHANGED <<list, since, early>>
           \/ ~Exceeds(c) /\ UNCHANGED <<list, cooling>>
    /\ UNCHANGED <<slot, ui, settings, screen, restarts>>

(* The rest of update_timer_cb.                                            *)
ShowAlarms ==
    /\ ui = "check" /\ todo = <<>> /\ ui' = "idle"
    /\ icon' = unread
    /\ IF page = "alarm" THEN Refresh(records, changed) ELSE UNCHANGED <<drawn, changed>>
    /\ UNCHANGED <<slot, page, todo, settings, records, unread, cooling, restarts>>

-----------------------------------------------------------------------------
(* The UI thread: what the user does                                       *)

(* ui_switch_page refreshes the alarm page, which cannot be reached from   *)
(* the login page in one step.  Roles are left out.                        *)
SwitchPage ==
    /\ ui = "idle" /\ page' \in {"login", "alarm", "other"}
    /\ page = "login" => page' # "alarm"
    /\ IF page' = "alarm" THEN Refresh(records, changed) ELSE UNCHANGED <<drawn, changed>>
    /\ UNCHANGED <<slot, ui, icon, todo, settings, records, unread, cooling, restarts>>

(* AlarmMgrClearAll; the symbol in the status bar stays until the next     *)
(* sample.                                                                 *)
ClearAll ==
    /\ ui = "idle" /\ page = "alarm"
    /\ records' = <<>> /\ unread' = FALSE
    /\ Refresh(<<>>, Bumped)
    /\ dedup' = <<>> /\ since' = NotYet /\ early' = {}
    /\ UNCHANGED <<slot, ui, page, icon, todo, settings, restarts>>

(* AlarmMgrSetThreshold: the thresholds are in force before they are saved.*)
SetThreshold ==
    /\ ui = "idle" /\ page = "other"
    /\ threshold' \in Settings /\ ui' = "save"
    /\ chosen' = threshold' /\ unsaved' = TRUE /\ misread' = FALSE
    /\ dedup' = <<>> /\ since' = NotYet /\ early' = {}
    /\ UNCHANGED <<slot, todo, saved, list, screen, restarts>>

SaveThreshold ==
    /\ ui = "save" /\ ui' = "idle"
    /\ \/ saved' = threshold /\ unsaved' = FALSE
       \/ UNCHANGED <<saved, unsaved>>
    /\ UNCHANGED <<slot, todo, threshold, chosen, misread, list, screen, cooling, restarts>>

-----------------------------------------------------------------------------
User == SwitchPage \/ ClearAll \/ SetThreshold
UiTimer == AlarmMgrCheck \/ ShowAlarms

Next == LvglUiUpdateData \/ Tick \/ TakeSample \/ UiTimer \/ User \/ SaveThreshold \/ PowerFails

Spec == Init /\ [][Next]_vars

(* Samples keep coming, time passes, and the UI thread goes on with what   *)
(* it has begun.  The timer comes round every 200 ms however busy the user *)
(* is, so that taking a sample is not put off for ever.                    *)
FairSpec ==
    /\ Spec
    /\ WF_vars(LvglUiUpdateData) /\ WF_vars(Tick) /\ WF_vars(UiTimer \/ SaveThreshold)
    /\ SF_vars(TakeSample)

-----------------------------------------------------------------------------
(* Every variable keeps its type; records and slots stay within their      *)
(* arrays.                                                                 *)
TypeOK ==
    /\ slot \in Samples \cup {NoSample}
    /\ ui \in {"idle", "check", "save"} /\ page \in {"login", "alarm", "other"}
    /\ todo \in Seq([reading : Reading, side : {"high", "low"}])
    /\ {threshold, saved, chosen} \subseteq [Points -> Bounds]
    /\ dedup \in Seq([alarm : Alarms, age : 0..Cooldown]) /\ Len(dedup) <= DedupSlots
    /\ records \in Seq([alarm : Alarms, logged : BOOLEAN]) /\ Len(records) <= MaxRecords
    /\ {unread, changed, icon, unsaved, misread} \subseteq BOOLEAN
    /\ drawn \in Seq(Alarms)
    /\ restarts \in 0..MaxRestart
    /\ since \in [Alarms -> {None} \cup 0..Cooldown] /\ early \subseteq Alarms

(* The comment at alarm_mgr.c:22 says that an alarm is not raised again    *)
(* within 30 seconds.  It is only if the table of the times was full when  *)
(* it came first, or if clearing or new thresholds have reset the table.   *)
RepeatOnlyWithoutSlot ==
    \A a \in early : a \notin Slotted /\ Len(dedup) = DedupSlots

(* What is out of its thresholds is not passed over: after the comparison  *)
(* the alarm has a record that is younger than the cooldown and was made   *)
(* since the last reset.                                                   *)
Recorded ==
    ui = "check" /\ ui' = "check" /\ todo # <<>> /\ todo' # todo /\ Exceeds(Head(todo))
       => since'[Alarm(Head(todo))] \in 0..(Cooldown - 1)

NoMissedAlarm == [][Recorded]_vars

(* The alarm page shows the list as it is, although it is drawn again only *)
(* when the version has changed.                                           *)
DrawnIsCurrent == page = "alarm" /\ ui = "idle" => drawn = Drawing(records)

(* What the user has set is kept (line 158 of the document): once it is    *)
(* saved the row says it, through power failures and starts that cannot    *)
(* read the row, so that the next good start brings it back.  In force is  *)
(* what was set, or the row if that was not saved, or the defaults after   *)
(* a start that could not read the row.                                    *)
ThresholdsKept ==
    /\ unsaved \/ saved = chosen
    /\ \/ threshold = chosen
       \/ unsaved /\ threshold = saved
       \/ misread /\ threshold = Default

(* An alarm that does not go away is recorded again and again, however     *)
(* often the cooldown suppresses it and the user clears the list.          *)
Lasts(a) ==
    slot = NoSample \/ \E k \in 1..(2 * Len(slot)) :
        Alarm(Comparisons(slot)[k]) = a /\ Exceeds(Comparisons(slot)[k])

AlarmRepeats ==
    \A a \in Alarms : <>[]Lasts(a) => []<>(since[a] = 0)
=============================================================================
