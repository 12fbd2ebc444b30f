----------------------------- MODULE ConsoleProofs -----------------------------
(***************************************************************************)
(* Theorems about Console: what the screen shows belongs to the role, no   *)
(* dialog is left behind, the password is kept, one query runs at a time   *)
(* and the answer shown is that of the last one.                           *)
(***************************************************************************)
EXTENDS Console, CredentialsProofs

-----------------------------------------------------------------------------
(* The screen.  Asking for more rights relies on where the dialog may be,  *)
(* and the dialogs on whom the pages are shown to.                         *)
ScreenOK == ScreenMatchesRole /\ NoDialogLeft

(* Both leave the screen as it is, but for the time picker.                *)
LEMMA TrendPageKeepsScreen ==
    ASSUME ScreenOK, TrendPage \/ update_timer_cb \/ \E t \in Threads : QueryThread(t)
    PROVE  ScreenOK'
<1>1. UNCHANGED session /\ process = "runs"
  BY DEF TrendPage, Touchable, update_timer_cb, QueryThread
<1>2. picker' => page = "trend"
  <2>1. CASE TrendPage
    BY <2>1 DEF TrendPage, Touchable
  <2>2. CASE update_timer_cb \/ \E t \in Threads : QueryThread(t)
    <3>1. picker' = picker
      BY <2>2 DEF update_timer_cb, ui_trend_update, trend, QueryThread, query_thread_func,
           Allocate, StorageQueryDataEntries, Publish, Clear
    <3>. QED
      BY <1>1, <3>1 DEF ScreenOK, NoDialogLeft
  <2>. QED
    BY <2>1, <2>2
<1>. QED
  BY <1>1, <1>2 DEF ScreenOK, ScreenMatchesRole, NoDialogLeft, session, bars

LEMMA StepKeepsScreen == ScreenOK /\ [Next]_vars => ScreenOK'
<1> SUFFICES ASSUME ScreenOK, [Next]_vars PROVE ScreenOK'
  OBVIOUS
<1> USE DEF ScreenOK, ScreenMatchesRole, NoDialogLeft
<1>1. ASSUME NEW pwd \in Typed, kb_event_cb(pwd) PROVE ScreenOK'
  <2>1. role' \in {"operator", "admin"} /\ page' = "dashboard" /\ navBar' = TRUE
    BY <1>1 DEF kb_event_cb, RoleOf, ui_switch_page
  <2>2. roleLabel' = role' /\ settingsTab' = (role' = "admin")
        /\ switchBtn' = IF role' = "operator" THEN "Switch" ELSE "Logout"
    BY <1>1, <2>1 DEF kb_event_cb, ui_status_bar_set_role, ui_nav_bar_update_visibility
  <2>3. dialog' = "none" /\ picker' = FALSE
    BY <1>1 DEF kb_event_cb, ui_switch_page, ui_trend_close_picker
  <2>. QED
    BY <2>1, <2>2, <2>3 DEF Tabs
<1>2. ASSUME NEW pwd \in Typed, Elevate(pwd) PROVE ScreenOK'
  <2>1. role = "operator" /\ process = "runs"
    BY <1>2 DEF Elevate
  <2>2. role' = "admin" /\ page' = "settings" /\ navBar' = navBar
    BY <1>2 DEF Elevate, ui_switch_page
  <2>3. roleLabel' = "admin" /\ settingsTab' = TRUE /\ switchBtn' = "Logout"
    BY <1>2 DEF Elevate, ui_status_bar_set_role, ui_nav_bar_update_visibility
  <2>4. dialog' = "none" /\ picker' = FALSE
    BY <1>2 DEF Elevate, ui_switch_page, ui_trend_close_picker
  <2>. QED
    BY <2>1, <2>2, <2>3, <2>4
<1>3. ASSUME NEW pwd \in Typed, Refuse(pwd) PROVE ScreenOK'
  <2>1. role' = role /\ dialog' = "none"
    BY <1>3 DEF Refuse
  <2>. QED
    BY <1>3, <2>1 DEF Refuse, bars, trend
<1>4. CASE show_admin_pwd_dialog
  BY <1>4 DEF show_admin_pwd_dialog, Touchable, bars, trend
<1>5. CASE switch_user_btn_cb \/ logout_btn_event_cb
  <2>1. /\ role' = "none" /\ page' = "login" /\ navBar' = FALSE
        /\ roleLabel' = "none" /\ switchBtn' = "hidden"
        /\ dialog' = "none" /\ picker' = FALSE
    BY <1>5 DEF switch_user_btn_cb, logout_btn_event_cb, AuthLogout, ui_switch_page,
         ui_trend_close_picker, ui_status_bar_set_role
  <2>. QED
    BY <2>1
<1>6. CASE Cancel \/ CloseBox
  BY <1>6 DEF Cancel, CloseBox, bars, trend
<1>7. ASSUME NEW target \in Tabs, nav_btn_event_cb(target) PROVE ScreenOK'
  <2>1. page' = target /\ page \in Tabs /\ UNCHANGED <<role, bars>>
        /\ (target = "settings" => role = "admin")
    BY <1>7 DEF nav_btn_event_cb, ui_switch_page, Touchable
  <2>2. dialog' = "none" /\ picker' = FALSE
    BY <1>7 DEF nav_btn_event_cb, ui_switch_page, ui_trend_close_picker
  <2>. QED
    BY <2>1, <2>2 DEF bars, Tabs
<1>8. CASE pwd_btn_event_cb
  BY <1>8 DEF pwd_btn_event_cb, session, bars, trend
<1>9. CASE TrendPage \/ update_timer_cb \/ \E t \in Threads : QueryThread(t)
  BY <1>9, TrendPageKeepsScreen
<1>10. CASE PowerFails
  BY <1>10 DEF PowerFails, ui_trend_create_again
<1>11. CASE UNCHANGED vars
  BY <1>11 DEF vars, session, bars, trend
<1>. QED
  BY <1>1, <1>2, <1>3, <1>4, <1>5, <1>6, <1>7, <1>8, <1>9, <1>10, <1>11 DEF Next

THEOREM ScreenInvariant == Spec => []ScreenOK
<1>1. Init => ScreenOK
  BY DEF Init, ui_common_init, ui_trend_create, ScreenOK, ScreenMatchesRole, NoDialogLeft
<1>. QED
  BY <1>1, StepKeepsScreen, PTL DEF Spec

(* Label, buttons, bar and page belong to the role that is logged in.      *)
THEOREM ScreenCorrect == Spec => []ScreenMatchesRole
BY ScreenInvariant, PTL DEF ScreenOK

(* The dialogs are only where they belong.                                 *)
THEOREM DialogsCorrect == Spec => []NoDialogLeft
BY ScreenInvariant, PTL DEF ScreenOK

-----------------------------------------------------------------------------
(* The query.                                                              *)
asked == <<loading, ready, answer, chart, info, pc, found, stuck>>

(* Every step is one of these, as far as the query is concerned.           *)
LEMMA TrendSteps ==
    ASSUME [Next]_vars
    PROVE  \/ UNCHANGED asked
           \/ do_query /\ UNCHANGED ready
           \/ series_dd_cb
           \/ ui_trend_update
           \/ \E t \in Threads : query_thread_func(t)
           \/ ui_trend_create_again
<1> USE DEF trend, published, labels, workers, asked
<1>1. ASSUME NEW pwd \in Typed, kb_event_cb(pwd) \/ Elevate(pwd) \/ Refuse(pwd)
      PROVE  UNCHANGED asked
  BY <1>1 DEF kb_event_cb, Elevate, Refuse, ui_switch_page, ui_trend_close_picker
<1>2. CASE \/ show_admin_pwd_dialog \/ switch_user_btn_cb \/ logout_btn_event_cb \/ Cancel
           \/ CloseBox \/ pwd_btn_event_cb \/ UNCHANGED vars
  BY <1>2 DEF show_admin_pwd_dialog, switch_user_btn_cb, logout_btn_event_cb, AuthLogout,
       Cancel, CloseBox, pwd_btn_event_cb, vars, ui_switch_page, ui_trend_close_picker
<1>3. ASSUME NEW target \in Tabs, nav_btn_event_cb(target) PROVE UNCHANGED asked
  BY <1>3 DEF nav_btn_event_cb, ui_switch_page, ui_trend_close_picker
<1>4. CASE update_timer_cb
  <2>1. ui_trend_update \/ UNCHANGED trend
    BY <1>4 DEF update_timer_cb
  <2>. QED
    BY <2>1
<1>5. CASE TrendPage
  <2>1. CASE show_time_picker \/ picker_closed_cb
    BY <2>1 DEF show_time_picker, picker_closed_cb
  <2>2. CASE query_btn_cb
    BY <2>2 DEF query_btn_cb
  <2>. QED
    BY <1>5, <2>1, <2>2 DEF TrendPage
<1>6. CASE \E t \in Threads : QueryThread(t)
  BY <1>6 DEF QueryThread
<1>7. CASE PowerFails
  BY <1>7 DEF PowerFails
<1>. QED
  BY <1>1, <1>2, <1>3, <1>4, <1>5, <1>6, <1>7 DEF Next

Steps == {"none", "start", "memory", "query", "publish", "clear"}

QueryTypes ==
    /\ loading \in BOOLEAN /\ ready \in BOOLEAN /\ stuck \in BOOLEAN
    /\ answer \in Answers /\ found \in [Threads -> Answers]
    /\ chart \in BOOLEAN /\ info \in [outcome : Labels, old : BOOLEAN]
    /\ pc \in [Threads -> Steps]
    /\ ready => answer.outcome # "none"
    /\ \A t \in Threads : pc[t] \in {"publish", "memory"} => found[t].outcome # "none"

LEMMA AnswersRange ==
    ASSUME NEW a \in Answers
    PROVE  /\ a.old \in BOOLEAN
           /\ a.outcome # "none" => a \in [outcome : Labels, old : BOOLEAN]
           /\ Aged(a) \in Answers /\ Aged(a).outcome = a.outcome /\ Aged(a).old
BY DEF Answers, Labels, Aged

LEMMA LabelRange == \A x \in Labels : Label(x) \in [outcome : Labels, old : BOOLEAN]
BY DEF Label

(* The types of the query's variables; what is published is an answer.     *)
LEMMA StepKeepsQueryTypes == QueryTypes /\ [Next]_vars => QueryTypes'
<1> SUFFICES ASSUME QueryTypes, [Next]_vars PROVE QueryTypes'
  OBVIOUS
<1> USE DEF published, labels, workers
<1>1. CASE UNCHANGED asked
  BY <1>1 DEF asked, QueryTypes
<1>2. ASSUME do_query, UNCHANGED ready
      PROVE  QueryTypes'
  <2>1. CASE loading
    BY <1>2, <2>1 DEF do_query, QueryTypes
  <2>2. CASE ~loading
    <3>1. /\ loading' = TRUE /\ info' = Label("loading") /\ chart' = FALSE
          /\ answer' = Aged(answer) /\ found' = [t \in Threads |-> Aged(found[t])]
      BY <1>2, <2>2 DEF do_query, Ask
    <3>4. /\ answer' \in Answers /\ found' \in [Threads -> Answers]
          /\ answer'.outcome = answer.outcome
          /\ \A t \in Threads : found'[t].outcome = found[t].outcome
      BY <3>1, AnswersRange DEF QueryTypes
    <3>5. info' \in [outcome : Labels, old : BOOLEAN]
      BY <3>1, LabelRange DEF Labels
    <3>2. stuck' \in BOOLEAN
      BY <1>2, <2>2 DEF do_query, QueryTypes
    <3>3. /\ pc' \in [Threads -> Steps]
          /\ \A t \in Threads : pc'[t] \in {"publish", "memory"} => pc'[t] = pc[t]
      BY <1>2, <2>2 DEF do_query, Ask, Create, QueryTypes, Steps
    <3>. QED
      BY <1>2, <3>1, <3>2, <3>3, <3>4, <3>5 DEF QueryTypes
  <2>. QED
    BY <2>1, <2>2
<1>3. CASE series_dd_cb
  <2>1. chart' \in BOOLEAN
    BY <1>3, AnswersRange DEF series_dd_cb, QueryTypes
  <2>. QED
    BY <1>3, <2>1 DEF series_dd_cb, QueryTypes
<1>4. CASE ui_trend_update
  <2>1. CASE ready
    <3>1. info' = answer /\ ready' = FALSE
          /\ chart' = (IF answer.outcome = "points" THEN ~answer.old ELSE chart)
          /\ UNCHANGED <<loading, answer, pc, found, stuck>>
      BY <1>4, <2>1 DEF ui_trend_update
    <3>2. info' \in [outcome : Labels, old : BOOLEAN]
          /\ chart' \in BOOLEAN
      BY <2>1, <3>1, AnswersRange DEF QueryTypes
    <3>. QED
      BY <3>1, <3>2 DEF QueryTypes
  <2>2. CASE ~ready
    BY <1>4, <2>2 DEF ui_trend_update, trend, QueryTypes
  <2>. QED
    BY <2>1, <2>2
<1>5. ASSUME NEW t \in Threads, query_thread_func(t) PROVE QueryTypes'
  <2>1. CASE Allocate(t)
    <3>1. [outcome |-> "memory", old |-> FALSE] \in Answers
      BY DEF Answers, Outcomes, QueryTypes
    <3>2. UNCHANGED <<ready, answer, labels, stuck>>
      BY <2>1 DEF Allocate
    <3>3. CASE pc' = [pc EXCEPT ![t] = "query"] /\ UNCHANGED <<loading, found>>
      BY <3>2, <3>3 DEF QueryTypes, Steps
    <3>4. CASE /\ loading' = FALSE
               /\ found' = [found EXCEPT ![t] = [outcome |-> "memory", old |-> FALSE]]
               /\ pc' = [pc EXCEPT ![t] = "memory"]
      <4>1. found' \in [Threads -> Answers]
        BY <3>1, <3>4 DEF QueryTypes
      <4>2. pc' \in [Threads -> Steps]
        BY <3>4 DEF QueryTypes, Steps
      <4>3. \A u \in Threads : pc'[u] \in {"publish", "memory"} => found'[u].outcome # "none"
        BY <3>4 DEF QueryTypes
      <4>. QED
        BY <3>2, <3>4, <4>1, <4>2, <4>3 DEF QueryTypes
    <3>. QED
      BY <2>1, <3>3, <3>4 DEF Allocate
  <2>2. CASE StorageQueryDataEntries(t)
    <3>1. PICK o \in Outcomes :
            found' = [found EXCEPT ![t] = [outcome |-> o, old |-> FALSE]]
      BY <2>2 DEF StorageQueryDataEntries, Result, Outcomes
    <3>2. [outcome |-> o, old |-> FALSE] \in Answers /\ o # "none"
      BY DEF Answers, Outcomes, QueryTypes
    <3>3. pc' = [pc EXCEPT ![t] = "publish"] /\ UNCHANGED <<published, labels, stuck>>
      BY <2>2 DEF StorageQueryDataEntries
    <3>. QED
      BY <3>1, <3>2, <3>3 DEF QueryTypes, Steps
  <2>3. CASE Publish(t)
    <3>1. NoAnswer \in Answers
      BY DEF NoAnswer, Answers
    <3>2. found' = [found EXCEPT ![t] = NoAnswer] /\ answer' = found[t] /\ ready' = TRUE
          /\ UNCHANGED <<loading, labels, stuck>>
      BY <2>3 DEF Publish
    <3>3. /\ pc' \in [Threads -> Steps]
          /\ pc'[t] \in {"clear", "none"} /\ \A u \in Threads \ {t} : pc'[u] = pc[u]
      BY <2>3 DEF Publish, QueryTypes, Steps
    <3>4. found[t] \in Answers /\ found[t].outcome # "none"
      BY <2>3 DEF Publish, QueryTypes
    <3>. QED
      BY <3>1, <3>2, <3>3, <3>4 DEF QueryTypes
  <2>4. CASE Clear(t)
    BY <2>4 DEF Clear, QueryTypes, Steps
  <2>. QED
    BY <1>5, <2>1, <2>2, <2>3, <2>4 DEF query_thread_func
<1>6. CASE ui_trend_create_again
  BY <1>6, LabelRange DEF ui_trend_create_again, QueryTypes, Answers, NoAnswer, Labels, Steps
<1>. QED
  BY <1>1, <1>2, <1>3, <1>4, <1>5, <1>6, TrendSteps

LEMMA StepKeepsOneQuery == QueryTypes /\ OneQuery /\ [Next]_vars => OneQuery'
<1> SUFFICES ASSUME QueryTypes, OneQuery, [Next]_vars PROVE OneQuery'
  OBVIOUS
<1> USE DEF published, labels, workers
<1>1. CASE UNCHANGED asked \/ series_dd_cb \/ ui_trend_update
  <2>1. UNCHANGED <<loading, stuck, pc>>
    BY <1>1 DEF asked, series_dd_cb, ui_trend_update, trend
  <2>. QED
    BY <2>1 DEF OneQuery, Busy
<1>2. ASSUME do_query PROVE OneQuery'
  <2>1. CASE loading
    BY <1>2, <2>1 DEF do_query, OneQuery, Busy
  <2>2. ASSUME ~loading, NEW t \in Threads, pc' = [pc EXCEPT ![t] = "start"], UNCHANGED stuck
        PROVE  OneQuery'
    <3>1. loading' = TRUE /\ Busy = {} /\ ~stuck
      BY <1>2, <2>2 DEF do_query, Ask, OneQuery
    <3>2. Busy' = {t}
      BY <2>2, <3>1 DEF Busy, QueryTypes
    <3>. QED
      BY <2>2, <3>1, <3>2 DEF OneQuery
  <2>3. CASE ~loading /\ stuck' = TRUE /\ UNCHANGED pc
    <3>1. loading' = TRUE /\ Busy = {}
      BY <1>2, <2>3 DEF do_query, Ask, OneQuery
    <3>. QED
      BY <2>3, <3>1 DEF OneQuery, Busy
  <2>. QED
    BY <1>2, <2>1, <2>2, <2>3 DEF do_query, Create, Ask
<1>3. ASSUME NEW t \in Threads, query_thread_func(t) PROVE OneQuery'
  <2>1. CASE Allocate(t) /\ pc' = [pc EXCEPT ![t] = "query"] /\ UNCHANGED loading
    <3>1. Busy' = Busy /\ UNCHANGED stuck
      BY <2>1 DEF Allocate, Busy, QueryTypes
    <3>. QED
      BY <2>1, <3>1 DEF OneQuery
  <2>2. CASE \/ Allocate(t) /\ pc' = [pc EXCEPT ![t] = "memory"] /\ loading' = FALSE
             \/ Clear(t)
    <3>1. pc[t] \in {"start", "clear"} /\ pc' \in {[pc EXCEPT ![t] = "memory"], [pc EXCEPT ![t] = "none"]}
          /\ loading' = FALSE /\ UNCHANGED stuck
      BY <2>2 DEF Allocate, Clear
    <3>2. t \in Busy
      BY <3>1 DEF Busy
    <3>3. Busy = {t} /\ ~stuck
      BY <3>2 DEF OneQuery
    <3>4. Busy' = {}
      BY <3>1, <3>3 DEF Busy, QueryTypes
    <3>. QED
      BY <3>1, <3>3, <3>4 DEF OneQuery
  <2>3. CASE StorageQueryDataEntries(t)
    <3>1. Busy' = Busy /\ UNCHANGED <<loading, stuck>>
      BY <2>3 DEF StorageQueryDataEntries, Busy, QueryTypes
    <3>. QED
      BY <3>1 DEF OneQuery
  <2>4. CASE Publish(t)
    <3>1. Busy' = Busy /\ UNCHANGED <<loading, stuck>>
      BY <2>4 DEF Publish, Busy, QueryTypes
    <3>. QED
      BY <3>1 DEF OneQuery
  <2>. QED
    BY <1>3, <2>1, <2>2, <2>3, <2>4 DEF query_thread_func, Allocate
<1>4. CASE ui_trend_create_again
  <2>1. Busy' = {} /\ loading' = FALSE /\ stuck' = FALSE
    BY <1>4 DEF ui_trend_create_again, Busy
  <2>. QED
    BY <2>1 DEF OneQuery
<1>. QED
  BY <1>1, <1>2, <1>3, <1>4, TrendSteps

(* The invariant of the query: types, and one query at a time.             *)
LEMMA QueryInvariant == Spec => [](QueryTypes /\ OneQuery)
<1>1. Init => QueryTypes /\ OneQuery
  <2> SUFFICES ASSUME Init PROVE QueryTypes /\ OneQuery
    OBVIOUS
  <2>1. /\ loading = FALSE /\ ready = FALSE /\ answer = NoAnswer
        /\ chart = FALSE /\ info = Label("hint")
        /\ pc = [t \in Threads |-> "none"] /\ found = [t \in Threads |-> NoAnswer]
        /\ stuck = FALSE
    BY DEF Init, ui_common_init, ui_trend_create
  <2>2. NoAnswer \in Answers
    BY DEF NoAnswer, Answers
  <2>3. QueryTypes
    BY <2>1, <2>2, LabelRange DEF QueryTypes, Labels, Steps
  <2>4. Busy = {}
    BY <2>1 DEF Busy
  <2>. QED
    BY <2>1, <2>3, <2>4 DEF OneQuery
<1>2. (QueryTypes /\ OneQuery) /\ [Next]_vars => (QueryTypes /\ OneQuery)'
  BY StepKeepsQueryTypes, StepKeepsOneQuery
<1>. QED
  BY <1>1, <1>2, PTL DEF Spec

(* The loading flag is set while one query is under way, and no second one *)
(* starts then, for any number of threads.                                 *)
THEOREM OneQueryAtATime == Spec => []OneQuery
BY QueryInvariant, PTL

(* No query thread has anything left to publish.                           *)
AllPublished ==
    ~stuck /\ \A t \in Threads : pc[t] \notin {"start", "query", "publish", "memory"}

(* What a thread is about to publish is for the query asked last, unless   *)
(* it had no memory; once all have published, so is the answer, unless it  *)
(* is such a thread's, and the label shows it as soon as it has been       *)
(* looked at.                                                              *)
AnswersInOrder ==
    /\ \A t \in Threads : pc[t] = "publish" => ~found[t].old
    /\ \A t \in Threads : pc[t] = "memory" => found[t].outcome = "memory"
    /\ AllPublished =>
         /\ answer.old => answer.outcome \in {"none", "memory"}
         /\ ~ready => info = answer \/ info = Label("hint")
         /\ ~ready /\ info.outcome = "points" => chart

LEMMA StepKeepsOrder ==
    QueryTypes /\ OneQuery /\ AnswersInOrder /\ [Next]_vars => AnswersInOrder'
<1> SUFFICES ASSUME QueryTypes, OneQuery, AnswersInOrder, [Next]_vars PROVE AnswersInOrder'
  OBVIOUS
<1> USE DEF published, labels, workers
<1>1. CASE UNCHANGED asked
  BY <1>1 DEF asked, AnswersInOrder, AllPublished
<1>2. ASSUME do_query, UNCHANGED ready
      PROVE  AnswersInOrder'
  <2>1. CASE loading
    BY <1>2, <2>1 DEF do_query, AnswersInOrder, AllPublished
  <2>2. CASE ~loading
    <3>1. \A t \in Threads : pc[t] # "publish"
      BY <2>2 DEF OneQuery, Busy
    <3>2. \A t \in Threads : pc'[t] = pc[t] \/ pc'[t] = "start"
      BY <1>2, <2>2 DEF do_query, Create, QueryTypes
    <3>3. ~AllPublished'
      <4>1. ASSUME NEW t \in Threads, pc' = [pc EXCEPT ![t] = "start"] PROVE pc'[t] = "start"
        BY <4>1 DEF QueryTypes
      <4>. QED
        BY <1>2, <2>2, <4>1 DEF do_query, Create, AllPublished
    <3>4. \A t \in Threads : found'[t].outcome = found[t].outcome
      BY <1>2, <2>2, AnswersRange DEF do_query, Ask, QueryTypes
    <3>. QED
      BY <3>1, <3>2, <3>3, <3>4 DEF AnswersInOrder
  <2>. QED
    BY <2>1, <2>2
<1>3. CASE series_dd_cb
  <2>1. answer.outcome = "points" /\ chart' = ~answer.old
        /\ UNCHANGED <<ready, answer, info, pc, found, stuck>>
    BY <1>3 DEF series_dd_cb
  <2>2. AllPublished' = AllPublished
    BY <2>1 DEF AllPublished
  <2>. QED
    BY <2>1, <2>2 DEF AnswersInOrder
<1>4. CASE ui_trend_update
  <2>1. CASE ready
    <3>1. info' = answer /\ ready' = FALSE
          /\ chart' = (IF answer.outcome = "points" THEN ~answer.old ELSE chart)
          /\ UNCHANGED <<answer, pc, found, stuck>>
      BY <1>4, <2>1 DEF ui_trend_update
    <3>2. AllPublished' = AllPublished
      BY <3>1 DEF AllPublished
    <3>. QED
      BY <3>1, <3>2 DEF AnswersInOrder
  <2>2. CASE ~ready
    BY <1>4, <2>2 DEF ui_trend_update, trend, AnswersInOrder, AllPublished
  <2>. QED
    BY <2>1, <2>2
<1>5. ASSUME NEW t \in Threads, query_thread_func(t) PROVE AnswersInOrder'
  <2>1. CASE Allocate(t)
    <3>1. pc[t] = "start" /\ UNCHANGED <<stuck>>
      BY <2>1 DEF Allocate
    <3>2. \A u \in Threads \ {t} : pc'[u] = pc[u] /\ found'[u] = found[u]
      BY <2>1 DEF Allocate, QueryTypes
    <3>3. \/ pc'[t] = "query"
          \/ pc'[t] = "memory" /\ found'[t].outcome = "memory"
      <4>1. CASE pc' = [pc EXCEPT ![t] = "query"]
        BY <4>1 DEF QueryTypes
      <4>2. CASE /\ found' = [found EXCEPT ![t] = [outcome |-> "memory", old |-> FALSE]]
                 /\ pc' = [pc EXCEPT ![t] = "memory"]
        BY <4>2 DEF QueryTypes
      <4>. QED
        BY <2>1, <4>1, <4>2 DEF Allocate
    <3>4. ~AllPublished'
      BY <3>3 DEF AllPublished
    <3>. QED
      BY <3>1, <3>2, <3>3, <3>4 DEF AnswersInOrder
  <2>2. CASE StorageQueryDataEntries(t)
    <3>1. /\ pc'[t] = "publish" /\ ~found'[t].old
          /\ \A u \in Threads \ {t} : pc'[u] = pc[u] /\ found'[u] = found[u]
      BY <2>2 DEF StorageQueryDataEntries, QueryTypes
    <3>2. ~AllPublished'
      BY <3>1 DEF AllPublished
    <3>. QED
      BY <3>1, <3>2 DEF AnswersInOrder
  <2>3. CASE Publish(t)
    <3>1. /\ pc[t] \in {"publish", "memory"} /\ answer' = found[t] /\ ready' = TRUE
          /\ UNCHANGED <<info, chart>>
          /\ pc'[t] \in {"clear", "none"}
          /\ \A u \in Threads \ {t} : pc'[u] = pc[u] /\ found'[u] = found[u]
      BY <2>3 DEF Publish, QueryTypes
    <3>2. answer'.outcome = "memory" \/ ~answer'.old
      BY <3>1 DEF AnswersInOrder
    <3>. QED
      BY <3>1, <3>2 DEF AnswersInOrder
  <2>4. CASE Clear(t)
    <3>1. /\ pc[t] = "clear" /\ pc'[t] = "none" /\ \A u \in Threads \ {t} : pc'[u] = pc[u]
          /\ UNCHANGED <<ready, answer, labels, found, stuck>>
      BY <2>4 DEF Clear, QueryTypes
    <3>2. AllPublished' = AllPublished
      BY <3>1 DEF AllPublished
    <3>. QED
      BY <3>1, <3>2 DEF AnswersInOrder
  <2>. QED
    BY <1>5, <2>1, <2>2, <2>3, <2>4 DEF query_thread_func
<1>6. CASE ui_trend_create_again
  BY <1>6 DEF ui_trend_create_again, AnswersInOrder, NoAnswer, Label
<1>. QED
  BY <1>1, <1>2, <1>3, <1>4, <1>5, <1>6, TrendSteps

LEMMA OrderInvariant == Spec => []AnswersInOrder
<1>1. Init => AnswersInOrder
  BY DEF Init, ui_common_init, ui_trend_create, AnswersInOrder, NoAnswer, Label
<1>2. QED BY <1>1, QueryInvariant, StepKeepsOrder, PTL DEF Spec

(* Once no thread is left and no answer waits, the label is about the      *)
(* query asked last, or it is the "Memory error" of a thread that cleared  *)
(* the flag before it published (ui_trend.c:299): only that answer can     *)
(* take the place of a newer one, for any number of threads.               *)
THEOREM ShownInOrder == Spec => []ShownIsLast
<1>1. QueryTypes /\ OneQuery /\ AnswersInOrder => ShownIsLast
  <2> SUFFICES ASSUME QueryTypes, OneQuery, AnswersInOrder, Settled
               PROVE  /\ info.old => info.outcome = "memory"
                      /\ info.outcome = "points" => chart
    BY DEF ShownIsLast
  <2>1. AllPublished /\ ~ready
    BY DEF Settled, AllPublished, OneQuery
  <2>2. info = answer \/ info = Label("hint")
    BY <2>1 DEF AnswersInOrder
  <2>3. info.outcome # "none"
    BY DEF QueryTypes, Labels, Outcomes
  <2>4. info.old => info.outcome = "memory"
    BY <2>1, <2>2, <2>3 DEF AnswersInOrder, Label
  <2>5. QED BY <2>1, <2>4 DEF AnswersInOrder
<1>2. QED BY <1>1, QueryInvariant, OrderInvariant, PTL

(* The page never waits for an answer that nobody will give: while it says *)
(* that it is loading, an answer is ready or a thread is on its way to     *)
(* one, unless the thread of ui_trend.c:340 could not be created.  What is *)
(* left to AnswerShown is that threads and timer go on.                    *)
THEOREM WaitAnswered ==
    Spec => [](info.outcome = "loading" =>
                  \/ stuck \/ ready
                  \/ \E t \in Threads : pc[t] \in {"start", "query", "publish", "memory"})
<1> DEFINE Waiting == info.outcome = "loading" =>
               \/ stuck \/ ready
               \/ \E t \in Threads : pc[t] \in {"start", "query", "publish", "memory"}
<1>1. QueryTypes /\ AnswersInOrder => Waiting
  <2> SUFFICES ASSUME QueryTypes, AnswersInOrder, info.outcome = "loading", ~ready, AllPublished
               PROVE  FALSE
    BY DEF QueryTypes, AllPublished
  <2>1. info = answer
    BY DEF AnswersInOrder, Label
  <2>2. answer.outcome # "loading"
    BY DEF QueryTypes, Answers, Outcomes
  <2>3. QED BY <2>1, <2>2
<1>2. QED BY <1>1, QueryInvariant, OrderInvariant, PTL

-----------------------------------------------------------------------------
(* The passwords.  A row is always what some password is written as, and   *)
(* the operator's row is the one the password in force is written as,      *)
(* unless one of the exceptions of PasswordKept holds.                     *)
Users == {"admin", "operator"}

PasswordsOK ==
    /\ adminPwd \in Passwords /\ operatorPwd \in Passwords /\ chosen \in Passwords
    /\ spoilt \in BOOLEAN
    /\ rows \in [Users -> Seq(Nat)]
    /\ \A u \in Users : \E p \in Passwords : rows[u] = Stored(p)
    /\ \/ spoilt
       \/ HasKeyChar(chosen)
       \/ operatorPwd = chosen /\ rows["operator"] = Stored(chosen)

(* What is read and kept is a password, and so is what the row holds then. *)
LEMMA ReadingKept ==
    ASSUME NEW p \in Passwords, NEW default \in Garbled \cup {Admin, Operator},
           NEW read \in Readings(Stored(p)), NEW row \in RowAfter(Stored(p), read, default)
    PROVE  /\ Kept(read, default) \in Passwords
           /\ row \in Seq(Nat) /\ \E q \in Passwords : row = Stored(q)
<1>1. default \in Passwords /\ Garbled \subseteq Passwords
  BY ConsoleAssumption
<1>2. Stored(p) \in Seq(Nat) /\ Stored(default) \in Seq(Nat)
  BY <1>1, ReadBackUpToKey
<1>3. Kept(read, default) \in Passwords
  <2>1. CASE read = <<>>
    BY <1>1, <2>1 DEF Kept
  <2>2. CASE read # <<>> /\ read \in Garbled
    BY <1>1, <2>2 DEF Kept
  <2>3. CASE read # <<>> /\ read = Reloaded(Stored(p))
    <3>1. PICK n \in 0..Len(p) : Reloaded(Stored(p)) = SubSeq(p, 1, n)
      BY ReadBackUpToKey
    <3>2. p \in Seq(Chars) /\ Len(p) \in Nat
      BY DEF Passwords
    <3>3. \A i \in 1..n : p[i] \in Chars
      BY <3>2
    <3>4. SubSeq(p, 1, n) \in Seq(Chars)
      <4>1. n \in Nat /\ 1 \in Int
        BY <3>2
      <4>. QED
        BY <3>3, <4>1, SubSeqProperties
    <3>. QED
      BY <2>3, <3>1, <3>4 DEF Kept, Passwords
  <2>. QED
    BY <2>1, <2>2, <2>3 DEF Readings
<1>4. row \in {Stored(p), Stored(default)}
  BY DEF RowAfter
<1>. QED
  BY <1>1, <1>2, <1>3, <1>4

(* A start after a power failure: both rows are read, and kept.            *)
LEMMA AuthInitKeepsPasswords == PasswordsOK /\ AuthInit => PasswordsOK'
<1> SUFFICES ASSUME PasswordsOK, AuthInit PROVE PasswordsOK'
  OBVIOUS
<1>0. PICK a \in Readings(rows["admin"]), o \in Readings(rows["operator"]) :
        /\ adminPwd' = Kept(a, Admin) /\ operatorPwd' = Kept(o, Operator)
        /\ \E ra \in RowAfter(rows["admin"], a, Admin),
              ro \in RowAfter(rows["operator"], o, Operator) :
              rows' = [admin |-> ra, operator |-> ro]
        /\ spoilt' = (spoilt \/ o # Reloaded(rows["operator"]))
        /\ chosen' = chosen
  BY DEF AuthInit
<1>1. PICK ra \in RowAfter(rows["admin"], a, Admin),
           ro \in RowAfter(rows["operator"], o, Operator) :
        rows' = [admin |-> ra, operator |-> ro]
  BY <1>0
<1>2. PICK p \in Passwords : rows["admin"] = Stored(p)
  BY DEF PasswordsOK, Users
<1>3. PICK q \in Passwords : rows["operator"] = Stored(q)
  BY DEF PasswordsOK, Users
<1>4. adminPwd' \in Passwords /\ ra \in Seq(Nat) /\ \E r \in Passwords : ra = Stored(r)
  <2>1. a \in Readings(Stored(p)) /\ ra \in RowAfter(Stored(p), a, Admin)
    BY <1>0, <1>1, <1>2
  <2>2. Kept(a, Admin) \in Passwords /\ ra \in Seq(Nat) /\ \E r \in Passwords : ra = Stored(r)
    BY <2>1, ReadingKept
  <2>. QED
    BY <1>0, <2>2
<1>5. operatorPwd' \in Passwords /\ ro \in Seq(Nat) /\ \E r \in Passwords : ro = Stored(r)
  <2>1. o \in Readings(Stored(q)) /\ ro \in RowAfter(Stored(q), o, Operator)
    BY <1>0, <1>1, <1>3
  <2>2. Kept(o, Operator) \in Passwords /\ ro \in Seq(Nat) /\ \E r \in Passwords : ro = Stored(r)
    BY <2>1, ReadingKept
  <2>. QED
    BY <1>0, <2>2
<1>6. rows'["admin"] = ra /\ rows'["operator"] = ro /\ rows' \in [Users -> Seq(Nat)]
  BY <1>1, <1>4, <1>5 DEF Users
<1>7. \/ spoilt'
      \/ HasKeyChar(chosen')
      \/ operatorPwd' = chosen' /\ rows'["operator"] = Stored(chosen')
  <2> SUFFICES ASSUME ~spoilt', ~HasKeyChar(chosen)
               PROVE  operatorPwd' = chosen /\ rows'["operator"] = Stored(chosen)
    BY <1>0
  <2>1. ~spoilt /\ o = Reloaded(rows["operator"])
    BY <1>0 DEF PasswordsOK
  <2>2. rows["operator"] = Stored(chosen) /\ chosen \in Passwords
    BY <2>1 DEF PasswordsOK
  <2>3. o = chosen
    BY <2>1, <2>2, ReadBack
  <2>4. o # <<>>
    BY <2>2, <2>3 DEF Passwords
  <2>5. operatorPwd' = o /\ ro = rows["operator"]
    BY <1>0, <1>1, <2>4 DEF Kept, RowAfter
  <2>. QED
    BY <1>6, <2>2, <2>3, <2>5
<1>8. chosen' \in Passwords /\ spoilt' \in BOOLEAN
  BY <1>0 DEF PasswordsOK
<1>9. \A u \in Users : \E r \in Passwords : rows'[u] = Stored(r)
  BY <1>4, <1>5, <1>6 DEF Users
<1>. QED
  BY <1>4, <1>5, <1>6, <1>7, <1>8, <1>9 DEF PasswordsOK

LEMMA StepKeepsPasswords == PasswordsOK /\ [Next]_vars => PasswordsOK'
<1> SUFFICES ASSUME PasswordsOK, [Next]_vars PROVE PasswordsOK'
  OBVIOUS
<1>1. ASSUME UNCHANGED passwords PROVE PasswordsOK'
  BY <1>1 DEF passwords, PasswordsOK
<1>2. CASE pwd_btn_event_cb
  <2>1. PICK p \in NewPasswords, saves \in BOOLEAN :
          /\ operatorPwd' = p /\ chosen' = p /\ adminPwd' = adminPwd
          /\ rows' = IF saves THEN [rows EXCEPT !["operator"] = Stored(p)] ELSE rows
          /\ spoilt' = ~saves
    BY <1>2 DEF pwd_btn_event_cb
  <2>2. p \in Passwords /\ Stored(p) \in Seq(Nat)
    BY ConsoleAssumption, ReadBackUpToKey
  <2>3. CASE saves
    <3>1. /\ rows' \in [Users -> Seq(Nat)]
          /\ rows'["operator"] = Stored(p) /\ rows'["admin"] = rows["admin"]
      BY <2>1, <2>2, <2>3 DEF PasswordsOK, Users
    <3>. QED
      BY <2>1, <2>2, <2>3, <3>1 DEF PasswordsOK, Users
  <2>4. CASE ~saves
    BY <2>1, <2>2, <2>4 DEF PasswordsOK
  <2>. QED
    BY <2>3, <2>4
<1>3. CASE PowerFails
  BY <1>3, AuthInitKeepsPasswords DEF PowerFails
<1>4. ASSUME NEW pwd \in Typed, kb_event_cb(pwd) \/ Elevate(pwd) \/ Refuse(pwd)
      PROVE  UNCHANGED passwords
  BY <1>4 DEF kb_event_cb, Elevate, Refuse
<1>5. CASE \/ show_admin_pwd_dialog \/ switch_user_btn_cb \/ logout_btn_event_cb \/ Cancel
           \/ CloseBox \/ update_timer_cb \/ TrendPage \/ \E t \in Threads : QueryThread(t)
  BY <1>1, <1>5 DEF show_admin_pwd_dialog, switch_user_btn_cb, logout_btn_event_cb,
       AuthLogout, Cancel, CloseBox, update_timer_cb, TrendPage, QueryThread
<1>6. ASSUME NEW target \in Tabs, nav_btn_event_cb(target) PROVE UNCHANGED passwords
  BY <1>6 DEF nav_btn_event_cb
<1>7. CASE UNCHANGED vars
  BY <1>1, <1>7 DEF vars, passwords
<1>. QED
  BY <1>1, <1>2, <1>3, <1>4, <1>5, <1>6, <1>7 DEF Next

LEMMA PasswordInvariant == Spec => []PasswordsOK
<1>1. Init => PasswordsOK
  <2> SUFFICES ASSUME Init PROVE PasswordsOK
    OBVIOUS
  <2>1. Admin \in Passwords /\ Operator \in Passwords
    BY ConsoleAssumption
  <2>2. Stored(Admin) \in Seq(Nat) /\ Stored(Operator) \in Seq(Nat)
    BY <2>1, ReadBackUpToKey
  <2>3. /\ adminPwd = Admin /\ operatorPwd = Operator /\ chosen = Operator /\ spoilt = FALSE
        /\ rows = [admin |-> Stored(Admin), operator |-> Stored(Operator)]
    BY DEF Init
  <2>4. rows["admin"] = Stored(Admin) /\ rows["operator"] = Stored(Operator)
        /\ rows \in [Users -> Seq(Nat)]
    BY <2>2, <2>3 DEF Users
  <2>. QED
    BY <2>1, <2>3, <2>4 DEF PasswordsOK, Users
<1>. QED
  BY <1>1, StepKeepsPasswords, PTL DEF Spec

(* The operator's password outlives a power failure, whatever the key and  *)
(* the password are, but for the exceptions PasswordKept names.            *)
THEOREM PasswordCorrect == Spec => []PasswordKept
<1>1. PasswordsOK => PasswordKept
  BY DEF PasswordsOK, PasswordKept
<1>. QED
  BY <1>1, PasswordInvariant, PTL
-----------------------------------------------------------------------------
(* The types of what belongs to the screen.                                *)
ScreenTypes ==
    /\ picker \in BOOLEAN /\ process \in {"runs", "undefined"}
    /\ role \in Roles /\ page \in Tabs \cup {"login"}
    /\ dialog \in {"none", "open", "gone"}
    /\ roleLabel \in Roles /\ switchBtn \in {"hidden", "Switch", "Logout"}
    /\ navBar \in BOOLEAN /\ settingsTab \in BOOLEAN

LEMMA SwitchPageTypes ==
    ASSUME NEW p \in Tabs \cup {"login"}, ui_switch_page(p)
    PROVE  /\ page' \in Tabs \cup {"login"} /\ dialog' \in {"none", "open", "gone"}
           /\ picker' \in BOOLEAN /\ process' \in {"runs", "undefined"}
BY DEF ui_switch_page, ui_trend_close_picker

LEMMA RoleSetTypes ==
    ASSUME NEW r \in Roles, ui_status_bar_set_role(r)
    PROVE  roleLabel' \in Roles /\ switchBtn' \in {"hidden", "Switch", "Logout"}
<1>1. \/ r = "none" /\ switchBtn' = "hidden"
      \/ r = "operator" /\ switchBtn' = "Switch"
      \/ r = "admin" /\ switchBtn' = "Logout"
  BY DEF ui_status_bar_set_role, Roles
<1>. QED
  BY <1>1 DEF ui_status_bar_set_role, Roles

LEMMA StepKeepsScreenTypes == ScreenTypes /\ [Next]_vars => ScreenTypes'
<1> SUFFICES ASSUME ScreenTypes, [Next]_vars PROVE ScreenTypes'
  OBVIOUS
<1>1. ASSUME NEW r \in Roles, NEW p \in Tabs \cup {"login"},
             role' = r, ui_status_bar_set_role(r), ui_switch_page(p),
             navBar' \in BOOLEAN, settingsTab' \in BOOLEAN
      PROVE  ScreenTypes'
  <2>1. /\ page' \in Tabs \cup {"login"} /\ dialog' \in {"none", "open", "gone"}
        /\ picker' \in BOOLEAN /\ process' \in {"runs", "undefined"}
    BY <1>1, SwitchPageTypes
  <2>2. roleLabel' \in Roles /\ switchBtn' \in {"hidden", "Switch", "Logout"}
    BY <1>1, RoleSetTypes
  <2>. QED
    BY <1>1, <2>1, <2>2 DEF ScreenTypes
<1>2. ASSUME NEW pwd \in Typed, kb_event_cb(pwd) PROVE ScreenTypes'
  <2>1. role' \in Roles /\ "dashboard" \in Tabs \cup {"login"}
    BY <1>2 DEF kb_event_cb, RoleOf, Roles, Tabs
  <2>2. ui_status_bar_set_role(role') /\ ui_switch_page("dashboard")
        /\ navBar' \in BOOLEAN /\ settingsTab' \in BOOLEAN
    BY <1>2 DEF kb_event_cb, ui_nav_bar_update_visibility
  <2>. QED
    BY <2>1, <2>2, <1>1
<1>3. ASSUME NEW pwd \in Typed, Elevate(pwd) PROVE ScreenTypes'
  <2>1. "admin" \in Roles /\ "settings" \in Tabs \cup {"login"}
    BY DEF Roles, Tabs
  <2>2. role' = "admin" /\ ui_status_bar_set_role("admin") /\ ui_switch_page("settings")
        /\ navBar' \in BOOLEAN /\ settingsTab' \in BOOLEAN
    BY <1>3 DEF Elevate, ui_nav_bar_update_visibility, ScreenTypes
  <2>. QED
    BY <2>1, <2>2, <1>1
<1>4. ASSUME NEW pwd \in Typed, Refuse(pwd) PROVE ScreenTypes'
  <2>1. role' \in Roles /\ dialog' = "none"
    BY <1>4 DEF Refuse, ScreenTypes, Roles
  <2>. QED
    BY <1>4, <2>1 DEF Refuse, bars, trend, ScreenTypes
<1>5. CASE switch_user_btn_cb \/ logout_btn_event_cb
  <2>1. AuthLogout
    BY <1>5 DEF switch_user_btn_cb, logout_btn_event_cb
  <2>2. "none" \in Roles /\ "login" \in Tabs \cup {"login"}
    BY DEF Roles
  <2>3. role' = "none" /\ ui_status_bar_set_role("none") /\ ui_switch_page("login")
        /\ navBar' \in BOOLEAN /\ settingsTab' \in BOOLEAN
    BY <2>1 DEF AuthLogout, ui_nav_bar_update_visibility
  <2>. QED
    BY <2>2, <2>3, <1>1
<1>6. CASE show_admin_pwd_dialog \/ Cancel \/ CloseBox
  BY <1>6 DEF show_admin_pwd_dialog, Cancel, CloseBox, bars, trend, ScreenTypes
<1>7. ASSUME NEW target \in Tabs, nav_btn_event_cb(target) PROVE ScreenTypes'
  <2>1. ui_switch_page(target) /\ UNCHANGED <<role, roleLabel, switchBtn, navBar, settingsTab>>
    BY <1>7 DEF nav_btn_event_cb, bars
  <2>2. /\ page' \in Tabs \cup {"login"} /\ dialog' \in {"none", "open", "gone"}
        /\ picker' \in BOOLEAN /\ process' \in {"runs", "undefined"}
    BY <2>1, SwitchPageTypes
  <2>. QED
    BY <2>1, <2>2 DEF ScreenTypes
<1>8. CASE pwd_btn_event_cb \/ UNCHANGED vars
  BY <1>8 DEF pwd_btn_event_cb, vars, session, bars, trend, ScreenTypes
<1>9. CASE update_timer_cb
  BY <1>9 DEF update_timer_cb, ui_trend_update, session, bars, trend, ScreenTypes
<1>10. CASE TrendPage
  <2>1. UNCHANGED session
    BY <1>10 DEF TrendPage
  <2>2. picker' \in BOOLEAN /\ process' \in {"runs", "undefined"}
    BY <1>10 DEF TrendPage, show_time_picker, picker_closed_cb, query_btn_cb, do_query,
         series_dd_cb, ScreenTypes
  <2>. QED
    BY <2>1, <2>2 DEF session, bars, ScreenTypes
<1>11. ASSUME NEW t \in Threads, QueryThread(t) PROVE ScreenTypes'
  <2>1. UNCHANGED session
    BY <1>11 DEF QueryThread
  <2>2. UNCHANGED <<picker, process>>
    BY <1>11 DEF QueryThread, query_thread_func, Allocate, StorageQueryDataEntries, Publish, Clear
  <2>. QED
    BY <2>1, <2>2 DEF session, bars, ScreenTypes
<1>12. CASE PowerFails
  BY <1>12 DEF PowerFails, ui_trend_create_again, ScreenTypes, Roles
<1>. QED
  BY <1>2, <1>3, <1>4, <1>5, <1>6, <1>7, <1>8, <1>9, <1>10, <1>11, <1>12 DEF Next

(* Every variable of the console has its type, for every set of passwords, *)
(* and query threads.                                                      *)
THEOREM TypeCorrect == Spec => []TypeOK
<1>1. Init => ScreenTypes
  BY DEF Init, ui_common_init, ui_trend_create, ScreenTypes, Roles
<1>2. ScreenTypes /\ QueryTypes /\ PasswordsOK => TypeOK
  BY DEF ScreenTypes, QueryTypes, Steps, PasswordsOK, Users, TypeOK, TrendTypeOK
<1>3. Spec => []ScreenTypes
  BY <1>1, StepKeepsScreenTypes, PTL DEF Spec
<1>. QED
  BY <1>2, <1>3, QueryInvariant, PasswordInvariant, PTL

-----------------------------------------------------------------------------
(* Neither a thread, nor what it has left, nor the label says "refused".   *)
NothingRefused ==
    /\ info.outcome # "refused" /\ answer.outcome # "refused"
    /\ \A t \in Threads : found[t].outcome # "refused"

(* What the label of ui_trend.c:573 says is true when no more rows lie in  *)
(* any range than fit (MAX_QUERY_RECORDS) and no statement fails: the page *)
(* never says that there are no data when there are some.                  *)
THEOREM NoDataIfFits ==
    ASSUME MayFail = FALSE, \A n \in Matching : n <= MaxRecords
    PROVE  Spec => []NoDataMeansNone
<1>1. Init => NothingRefused
  BY DEF Init, ui_common_init, ui_trend_create, NoAnswer, Label, NothingRefused
<1>2. QueryTypes /\ NothingRefused /\ [Next]_vars => NothingRefused'
  <2> SUFFICES ASSUME QueryTypes, NothingRefused, [Next]_vars PROVE NothingRefused'
    OBVIOUS
  <2> USE DEF published, labels, workers
  <2>1. CASE UNCHANGED asked
    BY <2>1 DEF asked, NothingRefused
  <2>2. ASSUME do_query, UNCHANGED ready PROVE NothingRefused'
    <3>1. CASE UNCHANGED <<answer, info, found>>
      BY <3>1 DEF NothingRefused
    <3>2. CASE Ask
      <4>1. /\ info'.outcome = "loading" /\ answer'.outcome = answer.outcome
            /\ \A t \in Threads : found'[t].outcome = found[t].outcome
        BY <3>2, AnswersRange DEF Ask, Label, QueryTypes
      <4>2. QED BY <4>1 DEF NothingRefused
    <3>3. QED BY <2>2, <3>1, <3>2 DEF do_query
  <2>3. CASE series_dd_cb
    BY <2>3 DEF series_dd_cb, NothingRefused
  <2>4. CASE ui_trend_update
    BY <2>4 DEF ui_trend_update, trend, NothingRefused
  <2>5. ASSUME NEW t \in Threads, query_thread_func(t) PROVE NothingRefused'
    <3>1. CASE Allocate(t)
      BY <3>1 DEF Allocate, QueryTypes, NothingRefused
    <3>2. CASE StorageQueryDataEntries(t)
      <4>1. PICK n \in Matching, fails \in BOOLEAN :
              /\ fails => MayFail
              /\ found' = [found EXCEPT ![t] =
                              [outcome |-> IF fails THEN "refused" ELSE Result(n), old |-> FALSE]]
        BY <3>2 DEF StorageQueryDataEntries
      <4>2. Result(n) # "refused"
        <5>1. n \in Nat /\ MaxRecords \in Nat /\ n <= MaxRecords
          BY TrendAssumption
        <5>2. QED BY <5>1 DEF Result
      <4>3. UNCHANGED <<info, answer>>
        BY <3>2 DEF StorageQueryDataEntries
      <4>4. QED BY <4>1, <4>2, <4>3 DEF QueryTypes, NothingRefused
    <3>3. CASE Publish(t)
      <4>1. answer' = found[t] /\ UNCHANGED info /\ found' = [found EXCEPT ![t] = NoAnswer]
        BY <3>3 DEF Publish
      <4>2. \A u \in Threads : found'[u].outcome # "refused"
        BY <4>1 DEF QueryTypes, NothingRefused, NoAnswer
      <4>3. QED BY <4>1, <4>2 DEF NothingRefused
    <3>4. CASE Clear(t)
      BY <3>4 DEF Clear, NothingRefused
    <3>5. QED BY <2>5, <3>1, <3>2, <3>3, <3>4 DEF query_thread_func
  <2>6. CASE ui_trend_create_again
    BY <2>6 DEF ui_trend_create_again, NoAnswer, Label, NothingRefused
  <2>7. QED BY <2>1, <2>2, <2>3, <2>4, <2>5, <2>6, TrendSteps
<1>3. NothingRefused => NoDataMeansNone
  BY DEF NothingRefused, NoDataMeansNone
<1>4. QED BY <1>1, <1>2, <1>3, QueryInvariant, PTL DEF Spec

-----------------------------------------------------------------------------
(* The row of the administrator's password is the one auth.c first wrote.  *)
AdminOK ==
    /\ adminPwd \in {Admin} \cup Garbled
    /\ rows \in [Users -> Seq(Nat)] /\ rows["admin"] = Stored(Admin)

(* The administrator's password is the one auth.c starts with, unless      *)
(* StorageLoadCredential reads freed memory, and its row never changes:    *)
(* neither changing the operator's password, saved or not, nor any number  *)
(* of power failures touches it.  "admin" has no character of the key.     *)
THEOREM AdminKept ==
    ASSUME ~HasKeyChar(Admin)
    PROVE  Spec => [](adminPwd \in {Admin} \cup Garbled /\ rows["admin"] = Stored(Admin))
<1>1. Admin \in Passwords /\ Operator \in Passwords /\ Admin # <<>>
  BY ConsoleAssumption DEF Passwords
<1>2. Reloaded(Stored(Admin)) = Admin
  BY <1>1, ReadBack
<1>3. Init => AdminOK
  <2> SUFFICES ASSUME Init PROVE AdminOK
    OBVIOUS
  <2>1. Stored(Admin) \in Seq(Nat) /\ Stored(Operator) \in Seq(Nat)
    BY <1>1, ReadBackUpToKey
  <2>2. adminPwd = Admin /\ rows = [admin |-> Stored(Admin), operator |-> Stored(Operator)]
    BY DEF Init
  <2>3. QED BY <2>1, <2>2 DEF AdminOK, Users
<1>4. PasswordsOK /\ PasswordsOK' /\ AdminOK /\ [Next]_vars => AdminOK'
  <2> SUFFICES ASSUME PasswordsOK, PasswordsOK', AdminOK, [Next]_vars PROVE AdminOK'
    OBVIOUS
  <2>1. ASSUME UNCHANGED passwords PROVE AdminOK'
    BY <2>1 DEF passwords, AdminOK
  <2>2. CASE pwd_btn_event_cb
    <3>1. PICK p \in NewPasswords, saves \in BOOLEAN :
            /\ adminPwd' = adminPwd
            /\ rows' = IF saves THEN [rows EXCEPT !["operator"] = Stored(p)] ELSE rows
      BY <2>2 DEF pwd_btn_event_cb
    <3>2. rows'["admin"] = rows["admin"]
      BY <3>1 DEF AdminOK, Users
    <3>3. QED BY <3>1, <3>2 DEF AdminOK, PasswordsOK
  <2>3. CASE PowerFails
    <3>1. PICK a \in Readings(rows["admin"]), o \in Readings(rows["operator"]) :
            /\ adminPwd' = Kept(a, Admin)
            /\ \E ra \in RowAfter(rows["admin"], a, Admin),
                  ro \in RowAfter(rows["operator"], o, Operator) :
                  rows' = [admin |-> ra, operator |-> ro]
      BY <2>3 DEF PowerFails, AuthInit
    <3>2. PICK ra \in RowAfter(rows["admin"], a, Admin),
               ro \in RowAfter(rows["operator"], o, Operator) :
            rows' = [admin |-> ra, operator |-> ro]
      BY <3>1
    <3>3. a = Admin \/ a = <<>> \/ a \in Garbled
      BY <1>2 DEF AdminOK, Readings
    <3>4. Kept(a, Admin) \in {Admin} \cup Garbled
      BY <3>3 DEF Kept
    <3>5. ra = Stored(Admin)
      BY DEF AdminOK, RowAfter
    <3>6. rows'["admin"] = Stored(Admin)
      BY <3>2, <3>5
    <3>7. QED BY <3>1, <3>4, <3>6 DEF AdminOK, PasswordsOK
  <2>4. pwd_btn_event_cb \/ PowerFails \/ UNCHANGED passwords
    <3>1. ASSUME NEW pwd \in Typed, kb_event_cb(pwd) \/ Elevate(pwd) \/ Refuse(pwd)
          PROVE  UNCHANGED passwords
      BY <3>1 DEF kb_event_cb, Elevate, Refuse
    <3>2. CASE \/ show_admin_pwd_dialog \/ switch_user_btn_cb \/ logout_btn_event_cb \/ Cancel
               \/ CloseBox \/ update_timer_cb \/ TrendPage \/ \E t \in Threads : QueryThread(t)
      BY <3>2 DEF show_admin_pwd_dialog, switch_user_btn_cb, logout_btn_event_cb, AuthLogout,
           Cancel, CloseBox, update_timer_cb, TrendPage, QueryThread
    <3>3. ASSUME NEW target \in Tabs, nav_btn_event_cb(target) PROVE UNCHANGED passwords
      BY <3>3 DEF nav_btn_event_cb
    <3>4. CASE UNCHANGED vars
      BY <3>4 DEF vars, passwords
    <3>5. QED BY <3>1, <3>2, <3>3, <3>4 DEF Next
  <2>5. QED BY <2>1, <2>2, <2>3, <2>4
<1>5. AdminOK => adminPwd \in {Admin} \cup Garbled /\ rows["admin"] = Stored(Admin)
  BY DEF AdminOK
<1>6. QED BY <1>3, <1>4, <1>5, PasswordInvariant, PTL DEF Spec

-----------------------------------------------------------------------------
(* The session as Access has it.                                           *)
Rights == INSTANCE Access

AccessSafe == Rights!Spec

(* A role is gained, raised and given up, and a password changed, only as  *)
(* Access allows, through every order of the handlers, threads and power   *)
(* failures.  That the dialog does not make an administrator an operator   *)
(* rests on where it may be (NoDialogLeft): Refuse sets any role.          *)
THEOREM ImplementsAccess == Spec => AccessSafe
<1> USE DEF Rights!vars, Rights!session, Rights!passwords
<1>1. Init => Rights!Init
  BY ConsoleAssumption DEF Init, ui_common_init, Rights!Init
<1>2. ScreenOK /\ PasswordsOK' /\ [Next]_vars => [Rights!Next]_(Rights!vars)
  <2> SUFFICES ASSUME ScreenOK, PasswordsOK', [Next]_vars PROVE [Rights!Next]_(Rights!vars)
    OBVIOUS
  <2> USE DEF Rights!Next
  <2>1. ASSUME NEW pwd \in Typed, kb_event_cb(pwd) PROVE Rights!Login
    <3>1. role = "none" /\ page' = "dashboard" /\ role' = RoleOf(pwd) /\ RoleOf(pwd) # "none"
          /\ UNCHANGED passwords
      BY <2>1 DEF kb_event_cb, Touchable, ui_switch_page, ScreenOK, ScreenMatchesRole
    <3>2. QED BY <3>1 DEF Rights!Login, RoleOf, passwords
  <2>2. ASSUME NEW pwd \in Typed, Elevate(pwd) PROVE Rights!Elevate
    BY <2>2 DEF Elevate, ui_switch_page, ScreenOK, NoDialogLeft, Rights!Elevate, passwords
  <2>3. ASSUME NEW pwd \in Typed, Refuse(pwd) PROVE UNCHANGED Rights!vars
    BY <2>3 DEF Refuse, ScreenOK, NoDialogLeft, passwords
  <2>4. CASE switch_user_btn_cb \/ logout_btn_event_cb
    <3>1. role # "none" /\ AuthLogout
      BY <2>4 DEF switch_user_btn_cb, logout_btn_event_cb, Touchable, Tabs, ScreenOK,
           ScreenMatchesRole
    <3>2. Rights!Logout
      BY <3>1 DEF AuthLogout, ui_switch_page, passwords, Rights!Logout
    <3>3. QED BY <3>2
  <2>5. ASSUME NEW target \in Tabs, nav_btn_event_cb(target) PROVE Rights!Open(target)
    <3>1. role # "none" /\ (target = "settings" => role = "admin") /\ page' = target
          /\ UNCHANGED <<role, passwords>>
      BY <2>5 DEF nav_btn_event_cb, Touchable, Tabs, ui_switch_page, ScreenOK, ScreenMatchesRole
    <3>2. QED BY <3>1 DEF Rights!Open, passwords
  <2>6. CASE pwd_btn_event_cb
    <3>1. role = "admin" /\ page = "settings" /\ UNCHANGED <<session, adminPwd>>
          /\ operatorPwd' \in NewPasswords
      BY <2>6 DEF pwd_btn_event_cb, Touchable
    <3>2. Rights!ChangePassword
      BY <3>1, ConsoleAssumption DEF session, Rights!ChangePassword
    <3>3. QED BY <3>2
  <2>7. CASE PowerFails
    BY <2>7 DEF PowerFails, PasswordsOK, Rights!Restart
  <2>8. CASE \/ show_admin_pwd_dialog \/ Cancel \/ CloseBox \/ update_timer_cb \/ TrendPage
             \/ (\E t \in Threads : QueryThread(t)) \/ UNCHANGED vars
    BY <2>8 DEF show_admin_pwd_dialog, Cancel, CloseBox, update_timer_cb, TrendPage,
         QueryThread, vars, session, passwords
  <2>9. QED
    <3>1. Tabs = Rights!Tabs
      BY DEF Tabs, Rights!Tabs
    <3>2. QED BY <2>1, <2>2, <2>3, <2>4, <2>5, <2>6, <2>7, <2>8, <3>1 DEF Next
<1>3. QED BY <1>1, <1>2, ScreenInvariant, PasswordInvariant, PTL DEF Spec, AccessSafe, Rights!Spec
=============================================================================
