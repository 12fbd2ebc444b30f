------------------------------ MODULE TrendQuery ------------------------------
(***************************************************************************)
(* The history query of the trend page: ui/ui_trend.c with the statement   *)
(* it runs (core/storage.c).                                               *)
(*                                                                         *)
(* The UI thread starts a detached thread for a query and looks, with      *)
(* every new sample, whether an answer has been left for it; two flags     *)
(* and one mutex tie the two together.  This module holds the handlers of  *)
(* the page and the steps of the query threads; the page they belong to,   *)
(* and who is logged in, are Console's.                                    *)
(*                                                                         *)
(* The ranges of time are left out: g_query_start and g_query_end always   *)
(* hold what was asked last, and of everything found, shown and drawn the  *)
(* model keeps whether a query was asked after it.  What a query found is  *)
(* one of four outcomes; the code has three, since "refused" and "empty"   *)
(* are both a count of 0.                                                  *)
(***************************************************************************)
EXTENDS Integers

CONSTANTS
    Threads,        \* bound of the model: query threads alive at a time
    Matching,       \* how many rows of sensor_data may lie in a range
    MaxRecords,     \* MAX_QUERY_RECORDS
    MayFail         \* whether a statement can fail for other reasons

ASSUME TrendAssumption ==
    /\ Matching \subseteq Nat /\ MaxRecords \in Nat \ {0} /\ MayFail \in BOOLEAN

Outcomes == {"memory", "refused", "empty", "points"}
Labels == Outcomes \cup {"hint", "loading"}
Answers == [outcome : Outcomes \cup {"none"}, old : BOOLEAN]
NoAnswer == [outcome |-> "none", old |-> TRUE]

VARIABLES
    picker,     \* g_picker_dlg is open
    loading,    \* g_chart_loading
    ready,      \* g_chart_data_ready
    answer,     \* g_point_count and g_points
    chart,      \* the curves drawn are those of the query asked last
    info,       \* lbl_info: "hint", "loading" or the outcome shown
    pc,         \* query threads: next step
    found,      \* query threads: what is to be published
    stuck,      \* history: a query thread could not be created
    process     \* "runs", or "undefined" after undefined behaviour

labels == <<chart, info>>
workers == <<pc, found>>
published == <<loading, ready, answer>>
trend == <<picker, published, labels, workers, stuck>>

TrendTypeOK ==
    /\ picker \in BOOLEAN /\ loading \in BOOLEAN /\ ready \in BOOLEAN /\ stuck \in BOOLEAN
    /\ answer \in Answers /\ found \in [Threads -> Answers]
    /\ chart \in BOOLEAN /\ info \in [outcome : Labels, old : BOOLEAN]
    /\ pc \in [Threads -> {"none", "start", "memory", "query", "publish", "clear"}]
    /\ process \in {"runs", "undefined"}

Label(text) == [outcome |-> text, old |-> FALSE]

(* ui_trend_create: nothing has been asked yet.                            *)
ui_trend_create ==
    /\ picker = FALSE
    /\ loading = FALSE /\ ready = FALSE /\ answer = NoAnswer
    /\ chart = FALSE /\ info = Label("hint")
    /\ pc = [t \in Threads |-> "none"] /\ found = [t \in Threads |-> NoAnswer]
    /\ stuck = FALSE

(* The same after a restart.                                               *)
ui_trend_create_again ==
    /\ picker' = FALSE
    /\ loading' = FALSE /\ ready' = FALSE /\ answer' = NoAnswer
    /\ chart' = FALSE /\ info' = Label("hint")
    /\ pc' = [t \in Threads |-> "none"] /\ found' = [t \in Threads |-> NoAnswer]
    /\ stuck' = FALSE

-----------------------------------------------------------------------------
(* show_time_picker, where opening it twice changes nothing;               *)
(* picker_cancel_cb, and picker_ok_cb, which replaces one end of the range. *)
show_time_picker ==
    /\ picker' = TRUE
    /\ UNCHANGED <<published, labels, workers, stuck, process>>

picker_closed_cb ==
    /\ picker /\ picker' = FALSE
    /\ UNCHANGED <<published, labels, workers, stuck, process>>

(* ui_trend_close_picker: nothing else of the page changes with it.        *)
ui_trend_close_picker ==
    /\ picker' = FALSE
    /\ UNCHANGED <<published, labels, workers, stuck>>

-----------------------------------------------------------------------------
(* What was found, and drawn, before another query is asked.               *)
Aged(a) == [a EXCEPT !.old = TRUE]

Ask ==
    /\ loading' = TRUE /\ info' = Label("loading") /\ chart' = FALSE
    /\ answer' = Aged(answer) /\ found' = [t \in Threads |-> Aged(found[t])]

(* pthread_create for a query thread.                                      *)
Create == \E t \in Threads : pc[t] = "none" /\ pc' = [pc EXCEPT ![t] = "start"]

(* do_query: refused while one is under way.  A thread that cannot be      *)
(* created goes unnoticed: the flag stays set, and pthread_detach is given *)
(* an identifier nobody has written, which may end the process.            *)
do_query_Again == Ask /\ Create /\ UNCHANGED <<stuck, process>>   \* mutant: never refused

do_query ==
    \/ loading /\ UNCHANGED <<loading, answer, labels, workers, stuck, process>>
    \/ /\ ~loading /\ Ask
       /\ \/ Create /\ UNCHANGED <<stuck, process>>
          \/ /\ stuck' = TRUE /\ UNCHANGED pc
             /\ process' \in {"runs", "undefined"}

(* query_btn_cb for the range in the fields, quick_btn_cb for the last     *)
(* hours.                                                                  *)
query_btn_cb == do_query /\ UNCHANGED <<picker, ready>>

(* series_dd_cb: draws the curves again, of an answer not shown yet too.   *)
series_dd_cb ==
    /\ answer.outcome = "points" /\ chart' = ~answer.old
    /\ UNCHANGED <<picker, published, info, workers, stuck, process>>

(* ui_trend_update, on the trend page: an answer without points changes    *)
(* the label only.                                                         *)
ui_trend_update ==
    IF ~ready
    THEN UNCHANGED trend
    ELSE /\ ready' = FALSE /\ info' = answer
         /\ chart' = IF answer.outcome = "points" THEN ~answer.old ELSE chart
         /\ UNCHANGED <<picker, loading, answer, workers, stuck>>

-----------------------------------------------------------------------------
(* query_thread_func.  Without memory the flag is cleared first and the    *)
(* answer published later; on all other paths it is the other way round.   *)
Allocate(t) ==
    /\ pc[t] = "start"
    /\ \/ pc' = [pc EXCEPT ![t] = "query"] /\ UNCHANGED <<loading, found>>
       \/ /\ loading' = FALSE
          /\ found' = [found EXCEPT ![t] = [outcome |-> "memory", old |-> FALSE]]
          /\ pc' = [pc EXCEPT ![t] = "memory"]
    /\ UNCHANGED <<picker, ready, answer, labels, stuck, process>>

(* StorageQueryDataEntries: query_entry_callback ends the statement when   *)
(* one row more than fit is found, and the whole query has failed then; it *)
(* may fail for other reasons as well.                                     *)
Result(n) == IF n = 0 THEN "empty" ELSE IF n > MaxRecords THEN "refused" ELSE "points"

StorageQueryDataEntries_Early(t) ==     \* mutant: the flag is cleared first here too
    /\ pc[t] = "query"
    /\ \E n \in Matching :
          found' = [found EXCEPT ![t] = [outcome |-> Result(n), old |-> FALSE]]
    /\ pc' = [pc EXCEPT ![t] = "publish"] /\ loading' = FALSE
    /\ UNCHANGED <<picker, ready, answer, labels, stuck, process>>

StorageQueryDataEntries(t) ==
    /\ pc[t] = "query"
    /\ \E n \in Matching, fails \in BOOLEAN :
          LET o == IF fails THEN "refused" ELSE Result(n)
          IN  /\ fails => MayFail
              /\ found' = [found EXCEPT ![t] = [outcome |-> o, old |-> FALSE]]
    /\ pc' = [pc EXCEPT ![t] = "publish"]
    /\ UNCHANGED <<picker, published, labels, stuck, process>>

Publish_NotReady(t) ==      \* mutant: the flag for the UI thread is forgotten
    /\ pc[t] \in {"publish", "memory"}
    /\ answer' = found[t]
    /\ pc' = [pc EXCEPT ![t] = IF pc[t] = "publish" THEN "clear" ELSE "none"]
    /\ found' = [found EXCEPT ![t] = NoAnswer]
    /\ UNCHANGED <<picker, loading, ready, labels, stuck, process>>

Publish(t) ==
    /\ pc[t] \in {"publish", "memory"}
    /\ answer' = found[t] /\ ready' = TRUE
    /\ pc' = [pc EXCEPT ![t] = IF pc[t] = "publish" THEN "clear" ELSE "none"]
    /\ found' = [found EXCEPT ![t] = NoAnswer]
    /\ UNCHANGED <<picker, loading, labels, stuck, process>>

Clear_Never(t) ==           \* mutant: the flag stays set
    /\ pc[t] = "clear"
    /\ pc' = [pc EXCEPT ![t] = "none"]
    /\ UNCHANGED <<picker, published, labels, found, stuck, process>>

Clear(t) ==
    /\ pc[t] = "clear" /\ loading' = FALSE
    /\ pc' = [pc EXCEPT ![t] = "none"]
    /\ UNCHANGED <<picker, ready, answer, labels, found, stuck, process>>

query_thread_func(t) ==
    Allocate(t) \/ StorageQueryDataEntries(t) \/ Publish(t) \/ Clear(t)

-----------------------------------------------------------------------------
Busy == {t \in Threads : pc[t] \in {"start", "query", "publish", "clear"}}

(* The loading flag is set exactly while one thread has a query under way, *)
(* or when none could be created for it: the order in which the flag, the  *)
(* answer and the thread's end come never lets a second query in.          *)
OneQuery ==
    /\ loading <=> stuck \/ Busy # {}
    /\ \A t, u \in Busy : t = u
    /\ stuck => Busy = {}

(* When every thread has ended and no answer is left to show, the label is *)
(* about the query asked last, with the curves it announces, but for one   *)
(* case: a thread without memory clears the flag before it publishes, and  *)
(* its "Memory error" may take the place of the answer to a newer query.   *)
(* No other answer is left standing once a newer query has been asked.     *)
Settled == ~loading /\ ~ready /\ \A t \in Threads : pc[t] = "none"

ShownIsLast ==
    Settled => /\ info.old => info.outcome = "memory"
               /\ info.outcome = "points" => chart

(* "No data found" is shown only when no row lies in the range.            *)
NoDataMeansNone == info.outcome # "refused"
=============================================================================
