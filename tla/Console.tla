-------------------------------- MODULE Console --------------------------------
(***************************************************************************)
(* The operator's console: roles and passwords (core/auth.c), the login    *)
(* page, the two bars with the dialog for an administrator's password and  *)
(* the settings of accounts (ui_login.c, ui_common.c, ui_settings.c), the  *)
(* timer that brings in samples (lvgl_ui.c), and the trend page's query    *)
(* (TrendQuery).                                                           *)
(*                                                                         *)
(* Only the UI thread takes these steps, the query threads apart, and a    *)
(* handler runs to its end: what can go wrong is that handlers, of five    *)
(* pages that are all alive behind the one shown, leave role, page,        *)
(* dialogs and buttons in a combination none of them expects.              *)
(***************************************************************************)
EXTENDS TrendQuery, Credentials, FiniteSets

CONSTANTS
    NewPasswords,       \* what is typed into ta_new_pwd
    Operator, Admin,    \* the passwords auth.c starts with
    Garbled,            \* what freed memory may be read as
    MinLength           \* of a new password

ASSUME ConsoleAssumption ==
    /\ NewPasswords \cup Garbled \cup {Operator, Admin} \subseteq Passwords
    /\ Operator # Admin

VARIABLES
    role,               \* current_role
    page,               \* g_current_page
    dialog,             \* g_pwd_msgbox: "none" is NULL, "gone" points to a
                        \* box that has been deleted
    roleLabel,          \* g_lbl_role
    switchBtn,          \* g_btn_switch_user: "hidden" or its text
    navBar,             \* g_nav_bar is visible
    settingsTab,        \* g_nav_btns[3] is visible, as far as its bar is
    adminPwd,           \* admin_password
    operatorPwd,        \* operator_password
    rows,               \* user_credentials: what each row holds
    chosen,             \* history: the operator's password set last
    spoilt              \* history: a save failed, or a row was not read as
                        \* it is written

bars == <<roleLabel, switchBtn, navBar, settingsTab>>
passwords == <<adminPwd, operatorPwd, rows, chosen, spoilt>>
session == <<role, page, dialog, bars>>
vars == <<trend, process, session, passwords>>

Roles == {"none", "operator", "admin"}
Tabs == {"dashboard", "trend", "alarm", "settings"}

TypeOK ==
    /\ TrendTypeOK
    /\ role \in Roles /\ page \in Tabs \cup {"login"}
    /\ dialog \in {"none", "open", "gone"}
    /\ roleLabel \in Roles /\ switchBtn \in {"hidden", "Switch", "Logout"}
    /\ navBar \in BOOLEAN /\ settingsTab \in BOOLEAN
    /\ {adminPwd, operatorPwd, chosen} \subseteq Passwords
    /\ rows \in [{"admin", "operator"} -> Seq(Nat)]
    /\ spoilt \in BOOLEAN

-----------------------------------------------------------------------------
(* ui_status_bar_set_role, ui_nav_bar_update_visibility                    *)
ui_status_bar_set_role(r) ==
    /\ roleLabel' = r
    /\ switchBtn' = CASE r = "none" -> "hidden" [] r = "operator" -> "Switch"
                      [] r = "admin" -> "Logout"

ui_nav_bar_update_visibility(r) == settingsTab' = (r = "admin")

(* ui_switch_page closes what may still be open.  Closing a box that has   *)
(* been deleted already is undefined.                                      *)
ui_switch_page_Open(p) ==    \* mutant: dialogs are left as they are
    /\ page' = p /\ dialog' = dialog /\ process' = "runs" /\ UNCHANGED trend

ui_switch_page(p) ==
    /\ page' = p
    /\ ui_trend_close_picker
    /\ dialog' = "none"
    /\ process' \in IF dialog = "gone" THEN {"runs", "undefined"} ELSE {"runs"}

-----------------------------------------------------------------------------
(* AuthInit reads both rows, and writes the default where one is missing   *)
(* or empty.  StorageLoadCredential looks at the text of the row when the  *)
(* statement that holds it has been finalized: it may still be there, be   *)
(* refused as not hexadecimal, or be something else.                       *)
Readings(row) == {Reloaded(row), <<>>} \cup Garbled

(* Mutants: an empty row is taken as it is; none is taken at all.          *)
Kept_Empty(read, default) == read
Kept_Default(read, default) == default

Kept(read, default) == IF read = <<>> THEN default ELSE read
RowAfter(row, read, default) == IF read = <<>> THEN {row, Stored(default)} ELSE {row}

AuthInit ==
    \E a \in Readings(rows["admin"]), o \in Readings(rows["operator"]) :
        /\ adminPwd' = Kept(a, Admin) /\ operatorPwd' = Kept(o, Operator)
        /\ \E ra \in RowAfter(rows["admin"], a, Admin), ro \in RowAfter(rows["operator"], o, Operator) :
              rows' = [admin |-> ra, operator |-> ro]
        /\ spoilt' = (spoilt \/ o # Reloaded(rows["operator"]))
        /\ UNCHANGED chosen

(* ui_common_init: the bar is hidden, its buttons are not.                 *)
ui_common_init ==
    /\ role = "none" /\ page = "login" /\ dialog = "none"
    /\ roleLabel = "none" /\ switchBtn = "hidden" /\ navBar = FALSE /\ settingsTab = TRUE
    /\ ui_trend_create /\ process = "runs"

(* The first start of all finds no rows and writes the defaults, which is  *)
(* taken to succeed.                                                       *)
Init ==
    /\ ui_common_init
    /\ adminPwd = Admin /\ operatorPwd = Operator
    /\ rows = [admin |-> Stored(Admin), operator |-> Stored(Operator)]
    /\ chosen = Operator /\ spoilt = FALSE

PowerFails ==
    /\ role' = "none" /\ page' = "login" /\ dialog' = "none"
    /\ roleLabel' = "none" /\ switchBtn' = "hidden" /\ navBar' = FALSE /\ settingsTab' = TRUE
    /\ ui_trend_create_again /\ process' = "runs"
    /\ AuthInit

-----------------------------------------------------------------------------
(* AuthLogin: the administrator's password is tried first.                 *)
RoleOf(pwd) == IF pwd = adminPwd THEN "admin" ELSE IF pwd = operatorPwd THEN "operator" ELSE "none"

(* A handler runs when what it belongs to can be touched: nothing else can *)
(* while the dialog lies over the screen.                                  *)
Touchable(where) == process = "runs" /\ dialog # "open" /\ page \in where

(* kb_event_cb of the login page; a wrong password changes a message only. *)
kb_event_cb(pwd) ==
    /\ Touchable({"login"}) /\ RoleOf(pwd) # "none"
    /\ role' = RoleOf(pwd)
    /\ ui_status_bar_set_role(role') /\ ui_nav_bar_update_visibility(role')
    /\ navBar' = TRUE
    /\ ui_switch_page("dashboard")
    /\ UNCHANGED passwords

(* switch_user_btn_cb: an operator is asked for the administrator's        *)
(* password, unless the pointer says that a box is there already;          *)
(* logout_btn_event_cb is the other half.                                  *)
show_admin_pwd_dialog ==
    /\ Touchable(Tabs) /\ switchBtn # "hidden" /\ role = "operator"
    /\ dialog' = IF dialog = "none" THEN "open" ELSE dialog
    /\ UNCHANGED <<trend, process, role, page, bars, passwords>>

AuthLogout ==
    /\ role' = "none"
    /\ ui_status_bar_set_role("none") /\ ui_nav_bar_update_visibility("none")
    /\ navBar' = FALSE
    /\ ui_switch_page("login")
    /\ UNCHANGED passwords

switch_user_btn_cb == Touchable(Tabs) /\ switchBtn # "hidden" /\ role # "operator" /\ AuthLogout
logout_btn_event_cb == Touchable({"settings"}) /\ AuthLogout

(* pwd_keyboard_cb: the password decides the role whoever it belongs to,   *)
(* and only an administrator is taken on to the settings.                  *)
Elevate_Tab(pwd) ==         \* mutant: the tab stays as it was for an operator
    /\ process = "runs" /\ dialog = "open" /\ RoleOf(pwd) = "admin"
    /\ role' = "admin"
    /\ ui_status_bar_set_role("admin")
    /\ ui_switch_page("settings")
    /\ UNCHANGED <<navBar, settingsTab, passwords>>

Elevate(pwd) ==
    /\ process = "runs" /\ dialog = "open" /\ RoleOf(pwd) = "admin"
    /\ role' = "admin"
    /\ ui_status_bar_set_role("admin") /\ ui_nav_bar_update_visibility("admin")
    /\ ui_switch_page("settings")
    /\ UNCHANGED <<navBar, passwords>>

Refuse(pwd) ==
    /\ process = "runs" /\ dialog = "open" /\ RoleOf(pwd) # "admin"
    /\ role' = IF RoleOf(pwd) = "operator" THEN "operator" ELSE role
    /\ dialog' = "none"
    /\ UNCHANGED <<trend, process, page, bars, passwords>>

(* The keyboard's own way to cancel, and the button of the box itself,     *)
(* which lv_msgbox.c handles: nobody is told, and the pointer stays.       *)
Cancel ==
    /\ process = "runs" /\ dialog = "open" /\ dialog' = "none"
    /\ UNCHANGED <<trend, process, role, page, bars, passwords>>

CloseBox ==
    /\ process = "runs" /\ dialog = "open" /\ dialog' = "gone"
    /\ UNCHANGED <<trend, process, role, page, bars, passwords>>

nav_btn_event_cb(target) ==
    /\ Touchable(Tabs) /\ navBar
    /\ target = "settings" => settingsTab /\ role = "admin"
    /\ ui_switch_page(target)
    /\ UNCHANGED <<role, bars, passwords>>

(* pwd_btn_event_cb with AuthChangeOperatorPassword.  The new password is  *)
(* in force whether it could be saved or not; the power failing between    *)
(* the two leaves what a failed save leaves.                               *)
pwd_btn_event_cb ==
    /\ Touchable({"settings"}) /\ role = "admin"
    /\ \E p \in NewPasswords, saves \in BOOLEAN :
          /\ Len(p) >= MinLength
          /\ operatorPwd' = p /\ chosen' = p
          /\ rows' = IF saves THEN [rows EXCEPT !["operator"] = Stored(p)] ELSE rows
          /\ spoilt' = ~saves
    /\ UNCHANGED <<trend, process, session, adminPwd>>

(* update_timer_cb with a new sample: an answer is shown on the trend page *)
(* to whoever is logged in.  What it does for alarms is in AlarmMgr.       *)
update_timer_cb ==
    /\ process = "runs"
    /\ IF role # "none" /\ page = "trend" THEN ui_trend_update ELSE UNCHANGED trend
    /\ UNCHANGED <<process, session, passwords>>

TrendPage ==
    /\ Touchable({"trend"})
    /\ show_time_picker \/ picker_closed_cb \/ query_btn_cb \/ series_dd_cb
    /\ UNCHANGED <<session, passwords>>

QueryThread(t) ==
    /\ process = "runs" /\ query_thread_func(t)
    /\ UNCHANGED <<session, passwords>>

Typed == {adminPwd, operatorPwd} \cup NewPasswords

Next ==
    \/ \E pwd \in Typed : kb_event_cb(pwd) \/ Elevate(pwd) \/ Refuse(pwd)
    \/ show_admin_pwd_dialog \/ switch_user_btn_cb \/ logout_btn_event_cb
    \/ Cancel \/ CloseBox
    \/ \E target \in Tabs : nav_btn_event_cb(target)
    \/ pwd_btn_event_cb
    \/ update_timer_cb
    \/ TrendPage
    \/ \E t \in Threads : QueryThread(t)
    \/ PowerFails

Spec == Init /\ [][Next]_vars

(* Threads that exist are run, and the timer goes off; the collect thread  *)
(* hands over a sample every other second.                                 *)
FairSpec ==
    /\ Spec
    /\ \A t \in Threads : WF_vars(QueryThread(t))
    /\ WF_vars(update_timer_cb)

-----------------------------------------------------------------------------
(* What the screen shows and lets be touched belongs to the role that is   *)
(* logged in: through every order of logging in, asking for more rights,   *)
(* being refused and logging out, label, buttons and bar follow the role,  *)
(* the login page is shown to nobody else, and the settings to an          *)
(* administrator only.                                                     *)
ScreenMatchesRole ==
    /\ roleLabel = role
    /\ navBar <=> role # "none"
    /\ page = "login" <=> role = "none"
    /\ switchBtn = CASE role = "none" -> "hidden" [] role = "operator" -> "Switch"
                     [] role = "admin" -> "Logout"
    /\ role # "none" => (settingsTab <=> role = "admin")
    /\ page = "settings" => role = "admin"

(* No dialog is left behind by a change of page or role: the one for the   *)
(* administrator's password is before an operator, on a page an operator   *)
(* may see, and the one for a time is on the trend page.                   *)
NoDialogLeft ==
    process = "runs" =>
        /\ dialog # "none" => role = "operator" /\ page \in Tabs \ {"settings"}
        /\ picker => page = "trend"

(* The operator's password is the one set last, through power failures,    *)
(* unless it could not be saved, or freed memory was read, or one of its   *)
(* characters is the key's.                                                *)
PasswordKept == spoilt \/ HasKeyChar(chosen) \/ operatorPwd = chosen

(* A query that was started ends, so that another can be asked.            *)
LoadingEnds == loading ~> (~loading \/ stuck \/ process = "undefined")

(* Who stays on the trend page is shown an answer in the end.              *)
AnswerShown ==
    info.outcome = "loading"
        ~> (info.outcome # "loading" \/ page # "trend" \/ stuck \/ process = "undefined")
=============================================================================
