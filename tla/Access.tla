-------------------------------- MODULE Access --------------------------------
(***************************************************************************)
(* Who may do what at the screen, whatever dialogs, bars, timers and       *)
(* threads do (core/auth.c, ui_common.c, ui_login.c, ui_settings.c).       *)
(*                                                                         *)
(* A role is got at the login page, and an operator's may be raised; an    *)
(* administrator becomes an operator only by logging out first, although   *)
(* the dialog for more rights sets the role of whoever's password it is    *)
(* given.  Only an administrator sees the settings, and only there a       *)
(* password is changed, the operator's; whoever leaves is back at the      *)
(* login page.                                                             *)
(***************************************************************************)
CONSTANT Passwords

VARIABLES role, page, adminPwd, operatorPwd

session == <<role, page>>
passwords == <<adminPwd, operatorPwd>>
vars == <<session, passwords>>

Tabs == {"dashboard", "trend", "alarm", "settings"}

Init == role = "none" /\ page = "login" /\ {adminPwd, operatorPwd} \subseteq Passwords

(* Where the two passwords are the same, it is the administrator's. *)
Login == /\ role = "none" /\ page' = "dashboard"
         /\ role' = "admin" \/ (role' = "operator" /\ operatorPwd # adminPwd)
         /\ UNCHANGED passwords

Elevate == /\ role = "operator"
           /\ role' = "admin" /\ page' = "settings"
           /\ UNCHANGED passwords

Open(tab) == /\ role # "none" /\ (tab = "settings" => role = "admin")
             /\ page' = tab
             /\ UNCHANGED <<role, passwords>>

ChangePassword == /\ role = "admin" /\ page = "settings"
                  /\ operatorPwd' \in Passwords
                  /\ UNCHANGED <<session, adminPwd>>

Logout == /\ role # "none"
          /\ role' = "none" /\ page' = "login"
          /\ UNCHANGED passwords

(* What a restart reads need not be what was saved. *)
Restart == /\ role' = "none" /\ page' = "login"
           /\ {adminPwd', operatorPwd'} \subseteq Passwords

Next == \/ Login \/ Elevate \/ Logout \/ ChangePassword \/ Restart
        \/ \E tab \in Tabs : Open(tab)

Spec == Init /\ [][Next]_vars
=============================================================================
