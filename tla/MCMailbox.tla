------------------------------ MODULE MCMailbox ------------------------------
(***************************************************************************)
(* Small instances of Mailbox: the collect thread, which sends, and some   *)
(* of the tasks it sends to, registered in the order of main.c:633-636.    *)
(***************************************************************************)
EXTENDS Mailbox, TLC

CONSTANTS collect, storage, lvgl

MCTasks == {collect, storage, lvgl}
MCSenders == {collect}
(* 50 and 5 in main.c:634-636, scaled down; six is the smallest capacity   *)
(* at which an overflow drops two messages at once.                       *)
MCMaxLen == (collect :> 1) @@ (storage :> 6) @@ (lvgl :> 2)
MCSmallLen == (collect :> 1) @@ (storage :> 2) @@ (lvgl :> 1)

MCOrder == (collect :> 0) @@ (storage :> 1) @@ (lvgl :> 2)
MCMayFail == {storage, lvgl}
MCNoFail == {}
=============================================================================
