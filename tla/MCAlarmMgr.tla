------------------------------ MODULE MCAlarmMgr ------------------------------
(***************************************************************************)
(* Constants of AlarmMgr for TLC: two points of one quantity, thresholds   *)
(* that allow 1 only or everything, and a sample in which one device has   *)
(* two entries.                                                            *)
(***************************************************************************)
EXTENDS AlarmMgr

MCPoints == {"p", "q"}
MCValues == 0..2
Point(x, v) == [point |-> x, val |-> v]
MCSamples == {<<Point("p", 1), Point("q", 1)>>,
              <<Point("p", 2), Point("q", 0), Point("q", 1)>>}
Both(lo, hi) == [x \in MCPoints |-> [min |-> lo, max |-> hi]]
MCDefault == Both(1, 1)
MCSettings == {MCDefault, Both(0, 2)}
=============================================================================
