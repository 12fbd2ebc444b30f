----------------------------- MODULE LossyMailbox -----------------------------
(***************************************************************************)
(* What a user of core/mailbox.c is promised, without threads, locks, the  *)
(* registry or the condition variable: every task owns a FIFO box; a put   *)
(* always keeps the new message and loses older ones only when the box is  *)
(* full, and then only from the front and never below four fifths of the   *)
(* capacity; a get takes the oldest message.  The box of a task whose      *)
(* registration failed is gone for good.                                   *)
(***************************************************************************)
EXTENDS Integers, Sequences

CONSTANTS
    Tasks,      \* the names a message can be addressed to
    Messages,   \* everything that can be sent
    MaxLen      \* MaxLen[t]: capacity of the box of t, not zero

VARIABLES
    box,    \* box[t]: the messages waiting for t, oldest first
    gone    \* the tasks that will never have a box again

vars == <<box, gone>>

Init == /\ box = [t \in Tasks |-> <<>>]
        /\ gone = {}

(* The n oldest messages are lost; none unless the box is full. *)
MayLose(t, n) ==
    \/ n = 0 /\ Len(box[t]) < MaxLen[t]
    \/ /\ Len(box[t]) >= MaxLen[t]
       /\ n > 0
       /\ Len(box[t]) - n >= (4 * MaxLen[t]) \div 5

Put(t, m) ==
    /\ t \notin gone
    /\ \E n \in 0..Len(box[t]) :
          /\ MayLose(t, n)
          /\ box' = [box EXCEPT ![t] = Append(SubSeq(@, n + 1, Len(@)), m)]
    /\ UNCHANGED gone

Get(t) ==
    /\ box[t] # <<>>
    /\ box' = [box EXCEPT ![t] = Tail(@)]
    /\ UNCHANGED gone

Abandon(t) ==
    /\ gone' = gone \cup {t}
    /\ box' = [box EXCEPT ![t] = <<>>]

Next == \E t \in Tasks : \/ \E m \in Messages : Put(t, m)
                         \/ Get(t)
                         \/ Abandon(t)

SafeSpec == Init /\ [][Next]_vars

(* Whoever owns a box keeps emptying it. *)
FairSpec == SafeSpec /\ \A t \in Tasks : WF_vars(Get(t))
=============================================================================
