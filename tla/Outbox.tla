-------------------------------- MODULE Outbox --------------------------------
(***************************************************************************)
(* Store and forward, as seen by one sample at a time: the life of a       *)
(* sample in storage.c and in the upload of stored samples, whatever the   *)
(* threads, batches, transactions and connections do.                      *)
(*                                                                         *)
(*   new -> buffered -> stored -> marked -> expired                        *)
(*                                                                         *)
(* A sample may be lost before it is stored, never afterwards; once stored *)
(* it leaves only by ageing; it is marked as uploaded only after it was    *)
(* handed to the MQTT client; nothing goes back or is stored twice.        *)
(***************************************************************************)
EXTENDS Integers

CONSTANT Samples

VARIABLES
    stage,  \* stage[n]: how far sample n has come
    sent    \* the samples handed to the MQTT client out of the store

vars == <<stage, sent>>

Stages == {"new", "buffered", "stored", "marked", "expired", "lost"}

Init == /\ stage = [n \in Samples |-> "new"]
        /\ sent = {}

Accept(n) == stage[n] = "new" /\ stage'[n] \in {"buffered", "stored", "lost"}
Flush(n) == stage[n] = "buffered" /\ stage'[n] \in {"stored", "lost"}
Mark(n) == stage[n] = "stored" /\ stage'[n] = "marked" /\ n \in sent
Expire(n) == stage[n] \in {"stored", "marked"} /\ stage'[n] = "expired"
Stay(n) == stage'[n] = stage[n]

(* A batch moves many samples in one step. *)
Move == /\ stage' \in [Samples -> Stages]
        /\ \A n \in Samples : Accept(n) \/ Flush(n) \/ Mark(n) \/ Expire(n) \/ Stay(n)
        /\ UNCHANGED sent

(* A sample read from the store may have expired before it is sent. *)
Send(n) == /\ stage[n] \in {"stored", "marked", "expired"}
           /\ sent' = sent \cup {n}
           /\ UNCHANGED stage

Next == Move \/ \E n \in Samples : Send(n)

Spec == Init /\ [][Next]_vars
=============================================================================
