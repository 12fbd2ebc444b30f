-------------------------------- MODULE Uplink --------------------------------
(***************************************************************************)
(* The way of a sample from pthread_collect to the SQLite table and to the *)
(* MQTT client: core/storage.c, core/mqtt.c and the threads of core/main.c *)
(* that use them.                                                          *)
(*                                                                         *)
(* Grain of the steps.  What runs under g_storage_lock is one step.  The   *)
(* mqtt thread makes separate steps of connecting and of setting           *)
(* g_mqtt_connected, because the library thread calls connlost in between, *)
(* and of flushing, selecting, each upload and marking, because the        *)
(* storage thread inserts and deletes rows in between.                     *)
(*                                                                         *)
(* The mailboxes are those of LossyMailbox, which Mailbox implements.  A   *)
(* sample is the number of the collect cycle that produced it.             *)
(***************************************************************************)
EXTENDS Integers, Sequences, FiniteSets

CONSTANTS
    StoreEvery,     \* every StoreEvery-th sample goes to storage (3 in main.c)
    PublishEvery,   \* every PublishEvery-th sample goes to mqtt (5 in main.c)
    Capacity,       \* Capacity["storage"], Capacity["mqtt"]: max_len of the boxes
    BatchSize,      \* STORAGE_BATCH_SIZE
    ResumeSize,     \* RESUME_BATCH_SIZE
    CleanEvery,     \* the storage thread cleans every CleanEvery messages
    MaxDelay,       \* the longest reconnect delay (60 in main.c and mqtt.c)
    Faults,         \* which statements and allocations may fail
    MaxCycle,       \* bound of the model: the last sample that may be stored
    MaxRestart      \* bound of the model: how often the power fails

Boxes == {"storage", "mqtt"}

ASSUME UplinkAssumption ==
    /\ StoreEvery \in Nat \ {0} /\ PublishEvery \in Nat \ {0}
    /\ Capacity \in [Boxes -> Nat \ {0}]
    /\ BatchSize \in Nat \ {0} /\ ResumeSize \in Nat \ {0} /\ CleanEvery \in Nat \ {0}
    /\ MaxDelay \in Nat /\ MaxDelay >= 2
    /\ Faults \subseteq {"begin", "insert", "commit", "select", "update", "malloc"}
    /\ MaxCycle \in Nat /\ MaxRestart \in Nat

Samples == 0..MaxCycle

VARIABLES
    cycle, cpc,         \* collect: its counter; which send is next
    box,                \* the mailboxes of the storage and the mqtt thread
    batch,              \* g_batch_buf up to g_batch_count
    rows,               \* sensor_data: id -> sample
    nextId,             \* the next AUTOINCREMENT id
    synced,             \* ids of the rows with synced=1
    spc, takes,         \* storage thread: where it is; its cycle modulo CleanEvery
    mpc,                \* mqtt thread: where it is
    fetched, sentIds,   \* resume_unsynced_data: batch[] and ids[]
    connected,          \* g_mqtt_connected
    session,            \* the TCP session: "up", "broken" unnoticed, "closed"
    callback,           \* the library owes a call of connlost
    reconnectDelay,     \* reconnect_delay of pthread_mqtt
    mqttDelay,          \* g_reconnect_delay of mqtt.c
    waited,             \* seconds slept before the connect attempt under way
    restarts,           \* power failures so far
    owed,               \* history: unsynced samples the last process left
                        \* behind, if the power failed during an outage
    lost, expired,      \* history: taken but never stored; deleted by age
    handed,             \* history: stored samples mqtt_send_all reported as sent
    failures,           \* history: failed connect attempts in a row, until the
                        \* delay has reached its maximum
    beginFailed         \* history: a BEGIN failed since the last start

collecting == <<cycle, cpc>>
table == <<rows, nextId>>
resume == <<fetched, sentIds>>
delays == <<reconnectDelay, mqttDelay, waited, failures>>
client == <<connected, session, callback>>
history == <<lost, expired, handed, beginFailed>>
vars == <<collecting, box, batch, table, synced, spc, takes, mpc, resume,
          delays, client, restarts, owed, history>>

Mail == INSTANCE LossyMailbox WITH
    Tasks <- Boxes, Messages <- Samples, MaxLen <- Capacity, gone <- {}

Elements(q) == {q[i] : i \in DOMAIN q}
NoRows == [id \in {} |-> 0]

(* 2, 4, 8, ... seconds: what is documented of the waits, without a limit. *)
Waits[k \in Nat] == IF k = 0 THEN 2 ELSE 2 * Waits[k - 1]

MqttPcs == {"init", "up", "recv", "connect", "raise", "flush", "query", "resend",
            "mark", "live"}

(* A process that has just started: nothing in memory, not connected.      *)
Init ==
    /\ cpc = "storage" /\ box = [b \in Boxes |-> <<>>]
    /\ batch = <<>> /\ spc = "recv" /\ takes = 0
    /\ mpc = "init" /\ fetched = NoRows /\ sentIds = {}
    /\ connected = FALSE /\ session = "closed" /\ callback = FALSE
    /\ reconnectDelay = 2 /\ mqttDelay = 2 /\ waited = 0 /\ failures = 0
    /\ beginFailed = FALSE
    /\ cycle = 0 /\ restarts = 0 /\ owed = {}
    /\ rows = NoRows /\ nextId = 1 /\ synced = {}
    /\ lost = {} /\ expired = {} /\ handed = {}

-----------------------------------------------------------------------------
(* pthread_collect.  The message to lvgl has no part here.                 *)

CollectStore ==
    /\ cpc = "storage" /\ cycle <= MaxCycle
    /\ IF cycle % StoreEvery = 0 THEN Mail!Put("storage", cycle) ELSE UNCHANGED box
    /\ cpc' = "mqtt"
    /\ UNCHANGED <<cycle, batch, table, synced, spc, takes, mpc, resume,
                   delays, client, restarts, owed, history>>

CollectPublish ==
    /\ cpc = "mqtt"
    /\ IF cycle % PublishEvery = 0 THEN Mail!Put("mqtt", cycle) ELSE UNCHANGED box
    /\ cpc' = "storage" /\ cycle' = cycle + 1
    /\ UNCHANGED <<batch, table, synced, spc, takes, mpc, resume,
                   delays, client, restarts, owed, history>>

(* Bound of the model: collect never stops, but later samples are not      *)
(* stored any more and are all called MaxCycle.                            *)
CollectBeyond ==
    /\ cycle > MaxCycle
    /\ Mail!Put("mqtt", MaxCycle)
    /\ UNCHANGED <<collecting, batch, table, synced, spc, takes, mpc, resume,
                   delays, client, restarts, owed, history>>

-----------------------------------------------------------------------------
(* StorageFlushBatch_locked for a buffer that holds b.                     *)

(* Which elements of b are inserted: all, or those whose INSERT succeeds.  *)
Positions(b) ==
    {pos \in UNION {[1..m -> 1..Len(b)] : m \in 0..Len(b)} :
        /\ \A i, j \in DOMAIN pos : i < j => pos[i] < pos[j]
        /\ "insert" \notin Faults => DOMAIN pos = 1..Len(b)}

(* Mutant: one more than the greatest id in the table, as without          *)
(* AUTOINCREMENT.                                                          *)
NewId_Reused == 1 + CHOOSE k \in DOMAIN rows \cup {0} : \A j \in DOMAIN rows : j <= k

(* AUTOINCREMENT never gives an id twice.                                  *)
NewId == nextId

(* Mutant: g_batch_count is not reset.                                     *)
Emptied_Not(b) == b
Emptied(b) == <<>>

FlushCommits(b) ==
    \E pos \in Positions(b) :
        LET m == Cardinality(DOMAIN pos)
        IN  /\ rows' = [id \in DOMAIN rows \cup NewId..(NewId + m - 1) |->
                          IF id \in DOMAIN rows THEN rows[id] ELSE b[pos[id - NewId + 1]]]
            /\ nextId' = NewId + m
            /\ lost' = lost \cup (Elements(b) \ {b[pos[i]] : i \in DOMAIN pos})
            /\ batch' = Emptied(b)
            /\ UNCHANGED beginFailed

(* COMMIT fails: the rows are rolled back and the buffer is emptied anyway.*)
FlushRollsBack(b) ==
    /\ "commit" \in Faults
    /\ lost' = lost \cup Elements(b)
    /\ batch' = <<>>
    /\ UNCHANGED <<table, beginFailed>>

(* BEGIN fails: the buffer stays as it is.                                 *)
FlushNotBegun(b) ==
    /\ "begin" \in Faults
    /\ batch' = b
    /\ beginFailed' = TRUE
    /\ UNCHANGED <<table, lost>>

Flush(b) == FlushCommits(b) \/ FlushRollsBack(b) \/ FlushNotBegun(b)

-----------------------------------------------------------------------------
(* pthread_storage: MailBoxRecvMsg and StorageBatchInsert.                 *)

(* Mutant: the buffer may hold one element more before it is flushed.      *)
Full_OffByOne(b) == Len(b) > BatchSize
Full(b) == Len(b) >= BatchSize

AfterTake ==
    /\ takes' = (takes + 1) % CleanEvery
    /\ spc' = IF takes' = 0 THEN "clean" ELSE "recv"

(* The buffer is flushed when it is full or has not been for 30 seconds.   *)
StorageTake ==
    /\ spc = "recv" /\ Len(batch) < BatchSize
    /\ Mail!Get("storage")
    /\ LET n == Head(box["storage"])
           b == Append(batch, n)
       IN  \/ Flush(b)
           \/ ~Full(b) /\ batch' = b /\ UNCHANGED <<table, lost, beginFailed>>
    /\ AfterTake
    /\ UNCHANGED <<collecting, synced, mpc, resume, delays, client, restarts, owed,
                   expired, handed>>

(* g_batch_buf[g_batch_count] is written with g_batch_count equal to its   *)
(* size.  Nothing is said about what the process does from here on.        *)
StorageOverrun ==
    /\ spc = "recv" /\ Len(batch) >= BatchSize
    /\ Mail!Get("storage")
    /\ spc' = "undefined"
    /\ UNCHANGED <<collecting, batch, table, synced, takes, mpc, resume,
                   delays, client, restarts, owed, history>>

(* StorageCleanOldData(1): the rows up to some age go, synced or not.  The *)
(* checkpoint that follows changes nothing that is modelled.               *)
StorageClean ==
    /\ spc = "clean"
    /\ \E k \in DOMAIN rows \cup {0} :
          LET old == {id \in DOMAIN rows : id <= k}
          IN  /\ rows' = [id \in DOMAIN rows \ old |-> rows[id]]
              /\ synced' = synced \ old
              /\ expired' = expired \cup {rows[id] : id \in old}
    /\ spc' = "recv"
    /\ UNCHANGED <<collecting, box, batch, nextId, takes, mpc, resume, delays,
                   client, restarts, owed, lost, handed, beginFailed>>

-----------------------------------------------------------------------------
(* The client library (external), whose thread calls connlost.  With QoS 0 *)
(* a publish on a session that broke unnoticed still reports success.      *)

SessionBreaks ==
    /\ session = "up"
    /\ session' = "broken"
    /\ UNCHANGED <<collecting, box, batch, table, synced, spc, takes, mpc, resume,
                   delays, connected, callback, restarts, owed, history>>

SessionNoticed ==
    /\ session = "broken"
    /\ session' = "closed" /\ callback' = TRUE
    /\ UNCHANGED <<collecting, box, batch, table, synced, spc, takes, mpc, resume,
                   delays, connected, restarts, owed, history>>

ConnLost ==
    /\ callback
    /\ callback' = FALSE /\ connected' = FALSE
    /\ UNCHANGED <<collecting, box, batch, table, synced, spc, takes, mpc, resume,
                   delays, session, restarts, owed, history>>

(* mqtt_send_all returns 0. *)
SendAllOk == connected /\ session # "closed" /\ UNCHANGED client

(* What a failed publish or wait makes of g_mqtt_connected.                *)
ConnectedAfterFailure_Kept == connected     \* mutant: the flag is left alone
ConnectedAfterFailure == FALSE

(* It returns -1: not connected, or the publish or the wait for completion *)
(* fails, which closes the session.                                        *)
SendAllFails ==
    \/ ~connected /\ UNCHANGED client
    \/ /\ connected
       /\ callback' = (callback \/ session # "closed")
       /\ session' = "closed" /\ connected' = ConnectedAfterFailure

-----------------------------------------------------------------------------
(* pthread_mqtt                                                            *)

MqttStep(from, to) == mpc = from /\ mpc' = to

(* Only this thread sets g_mqtt_connected, so mqtt_reconnect never returns *)
(* at its first line.  mqtt_init: connect, then set the flag.              *)
MqttInitFails ==
    /\ MqttStep("init", "recv")
    /\ UNCHANGED <<collecting, box, batch, table, synced, spc, takes, resume,
                   delays, client, restarts, owed, history>>

MqttInitConnects ==
    /\ MqttStep("init", "up")
    /\ session' = "up"
    /\ UNCHANGED <<collecting, box, batch, table, synced, spc, takes, resume,
                   delays, connected, callback, restarts, owed, history>>

MqttInitRaises ==
    /\ MqttStep("up", "recv")
    /\ connected' = TRUE
    /\ UNCHANGED <<collecting, box, batch, table, synced, spc, takes, resume,
                   delays, session, callback, restarts, owed, history>>

(* MailBoxRecvMsg and the test of the flag; a thread that is not connected *)
(* sleeps twice, once in pthread_mqtt and once in mqtt_reconnect.          *)
MqttRecv ==
    /\ mpc = "recv"
    /\ Mail!Get("mqtt")
    /\ \/ connected /\ mpc' = "live" /\ UNCHANGED waited
       \/ ~connected /\ mpc' = "connect" /\ waited' = reconnectDelay + mqttDelay
    /\ UNCHANGED <<collecting, batch, table, synced, spc, takes, resume, reconnectDelay,
                   mqttDelay, failures, client, restarts, owed, history>>

Doubled_NoCap(d) == 2 * d      \* mutant: no upper bound
Doubled(d) == IF 2 * d > MaxDelay THEN MaxDelay ELSE 2 * d

(* The sample is dropped. *)
MqttConnectFails ==
    /\ MqttStep("connect", "recv")
    /\ reconnectDelay' = Doubled(reconnectDelay) /\ mqttDelay' = Doubled(mqttDelay)
    /\ failures' = IF Waits[failures] < MaxDelay THEN failures + 1 ELSE failures
    /\ waited' = 0 /\ session' = "closed"
    /\ callback' = (callback \/ session # "closed")
    /\ UNCHANGED <<collecting, box, batch, table, synced, spc, takes, resume,
                   connected, restarts, owed, history>>

MqttConnects ==
    /\ MqttStep("connect", "raise")
    /\ session' = "up"
    /\ UNCHANGED <<collecting, box, batch, table, synced, spc, takes, resume, delays,
                   connected, callback, restarts, owed, history>>

(* g_reconnect_delay once a connect has succeeded.                         *)
DelayAfterConnect_Kept == mqttDelay     \* mutant: only main.c starts over
DelayAfterConnect == 2

(* The flag is set and both delays start over; resume_unsynced_data gives  *)
(* up at once if it gets no memory.                                        *)
MqttRaises ==
    /\ mpc = "raise"
    /\ mpc' = "flush" \/ ("malloc" \in Faults /\ mpc' = "live")
    /\ connected' = TRUE
    /\ reconnectDelay' = 2 /\ mqttDelay' = DelayAfterConnect
    /\ waited' = 0 /\ failures' = 0
    /\ UNCHANGED <<collecting, box, batch, table, synced, spc, takes, resume,
                   session, callback, restarts, owed, history>>

-----------------------------------------------------------------------------
(* resume_unsynced_data                                                    *)

(* StorageQueryUnsynced first flushes what is buffered. *)
ResumeFlush ==
    /\ MqttStep("flush", "query")
    /\ IF batch = <<>> THEN UNCHANGED <<batch, table, lost, beginFailed>> ELSE Flush(batch)
    /\ UNCHANGED <<collecting, box, synced, spc, takes, resume, delays, client,
                   restarts, owed, expired, handed>>

Unsynced == DOMAIN rows \ synced

(* The k oldest of a set of ids; ids are in the order of the timestamps.   *)
Oldest(ids, k) == {id \in ids : Cardinality({j \in ids : j < id}) < k}

(* Its SELECT: at most ResumeSize rows; an error leaves fewer in batch[].  *)
ResumeQuery ==
    /\ mpc = "query"
    /\ \E k \in 0..ResumeSize :
          /\ "select" \notin Faults => k = ResumeSize
          /\ fetched' = [id \in Oldest(Unsynced, k) |-> rows[id]]
    /\ mpc' = IF DOMAIN fetched' = {} THEN "live" ELSE "resend"
    /\ UNCHANGED <<collecting, box, batch, table, synced, spc, takes, sentIds,
                   delays, client, restarts, owed, history>>

IsNextToSend(id) ==
    /\ id \in DOMAIN fetched \ sentIds
    /\ \A j \in DOMAIN fetched \ sentIds : id <= j

ResumeSend ==
    /\ mpc = "resend"
    /\ SendAllOk
    /\ \E id \in DOMAIN fetched :
          /\ IsNextToSend(id)
          /\ sentIds' = sentIds \cup {id}
          /\ handed' = handed \cup {fetched[id]}
    /\ mpc' = IF sentIds' = DOMAIN fetched THEN "mark" ELSE "resend"
    /\ UNCHANGED <<collecting, box, batch, table, synced, spc, takes, fetched, delays,
                   restarts, owed, lost, expired, beginFailed>>

ResumeSendFails ==
    /\ mpc = "resend"
    /\ SendAllFails
    /\ IF sentIds = {} THEN mpc' = "live" /\ fetched' = NoRows
                       ELSE mpc' = "mark" /\ UNCHANGED fetched
    /\ UNCHANGED <<collecting, box, batch, table, synced, spc, takes, sentIds,
                   delays, restarts, owed, history>>

(* Mutants: the whole batch is marked, whatever was sent; nothing is.      *)
ToMark_All == DOMAIN fetched
ToMark_None == {}
ToMark == sentIds

AfterMark_Once == "live"     \* mutant: one batch per connection
AfterMark == IF sentIds = DOMAIN fetched THEN "flush" ELSE "live"

(* StorageMarkSyncedBatch, then the next round or, if a send failed, no    *)
(* more.  A row deleted since the SELECT is not updated.                   *)
ResumeMark ==
    /\ mpc = "mark"
    /\ \E done \in SUBSET (ToMark \cap DOMAIN rows) :
          /\ "update" \notin Faults => done = ToMark \cap DOMAIN rows
          /\ synced' = synced \cup done
    /\ mpc' = AfterMark
    /\ fetched' = NoRows /\ sentIds' = {}
    /\ UNCHANGED <<collecting, box, batch, table, spc, takes, delays, client,
                   restarts, owed, history>>

(* The sample that was taken is uploaded last, if the flag is still set.   *)
MqttLive ==
    /\ MqttStep("live", "recv")
    /\ SendAllOk \/ SendAllFails
    /\ UNCHANGED <<collecting, box, batch, table, synced, spc, takes, resume, delays,
                   restarts, owed, history>>

-----------------------------------------------------------------------------
(* The power fails and the program starts again: what is committed stays,  *)
(* everything else is gone.  The new process counts from a multiple of     *)
(* both periods, as from 0.                                                *)
PowerFails ==
    /\ restarts < MaxRestart
    /\ restarts' = restarts + 1
    /\ cpc' = "storage" /\ box' = [b \in Boxes |-> <<>>]
    /\ batch' = <<>> /\ spc' = "recv" /\ takes' = 0
    /\ mpc' = "init" /\ fetched' = NoRows /\ sentIds' = {}
    /\ connected' = FALSE /\ session' = "closed" /\ callback' = FALSE
    /\ reconnectDelay' = 2 /\ mqttDelay' = 2 /\ waited' = 0 /\ failures' = 0
    /\ beginFailed' = FALSE
    /\ LET used == IF cpc = "mqtt" THEN cycle + 1 ELSE cycle
           period == StoreEvery * PublishEvery
       IN  cycle' = ((used + period - 1) \div period) * period
    /\ lost' = lost \cup Elements(batch)
    /\ owed' = IF connected \/ mpc \in {"init", "up"} THEN {} ELSE {rows[id] : id \in Unsynced}
    /\ UNCHANGED <<table, synced, expired, handed>>

-----------------------------------------------------------------------------
Collect == CollectStore \/ CollectPublish \/ CollectBeyond
Storage == StorageTake \/ StorageOverrun \/ StorageClean
Mqtt == \/ MqttInitFails \/ MqttInitConnects \/ MqttInitRaises
        \/ MqttRecv \/ MqttConnectFails \/ MqttConnects \/ MqttRaises
        \/ ResumeFlush \/ ResumeQuery \/ ResumeSend \/ ResumeSendFails \/ ResumeMark
        \/ MqttLive
Library == SessionBreaks \/ SessionNoticed \/ ConnLost

Next == \/ spc # "undefined" /\ (Collect \/ Storage \/ Mqtt \/ Library)
        \/ PowerFails

Spec == Init /\ [][Next]_vars

(* Every thread is scheduled, the keepalive notices a broken session and   *)
(* the library calls connlost; whether a connect succeeds is left open.    *)
FairSpec ==
    /\ Spec
    /\ WF_vars(Collect) /\ WF_vars(Storage) /\ WF_vars(Mqtt)
    /\ WF_vars(SessionNoticed) /\ WF_vars(ConnLost)

-----------------------------------------------------------------------------
(* Every variable keeps its type; the buffer never holds more than its     *)
(* size, and the flags and locals of the threads stay within their range.  *)
TypeOK ==
    /\ cycle \in Nat /\ cpc \in Boxes
    /\ box \in [Boxes -> Seq(Samples)] /\ batch \in Seq(Samples) /\ Len(batch) <= BatchSize
    /\ nextId \in Nat \ {0} /\ DOMAIN rows \subseteq 1..(nextId - 1)
    /\ \A id \in DOMAIN rows : rows[id] \in Samples
    /\ synced \subseteq DOMAIN rows
    /\ spc \in {"recv", "clean", "undefined"} /\ takes \in 0..(CleanEvery - 1)
    /\ mpc \in MqttPcs
    /\ DOMAIN fetched \subseteq 1..(nextId - 1) /\ \A id \in DOMAIN fetched : fetched[id] \in Samples
    /\ sentIds \subseteq DOMAIN fetched
    /\ connected \in BOOLEAN /\ session \in {"up", "broken", "closed"} /\ callback \in BOOLEAN
    /\ reconnectDelay \in 2..MaxDelay /\ mqttDelay \in 2..MaxDelay
    /\ waited \in Nat /\ failures \in Nat
    /\ restarts \in 0..MaxRestart /\ beginFailed \in BOOLEAN
    /\ lost \subseteq Samples /\ expired \subseteq Samples /\ handed \subseteq Samples
    /\ owed \subseteq Samples

(* g_batch_buf is overrun only by the storage thread of a process whose    *)
(* BEGIN has failed; size, 30 s timeout and the flushes of the mqtt thread *)
(* never let it happen otherwise.                                          *)
NoOverrun == spc = "undefined" => beginFailed

(* No sample is stored twice, although two threads flush the buffer and a  *)
(* flush may fail half way.                                                *)
StoredOnce ==
    /\ \A i, j \in DOMAIN rows : rows[i] = rows[j] => i = j
    /\ \A i, j \in DOMAIN batch : batch[i] = batch[j] => i = j
    /\ \A id \in DOMAIN rows : rows[id] \notin Elements(batch)

(* A row is marked as synced only if mqtt_send_all reported success for    *)
(* the sample of that very row, although rows are inserted and deleted     *)
(* between the SELECT, the uploads and the UPDATEs by id.                  *)
SyncedWasSent == \A id \in synced : rows[id] \in handed

(* The delays that main.c and mqtt.c keep apart from one another are both  *)
(* 2 seconds, doubled with every failure up to the maximum: neither starts *)
(* over, or runs ahead, without the other.                                 *)
Documented(k) == IF Waits[k] > MaxDelay THEN MaxDelay ELSE Waits[k]
DelaysInStep ==
    reconnectDelay = Documented(failures) /\ mqttDelay = Documented(failures)

(* The attempt after k failures comes after a wait of 2, 4, 8, up to 60    *)
(* seconds, as line 145 of the project's introduction says.  It does not:  *)
(* pthread_mqtt sleeps for its delay, and mqtt_reconnect for its own after *)
(* that.                                                                   *)
WaitsAsDocumented == mpc = "connect" => waited = Documented(failures)

(* The life of every sample is the one Outbox allows.                      *)
Stage(n) ==
    CASE n \in Elements(batch) -> "buffered"
      [] \E id \in synced : rows[id] = n -> "marked"
      [] \E id \in Unsynced : rows[id] = n -> "stored"
      [] n \in lost -> "lost"
      [] n \in expired -> "expired"
      [] OTHER -> "new"

Ledger == INSTANCE Outbox WITH stage <- [n \in Samples |-> Stage(n)], sent <- handed

OutboxSafe == Ledger!Spec

(* Rows come to the backlog only as they are inserted: a mark is never     *)
(* taken back, whatever is deleted.  And a resume goes on to another round *)
(* only when it has taken rows off the backlog in the last one, all that   *)
(* it had fetched, unless an UPDATE can fail: it never turns on the spot.  *)
(* That it ends is not said: as long as every round finds rows that the    *)
(* storage thread has stored in the meantime, it need not.                 *)
BacklogStep ==
    /\ Unsynced' \ Unsynced \subseteq nextId..(nextId' - 1)
    /\ mpc = "mark" /\ mpc' = "flush" /\ "update" \notin Faults
         => DOMAIN fetched # {} /\ DOMAIN fetched \cap Unsynced' = {}
BacklogAdvances == [][BacklogStep]_vars

(* g_mqtt_connected does not stay set on a session that is gone, although  *)
(* connlost may come before the flag is set or long after: the next upload *)
(* finds out.                                                              *)
FlagHeals == (connected /\ session # "up") ~> (~connected \/ session = "up")

(* What is not marked when a lost connection is back gets marked, or       *)
(* expires, unless the connection is lost again.                           *)
Backlog(n) == \E id \in Unsynced : rows[id] = n
BacklogResumed ==
    \A n \in Samples :
        (mpc = "raise" /\ Backlog(n)) ~> (~Backlog(n) \/ (mpc = "recv" /\ ~connected))

(* Samples stored during an outage are uploaded when the connection is     *)
(* back, also if the process was restarted in between.                     *)
OwedResumed ==
    \A n \in Samples :
        (n \in owed /\ mpc = "up") ~> (~Backlog(n) \/ (mpc = "recv" /\ ~connected))
=============================================================================
