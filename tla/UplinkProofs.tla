----------------------------- MODULE UplinkProofs -----------------------------
(***************************************************************************)
(* Theorems about Uplink for all periods, capacities, batch sizes, faults, *)
(* numbers of samples and of restarts.                                     *)
(***************************************************************************)
EXTENDS Uplink, FiniteSetTheorems, SequenceTheorems, WellFoundedInduction, TLAPS

(* A set of numbers that has a member has a least one.                     *)
LEMMA LeastExists ==
    ASSUME NEW S \in SUBSET Nat, S # {}
    PROVE  \E i \in S : \A j \in S : i <= j
<1> DEFINE R == OpToRel(<, Nat)
<1>1. IsWellFoundedOn(R, Nat)
  BY NatLessThanWellFounded
<1>2. \A x, y \in Nat : y < x => <<y, x>> \in R
  BY DEF OpToRel
<1> HIDE DEF R
<1>3. PICK i \in S : \A j \in S : <<j, i>> \notin R
  BY <1>1, WFMin
<1>4. \A j \in S : ~(j < i)
  BY <1>2, <1>3, Zenon
<1>. QED
  BY <1>4

-----------------------------------------------------------------------------
(* Types.  The invariants build on each other: the mailboxes, the buffer,  *)
(* the mqtt thread, the tables.                                            *)

(* The mailboxes hold samples that collect has counted.                    *)
BoxOK ==
    /\ cycle \in Nat /\ cpc \in Boxes /\ (cpc = "mqtt" => cycle <= MaxCycle)
    /\ box \in [Boxes -> Seq(Samples)]
    /\ restarts \in 0..MaxRestart

(* MailBoxSendMsg keeps the types of the boxes, also when it pushes older  *)
(* messages out.                                                           *)
LEMMA PutKeepsType ==
    ASSUME box \in [Boxes -> Seq(Samples)], NEW b \in Boxes, NEW s \in Samples,
           Mail!Put(b, s)
    PROVE  box' \in [Boxes -> Seq(Samples)]
<1>1. PICK n \in 0..Len(box[b]) :
        box' = [box EXCEPT ![b] = Append(SubSeq(box[b], n + 1, Len(box[b])), s)]
  BY DEF Mail!Put
<1>2. SubSeq(box[b], n + 1, Len(box[b])) \in Seq(Samples)
  <2>1. box[b] \in Seq(Samples) /\ Len(box[b]) \in Nat
    OBVIOUS
  <2>2. \A i \in (n + 1)..Len(box[b]) : box[b][i] \in Samples
    BY <2>1
  <2>3. QED BY <2>1, <2>2, SubSeqProperties
<1>3. QED BY <1>1, <1>2

(* MailBoxRecvMsg keeps the types of the boxes and returns a sample.       *)
LEMMA GetKeepsType ==
    ASSUME box \in [Boxes -> Seq(Samples)], NEW b \in Boxes, Mail!Get(b)
    PROVE  box' \in [Boxes -> Seq(Samples)] /\ Head(box[b]) \in Samples
<1>1. box[b] \in Seq(Samples) /\ box[b] # <<>>
  BY DEF Mail!Get
<1>2. Tail(box[b]) \in Seq(Samples) /\ Head(box[b]) \in Samples
  BY <1>1
<1>3. QED BY <1>2 DEF Mail!Get

(* Collect sends only samples it has counted, and the mailboxes hold       *)
(* nothing else, across restarts.                                          *)
THEOREM BoxCorrect == Spec => []BoxOK
<1> USE UplinkAssumption DEF BoxOK, Boxes
<1>1. Init => BoxOK
  BY DEF Init
<1>2. BoxOK /\ [Next]_vars => BoxOK'
  <2> SUFFICES ASSUME BoxOK, [Next]_vars PROVE BoxOK'
    OBVIOUS
  <2> USE DEF collecting
  <2>1. ASSUME UNCHANGED <<collecting, box, restarts>> PROVE BoxOK'
    BY <2>1
  <2>2. ASSUME UNCHANGED <<collecting, restarts>>, NEW b \in Boxes, Mail!Get(b) PROVE BoxOK'
    BY <2>2, GetKeepsType
  <2>3. CASE CollectStore
    <3>1. cycle \in Samples
      BY <2>3 DEF CollectStore, Samples
    <3>2. box' \in [Boxes -> Seq(Samples)]
      BY <2>3, <3>1, PutKeepsType DEF CollectStore
    <3>3. QED BY <2>3, <3>2 DEF CollectStore
  <2>4. CASE CollectPublish
    <3>1. cycle \in Samples
      BY <2>4 DEF CollectPublish, Samples
    <3>2. box' \in [Boxes -> Seq(Samples)]
      BY <2>4, <3>1, PutKeepsType DEF CollectPublish
    <3>3. QED BY <2>4, <3>2 DEF CollectPublish
  <2>5. CASE CollectBeyond
    <3>1. box' \in [Boxes -> Seq(Samples)]
      BY <2>5, PutKeepsType DEF CollectBeyond, Samples
    <3>2. QED BY <2>5, <3>1 DEF CollectBeyond
  <2>6. CASE StorageTake \/ StorageOverrun
    <3>1. Mail!Get("storage") /\ UNCHANGED <<collecting, restarts>>
      BY <2>6 DEF StorageTake, StorageOverrun
    <3>2. QED BY <2>2, <3>1
  <2>7. CASE MqttRecv
    <3>1. Mail!Get("mqtt") /\ UNCHANGED <<collecting, restarts>>
      BY <2>7 DEF MqttRecv
    <3>2. QED BY <2>2, <3>1
  <2>8. CASE StorageClean \/ Library
    BY <2>1, <2>8 DEF StorageClean, Library, SessionBreaks, SessionNoticed, ConnLost
  <2>9. CASE \/ MqttInitFails \/ MqttInitConnects \/ MqttInitRaises
             \/ MqttConnectFails \/ MqttConnects \/ MqttRaises \/ MqttLive
             \/ ResumeFlush \/ ResumeQuery \/ ResumeSend \/ ResumeSendFails \/ ResumeMark
    BY <2>1, <2>9 DEF MqttInitFails, MqttInitConnects, MqttInitRaises,
         MqttConnectFails, MqttConnects, MqttRaises, MqttLive,
         ResumeFlush, ResumeQuery, ResumeSend, ResumeSendFails, ResumeMark
  <2>10. CASE PowerFails
    <3> DEFINE used == IF cpc = "mqtt" THEN cycle + 1 ELSE cycle
               period == StoreEvery * PublishEvery
               steps == (used + period - 1) \div period
    <3>1. period \in Nat \ {0}
      OBVIOUS
    <3>2. used \in Nat
      OBVIOUS
    <3> HIDE DEF period, used
    <3>3. steps \in Nat
      BY <3>1, <3>2
    <3> HIDE DEF steps
    <3>4. steps * period \in Nat
      BY <3>1, <3>3
    <3>5. cycle' = steps * period
      BY <2>10 DEF PowerFails, used, period, steps
    <3>6. box' \in [Boxes -> Seq(Samples)]
      BY <2>10 DEF PowerFails
    <3>7. cpc' = "storage" /\ restarts' \in 0..MaxRestart
      BY <2>10 DEF PowerFails
    <3>8. QED BY <3>4, <3>5, <3>6, <3>7
  <2>11. CASE UNCHANGED vars
    BY <2>1, <2>11 DEF vars
  <2>12. QED
    BY <2>3, <2>4, <2>5, <2>6, <2>7, <2>8, <2>9, <2>10, <2>11 DEF Next, Collect, Storage, Mqtt
<1>3. QED BY <1>1, <1>2, PTL DEF Spec

(* g_batch_buf holds samples and never more than its size; it stays full   *)
(* only after a BEGIN has failed.                                          *)
BufferOK ==
    /\ batch \in Seq(Samples) /\ Len(batch) <= BatchSize
    /\ Len(batch) = BatchSize => beginFailed
    /\ beginFailed \in BOOLEAN
    /\ spc \in {"recv", "clean", "undefined"} /\ takes \in 0..(CleanEvery - 1)
    /\ NoOverrun

(* A flush empties the buffer, or leaves it as it is and notes the failed  *)
(* BEGIN.                                                                  *)
LEMMA FlushKeepsBuffer ==
    ASSUME NEW b \in Seq(Samples), Len(b) <= BatchSize, Flush(b), beginFailed \in BOOLEAN
    PROVE  /\ batch' \in Seq(Samples) /\ Len(batch') <= BatchSize
           /\ Len(batch') = BatchSize => beginFailed'
           /\ beginFailed' \in BOOLEAN
           /\ beginFailed => beginFailed'
<1>1. CASE FlushCommits(b) \/ FlushRollsBack(b)
  <2>1. batch' = <<>> /\ UNCHANGED beginFailed
    BY <1>1 DEF FlushCommits, FlushRollsBack, Emptied
  <2>2. QED BY <2>1, UplinkAssumption
<1>2. CASE FlushNotBegun(b)
  BY <1>2 DEF FlushNotBegun
<1>3. QED BY <1>1, <1>2 DEF Flush

BufferEmpty == batch = <<>> /\ beginFailed = FALSE /\ spc = "recv" /\ takes = 0

(* The buffer of a process that has just started.                          *)
LEMMA EmptyBufferOK == BufferEmpty => BufferOK
<1> SUFFICES ASSUME BufferEmpty PROVE BufferOK
  OBVIOUS
<1>1. batch \in Seq(Samples) /\ Len(batch) = 0
  BY DEF BufferEmpty
<1>2. Len(batch) <= BatchSize /\ Len(batch) # BatchSize
  BY <1>1, UplinkAssumption
<1>3. beginFailed \in BOOLEAN
  BY DEF BufferEmpty
<1>4. spc \in {"recv", "clean", "undefined"} /\ takes \in 0..(CleanEvery - 1)
  BY UplinkAssumption DEF BufferEmpty
<1>5. NoOverrun
  BY DEF BufferEmpty, NoOverrun
<1>6. QED BY <1>1, <1>2, <1>3, <1>4, <1>5 DEF BufferOK

(* The two threads that flush g_batch_buf, with whatever statement         *)
(* failing, keep it within its size and full only after a failed BEGIN.    *)
THEOREM BufferInvariant == Spec => []BufferOK
<1> USE UplinkAssumption DEF BufferOK, NoOverrun
<1>1. Init => BufferOK
  <2>1. Init => BufferEmpty
    BY DEF Init, BufferEmpty
  <2>2. QED BY <2>1, EmptyBufferOK
<1>2. BoxOK /\ BufferOK /\ [Next]_vars => BufferOK'
  <2> SUFFICES ASSUME BoxOK, BufferOK, [Next]_vars PROVE BufferOK'
    OBVIOUS
  <2> USE DEF history
  <2>1. ASSUME UNCHANGED <<batch, spc, takes, beginFailed>> PROVE BufferOK'
    BY <2>1
  <2>2. CASE StorageTake
    <3> DEFINE b == Append(batch, Head(box["storage"]))
    <3>1. Head(box["storage"]) \in Samples
      BY <2>2, GetKeepsType DEF StorageTake, BoxOK, Boxes
    <3>2. b \in Seq(Samples) /\ Len(b) = Len(batch) + 1 /\ Len(batch) \in Nat
      BY <3>1
    <3>3. Len(b) <= BatchSize
      BY <2>2, <3>2 DEF StorageTake
    <3>4. Flush(b) \/ (~Full(b) /\ batch' = b /\ UNCHANGED beginFailed)
      BY <2>2 DEF StorageTake
    <3>5. spc = "recv" /\ takes' \in 0..(CleanEvery - 1) /\ spc' \in {"recv", "clean"}
      BY <2>2 DEF StorageTake, AfterTake
    <3> HIDE DEF b
    <3>6. /\ batch' \in Seq(Samples) /\ Len(batch') <= BatchSize
          /\ Len(batch') = BatchSize => beginFailed'
          /\ beginFailed' \in BOOLEAN
      BY <3>2, <3>3, <3>4, FlushKeepsBuffer DEF Full
    <3>7. QED BY <3>5, <3>6
  <2>3. CASE StorageOverrun
    <3>1. Len(batch) \in Nat
      OBVIOUS
    <3>2. beginFailed
      BY <2>3, <3>1 DEF StorageOverrun
    <3>3. QED BY <2>3, <3>2 DEF StorageOverrun
  <2>4. CASE StorageClean
    BY <2>4 DEF StorageClean
  <2>5. CASE ResumeFlush
    <3>1. UNCHANGED <<spc, takes>> /\ (UNCHANGED <<batch, beginFailed>> \/ Flush(batch))
      BY <2>5 DEF ResumeFlush
    <3>2. QED BY <3>1, FlushKeepsBuffer
  <2>6. CASE Collect \/ Library
    BY <2>1, <2>6 DEF Collect, CollectStore, CollectPublish, CollectBeyond,
                      Library, SessionBreaks, SessionNoticed, ConnLost
  <2>7. CASE \/ MqttInitFails \/ MqttInitConnects \/ MqttInitRaises \/ MqttRecv
             \/ MqttConnectFails \/ MqttConnects \/ MqttRaises \/ MqttLive
             \/ ResumeQuery \/ ResumeSend \/ ResumeSendFails \/ ResumeMark
    BY <2>1, <2>7 DEF MqttInitFails, MqttInitConnects, MqttInitRaises, MqttRecv,
         MqttConnectFails, MqttConnects, MqttRaises, MqttLive,
         ResumeQuery, ResumeSend, ResumeSendFails, ResumeMark
  <2>8. CASE PowerFails
    <3>1. BufferEmpty'
      BY <2>8 DEF PowerFails, BufferEmpty
    <3>2. BufferEmpty' => BufferOK'
      BY EmptyBufferOK, PTL
    <3>3. QED BY <3>1, <3>2
  <2>9. CASE UNCHANGED vars
    BY <2>1, <2>9 DEF vars
  <2>10. QED
    BY <2>2, <2>3, <2>4, <2>5, <2>6, <2>7, <2>8, <2>9 DEF Next, Storage, Mqtt
<1>3. QED BY <1>1, <1>2, BoxCorrect, PTL DEF Spec

(* g_batch_buf[g_batch_count++] stays inside the array as long as no BEGIN *)
(* fails, although two threads flush the buffer.                           *)
THEOREM BufferCorrect == Spec => []NoOverrun
<1>1. BufferOK => NoOverrun
  BY DEF BufferOK
<1>2. QED BY <1>1, BufferInvariant, PTL

(* g_batch_buf is never overrun where every BEGIN succeeds.                *)
THEOREM NeverOverrun == Spec => []("begin" \notin Faults => spc # "undefined")
<1> DEFINE Blamed == beginFailed => "begin" \in Faults
<1>1. Init => Blamed
  BY DEF Init
<1>2. Blamed /\ [Next]_vars => Blamed'
  <2> SUFFICES ASSUME Blamed, [Next]_vars PROVE Blamed'
    OBVIOUS
  <2> USE DEF history
  <2>1. ASSUME NEW b, Flush(b) PROVE Blamed'
    BY <2>1 DEF Flush, FlushCommits, FlushRollsBack, FlushNotBegun
  <2>2. CASE Storage
    BY <2>1, <2>2 DEF Storage, StorageTake, StorageOverrun, StorageClean
  <2>3. CASE Collect \/ Library
    BY <2>3 DEF Collect, CollectStore, CollectPublish, CollectBeyond,
                Library, SessionBreaks, SessionNoticed, ConnLost
  <2>4. CASE Mqtt
    <3>1. CASE ResumeFlush
      BY <2>1, <3>1 DEF ResumeFlush
    <3>2. CASE ~ResumeFlush
      BY <2>4, <3>2 DEF Mqtt, MqttInitFails, MqttInitConnects, MqttInitRaises, MqttRecv,
           MqttConnectFails, MqttConnects, MqttRaises, MqttLive,
           ResumeQuery, ResumeSend, ResumeSendFails, ResumeMark
    <3>. QED
      BY <3>1, <3>2
  <2>5. CASE PowerFails
    BY <2>5 DEF PowerFails
  <2>6. CASE UNCHANGED vars
    BY <2>6 DEF vars
  <2>. QED
    BY <2>2, <2>3, <2>4, <2>5, <2>6 DEF Next
<1>3. NoOverrun /\ Blamed => ("begin" \notin Faults => spc # "undefined")
  BY DEF NoOverrun
<1>. QED
  BY <1>1, <1>2, <1>3, BufferCorrect, PTL DEF Spec

-----------------------------------------------------------------------------
(* The upload of stored samples.                                           *)

(* Ids are given in ascending order; what is marked is in the table; what  *)
(* is fetched once was.                                                    *)
IdsOK ==
    /\ nextId \in Nat \ {0}
    /\ DOMAIN rows \subseteq 1..(nextId - 1)
    /\ synced \subseteq DOMAIN rows
    /\ DOMAIN fetched \subseteq 1..(nextId - 1)
    /\ sentIds \subseteq DOMAIN fetched

(* An entry of batch[] is a copy of the row that has its id, if there is   *)
(* one still; the ids in ids[] are of entries sent with success.           *)
FetchedOK ==
    /\ \A id \in DOMAIN fetched \cap DOMAIN rows : fetched[id] = rows[id]
    /\ \A id \in sentIds : fetched[id] \in handed

(* ids[] is empty but for the uploads and the marking that use it.         *)
IdleOK == mpc \in {"resend", "mark"} \/ sentIds = {}

RowsInv == IdsOK /\ FetchedOK /\ SyncedWasSent
UploadInv == IdleOK /\ RowsInv

(* A flush only adds rows, with ids that were never given before.          *)
TableGrows ==
    /\ nextId' \in Nat \ {0} /\ nextId <= nextId'
    /\ DOMAIN rows \subseteq DOMAIN rows'
    /\ DOMAIN rows' \subseteq DOMAIN rows \cup nextId..(nextId' - 1)
    /\ \A id \in DOMAIN rows : rows'[id] = rows[id]

(* StorageFlushBatch_locked satisfies TableGrows, however it ends.         *)
LEMMA FlushGrows ==
    ASSUME nextId \in Nat \ {0}, NEW b, Flush(b)
    PROVE  TableGrows
<1>1. CASE FlushCommits(b)
  <2>1. PICK pos \in Positions(b) :
          LET m == Cardinality(DOMAIN pos)
          IN  /\ rows' = [id \in DOMAIN rows \cup NewId..(NewId + m - 1) |->
                            IF id \in DOMAIN rows THEN rows[id] ELSE b[pos[id - NewId + 1]]]
              /\ nextId' = NewId + m
    BY <1>1 DEF FlushCommits
  <2> DEFINE m == Cardinality(DOMAIN pos)
  <2>2. PICK k \in 0..Len(b) : pos \in [1..k -> 1..Len(b)]
    BY DEF Positions
  <2>3. m \in Nat
    <3>1. DOMAIN pos = 1..k /\ k \in Int
      BY <2>2
    <3>2. Cardinality(1..k) \in Nat
      BY <3>1, FS_Interval, FS_CardinalityType
    <3>3. QED BY <3>1, <3>2
  <2> HIDE DEF m
  <2>4. /\ DOMAIN rows' = DOMAIN rows \cup nextId..(nextId + m - 1)
        /\ \A id \in DOMAIN rows : rows'[id] = rows[id]
        /\ nextId' = nextId + m
    BY <2>1 DEF m, NewId
  <2>5. QED BY <2>3, <2>4 DEF TableGrows
<1>2. CASE FlushRollsBack(b) \/ FlushNotBegun(b)
  BY <1>2 DEF FlushRollsBack, FlushNotBegun, table, TableGrows
<1>3. QED BY <1>1, <1>2 DEF Flush

(* ids[] is filled only by the uploads and emptied by the marking.         *)
LEMMA IdleKept ==
    ASSUME IdleOK, [Next]_vars
    PROVE  IdleOK'
<1> USE DEF IdleOK, resume, MqttStep
<1>1. CASE Collect
  BY <1>1 DEF Collect, CollectStore, CollectPublish, CollectBeyond
<1>2. CASE Storage
  BY <1>2 DEF Storage, StorageTake, StorageOverrun, StorageClean
<1>3. CASE Library
  BY <1>3 DEF Library, SessionBreaks, SessionNoticed, ConnLost
<1>4. CASE \/ MqttInitFails \/ MqttInitConnects \/ MqttInitRaises \/ MqttRecv
           \/ MqttConnectFails \/ MqttConnects \/ MqttRaises \/ MqttLive
  BY <1>4 DEF MqttInitFails, MqttInitConnects, MqttInitRaises, MqttRecv,
              MqttConnectFails, MqttConnects, MqttRaises, MqttLive
<1>5. CASE ResumeFlush \/ ResumeQuery \/ ResumeSend
  BY <1>5 DEF ResumeFlush, ResumeQuery, ResumeSend
<1>6. CASE ResumeSendFails \/ ResumeMark
  BY <1>6 DEF ResumeSendFails, ResumeMark
<1>7. CASE PowerFails
  BY <1>7 DEF PowerFails
<1>8. CASE UNCHANGED vars
  BY <1>8 DEF vars
<1>9. QED
  BY <1>1, <1>2, <1>3, <1>4, <1>5, <1>6, <1>7, <1>8 DEF Next, Mqtt

(* What the upload works on: rows, their ids and the copies of them.       *)
THEOREM UploadInvariant == Spec => []UploadInv
<1> USE DEF UploadInv, RowsInv, IdsOK, FetchedOK, SyncedWasSent
<1>1. Init => UploadInv
  BY DEF Init, NoRows, IdleOK
<1>2. UploadInv /\ [Next]_vars => IdleOK'
  BY IdleKept
<1>3. UploadInv /\ [Next]_vars => RowsInv'
  <2> SUFFICES ASSUME UploadInv, [Next]_vars PROVE RowsInv'
    OBVIOUS
  <2> USE DEF collecting, table, resume, delays, client, history
  <2>1. ASSUME UNCHANGED <<table, synced, resume, handed>> PROVE RowsInv'
    BY <2>1
  <2>2. ASSUME TableGrows, UNCHANGED <<synced, resume, handed>> PROVE RowsInv'
    <3>1. \A id \in 1..(nextId - 1) : id \in DOMAIN rows' => id \in DOMAIN rows
      BY <2>2 DEF TableGrows
    <3>2. QED BY <2>2, <3>1 DEF TableGrows
  <2>3. CASE Collect
    BY <2>1, <2>3 DEF Collect, CollectStore, CollectPublish, CollectBeyond
  <2>4. CASE StorageTake
    <3>1. UNCHANGED <<synced, resume, handed>>
      BY <2>4 DEF StorageTake
    <3>2. CASE \E b : Flush(b)
      BY <2>2, <3>1, <3>2, FlushGrows
    <3>3. CASE UNCHANGED table
      BY <2>1, <3>1, <3>3
    <3>4. QED BY <2>4, <3>2, <3>3 DEF StorageTake
  <2>5. CASE StorageOverrun
    BY <2>1, <2>5 DEF StorageOverrun
  <2>6. CASE StorageClean
    <3>1. /\ DOMAIN rows' \subseteq DOMAIN rows
          /\ \A id \in DOMAIN rows' : rows'[id] = rows[id]
          /\ synced' = synced \cap DOMAIN rows'
          /\ UNCHANGED <<nextId, resume, handed>>
      BY <2>6 DEF StorageClean
    <3>2. QED BY <3>1
  <2>7. CASE Library
    BY <2>1, <2>7 DEF Library, SessionBreaks, SessionNoticed, ConnLost
  <2>8. CASE \/ MqttInitFails \/ MqttInitConnects \/ MqttInitRaises \/ MqttRecv
             \/ MqttConnectFails \/ MqttConnects \/ MqttRaises \/ MqttLive
    BY <2>1, <2>8 DEF MqttInitFails, MqttInitConnects, MqttInitRaises, MqttRecv,
                      MqttConnectFails, MqttConnects, MqttRaises, MqttLive
  <2>9. CASE ResumeFlush
    <3>1. UNCHANGED <<synced, resume, handed>> /\ (UNCHANGED table \/ Flush(batch))
      BY <2>9 DEF ResumeFlush
    <3>2. QED BY <2>1, <2>2, <3>1, FlushGrows
  <2>10. CASE ResumeQuery
    <3>1. UNCHANGED <<table, synced, handed, sentIds>>
      BY <2>10 DEF ResumeQuery
    <3>2. PICK k \in 0..ResumeSize : fetched' = [id \in Oldest(Unsynced, k) |-> rows[id]]
      BY <2>10 DEF ResumeQuery
    <3>3. sentIds = {}
      BY <2>10 DEF ResumeQuery, IdleOK
    <3>4. QED BY <3>1, <3>2, <3>3 DEF Oldest, Unsynced
  <2>11. CASE ResumeSend
    <3>1. PICK id \in DOMAIN fetched : /\ sentIds' = sentIds \cup {id}
                                      /\ handed' = handed \cup {fetched[id]}
      BY <2>11 DEF ResumeSend
    <3>2. UNCHANGED <<table, synced, fetched>>
      BY <2>11 DEF ResumeSend
    <3>3. QED BY <3>1, <3>2
  <2>12. CASE ResumeSendFails
    <3>1. /\ UNCHANGED <<table, synced, handed, sentIds>>
          /\ UNCHANGED fetched \/ (sentIds = {} /\ fetched' = NoRows)
      BY <2>12 DEF ResumeSendFails
    <3>2. QED BY <3>1 DEF NoRows
  <2>13. CASE ResumeMark
    <3>1. PICK done \in SUBSET (sentIds \cap DOMAIN rows) : synced' = synced \cup done
      BY <2>13 DEF ResumeMark, ToMark
    <3>2. UNCHANGED <<table, handed>> /\ fetched' = NoRows /\ sentIds' = {}
      BY <2>13 DEF ResumeMark
    <3>3. \A id \in done : rows[id] \in handed
      BY <3>1
    <3>4. QED BY <3>1, <3>2, <3>3 DEF NoRows
  <2>14. CASE PowerFails
    BY <2>14 DEF PowerFails, NoRows
  <2>15. CASE UNCHANGED vars
    BY <2>1, <2>15 DEF vars
  <2>16. QED
    BY <2>3, <2>4, <2>5, <2>6, <2>7, <2>8, <2>9, <2>10, <2>11, <2>12, <2>13, <2>14, <2>15
       DEF Next, Storage, Mqtt
<1>4. QED BY <1>1, <1>2, <1>3, PTL DEF Spec

(* A row is marked as synced only if mqtt_send_all reported success for    *)
(* its very sample, whatever the storage thread inserts and deletes while  *)
(* the mqtt thread works on its copy of the rows.                          *)
THEOREM UploadCorrect == Spec => []SyncedWasSent
<1>1. UploadInv => SyncedWasSent
  BY DEF UploadInv, RowsInv
<1>2. QED BY <1>1, UploadInvariant, PTL

-----------------------------------------------------------------------------
(* What is lost.                                                           *)

(* Where every INSERT succeeds, a flush that is committed stores all that  *)
(* was buffered: as many increasing positions as there are places are all  *)
(* of them.                                                                *)
LEMMA AllPositions ==
    ASSUME NEW b, Len(b) \in Nat, "insert" \notin Faults, NEW pos \in Positions(b)
    PROVE  DOMAIN pos = 1..Len(b) /\ \A i \in 1..Len(b) : pos[i] = i
<1> DEFINE n == Len(b)
<1>1. /\ pos \in [1..n -> 1..n] /\ DOMAIN pos = 1..n
      /\ \A i, j \in 1..n : i < j => pos[i] < pos[j]
  BY DEF Positions
<1> HIDE DEF n
<1>2. n \in Nat
  BY DEF n
<1>3. \A i \in 1..n : i <= pos[i]
  <2> DEFINE Low == {i \in 1..n : pos[i] < i}
  <2> SUFFICES ASSUME Low # {} PROVE FALSE
    BY <1>1, <1>2
  <2>1. PICK i \in Low : \A j \in Low : i <= j
    <3>1. Low \in SUBSET Nat
      BY <1>2
    <3> HIDE DEF Low
    <3>. QED
      BY <3>1, LeastExists
  <2>2. i # 1 /\ i - 1 \in 1..n /\ i - 1 \notin Low
    BY <1>1, <1>2, <2>1
  <2>3. pos[i - 1] < pos[i] /\ i - 1 <= pos[i - 1] /\ pos[i] \in 1..n /\ pos[i - 1] \in 1..n
    BY <1>1, <1>2, <2>2
  <2>. QED
    BY <1>2, <2>2, <2>3
<1>4. \A i \in 1..n : pos[i] <= i
  <2> DEFINE High == {d \in 0..n : n - d \in 1..n /\ pos[n - d] > n - d}
  <2> SUFFICES ASSUME NEW i \in 1..n, pos[i] > i PROVE FALSE
    BY <1>1, <1>2
  <2>1. n - i \in 0..n /\ n - (n - i) = i
    BY <1>2
  <2>2. n - i \in High
    BY <2>1
  <2>3. PICK d \in High : \A e \in High : d <= e
    <3>1. High \in SUBSET Nat
      BY <1>2
    <3> HIDE DEF High
    <3>. QED
      BY <2>2, <3>1, LeastExists
  <2>4. d # 0
    BY <1>1, <1>2, <2>3
  <2>5. d - 1 \notin High /\ d - 1 \in 0..n /\ n - (d - 1) \in 1..n /\ n - d < n - (d - 1)
    BY <1>2, <2>3, <2>4
  <2>6. pos[n - (d - 1)] <= n - (d - 1)
    BY <1>1, <1>2, <2>5
  <2>7. pos[n - d] < pos[n - (d - 1)]
    BY <1>1, <2>3, <2>5
  <2>8. pos[n - d] \in 1..n /\ pos[n - (d - 1)] \in 1..n /\ pos[n - d] > n - d
    BY <1>1, <2>3, <2>5
  <2>. QED
    BY <1>2, <2>3, <2>6, <2>7, <2>8
<1>. QED
  BY <1>1, <1>2, <1>3, <1>4 DEF n

(* A sample the storage thread has taken is lost to a power failure while  *)
(* it is buffered, to a failing INSERT or to a failing COMMIT, and to      *)
(* nothing else.                                                           *)
LossNeedsPower ==
    {"insert", "commit"} \cap Faults = {} /\ restarts' = restarts => lost' = lost

THEOREM LossExplained == Spec => [][LossNeedsPower]_vars
<1>1. BoxOK /\ BufferOK /\ [Next]_vars => LossNeedsPower
  <2> SUFFICES ASSUME BoxOK, BufferOK, [Next]_vars, restarts' = restarts,
                      "insert" \notin Faults, "commit" \notin Faults
               PROVE  lost' = lost
    BY DEF LossNeedsPower
  <2> USE DEF history
  <2>1. ASSUME NEW b \in Seq(Samples), Flush(b) PROVE lost' = lost
    <3>1. CASE FlushCommits(b)
      <4>1. PICK pos \in Positions(b) :
              lost' = lost \cup (Elements(b) \ {b[pos[i]] : i \in DOMAIN pos})
        BY <3>1 DEF FlushCommits
      <4>2. DOMAIN pos = 1..Len(b) /\ \A i \in 1..Len(b) : pos[i] = i
        BY AllPositions
      <4>3. Elements(b) \subseteq {b[pos[i]] : i \in DOMAIN pos}
        BY <4>2 DEF Elements
      <4>. QED
        BY <4>1, <4>3
    <3>. QED
      BY <2>1, <3>1 DEF Flush, FlushRollsBack, FlushNotBegun
  <2>2. CASE StorageTake
    <3> DEFINE b == Append(batch, Head(box["storage"]))
    <3>1. Head(box["storage"]) \in Samples
      BY <2>2, GetKeepsType DEF StorageTake, BoxOK, Boxes
    <3>2. b \in Seq(Samples)
      BY <3>1 DEF BufferOK
    <3>3. Flush(b) \/ UNCHANGED lost
      BY <2>2 DEF StorageTake
    <3>. QED
      BY <2>1, <3>2, <3>3
  <2>3. CASE ResumeFlush
    BY <2>1, <2>3 DEF ResumeFlush, BufferOK
  <2>4. CASE Collect \/ Library \/ StorageOverrun \/ StorageClean
    BY <2>4 DEF Collect, CollectStore, CollectPublish, CollectBeyond, StorageOverrun,
                StorageClean, Library, SessionBreaks, SessionNoticed, ConnLost
  <2>5. CASE \/ MqttInitFails \/ MqttInitConnects \/ MqttInitRaises \/ MqttRecv
             \/ MqttConnectFails \/ MqttConnects \/ MqttRaises \/ MqttLive
             \/ ResumeQuery \/ ResumeSend \/ ResumeSendFails \/ ResumeMark
    BY <2>5 DEF MqttInitFails, MqttInitConnects, MqttInitRaises, MqttRecv,
         MqttConnectFails, MqttConnects, MqttRaises, MqttLive,
         ResumeQuery, ResumeSend, ResumeSendFails, ResumeMark
  <2>6. CASE PowerFails
    BY <2>6 DEF PowerFails, BoxOK
  <2>7. CASE UNCHANGED vars
    BY <2>7 DEF vars
  <2>. QED
    BY <2>2, <2>3, <2>4, <2>5, <2>6, <2>7 DEF Next, Storage, Mqtt
<1>. QED
  BY <1>1, BoxCorrect, BufferInvariant, PTL DEF Spec

-----------------------------------------------------------------------------
(* Why a resume comes to an end.                                           *)

(* What is marked for the UPDATEs was sent, and something was.             *)
MarkOK == mpc = "mark" => sentIds # {}

LEMMA MarkKept == UploadInv /\ MarkOK /\ [Next]_vars => MarkOK'
<1> SUFFICES ASSUME UploadInv, MarkOK, [Next]_vars PROVE MarkOK'
  OBVIOUS
<1> USE DEF MarkOK, resume, MqttStep
<1>1. CASE Collect \/ Storage \/ Library
  BY <1>1 DEF Collect, CollectStore, CollectPublish, CollectBeyond,
              Storage, StorageTake, StorageOverrun, StorageClean,
              Library, SessionBreaks, SessionNoticed, ConnLost
<1>2. CASE \/ MqttInitFails \/ MqttInitConnects \/ MqttInitRaises \/ MqttRecv
           \/ MqttConnectFails \/ MqttConnects \/ MqttRaises \/ MqttLive
  BY <1>2 DEF MqttInitFails, MqttInitConnects, MqttInitRaises, MqttRecv,
              MqttConnectFails, MqttConnects, MqttRaises, MqttLive
<1>3. CASE ResumeFlush \/ ResumeQuery \/ ResumeMark
  BY <1>3 DEF ResumeFlush, ResumeQuery, ResumeMark, AfterMark
<1>4. CASE ResumeSend \/ ResumeSendFails
  BY <1>4 DEF ResumeSend, ResumeSendFails
<1>5. CASE PowerFails
  BY <1>5 DEF PowerFails
<1>6. CASE UNCHANGED vars
  BY <1>6 DEF vars
<1>. QED
  BY <1>1, <1>2, <1>3, <1>4, <1>5, <1>6 DEF Next, Mqtt

(* No mark is taken back, and a resume goes on to another round only when  *)
(* the last one has taken rows off the backlog, for every batch size.      *)
THEOREM ResumeAdvances == Spec => BacklogAdvances
<1>1. Init => MarkOK
  BY DEF Init, MarkOK
<1>2. UploadInv /\ MarkOK /\ [Next]_vars => BacklogStep
  <2> SUFFICES ASSUME UploadInv, MarkOK, [Next]_vars PROVE BacklogStep
    OBVIOUS
  <2> USE DEF UploadInv, RowsInv, IdsOK, table, MqttStep
  <2> DEFINE Still == Unsynced' \ Unsynced \subseteq nextId..(nextId' - 1)
  <2>1. ASSUME UNCHANGED <<table, synced>> PROVE Still
    BY <2>1 DEF Unsynced
  <2>2. ASSUME TableGrows, UNCHANGED synced PROVE Still
    BY <2>2 DEF Unsynced, TableGrows
  <2>3. CASE StorageTake
    BY <2>1, <2>2, <2>3, FlushGrows DEF StorageTake, BacklogStep, MarkOK
  <2>4. CASE StorageClean
    <3>1. DOMAIN rows' \subseteq DOMAIN rows /\ synced' = synced \cap DOMAIN rows'
      BY <2>4 DEF StorageClean
    <3>. QED
      BY <2>4, <3>1 DEF StorageClean, BacklogStep, Unsynced
  <2>5. CASE ResumeFlush
    BY <2>1, <2>2, <2>5, FlushGrows DEF ResumeFlush, BacklogStep
  <2>6. CASE ResumeMark
    <3>1. PICK done \in SUBSET (sentIds \cap DOMAIN rows) :
            /\ "update" \notin Faults => done = sentIds \cap DOMAIN rows
            /\ synced' = synced \cup done
      BY <2>6 DEF ResumeMark, ToMark
    <3>2. rows' = rows /\ nextId' = nextId /\ sentIds # {}
      BY <2>6 DEF ResumeMark, MarkOK
    <3>3. mpc' = "flush" => sentIds = DOMAIN fetched
      BY <2>6 DEF ResumeMark, AfterMark
    <3>. QED
      BY <3>1, <3>2, <3>3 DEF BacklogStep, Unsynced
  <2>7. CASE Collect \/ Library \/ StorageOverrun
    BY <2>1, <2>7 DEF BacklogStep, Collect, CollectStore, CollectPublish, CollectBeyond,
                StorageOverrun, Library, SessionBreaks, SessionNoticed, ConnLost
  <2>8. CASE \/ MqttInitFails \/ MqttInitConnects \/ MqttInitRaises \/ MqttRecv
             \/ MqttConnectFails \/ MqttConnects \/ MqttRaises \/ MqttLive
             \/ ResumeQuery \/ ResumeSend \/ ResumeSendFails
    BY <2>1, <2>8 DEF BacklogStep, MqttInitFails, MqttInitConnects, MqttInitRaises, MqttRecv,
         MqttConnectFails, MqttConnects, MqttRaises, MqttLive,
         ResumeQuery, ResumeSend, ResumeSendFails
  <2>9. CASE PowerFails
    BY <2>1, <2>9 DEF PowerFails, BacklogStep
  <2>10. CASE UNCHANGED vars
    BY <2>1, <2>10 DEF vars, BacklogStep
  <2>. QED
    BY <2>3, <2>4, <2>5, <2>6, <2>7, <2>8, <2>9, <2>10 DEF Next, Storage, Mqtt
<1>. QED
  BY <1>1, <1>2, MarkKept, UploadInvariant, PTL DEF Spec, BacklogAdvances

-----------------------------------------------------------------------------
(* The rest of the types.                                                  *)

(* Where the mqtt thread is and what it believes of the connection.        *)
FlagsOK ==
    /\ mpc \in MqttPcs
    /\ connected \in BOOLEAN /\ session \in {"up", "broken", "closed"} /\ callback \in BOOLEAN

(* mqtt_send_all keeps the types of the flags, whether it succeeds or not. *)
LEMMA SendAllKeepsFlags ==
    ASSUME FlagsOK, SendAllOk \/ SendAllFails
    PROVE  /\ connected' \in BOOLEAN /\ session' \in {"up", "broken", "closed"}
           /\ callback' \in BOOLEAN
BY DEF FlagsOK, SendAllOk, SendAllFails, client, ConnectedAfterFailure

(* The flags and the position of the mqtt thread keep their types.         *)
THEOREM FlagsCorrect == Spec => []FlagsOK
<1>1. Init => FlagsOK
  BY DEF Init, FlagsOK, MqttPcs
<1>2. FlagsOK /\ [Next]_vars => FlagsOK'
  <2> SUFFICES ASSUME FlagsOK, [Next]_vars PROVE FlagsOK'
    OBVIOUS
  <2> USE DEF FlagsOK, client, MqttStep, MqttPcs
  <2>1. CASE Collect \/ Storage
    BY <2>1 DEF Collect, CollectStore, CollectPublish, CollectBeyond,
                Storage, StorageTake, StorageOverrun, StorageClean
  <2>2. CASE Library
    BY <2>2 DEF Library, SessionBreaks, SessionNoticed, ConnLost
  <2>3. CASE MqttInitFails \/ MqttInitConnects \/ MqttInitRaises \/ MqttRecv
    BY <2>3 DEF MqttInitFails, MqttInitConnects, MqttInitRaises, MqttRecv
  <2>4. CASE MqttConnectFails \/ MqttConnects \/ MqttRaises
    BY <2>4 DEF MqttConnectFails, MqttConnects, MqttRaises
  <2>5. CASE ResumeFlush \/ ResumeQuery
    BY <2>5 DEF ResumeFlush, ResumeQuery
  <2>6. CASE ResumeMark
    BY <2>6 DEF ResumeMark, AfterMark
  <2>7. CASE ResumeSend \/ ResumeSendFails \/ MqttLive
    <3>1. SendAllOk \/ SendAllFails
      BY <2>7 DEF ResumeSend, ResumeSendFails, MqttLive
    <3>2. mpc' \in MqttPcs
      BY <2>7 DEF ResumeSend, ResumeSendFails, MqttLive
    <3>3. QED BY <3>1, <3>2, SendAllKeepsFlags
  <2>8. CASE PowerFails
    BY <2>8 DEF PowerFails
  <2>9. CASE UNCHANGED vars
    BY <2>9 DEF vars
  <2>10. QED
    BY <2>1, <2>2, <2>3, <2>4, <2>5, <2>6, <2>7, <2>8, <2>9 DEF Next, Mqtt
<1>3. QED BY <1>1, <1>2, PTL DEF Spec

(* Both delays stay between 2 seconds and their maximum.                   *)
DelaysOK ==
    /\ reconnectDelay \in 2..MaxDelay /\ mqttDelay \in 2..MaxDelay
    /\ waited \in Nat /\ failures \in Nat

(* Neither delay of the reconnecting thread leaves 2..MaxDelay.            *)
THEOREM DelaysBounded == Spec => []DelaysOK
<1> USE UplinkAssumption DEF DelaysOK
<1>1. Init => DelaysOK
  BY DEF Init
<1>2. DelaysOK /\ [Next]_vars => DelaysOK'
  <2> SUFFICES ASSUME DelaysOK, [Next]_vars PROVE DelaysOK'
    OBVIOUS
  <2> USE DEF delays
  <2>1. CASE Collect \/ Storage \/ Library
    BY <2>1 DEF Collect, CollectStore, CollectPublish, CollectBeyond,
                Storage, StorageTake, StorageOverrun, StorageClean,
                Library, SessionBreaks, SessionNoticed, ConnLost
  <2>2. CASE MqttRecv
    BY <2>2 DEF MqttRecv
  <2>3. CASE MqttConnectFails
    <3>1. failures' \in {failures, failures + 1} /\ waited' = 0
      BY <2>3 DEF MqttConnectFails
    <3>2. reconnectDelay' = Doubled(reconnectDelay) /\ mqttDelay' = Doubled(mqttDelay)
      BY <2>3 DEF MqttConnectFails
    <3>3. QED BY <3>1, <3>2 DEF Doubled
  <2>4. CASE MqttRaises
    BY <2>4 DEF MqttRaises, DelayAfterConnect
  <2>5. CASE \/ MqttInitFails \/ MqttInitConnects \/ MqttInitRaises \/ MqttConnects
             \/ MqttLive \/ ResumeFlush \/ ResumeQuery \/ ResumeSend
             \/ ResumeSendFails \/ ResumeMark
    BY <2>5 DEF MqttInitFails, MqttInitConnects, MqttInitRaises, MqttConnects,
         MqttLive, ResumeFlush, ResumeQuery, ResumeSend, ResumeSendFails, ResumeMark
  <2>6. CASE PowerFails
    BY <2>6 DEF PowerFails
  <2>7. CASE UNCHANGED vars
    BY <2>7 DEF vars
  <2>8. QED BY <2>1, <2>2, <2>3, <2>4, <2>5, <2>6, <2>7 DEF Next, Mqtt
<1>3. QED BY <1>1, <1>2, PTL DEF Spec

(* The two delays are one: main.c and mqtt.c double and reset them in the  *)
(* same steps, so that the thread, which sleeps for both, waits twice as   *)
(* long as each of them says.                                              *)
DelaysAgree ==
    /\ reconnectDelay = mqttDelay
    /\ mpc = "connect" => waited = 2 * reconnectDelay

THEOREM WaitsTwice == Spec => []DelaysAgree
<1> USE DEF DelaysAgree
<1>1. Init => DelaysAgree
  BY DEF Init
<1>2. DelaysOK /\ DelaysAgree /\ [Next]_vars => DelaysAgree'
  <2> SUFFICES ASSUME DelaysOK, DelaysAgree, [Next]_vars PROVE DelaysAgree'
    OBVIOUS
  <2> USE DEF delays, MqttStep
  <2>1. CASE Collect \/ Storage \/ Library
    BY <2>1 DEF Collect, CollectStore, CollectPublish, CollectBeyond,
                Storage, StorageTake, StorageOverrun, StorageClean,
                Library, SessionBreaks, SessionNoticed, ConnLost
  <2>2. CASE MqttRecv
    BY <2>2 DEF MqttRecv, DelaysOK
  <2>3. CASE MqttConnectFails \/ MqttRaises
    BY <2>3 DEF MqttConnectFails, MqttRaises, DelayAfterConnect
  <2>4. CASE \/ MqttInitFails \/ MqttInitConnects \/ MqttInitRaises \/ MqttConnects
             \/ MqttLive \/ ResumeFlush \/ ResumeQuery \/ ResumeSend
    BY <2>4 DEF MqttInitFails, MqttInitConnects, MqttInitRaises, MqttConnects,
         MqttLive, ResumeFlush, ResumeQuery, ResumeSend
  <2>5. CASE ResumeSendFails \/ ResumeMark
    BY <2>5 DEF ResumeSendFails, ResumeMark, AfterMark
  <2>6. CASE PowerFails
    BY <2>6 DEF PowerFails
  <2>7. CASE UNCHANGED vars
    BY <2>7 DEF vars
  <2>. QED
    BY <2>1, <2>2, <2>3, <2>4, <2>5, <2>6, <2>7 DEF Next, Mqtt
<1>. QED
  BY <1>1, <1>2, DelaysBounded, PTL DEF Spec

(* The first waits, as a table: a function that satisfies the equation of  *)
(* Waits as far as it goes.                                                *)
Table(g, n) ==
    /\ g \in [0..n -> Nat] /\ g[0] = 2
    /\ \A k \in 1..n : g[k] = 2 * g[k - 1]

(* There is a table of every length: otherwise a shortest one is missing,  *)
(* and the one before it can be extended.                                  *)
LEMMA TableExists == \A n \in Nat : \E g : Table(g, n)
<1> DEFINE Bad == {n \in Nat : ~\E g : Table(g, n)}
<1> SUFFICES ASSUME Bad # {} PROVE FALSE
  OBVIOUS
<1>1. PICK n \in Bad : \A m \in Bad : n <= m
  BY LeastExists
<1>2. CASE n = 0
  <2>1. Table([k \in 0..0 |-> 2], 0)
    BY DEF Table
  <2>. QED
    BY <1>2, <2>1
<1>3. CASE n # 0
  <2>1. n - 1 \in Nat /\ n - 1 \notin Bad
    BY <1>1, <1>3
  <2>2. PICK g : Table(g, n - 1)
    BY <2>1
  <2> DEFINE h == [k \in 0..n |-> IF k = n THEN 2 * g[n - 1] ELSE g[k]]
  <2>3. h \in [0..n -> Nat] /\ h[0] = 2
    BY <1>1, <1>3, <2>2 DEF Table
  <2>4. ASSUME NEW k \in 1..n PROVE h[k] = 2 * h[k - 1]
    <3>1. CASE k = n
      <4>1. h[n] = 2 * g[n - 1] /\ h[n - 1] = g[n - 1]
        BY <1>1, <1>3
      <4>. QED
        BY <3>1, <4>1
    <3>2. CASE k # n
      <4>1. k \in 1..(n - 1) /\ k - 1 \in 0..(n - 1)
        BY <1>1, <2>4, <3>2
      <4>2. h[k] = g[k] /\ h[k - 1] = g[k - 1]
        BY <1>1, <3>2, <4>1
      <4>. QED
        BY <2>2, <4>1, <4>2 DEF Table
    <3>. QED
      BY <3>1, <3>2
  <2>5. Table(h, n)
    BY <2>3, <2>4 DEF Table
  <2>. QED
    BY <2>5
<1>. QED
  BY <1>2, <1>3

(* Two tables agree as far as both go.                                     *)
LEMMA TablesAgree ==
    ASSUME NEW m \in Nat, NEW n \in Nat, NEW g, NEW h, Table(g, m), Table(h, n)
    PROVE  \A k \in Nat : k <= m /\ k <= n => g[k] = h[k]
<1> DEFINE Bad == {k \in Nat : k <= m /\ k <= n /\ g[k] # h[k]}
<1> SUFFICES ASSUME Bad # {} PROVE FALSE
  OBVIOUS
<1>1. PICK k \in Bad : \A j \in Bad : k <= j
  BY LeastExists
<1>2. k # 0
  BY DEF Table
<1>3. k - 1 \in Nat /\ k - 1 \notin Bad
  BY <1>1, <1>2
<1>4. g[k - 1] = h[k - 1]
  BY <1>3
<1>5. g[k] = 2 * g[k - 1] /\ h[k] = 2 * h[k - 1]
  BY <1>2 DEF Table
<1>. QED
  BY <1>4, <1>5

(* The recursive definition of Waits defines what it says: 2, doubled again *)
(* and again.                                                              *)
LEMMA WaitsDouble ==
    /\ Waits \in [Nat -> Nat] /\ Waits[0] = 2
    /\ \A k \in Nat : Waits[k + 1] = 2 * Waits[k]
<1> DEFINE T(n) == CHOOSE g : Table(g, n)
           f == [n \in Nat |-> T(n)[n]]
<1>1. \A n \in Nat : Table(T(n), n)
  BY TableExists
<1> HIDE DEF T
<1>2. \A n \in Nat : f[n] \in Nat
  BY <1>1 DEF Table
<1>3. f[0] = 2
  BY <1>1 DEF Table
<1>4. ASSUME NEW k \in Nat PROVE f[k + 1] = 2 * f[k]
  <2>1. Table(T(k), k) /\ Table(T(k + 1), k + 1)
    BY <1>1
  <2>2. T(k + 1)[k + 1] = 2 * T(k + 1)[k]
    BY <2>1 DEF Table
  <2>3. T(k)[k] = T(k + 1)[k]
    BY <2>1, TablesAgree
  <2>. QED
    BY <2>2, <2>3
<1>5. ASSUME NEW k \in Nat, k # 0 PROVE f[k] = 2 * f[k - 1]
  <2>1. k - 1 \in Nat /\ k = (k - 1) + 1
    BY <1>5
  <2>. QED
    BY <1>4, <2>1
<1> DEFINE Eq(g) == g = [k \in Nat |-> IF k = 0 THEN 2 ELSE 2 * g[k - 1]]
<1> HIDE DEF f
<1>6. Eq(f)
  <2>1. f = [n \in Nat |-> f[n]]
    BY DEF f
  <2>2. \A k \in Nat : f[k] = IF k = 0 THEN 2 ELSE 2 * f[k - 1]
    BY <1>3, <1>5
  <2>. QED
    BY <2>1, <2>2
<1>7. Eq(Waits)
  BY <1>6 DEF Waits
<1> DEFINE W == Waits
<1>8. W = [k \in Nat |-> IF k = 0 THEN 2 ELSE 2 * W[k - 1]]
  BY <1>7
<1> HIDE DEF W
<1>9. W[0] = 2 /\ \A k \in Nat : W[k + 1] = 2 * W[k]
  BY <1>8
<1>10. \A k \in Nat : W[k] \in Nat
  <2> DEFINE Bad == {k \in Nat : W[k] \notin Nat}
  <2> SUFFICES ASSUME Bad # {} PROVE FALSE
    OBVIOUS
  <2>1. PICK k \in Bad : \A j \in Bad : k <= j
    BY LeastExists
  <2>2. k # 0
    BY <1>9
  <2>3. k - 1 \in Nat /\ k - 1 \notin Bad
    BY <2>1, <2>2
  <2>. QED
    BY <1>9, <2>3
<1>11. W \in [Nat -> Nat]
  BY <1>8, <1>10
<1>. QED
  BY <1>9, <1>11 DEF W

(* Both delays are 2, 4, 8, ... up to their limit, one further with every  *)
(* failure, over all sequences of failures, connects and restarts.         *)
THEOREM DelaysCorrect == Spec => []DelaysInStep
<1> DEFINE Doubling == reconnectDelay = Documented(failures)
<1> USE UplinkAssumption
<1>1. Init => Doubling
  BY WaitsDouble DEF Init, Documented
<1>2. DelaysOK /\ DelaysAgree /\ Doubling /\ [Next]_vars => Doubling'
  <2> SUFFICES ASSUME DelaysOK, DelaysAgree, Doubling, [Next]_vars PROVE Doubling'
    OBVIOUS
  <2>1. failures \in Nat /\ Waits[failures] \in Nat /\ Waits[failures + 1] = 2 * Waits[failures]
    BY WaitsDouble DEF DelaysOK
  <2>2. CASE UNCHANGED <<reconnectDelay, failures>>
    BY <2>2 DEF Documented
  <2>3. CASE MqttConnectFails
    <3>1. /\ reconnectDelay' = Doubled(reconnectDelay)
          /\ failures' = IF Waits[failures] < MaxDelay THEN failures + 1 ELSE failures
      BY <2>3 DEF MqttConnectFails
    <3>2. CASE Waits[failures] < MaxDelay
      BY <2>1, <3>1, <3>2 DEF Doubled, Documented
    <3>3. CASE Waits[failures] >= MaxDelay
      BY <2>1, <3>1, <3>3 DEF Doubled, Documented
    <3>. QED
      BY <2>1, <3>2, <3>3
  <2>4. CASE MqttRaises \/ PowerFails
    <3>1. reconnectDelay' = 2 /\ failures' = 0
      BY <2>4 DEF MqttRaises, PowerFails
    <3>. QED
      BY <3>1, WaitsDouble DEF Documented
  <2>5. CASE UNCHANGED vars
    BY <2>2, <2>5 DEF vars, delays
  <2>6. ASSUME Collect \/ Storage \/ Library PROVE UNCHANGED <<reconnectDelay, failures>>
    BY <2>6 DEF delays, Collect, CollectStore, CollectPublish, CollectBeyond,
                Storage, StorageTake, StorageOverrun, StorageClean,
                Library, SessionBreaks, SessionNoticed, ConnLost
  <2>7. ASSUME Mqtt, ~MqttConnectFails, ~MqttRaises PROVE UNCHANGED <<reconnectDelay, failures>>
    BY <2>7 DEF delays, Mqtt, MqttInitFails, MqttInitConnects, MqttInitRaises, MqttConnects,
         MqttRecv, MqttLive, ResumeFlush, ResumeQuery, ResumeSend, ResumeSendFails, ResumeMark
  <2>. QED
    BY <2>2, <2>3, <2>4, <2>5, <2>6, <2>7 DEF Next
<1>3. DelaysAgree /\ Doubling => DelaysInStep
  BY DEF DelaysAgree, DelaysInStep
<1>. QED
  BY <1>1, <1>2, <1>3, DelaysBounded, WaitsTwice, PTL DEF Spec

(* The tables, the copies and the ledgers hold nothing but samples.        *)
ValuesOK ==
    /\ \A id \in DOMAIN rows : rows[id] \in Samples
    /\ \A id \in DOMAIN fetched : fetched[id] \in Samples
    /\ lost \subseteq Samples /\ expired \subseteq Samples /\ handed \subseteq Samples
    /\ owed \subseteq Samples

(* A flush stores and loses nothing but the samples of the buffer.         *)
LEMMA FlushKeepsValues ==
    ASSUME ValuesOK, nextId \in Nat \ {0}, NEW b \in Seq(Samples), Flush(b)
    PROVE  /\ \A id \in DOMAIN rows' : rows'[id] \in Samples
           /\ lost' \subseteq Samples
<1>1. Elements(b) \subseteq Samples
  BY DEF Elements
<1>2. CASE FlushCommits(b)
  <2>1. PICK pos \in Positions(b) :
          LET m == Cardinality(DOMAIN pos)
          IN  /\ rows' = [id \in DOMAIN rows \cup NewId..(NewId + m - 1) |->
                            IF id \in DOMAIN rows THEN rows[id] ELSE b[pos[id - NewId + 1]]]
              /\ lost' = lost \cup (Elements(b) \ {b[pos[i]] : i \in DOMAIN pos})
    BY <1>2 DEF FlushCommits
  <2> DEFINE m == Cardinality(DOMAIN pos)
  <2>2. PICK k \in 0..Len(b) : pos \in [1..k -> 1..Len(b)]
    BY DEF Positions
  <2>3. m = k
    <3>1. DOMAIN pos = 1..k /\ k \in Nat
      BY <2>2
    <3>2. Cardinality(1..k) = k
      BY <3>1, FS_Interval
    <3>3. QED BY <3>1, <3>2
  <2> HIDE DEF m
  <2>4. \A id \in nextId..(nextId + k - 1) : b[pos[id - nextId + 1]] \in Samples
    BY <2>2
  <2>5. rows' = [id \in DOMAIN rows \cup nextId..(nextId + k - 1) |->
                   IF id \in DOMAIN rows THEN rows[id] ELSE b[pos[id - nextId + 1]]]
    BY <2>1, <2>3 DEF m, NewId
  <2>6. \A id \in DOMAIN rows' : rows'[id] \in Samples
    BY <2>4, <2>5 DEF ValuesOK
  <2>7. lost' \subseteq Samples
    BY <1>1, <2>1 DEF ValuesOK
  <2>8. QED BY <2>6, <2>7
<1>3. CASE FlushRollsBack(b) \/ FlushNotBegun(b)
  BY <1>1, <1>3 DEF FlushRollsBack, FlushNotBegun, table, ValuesOK
<1>4. QED BY <1>2, <1>3 DEF Flush

(* Nothing but samples reaches the table, the copies of rows that are      *)
(* uploaded and the ledgers.                                               *)
THEOREM ValuesCorrect == Spec => []ValuesOK
<1>1. Init => ValuesOK
  BY DEF Init, ValuesOK, NoRows
<1>2. BoxOK /\ BufferOK /\ UploadInv /\ ValuesOK /\ [Next]_vars => ValuesOK'
  <2> SUFFICES ASSUME BoxOK, BufferOK, UploadInv, ValuesOK, [Next]_vars PROVE ValuesOK'
    OBVIOUS
  <2> USE DEF table, resume, history
  <2>1. ASSUME UNCHANGED <<rows, fetched, lost, expired, handed, owed>>
        PROVE  ValuesOK'
    BY <2>1 DEF ValuesOK
  <2>2. nextId \in Nat \ {0} /\ batch \in Seq(Samples)
    BY DEF UploadInv, RowsInv, IdsOK, BufferOK
  <2>3. ASSUME NEW b \in Seq(Samples),
               Flush(b) \/ UNCHANGED <<rows, lost>>,
               UNCHANGED <<fetched, expired, handed, owed>>
        PROVE  ValuesOK'
    <3>1. CASE Flush(b)
      BY <2>2, <2>3, <3>1, FlushKeepsValues DEF ValuesOK
    <3>2. QED BY <2>1, <2>3, <3>1
  <2>4. CASE StorageTake
    <3> DEFINE b == Append(batch, Head(box["storage"]))
    <3>1. b \in Seq(Samples)
      BY <2>2, <2>4, GetKeepsType DEF StorageTake, BoxOK, Boxes
    <3>2. /\ Flush(b) \/ UNCHANGED <<rows, lost>>
          /\ UNCHANGED <<fetched, expired, handed, owed>>
      BY <2>4 DEF StorageTake
    <3> HIDE DEF b
    <3>3. QED BY <2>3, <3>1, <3>2
  <2>5. CASE ResumeFlush
    <3>1. /\ Flush(batch) \/ UNCHANGED <<rows, lost>>
          /\ UNCHANGED <<fetched, expired, handed, owed>>
      BY <2>5 DEF ResumeFlush
    <3>2. QED BY <2>2, <2>3, <3>1
  <2>6. CASE StorageClean
    <3>1. PICK k \in DOMAIN rows \cup {0} :
            LET old == {id \in DOMAIN rows : id <= k}
            IN  /\ rows' = [id \in DOMAIN rows \ old |-> rows[id]]
                /\ expired' = expired \cup {rows[id] : id \in old}
      BY <2>6 DEF StorageClean
    <3>2. UNCHANGED <<fetched, lost, handed, owed>>
      BY <2>6 DEF StorageClean
    <3>3. QED BY <3>1, <3>2 DEF ValuesOK
  <2>7. CASE ResumeQuery
    <3>1. PICK k \in 0..ResumeSize : fetched' = [id \in Oldest(Unsynced, k) |-> rows[id]]
      BY <2>7 DEF ResumeQuery
    <3>2. UNCHANGED <<rows, lost, expired, handed, owed>>
      BY <2>7 DEF ResumeQuery
    <3>3. QED BY <3>1, <3>2 DEF ValuesOK, Oldest, Unsynced
  <2>8. CASE ResumeSend
    BY <2>8 DEF ResumeSend, ValuesOK
  <2>9. CASE ResumeSendFails \/ ResumeMark
    <3>1. UNCHANGED fetched \/ fetched' = NoRows
      BY <2>9 DEF ResumeSendFails, ResumeMark
    <3>2. UNCHANGED <<rows, lost, expired, handed, owed>>
      BY <2>9 DEF ResumeSendFails, ResumeMark
    <3>3. QED BY <3>1, <3>2 DEF ValuesOK, NoRows
  <2>10. CASE Collect \/ StorageOverrun \/ Library
    BY <2>1, <2>10 DEF Collect, CollectStore, CollectPublish, CollectBeyond, StorageOverrun,
                       Library, SessionBreaks, SessionNoticed, ConnLost
  <2>11. CASE \/ MqttInitFails \/ MqttInitConnects \/ MqttInitRaises \/ MqttRecv
              \/ MqttConnectFails \/ MqttConnects \/ MqttRaises \/ MqttLive
    BY <2>1, <2>11 DEF MqttInitFails, MqttInitConnects, MqttInitRaises, MqttRecv,
                       MqttConnectFails, MqttConnects, MqttRaises, MqttLive
  <2>12. CASE PowerFails
    <3>1. lost' \subseteq Samples
      BY <2>2, <2>12 DEF PowerFails, Elements, ValuesOK
    <3>2. owed' \subseteq Samples
      BY <2>12 DEF PowerFails, ValuesOK, Unsynced
    <3>3. UNCHANGED <<rows, expired, handed>> /\ fetched' = NoRows
      BY <2>12 DEF PowerFails
    <3>4. QED BY <3>1, <3>2, <3>3 DEF ValuesOK, NoRows
  <2>13. CASE UNCHANGED vars
    BY <2>1, <2>13 DEF vars
  <2>14. QED
    BY <2>4, <2>5, <2>6, <2>7, <2>8, <2>9, <2>10, <2>11, <2>12, <2>13 DEF Next, Storage, Mqtt
<1>3. QED
  BY <1>1, <1>2, BoxCorrect, BufferInvariant, UploadInvariant, PTL DEF Spec

(* Every variable of the uplink keeps its type: the buffer stays within    *)
(* its size, marked rows exist, ids are fresh, delays stay in range.       *)
THEOREM TypeCorrect == Spec => []TypeOK
<1>1. BoxOK /\ BufferOK /\ UploadInv /\ FlagsOK /\ DelaysOK /\ ValuesOK => TypeOK
  BY DEF BoxOK, BufferOK, UploadInv, RowsInv, IdsOK, FlagsOK, DelaysOK, ValuesOK, TypeOK
<1>2. QED
  BY <1>1, BoxCorrect, BufferInvariant, UploadInvariant, FlagsCorrect, DelaysBounded,
     ValuesCorrect, PTL
-----------------------------------------------------------------------------
(* No sample is stored twice.                                              *)
(* What is in the table is older than what is buffered, that is older than *)
(* what waits in the mailbox, and that is older than what collect sends    *)
(* next; each of the three is in ascending order.                          *)
Ascending(f) == \A i, j \in DOMAIN f : i < j => f[i] < f[j]
Before(S, T) == \A m \in S, n \in T : m < n

InTable == {rows[id] : id \in DOMAIN rows}
Waiting == box["storage"]
NextSent == IF cpc = "mqtt" THEN cycle + 1 ELSE cycle

Buffered == Elements(batch)
Queued == Elements(Waiting)

InOrder ==
    /\ Ascending(rows) /\ Ascending(batch) /\ Ascending(Waiting)
    /\ Before(InTable, Buffered) /\ Before(InTable, Queued) /\ Before(Buffered, Queued)
    /\ Before(InTable \cup Buffered \cup Queued, {NextSent})

LEMMA InOrderStoredOnce ==
    ASSUME InOrder, BufferOK, IdsOK, ValuesOK
    PROVE  StoredOnce
<1>1. batch \in Seq(Samples) /\ DOMAIN batch \subseteq Int /\ DOMAIN rows \subseteq Int
  BY DEF BufferOK, IdsOK
<1>2. (\A i \in DOMAIN batch : batch[i] \in Int) /\ (\A i \in DOMAIN rows : rows[i] \in Int)
  <2>1. Samples \subseteq Int
    BY DEF Samples
  <2>2. \A i \in DOMAIN batch : batch[i] \in Samples
    BY <1>1
  <2>. QED
    BY <2>1, <2>2 DEF ValuesOK
<1>3. ASSUME NEW f, DOMAIN f \subseteq Int, \A i \in DOMAIN f : f[i] \in Int, Ascending(f),
             NEW i \in DOMAIN f, NEW j \in DOMAIN f, f[i] = f[j]
      PROVE  i = j
  <2>1. i \in Int /\ j \in Int /\ f[i] \in Int /\ f[j] \in Int
    BY <1>3
  <2>2. ~(f[i] < f[j]) /\ ~(f[j] < f[i])
    BY <1>3, <2>1
  <2>3. ~(i < j) /\ ~(j < i)
    BY <1>3, <2>2 DEF Ascending
  <2>. QED
    BY <2>1, <2>3
<1>4. \A id \in DOMAIN rows : rows[id] \notin Elements(batch)
  <2> SUFFICES ASSUME NEW id \in DOMAIN rows, NEW i \in DOMAIN batch, rows[id] = batch[i]
               PROVE  FALSE
    BY DEF Elements
  <2>1. rows[id] < batch[i]
    BY DEF InOrder, Before, InTable, Buffered, Elements
  <2>. QED
    BY <1>2, <2>1
<1>. QED
  BY <1>1, <1>2, <1>3, <1>4 DEF InOrder, StoredOnce

(* A flush moves what it takes from the end of the buffer to the end of    *)
(* the table, in its order.                                                *)
LEMMA FlushKeepsOrder ==
    ASSUME IdsOK, ValuesOK, NEW b \in Seq(Samples), Flush(b),
           Ascending(rows), Ascending(b), Before(InTable, Elements(b))
    PROVE  /\ Ascending(rows') /\ Ascending(batch') /\ Before(InTable', Buffered')
           /\ InTable' \subseteq InTable \cup Elements(b)
           /\ Buffered' \subseteq Elements(b)
<1>1. CASE FlushCommits(b)
  <2>1. PICK pos \in Positions(b) :
          LET m == Cardinality(DOMAIN pos)
          IN  /\ rows' = [id \in DOMAIN rows \cup NewId..(NewId + m - 1) |->
                            IF id \in DOMAIN rows THEN rows[id] ELSE b[pos[id - NewId + 1]]]
              /\ batch' = Emptied(b)
    BY <1>1 DEF FlushCommits
  <2> DEFINE m == Cardinality(DOMAIN pos)
  <2>2. PICK k \in 0..Len(b) : pos \in [1..k -> 1..Len(b)]
    BY DEF Positions
  <2>3. m = k
    <3>1. DOMAIN pos = 1..k /\ k \in Nat
      BY <2>2
    <3>2. Cardinality(1..k) = k
      BY <3>1, FS_Interval
    <3>. QED
      BY <3>1, <3>2
  <2>4. rows' = [id \in DOMAIN rows \cup nextId..(nextId + k - 1) |->
                   IF id \in DOMAIN rows THEN rows[id] ELSE b[pos[id - nextId + 1]]]
    BY <2>1, <2>3 DEF NewId
  <2> HIDE DEF m
  <2>5. \A i, j \in 1..k : i < j => pos[i] < pos[j]
    BY <2>2 DEF Positions
  <2>6. /\ nextId \in Nat \ {0} /\ k \in Nat /\ DOMAIN rows \subseteq 1..(nextId - 1)
        /\ DOMAIN rows' = DOMAIN rows \cup nextId..(nextId + k - 1)
        /\ \A id \in DOMAIN rows : rows'[id] = rows[id]
    BY <2>4 DEF IdsOK
  <2>7. ASSUME NEW id \in nextId..(nextId + k - 1)
        PROVE  /\ id \in Int /\ id - nextId + 1 \in 1..k
               /\ pos[id - nextId + 1] \in DOMAIN b
               /\ rows'[id] = b[pos[id - nextId + 1]]
    <3>1. id \in Int /\ id - nextId + 1 \in 1..k /\ id \notin DOMAIN rows
      BY <2>6
    <3>2. pos[id - nextId + 1] \in 1..Len(b) /\ DOMAIN b = 1..Len(b)
      BY <2>2, <3>1
    <3>. QED
      BY <2>4, <2>6, <3>1, <3>2
  <2>8. ASSUME NEW i \in DOMAIN rows', NEW j \in DOMAIN rows', i < j
        PROVE  rows'[i] < rows'[j]
    <3>1. CASE i \in DOMAIN rows /\ j \in DOMAIN rows
      BY <2>6, <2>8, <3>1 DEF Ascending
    <3>2. CASE i \in DOMAIN rows /\ j \in nextId..(nextId + k - 1)
      BY <2>6, <2>7, <3>2 DEF Before, InTable, Elements
    <3>3. CASE i \in nextId..(nextId + k - 1) /\ j \in nextId..(nextId + k - 1)
      <4>1. i - nextId + 1 \in 1..k /\ j - nextId + 1 \in 1..k
            /\ i - nextId + 1 < j - nextId + 1
        BY <2>6, <2>7, <2>8, <3>3
      <4>2. pos[i - nextId + 1] < pos[j - nextId + 1]
        BY <2>5, <4>1
      <4>. QED
        BY <2>7, <3>3, <4>2 DEF Ascending
    <3>4. CASE i \in nextId..(nextId + k - 1) /\ j \in DOMAIN rows
      BY <2>6, <2>8, <3>4
    <3>. QED
      BY <2>6, <3>1, <3>2, <3>3, <3>4
  <2>9. batch' = <<>> /\ Buffered' = {}
    BY <2>1 DEF Emptied, Buffered, Elements
  <2>10. InTable' \subseteq InTable \cup Elements(b)
    BY <2>6, <2>7 DEF InTable, Elements
  <2>. QED
    BY <2>8, <2>9, <2>10 DEF Ascending, Before
<1>2. CASE FlushRollsBack(b)
  BY <1>2 DEF FlushRollsBack, table, Ascending, Before, InTable, Buffered, Elements
<1>3. CASE FlushNotBegun(b)
  BY <1>3 DEF FlushNotBegun, table, InTable, Buffered
<1>. QED
  BY <1>1, <1>2, <1>3 DEF Flush
(* MailBoxSendMsg adds at the end and loses at the front.                  *)
LEMMA PutKeepsOrder ==
    ASSUME BoxOK, Ascending(Waiting), NEW n \in Samples, Mail!Put("storage", n),
           Before(Queued, {n})
    PROVE  Ascending(Waiting') /\ Queued' \subseteq Queued \cup {n}
<1> DEFINE q == box["storage"]
<1>1. q \in Seq(Samples) /\ Len(q) \in Nat /\ DOMAIN q = 1..Len(q)
  BY DEF BoxOK, Boxes
<1>2. PICK k \in 0..Len(q) :
        box' = [box EXCEPT !["storage"] = Append(SubSeq(q, k + 1, Len(q)), n)]
  BY DEF Mail!Put
<1> DEFINE r == SubSeq(q, k + 1, Len(q))
<1>3. r \in Seq(Samples) /\ Len(r) = Len(q) - k /\ \A i \in 1..(Len(q) - k) : r[i] = q[k + i]
  <2>1. \A i \in (k + 1)..Len(q) : q[i] \in Samples
    BY <1>1
  <2>2. k + 1 \in Int /\ Len(q) \in Int
    BY <1>1
  <2>3. /\ r \in Seq(Samples)
        /\ Len(r) = IF k + 1 <= Len(q) THEN Len(q) - (k + 1) + 1 ELSE 0
        /\ \A i \in 1..(Len(q) - (k + 1) + 1) : r[i] = q[(k + 1) + i - 1]
    BY <1>1, <2>1, <2>2, SubSeqProperties
  <2>. QED
    BY <1>1, <2>3
<1> HIDE DEF r
<1>4. Waiting' = Append(r, n)
  BY <1>2 DEF Waiting, r, BoxOK, Boxes
<1> DEFINE s == Append(r, n)
<1>5. /\ DOMAIN s = 1..(Len(r) + 1) /\ s[Len(r) + 1] = n /\ Len(r) \in Nat
      /\ \A i \in 1..Len(r) : s[i] = r[i]
  BY <1>3
<1> HIDE DEF s
<1>6. \A i \in 1..Len(r) : k + i \in DOMAIN q /\ s[i] = q[k + i]
  BY <1>1, <1>3, <1>5
<1>7. \A i \in DOMAIN q : q[i] < n
  BY DEF Before, Queued, Waiting, Elements
<1>8. ASSUME NEW i \in DOMAIN s, NEW j \in DOMAIN s, i < j PROVE s[i] < s[j]
  <2>1. i \in 1..Len(r) /\ (j \in 1..Len(r) \/ j = Len(r) + 1)
    BY <1>5, <1>8
  <2>2. k + i \in DOMAIN q /\ s[i] = q[k + i]
    BY <1>6, <2>1
  <2>3. CASE j \in 1..Len(r)
    <3>1. k + j \in DOMAIN q /\ s[j] = q[k + j] /\ k + i < k + j
      BY <1>1, <1>5, <1>6, <1>8, <2>3
    <3>. QED
      BY <2>2, <3>1 DEF Ascending, Waiting
  <2>4. CASE j = Len(r) + 1
    BY <1>5, <1>7, <2>2, <2>4
  <2>. QED
    BY <2>1, <2>3, <2>4
<1>9. ASSUME NEW i \in DOMAIN s PROVE s[i] \in Queued \cup {n}
  BY <1>5, <1>6 DEF Queued, Waiting, Elements
<1>. QED
  BY <1>4, <1>8, <1>9 DEF Ascending, Queued, Elements, s

(* MailBoxRecvMsg takes the oldest.                                        *)
LEMMA GetKeepsOrder ==
    ASSUME BoxOK, Ascending(Waiting), Mail!Get("storage")
    PROVE  /\ Ascending(Waiting') /\ Queued' \subseteq Queued
           /\ Head(box["storage"]) \in Queued
           /\ Before({Head(box["storage"])}, Queued')
<1> DEFINE q == box["storage"]
<1>1. q \in Seq(Samples) /\ q # <<>>
  BY DEF BoxOK, Boxes, Mail!Get
<1>2. Waiting' = Tail(q)
  BY DEF Waiting, Mail!Get, BoxOK, Boxes
<1>3. /\ Len(q) \in Nat \ {0} /\ DOMAIN q = 1..Len(q) /\ Head(q) = q[1]
      /\ DOMAIN Tail(q) = 1..(Len(q) - 1) /\ \A i \in 1..(Len(q) - 1) : Tail(q)[i] = q[i + 1]
  BY <1>1
<1> HIDE DEF q
<1>0. \A i, j \in DOMAIN q : i < j => q[i] < q[j]
  BY DEF Ascending, Waiting, q
<1>4. ASSUME NEW i \in DOMAIN Tail(q)
      PROVE  Tail(q)[i] \in {q[j] : j \in DOMAIN q} /\ q[1] < Tail(q)[i]
  <2>1. 1 \in DOMAIN q /\ i + 1 \in DOMAIN q /\ 1 < i + 1 /\ Tail(q)[i] = q[i + 1]
    BY <1>3
  <2>. QED
    BY <1>0, <2>1
<1>5. Ascending(Tail(q))
  BY <1>0, <1>3 DEF Ascending
<1>6. Queued = {q[j] : j \in DOMAIN q} /\ Queued' = {Tail(q)[i] : i \in DOMAIN Tail(q)}
  BY <1>2 DEF Queued, Waiting, Elements, q
<1>7. Head(q) \in Queued
  BY <1>3, <1>6
<1>. QED
  BY <1>2, <1>3, <1>4, <1>5, <1>6, <1>7 DEF Before, q
(* Everything that is in order stays so when nothing moves.                *)
LEMMA NothingMoves ==
    ASSUME BoxOK, BoxOK', ValuesOK, BufferOK, InOrder, UNCHANGED <<rows, batch, Waiting>>,
           NextSent <= NextSent'
    PROVE  InOrder'
<1>1. InTable' = InTable /\ Buffered' = Buffered /\ Queued' = Queued
  BY DEF InTable, Buffered, Queued
<1>2. Ascending(rows') /\ Ascending(batch') /\ Ascending(Waiting')
  BY DEF InOrder
<1>3. NextSent \in Int /\ NextSent' \in Int
  BY DEF BoxOK, NextSent
<1>4. InTable \cup Buffered \cup Queued \subseteq Int
  <2>1. Samples \subseteq Int
    BY DEF Samples
  <2>2. InTable \subseteq Samples
    BY DEF InTable, ValuesOK
  <2>3. Buffered \subseteq Samples
    BY DEF Buffered, BufferOK, Elements
  <2>4. Queued \subseteq Samples
    <3>1. Waiting \in Seq(Samples)
      BY DEF BoxOK, Boxes, Waiting
    <3>. QED
      BY <3>1 DEF Queued, Elements
  <2>. QED
    BY <2>1, <2>2, <2>3, <2>4
<1>5. Before(InTable \cup Buffered \cup Queued, {NextSent'})
  BY <1>3, <1>4 DEF InOrder, Before
<1>. QED
  BY <1>1, <1>2, <1>5 DEF InOrder

LEMMA OrderKept ==
    ASSUME BoxOK, BoxOK', BufferOK, UploadInv, ValuesOK, InOrder, [Next]_vars
    PROVE  InOrder'
<1> USE DEF collecting, table, history
<1>0. IdsOK /\ batch \in Seq(Samples)
  BY DEF UploadInv, RowsInv, BufferOK
<1>1. ASSUME UNCHANGED <<rows, batch, box, collecting>> PROVE InOrder'
  <2>1. UNCHANGED Waiting /\ NextSent' = NextSent /\ NextSent \in Int
    BY <1>1 DEF Waiting, NextSent, BoxOK
  <2>2. NextSent <= NextSent'
    BY <2>1
  <2>. QED
    BY <1>1, <2>1, <2>2, NothingMoves
<1>2. CASE CollectStore
  <2>1. /\ cpc = "storage" /\ cpc' = "mqtt" /\ cycle' = cycle /\ cycle \in Samples
        /\ UNCHANGED <<rows, batch>>
    BY <1>2 DEF CollectStore, BoxOK, Samples
  <2>2. NextSent = cycle /\ NextSent' = cycle + 1 /\ cycle \in Int
    BY <2>1 DEF NextSent, BoxOK
  <2>3. CASE UNCHANGED box
    <3>1. UNCHANGED Waiting /\ NextSent <= NextSent'
      BY <2>2, <2>3 DEF Waiting
    <3>. QED
      BY <2>1, <3>1, NothingMoves
  <2>4. CASE Mail!Put("storage", cycle)
    <3>1. Before(InTable \cup Buffered \cup Queued, {cycle}) /\ Before(Queued, {cycle})
      BY <2>2 DEF InOrder, Before
    <3>2. Ascending(Waiting') /\ Queued' \subseteq Queued \cup {cycle}
      BY <2>1, <2>4, <3>1, PutKeepsOrder DEF InOrder
    <3>3. InTable' = InTable /\ Buffered' = Buffered
      BY <2>1 DEF InTable, Buffered
    <3>4. Before(InTable, Queued') /\ Before(Buffered, Queued')
      BY <3>1, <3>2 DEF InOrder, Before
    <3>5. Before(InTable \cup Buffered \cup Queued \cup {cycle}, {cycle + 1})
      <4>1. InTable \cup Buffered \cup Queued \subseteq Int
        <5>1. Samples \subseteq Int
          BY DEF Samples
        <5>2. InTable \subseteq Samples /\ Buffered \subseteq Samples
          BY <1>0 DEF InTable, ValuesOK, Buffered, Elements
        <5>3. Waiting \in Seq(Samples)
          BY DEF BoxOK, Boxes, Waiting
        <5>4. Queued \subseteq Samples
          BY <5>3 DEF Queued, Elements
        <5>. QED
          BY <5>1, <5>2, <5>4
      <4>. QED
        BY <2>2, <3>1, <4>1 DEF Before
    <3>6. Before(InTable' \cup Buffered' \cup Queued', {NextSent'})
      BY <2>2, <3>2, <3>3, <3>5 DEF Before
    <3>7. Ascending(rows') /\ Ascending(batch') /\ Before(InTable', Buffered')
      BY <2>1, <3>3 DEF InOrder
    <3>. QED
      BY <3>2, <3>3, <3>4, <3>6, <3>7 DEF InOrder
  <2>. QED
    BY <1>2, <2>3, <2>4 DEF CollectStore
<1>3. ASSUME UNCHANGED <<rows, batch>>, NextSent' = NextSent, NEW n \in Samples,
             Mail!Put("mqtt", n) \/ UNCHANGED box
      PROVE  InOrder'
  <2>1. UNCHANGED Waiting
    BY <1>3 DEF Waiting, Mail!Put, BoxOK, Boxes
  <2>2. NextSent <= NextSent'
    <3>1. NextSent \in Int
      BY DEF NextSent, BoxOK
    <3>. QED
      BY <1>3, <3>1
  <2>. QED
    BY <1>3, <2>1, <2>2, NothingMoves
<1>4. CASE CollectPublish
  <2>1. cycle \in Samples /\ UNCHANGED <<rows, batch>>
        /\ (Mail!Put("mqtt", cycle) \/ UNCHANGED box)
    BY <1>4 DEF CollectPublish, BoxOK, Samples
  <2>2. NextSent' = NextSent
    BY <1>4 DEF CollectPublish, NextSent
  <2>. QED
    BY <1>3, <2>1, <2>2
<1>5. CASE CollectBeyond
  <2>1. MaxCycle \in Samples /\ UNCHANGED <<rows, batch>> /\ Mail!Put("mqtt", MaxCycle)
    BY <1>5, UplinkAssumption DEF CollectBeyond, Samples
  <2>2. NextSent' = NextSent
    BY <1>5 DEF CollectBeyond, NextSent
  <2>. QED
    BY <1>3, <2>1, <2>2
<1>6. ASSUME UNCHANGED collecting,
             Ascending(rows'), Ascending(batch'), Ascending(Waiting'),
             Before(InTable', Buffered'), Before(InTable', Queued'), Before(Buffered', Queued'),
             InTable' \cup Buffered' \cup Queued' \subseteq InTable \cup Buffered \cup Queued
      PROVE  InOrder'
  <2>1. NextSent' = NextSent
    BY <1>6 DEF NextSent
  <2>. QED
    BY <1>6, <2>1 DEF InOrder, Before
<1>7. CASE StorageTake
  <2> DEFINE n == Head(box["storage"])
             b == Append(batch, n)
  <2>1. Mail!Get("storage") /\ UNCHANGED collecting
        /\ (Flush(b) \/ (batch' = b /\ UNCHANGED rows))
    BY <1>7 DEF StorageTake
  <2>2. /\ Ascending(Waiting') /\ Queued' \subseteq Queued
        /\ n \in Queued /\ Before({n}, Queued')
    BY <2>1, GetKeepsOrder DEF InOrder
  <2>3. n \in Samples
    BY <2>1, GetKeepsType DEF BoxOK, Boxes
  <2> HIDE DEF n
  <2>4. /\ b \in Seq(Samples) /\ Len(batch) \in Nat /\ DOMAIN batch = 1..Len(batch)
        /\ DOMAIN b = 1..(Len(batch) + 1) /\ b[Len(batch) + 1] = n
        /\ \A i \in 1..Len(batch) : b[i] = batch[i]
    BY <1>0, <2>3
  <2> HIDE DEF b
  <2>5. \A i \in 1..Len(batch) : batch[i] < n
    BY <2>2, <2>4 DEF InOrder, Before, Buffered, Elements
  <2>6. Ascending(b)
    <3> SUFFICES ASSUME NEW i \in DOMAIN b, NEW j \in DOMAIN b, i < j PROVE b[i] < b[j]
      BY DEF Ascending
    <3>1. i \in 1..Len(batch) /\ (j \in 1..Len(batch) \/ j = Len(batch) + 1)
      BY <2>4
    <3>. QED
      BY <2>4, <2>5, <3>1 DEF InOrder, Ascending
  <2>7. Elements(b) = Buffered \cup {n}
    BY <2>4 DEF Buffered, Elements
  <2>8. Before(InTable, Elements(b)) /\ Before(Elements(b), Queued')
        /\ Before(InTable, Queued')
    BY <2>2, <2>7 DEF InOrder, Before
  <2>9. /\ Ascending(rows') /\ Ascending(batch') /\ Before(InTable', Buffered')
        /\ InTable' \subseteq InTable \cup Elements(b) /\ Buffered' \subseteq Elements(b)
    <3>1. CASE Flush(b)
      BY <1>0, <2>4, <2>6, <2>8, <3>1, FlushKeepsOrder DEF InOrder
    <3>2. CASE batch' = b /\ UNCHANGED rows
      <4>1. InTable' = InTable /\ Buffered' = Elements(b)
        BY <3>2 DEF InTable, Buffered
      <4>. QED
        BY <2>6, <2>8, <3>2, <4>1 DEF InOrder
    <3>. QED
      BY <2>1, <3>1, <3>2
  <2>10. Before(InTable', Queued') /\ Before(Buffered', Queued')
    BY <2>8, <2>9 DEF Before
  <2>11. InTable' \cup Buffered' \cup Queued' \subseteq InTable \cup Buffered \cup Queued
    BY <2>2, <2>7, <2>9
  <2>. QED
    BY <1>6, <2>1, <2>2, <2>9, <2>10, <2>11
<1>8. CASE StorageOverrun
  <2>1. Mail!Get("storage") /\ UNCHANGED <<collecting, rows, batch>>
    BY <1>8 DEF StorageOverrun
  <2>2. Ascending(Waiting') /\ Queued' \subseteq Queued
    BY <2>1, GetKeepsOrder DEF InOrder
  <2>3. InTable' = InTable /\ Buffered' = Buffered
    BY <2>1 DEF InTable, Buffered
  <2>4. /\ Ascending(rows') /\ Ascending(batch') /\ Before(InTable', Buffered')
        /\ Before(InTable', Queued') /\ Before(Buffered', Queued')
    BY <2>1, <2>2, <2>3 DEF InOrder, Before
  <2>. QED
    BY <1>6, <2>1, <2>2, <2>3, <2>4
<1>9. CASE StorageClean
  <2>1. PICK k \in DOMAIN rows \cup {0} :
          rows' = [id \in DOMAIN rows \ {j \in DOMAIN rows : j <= k} |-> rows[id]]
    BY <1>9 DEF StorageClean
  <2>2. UNCHANGED <<collecting, box, batch>>
    BY <1>9 DEF StorageClean
  <2>3. InTable' \subseteq InTable /\ Buffered' = Buffered /\ Waiting' = Waiting /\ Queued' = Queued
    BY <2>1, <2>2 DEF InTable, Buffered, Queued, Waiting
  <2>4. Ascending(rows')
    BY <2>1 DEF InOrder, Ascending
  <2>5. /\ Ascending(batch') /\ Ascending(Waiting') /\ Before(InTable', Buffered')
        /\ Before(InTable', Queued') /\ Before(Buffered', Queued')
    BY <2>2, <2>3 DEF InOrder, Before
  <2>. QED
    BY <1>6, <2>2, <2>3, <2>4, <2>5
<1>10. CASE ResumeFlush
  <2>1. UNCHANGED <<collecting, box>> /\ (Flush(batch) \/ UNCHANGED <<rows, batch>>)
    BY <1>10 DEF ResumeFlush
  <2>2. CASE UNCHANGED <<rows, batch>>
    BY <1>1, <2>1, <2>2
  <2>3. CASE Flush(batch)
    <3>1. /\ Ascending(rows') /\ Ascending(batch') /\ Before(InTable', Buffered')
          /\ InTable' \subseteq InTable \cup Buffered /\ Buffered' \subseteq Buffered
      BY <1>0, <2>3, FlushKeepsOrder DEF InOrder, Buffered
    <3>2. Waiting' = Waiting /\ Queued' = Queued
      BY <2>1 DEF Queued, Waiting
    <3>3. /\ Ascending(Waiting') /\ Before(InTable', Queued') /\ Before(Buffered', Queued')
      BY <3>1, <3>2 DEF InOrder, Before
    <3>. QED
      BY <1>6, <2>1, <3>1, <3>2, <3>3
  <2>. QED
    BY <2>1, <2>2, <2>3
<1>11. CASE MqttRecv
  <2>1. Mail!Get("mqtt") /\ UNCHANGED <<rows, batch, collecting>>
    BY <1>11 DEF MqttRecv
  <2>2. UNCHANGED Waiting /\ NextSent' = NextSent
    BY <2>1 DEF Waiting, NextSent, Mail!Get, BoxOK, Boxes
  <2>3. NextSent <= NextSent'
    <3>1. NextSent \in Int
      BY DEF NextSent, BoxOK
    <3>. QED
      BY <2>2, <3>1
  <2>. QED
    BY <2>1, <2>2, <2>3, NothingMoves
<1>12. CASE Library
  BY <1>1, <1>12 DEF Library, SessionBreaks, SessionNoticed, ConnLost
<1>13. CASE \/ MqttInitFails \/ MqttInitConnects \/ MqttInitRaises
            \/ MqttConnectFails \/ MqttConnects \/ MqttRaises \/ MqttLive
            \/ ResumeQuery \/ ResumeSend \/ ResumeSendFails \/ ResumeMark
  BY <1>1, <1>13 DEF MqttInitFails, MqttInitConnects, MqttInitRaises,
       MqttConnectFails, MqttConnects, MqttRaises, MqttLive,
       ResumeQuery, ResumeSend, ResumeSendFails, ResumeMark
<1>14. CASE PowerFails
  <2> DEFINE period == StoreEvery * PublishEvery
             steps == (NextSent + period - 1) \div period
  <2>1. cycle' = steps * period /\ cpc' = "storage"
    BY <1>14 DEF PowerFails, NextSent
  <2>2. period \in Nat \ {0} /\ NextSent \in Nat
    BY UplinkAssumption DEF NextSent, BoxOK
  <2> HIDE DEF period
  <2>3. NextSent <= steps * period
    BY <2>2
  <2>4. NextSent' = cycle'
    BY <2>1 DEF NextSent
  <2>5. NextSent <= NextSent'
    BY <2>1, <2>3, <2>4
  <2> HIDE DEF steps
  <2>6. rows' = rows /\ batch' = <<>> /\ Waiting' = <<>>
    BY <1>14 DEF PowerFails, Waiting, Boxes
  <2>7. InTable' = InTable /\ Buffered' = {} /\ Queued' = {}
    BY <2>6 DEF InTable, Buffered, Queued, Elements
  <2>8. Ascending(rows') /\ Ascending(batch') /\ Ascending(Waiting')
    BY <2>6 DEF InOrder, Ascending
  <2>9. Before(InTable, {NextSent'})
    <3>1. InTable \subseteq Int
      BY DEF InTable, ValuesOK, Samples
    <3>2. NextSent \in Int /\ NextSent' \in Int
      BY DEF NextSent, BoxOK
    <3>. QED
      BY <2>5, <3>1, <3>2 DEF InOrder, Before
  <2>. QED
    BY <2>7, <2>8, <2>9 DEF InOrder, Before
<1>15. CASE UNCHANGED vars
  BY <1>1, <1>15 DEF vars
<1>. QED
  BY <1>2, <1>4, <1>5, <1>7, <1>8, <1>9, <1>10, <1>11, <1>12, <1>13, <1>14, <1>15
     DEF Next, Collect, Storage, Mqtt

(* What is stored, buffered and sent stays in the order of the samples.    *)
LEMMA OrderInvariant == Spec => []InOrder
<1>1. Init => InOrder
  BY DEF Init, InOrder, Ascending, Before, InTable, Buffered, Queued, Waiting, Elements,
         NoRows, Boxes
<1>2. BoxOK /\ BoxOK' /\ BufferOK /\ UploadInv /\ ValuesOK /\ InOrder /\ [Next]_vars => InOrder'
  BY OrderKept
<1>. QED
  BY <1>1, <1>2, BoxCorrect, BufferInvariant, UploadInvariant, ValuesCorrect, PTL DEF Spec

(* No sample is stored twice, whatever statement fails, whichever thread   *)
(* flushes the buffer, and through every restart.                          *)
THEOREM StoredOnceCorrect == Spec => []StoredOnce
<1>1. InOrder /\ BufferOK /\ UploadInv /\ ValuesOK => StoredOnce
  BY InOrderStoredOnce DEF UploadInv, RowsInv
<1>. QED
  BY <1>1, OrderInvariant, BufferInvariant, UploadInvariant, ValuesCorrect, PTL

-----------------------------------------------------------------------------
(* Uplink implements Outbox: no interleaving, fault or restart takes a     *)
(* sample anywhere but along the path Outbox draws.                        *)
Marked == {rows[id] : id \in synced}
Fresh == {rows[id] : id \in Unsynced}

(* A sample is in one place at most.                                       *)
OnePlace ==
    /\ Buffered \cap InTable = {} /\ Marked \cap Fresh = {} /\ lost \cap expired = {}
    /\ (Buffered \cup InTable) \cap (lost \cup expired) = {}

(* What is lost or has expired is older than what may still come; what has *)
(* been fetched for an upload is in the table or has expired since.        *)
LedgerOK ==
    /\ lost \cap expired = {}
    /\ (Buffered \cup InTable) \cap (lost \cup expired) = {}
    /\ Before(lost \cup expired, Queued \cup {NextSent})
    /\ \A id \in DOMAIN fetched : fetched[id] \in InTable \cup expired

(* What Stage says, by the places.                                         *)
StageRow(n) ==
    /\ n \in Buffered => Stage(n) = "buffered"
    /\ n \in Marked => Stage(n) = "marked"
    /\ n \in Fresh => Stage(n) = "stored"
    /\ n \in lost => Stage(n) = "lost"
    /\ n \in expired => Stage(n) = "expired"
    /\ n \notin Buffered \cup InTable \cup lost \cup expired => Stage(n) = "new"

LEMMA TableParts ==
    ASSUME synced \subseteq DOMAIN rows
    PROVE  InTable = Marked \cup Fresh
BY DEF InTable, Marked, Fresh, Unsynced

LEMMA StageRows ==
    ASSUME OnePlace, synced \subseteq DOMAIN rows, NEW n
    PROVE  StageRow(n)
<1> DEFINE buffered == n \in Elements(batch)
           marked == \E id \in synced : rows[id] = n
           stored == \E id \in Unsynced : rows[id] = n
<1>1. /\ buffered <=> n \in Buffered
      /\ marked <=> n \in Marked
      /\ stored <=> n \in Fresh
  BY DEF Buffered, Marked, Fresh
<1>2. Stage(n) = CASE buffered -> "buffered" [] marked -> "marked" [] stored -> "stored"
                   [] n \in lost -> "lost" [] n \in expired -> "expired" [] OTHER -> "new"
  BY DEF Stage
<1>3. InTable = Marked \cup Fresh
  BY TableParts
<1> HIDE DEF buffered, marked, stored
<1>4. CASE buffered
  <2>1. ~marked /\ ~stored /\ n \notin lost /\ n \notin expired
    BY <1>1, <1>3, <1>4 DEF OnePlace
  <2>. QED
    BY <1>1, <1>2, <1>3, <1>4, <2>1 DEF StageRow
<1>5. CASE marked
  <2>1. ~buffered /\ ~stored /\ n \notin lost /\ n \notin expired
    BY <1>1, <1>3, <1>5 DEF OnePlace
  <2>. QED
    BY <1>1, <1>2, <1>3, <1>5, <2>1 DEF StageRow
<1>6. CASE stored
  <2>1. ~buffered /\ ~marked /\ n \notin lost /\ n \notin expired
    BY <1>1, <1>3, <1>6 DEF OnePlace
  <2>. QED
    BY <1>1, <1>2, <1>3, <1>6, <2>1 DEF StageRow
<1>7. CASE n \in lost
  <2>1. ~buffered /\ ~marked /\ ~stored /\ n \notin expired
    BY <1>1, <1>3, <1>7 DEF OnePlace
  <2>. QED
    BY <1>1, <1>2, <1>3, <1>7, <2>1 DEF StageRow
<1>8. CASE n \in expired
  <2>1. ~buffered /\ ~marked /\ ~stored /\ n \notin lost
    BY <1>1, <1>3, <1>8 DEF OnePlace
  <2>. QED
    BY <1>1, <1>2, <1>3, <1>8, <2>1 DEF StageRow
<1>9. CASE ~buffered /\ ~marked /\ ~stored /\ n \notin lost /\ n \notin expired
  BY <1>1, <1>2, <1>3, <1>9 DEF StageRow
<1>. QED
  BY <1>4, <1>5, <1>6, <1>7, <1>8, <1>9
LEMMA SetsOfSamples ==
    ASSUME BoxOK, BufferOK, ValuesOK
    PROVE  /\ Buffered \subseteq Samples /\ InTable \subseteq Samples /\ Queued \subseteq Samples
           /\ lost \subseteq Samples /\ expired \subseteq Samples
           /\ Samples \subseteq Int /\ NextSent \in Int
<1>1. batch \in Seq(Samples) /\ Waiting \in Seq(Samples)
  BY DEF BufferOK, BoxOK, Boxes, Waiting
<1>2. Buffered \subseteq Samples /\ Queued \subseteq Samples
  BY <1>1 DEF Buffered, Queued, Elements
<1>3. InTable \subseteq Samples /\ lost \subseteq Samples /\ expired \subseteq Samples
  BY DEF InTable, ValuesOK
<1>4. Samples \subseteq Int /\ NextSent \in Int
  BY DEF Samples, NextSent, BoxOK
<1>. QED
  BY <1>2, <1>3, <1>4

LEMMA Apart ==
    ASSUME NEW S \in SUBSET Int, NEW T, Before(S, T)
    PROVE  S \cap T = {}
<1> SUFFICES ASSUME NEW m \in S, m \in T PROVE FALSE
  OBVIOUS
<1>1. m < m /\ m \in Int
  BY DEF Before
<1>. QED
  BY <1>1

(* The invariants the ledger rests on.                                     *)
StoreInv == BoxOK /\ BufferOK /\ UploadInv /\ ValuesOK /\ InOrder

LEMMA OnePlaceHolds ==
    ASSUME StoreInv, LedgerOK
    PROVE  OnePlace /\ synced \subseteq DOMAIN rows /\ InTable = Marked \cup Fresh
<1>1. IdsOK
  BY DEF StoreInv, UploadInv, RowsInv
<1>2. synced \subseteq DOMAIN rows
  BY <1>1 DEF IdsOK
<1>3. Buffered \cap InTable = {}
  <2>1. InTable \subseteq Int
    BY SetsOfSamples DEF StoreInv
  <2>2. Before(InTable, Buffered)
    BY DEF StoreInv, InOrder
  <2>. QED
    BY <2>1, <2>2, Apart
<1>4. Marked \cap Fresh = {}
  <2>1. \A i, j \in DOMAIN rows : rows[i] = rows[j] => i = j
    BY <1>1, InOrderStoredOnce DEF StoreInv, StoredOnce
  <2>. QED
    BY <1>2, <2>1 DEF Marked, Fresh, Unsynced
<1>. QED
  BY <1>2, <1>3, <1>4, TableParts DEF OnePlace, LedgerOK

(* What a flush of b does to the places.                                   *)
LEMMA FlushMoves ==
    ASSUME IdsOK, NEW b \in Seq(Samples), Flush(b), UNCHANGED synced
    PROVE  \/ \E S \in SUBSET Elements(b) :
                 /\ Buffered' = {} /\ Marked' = Marked
                 /\ Fresh' = Fresh \cup S /\ lost' = lost \cup (Elements(b) \ S)
           \/ Buffered' = Elements(b) /\ Marked' = Marked /\ Fresh' = Fresh /\ lost' = lost
<1>1. CASE FlushCommits(b)
  <2>1. PICK pos \in Positions(b) :
          LET m == Cardinality(DOMAIN pos)
          IN  /\ rows' = [id \in DOMAIN rows \cup NewId..(NewId + m - 1) |->
                            IF id \in DOMAIN rows THEN rows[id] ELSE b[pos[id - NewId + 1]]]
              /\ lost' = lost \cup (Elements(b) \ {b[pos[i]] : i \in DOMAIN pos})
              /\ batch' = Emptied(b)
    BY <1>1 DEF FlushCommits
  <2> DEFINE m == Cardinality(DOMAIN pos)
             S == {b[pos[i]] : i \in DOMAIN pos}
  <2>2. PICK k \in 0..Len(b) : pos \in [1..k -> 1..Len(b)]
    BY DEF Positions
  <2>3. m = k
    <3>1. DOMAIN pos = 1..k /\ k \in Nat
      BY <2>2
    <3>2. Cardinality(1..k) = k
      BY <3>1, FS_Interval
    <3>. QED
      BY <3>1, <3>2
  <2>4. rows' = [id \in DOMAIN rows \cup nextId..(nextId + k - 1) |->
                   IF id \in DOMAIN rows THEN rows[id] ELSE b[pos[id - nextId + 1]]]
    BY <2>1, <2>3 DEF NewId
  <2> HIDE DEF m
  <2>5. /\ nextId \in Nat \ {0} /\ k \in Nat /\ DOMAIN pos = 1..k
        /\ DOMAIN rows \subseteq 1..(nextId - 1) /\ synced \subseteq DOMAIN rows
        /\ DOMAIN rows' = DOMAIN rows \cup nextId..(nextId + k - 1)
        /\ \A id \in DOMAIN rows : rows'[id] = rows[id]
    BY <2>2, <2>4 DEF IdsOK
  <2>6. \A id \in nextId..(nextId + k - 1) :
          /\ id \notin DOMAIN rows /\ id - nextId + 1 \in 1..k
          /\ rows'[id] = b[pos[id - nextId + 1]]
    BY <2>4, <2>5
  <2>7. \A i \in 1..k : /\ i + nextId - 1 \in nextId..(nextId + k - 1)
                        /\ (i + nextId - 1) - nextId + 1 = i
    BY <2>5
  <2>8. {rows'[id] : id \in nextId..(nextId + k - 1)} = S
    <3>1. \A id \in nextId..(nextId + k - 1) : rows'[id] \in S
      BY <2>5, <2>6
    <3>2. ASSUME NEW i \in 1..k
          PROVE  b[pos[i]] \in {rows'[id] : id \in nextId..(nextId + k - 1)}
      <4>1. rows'[i + nextId - 1] = b[pos[i]]
        BY <2>6, <2>7
      <4>. QED
        BY <2>7, <4>1
    <3>. QED
      BY <2>5, <3>1, <3>2
  <2>9. DOMAIN rows' \ synced = Unsynced \cup nextId..(nextId + k - 1)
    BY <2>5, <2>6 DEF Unsynced
  <2>10. Marked' = Marked
    BY <2>5 DEF Marked
  <2>11. Fresh' = Fresh \cup S
    <3>1. Fresh' = {rows'[id] : id \in Unsynced \cup nextId..(nextId + k - 1)}
      BY <2>9 DEF Fresh, Unsynced
    <3>2. \A id \in Unsynced : rows'[id] = rows[id]
      BY <2>5 DEF Unsynced
    <3>3. {rows'[id] : id \in Unsynced} = Fresh
      BY <3>2 DEF Fresh
    <3>. QED
      BY <2>8, <3>1, <3>3
  <2>12. S \subseteq Elements(b)
    BY <2>2, <2>5 DEF Elements
  <2>13. Buffered' = {} /\ lost' = lost \cup (Elements(b) \ S)
    BY <2>1 DEF Buffered, Emptied, Elements
  <2>. QED
    BY <2>10, <2>11, <2>12, <2>13
<1>2. CASE FlushRollsBack(b)
  <2>1. Buffered' = {} /\ Marked' = Marked /\ Fresh' = Fresh \cup {}
        /\ lost' = lost \cup (Elements(b) \ {})
    BY <1>2 DEF FlushRollsBack, table, Buffered, Elements, Marked, Fresh, Unsynced
  <2>. QED
    BY <2>1
<1>3. CASE FlushNotBegun(b)
  BY <1>3 DEF FlushNotBegun, table, Buffered, Marked, Fresh, Unsynced
<1>. QED
  BY <1>1, <1>2, <1>3 DEF Flush
(* What a step may do to the places.                                       *)
NothingMoved == UNCHANGED <<Buffered, Marked, Fresh, lost, expired, handed>>

FlushesOf(E) ==
    /\ UNCHANGED <<Marked, expired, handed>>
    /\ \/ \E S \in SUBSET E : /\ Buffered' = {} /\ Fresh' = Fresh \cup S
                             /\ lost' = lost \cup (E \ S)
       \/ Buffered' = E /\ UNCHANGED <<Fresh, lost>>

Flushes == FlushesOf(Buffered)
Takes == \E n \in Queued : Before({n}, Queued') /\ FlushesOf(Buffered \cup {n})

Expires ==
    /\ Marked' \subseteq Marked /\ Fresh' \subseteq Fresh
    /\ expired' = expired \cup ((Marked \cup Fresh) \ (Marked' \cup Fresh'))
    /\ UNCHANGED <<Buffered, lost, handed>>

Marks ==
    /\ Marked' \cup Fresh' = Marked \cup Fresh
    /\ Marked \subseteq Marked' /\ Marked' \subseteq Marked \cup handed
    /\ UNCHANGED <<Buffered, lost, expired, handed>>

Sends ==
    /\ \E n \in InTable \cup expired : handed' = handed \cup {n}
    /\ UNCHANGED <<Buffered, Marked, Fresh, lost, expired>>

LEMMA StepKinds ==
    ASSUME StoreInv, StoreInv', LedgerOK, [Next]_vars
    PROVE  NothingMoved \/ Flushes \/ Takes \/ Expires \/ Marks \/ Sends
<1> USE DEF table, history
<1>0. /\ IdsOK /\ FetchedOK /\ batch \in Seq(Samples) /\ BoxOK
      /\ synced \subseteq DOMAIN rows
  BY DEF StoreInv, UploadInv, RowsInv, BufferOK, IdsOK
<1>1. ASSUME UNCHANGED <<rows, synced, batch, lost, expired, handed>> PROVE NothingMoved
  BY <1>1 DEF NothingMoved, Buffered, Marked, Fresh, Unsynced
<1>2. ASSUME NEW b \in Seq(Samples), UNCHANGED <<synced, expired, handed>>,
             Flush(b) \/ (batch' = b /\ UNCHANGED <<rows, lost>>)
      PROVE  FlushesOf(Elements(b))
  <2>1. CASE Flush(b)
    BY <1>0, <1>2, <2>1, FlushMoves DEF FlushesOf
  <2>2. CASE batch' = b /\ UNCHANGED <<rows, lost>>
    BY <1>2, <2>2 DEF FlushesOf, Buffered, Marked, Fresh, Unsynced
  <2>. QED
    BY <1>2, <2>1, <2>2
<1>3. CASE StorageTake
  <2> DEFINE n == Head(box["storage"])
             b == Append(batch, n)
  <2>1. /\ Mail!Get("storage") /\ UNCHANGED <<synced, expired, handed>>
        /\ Flush(b) \/ (batch' = b /\ UNCHANGED <<rows, lost>>)
    BY <1>3 DEF StorageTake
  <2>2. n \in Queued /\ Before({n}, Queued')
    BY <1>0, <2>1, GetKeepsOrder DEF StoreInv, InOrder
  <2>3. n \in Samples
    BY <1>0, <2>1, GetKeepsType DEF BoxOK, Boxes
  <2> HIDE DEF n
  <2>4. b \in Seq(Samples)
    BY <1>0, <2>3
  <2>5. Elements(b) = Buffered \cup {n}
    <3>1. /\ Len(batch) \in Nat /\ DOMAIN batch = 1..Len(batch)
          /\ DOMAIN b = 1..(Len(batch) + 1) /\ b[Len(batch) + 1] = n
          /\ \A i \in 1..Len(batch) : b[i] = batch[i]
      BY <1>0, <2>3
    <3> HIDE DEF b
    <3>. QED
      BY <3>1 DEF Buffered, Elements
  <2> HIDE DEF b
  <2>6. FlushesOf(Elements(b))
    BY <1>2, <2>1, <2>4
  <2>. QED
    BY <2>2, <2>5, <2>6 DEF Takes
<1>4. CASE ResumeFlush
  <2>1. /\ UNCHANGED <<synced, expired, handed>>
        /\ Flush(batch) \/ (batch' = batch /\ UNCHANGED <<rows, lost>>)
    BY <1>4 DEF ResumeFlush
  <2>2. FlushesOf(Elements(batch))
    BY <1>0, <1>2, <2>1
  <2>. QED
    BY <2>2 DEF Flushes, Buffered
<1>5. CASE PowerFails
  <2>1. /\ UNCHANGED <<rows, synced, expired, handed>> /\ batch' = <<>>
        /\ lost' = lost \cup Elements(batch)
    BY <1>5 DEF PowerFails
  <2>2. Marked' = Marked /\ Fresh' = Fresh \cup {} /\ Buffered' = {}
        /\ lost' = lost \cup (Buffered \ {})
    BY <2>1 DEF Buffered, Elements, Marked, Fresh, Unsynced
  <2>. QED
    BY <2>1, <2>2 DEF Flushes, FlushesOf
<1>6. CASE StorageClean
  <2>1. PICK k \in DOMAIN rows \cup {0} :
          LET old == {id \in DOMAIN rows : id <= k}
          IN  /\ rows' = [id \in DOMAIN rows \ old |-> rows[id]]
              /\ synced' = synced \ old
              /\ expired' = expired \cup {rows[id] : id \in old}
    BY <1>6 DEF StorageClean
  <2>2. UNCHANGED <<batch, lost, handed>>
    BY <1>6 DEF StorageClean
  <2> DEFINE old == {id \in DOMAIN rows : id <= k}
  <2>3. /\ DOMAIN rows' = DOMAIN rows \ old /\ synced' = synced \ old
        /\ \A id \in DOMAIN rows \ old : rows'[id] = rows[id]
        /\ expired' = expired \cup {rows[id] : id \in old} /\ old \subseteq DOMAIN rows
    BY <2>1
  <2> HIDE DEF old
  <2>4. Marked' \subseteq Marked /\ Fresh' \subseteq Fresh
    BY <1>0, <2>3 DEF Marked, Fresh, Unsynced
  <2>5. Marked \cup Fresh = {rows[id] : id \in DOMAIN rows}
    BY <1>0 DEF Marked, Fresh, Unsynced
  <2>6. Marked' \cup Fresh' = {rows[id] : id \in DOMAIN rows \ old}
    BY <1>0, <2>3 DEF Marked, Fresh, Unsynced
  <2>7. \A i, j \in DOMAIN rows : rows[i] = rows[j] => i = j
    BY <1>0, InOrderStoredOnce DEF StoreInv, StoredOnce
  <2>8. (Marked \cup Fresh) \ (Marked' \cup Fresh') = {rows[id] : id \in old}
    BY <2>3, <2>5, <2>6, <2>7
  <2>. QED
    BY <2>2, <2>3, <2>4, <2>8 DEF Expires, Buffered
<1>7. CASE ResumeMark
  <2>1. PICK done \in SUBSET (ToMark \cap DOMAIN rows) : synced' = synced \cup done
    BY <1>7 DEF ResumeMark
  <2>2. UNCHANGED <<rows, batch, lost, expired, handed>>
    BY <1>7 DEF ResumeMark
  <2>3. \A id \in done : rows[id] \in handed
    BY <1>0, <2>1 DEF ToMark, FetchedOK, IdsOK
  <2>4. /\ Marked' = Marked \cup {rows[id] : id \in done}
        /\ Fresh' = {rows[id] : id \in DOMAIN rows \ (synced \cup done)}
    BY <2>1, <2>2 DEF Marked, Fresh, Unsynced
  <2>5. Marked' \cup Fresh' = Marked \cup Fresh
    BY <1>0, <2>1, <2>4 DEF Marked, Fresh, Unsynced
  <2>. QED
    BY <2>2, <2>3, <2>4, <2>5 DEF Marks, Buffered
<1>8. CASE ResumeSend
  <2>1. PICK id \in DOMAIN fetched : handed' = handed \cup {fetched[id]}
    BY <1>8 DEF ResumeSend
  <2>2. UNCHANGED <<rows, synced, batch, lost, expired>>
    BY <1>8 DEF ResumeSend
  <2>3. fetched[id] \in InTable \cup expired
    BY DEF LedgerOK
  <2>. QED
    BY <2>1, <2>2, <2>3 DEF Sends, Buffered, Marked, Fresh, Unsynced
<1>9. CASE Collect \/ StorageOverrun \/ Library
  BY <1>1, <1>9 DEF Collect, CollectStore, CollectPublish, CollectBeyond, StorageOverrun,
                    Library, SessionBreaks, SessionNoticed, ConnLost
<1>10. CASE \/ MqttInitFails \/ MqttInitConnects \/ MqttInitRaises \/ MqttRecv
            \/ MqttConnectFails \/ MqttConnects \/ MqttRaises \/ MqttLive
            \/ ResumeQuery \/ ResumeSendFails
  BY <1>1, <1>10 DEF MqttInitFails, MqttInitConnects, MqttInitRaises, MqttRecv,
       MqttConnectFails, MqttConnects, MqttRaises, MqttLive, ResumeQuery, ResumeSendFails
<1>11. CASE UNCHANGED vars
  BY <1>1, <1>11 DEF vars
<1>. QED
  BY <1>3, <1>4, <1>5, <1>6, <1>7, <1>8, <1>9, <1>10, <1>11 DEF Next, Storage, Mqtt

(* Only what collect sends next joins the mailbox.                         *)
LEMMA QueueMoves ==
    ASSUME StoreInv, BoxOK', [Next]_vars
    PROVE  Queued' \subseteq Queued \cup {NextSent} /\ NextSent <= NextSent'
<1> USE DEF collecting
<1>0. BoxOK /\ Ascending(Waiting) /\ NextSent \in Int /\ NextSent' \in Int
      /\ Before(Queued, {NextSent})
  BY DEF StoreInv, InOrder, BoxOK, NextSent, Before
<1>1. ASSUME UNCHANGED collecting, UNCHANGED box \/ Mail!Get("storage") \/ Mail!Get("mqtt")
      PROVE  Queued' \subseteq Queued \cup {NextSent} /\ NextSent <= NextSent'
  <2>1. NextSent <= NextSent'
    <3>1. NextSent' = NextSent
      BY <1>1 DEF NextSent
    <3>. QED
      BY <1>0, <3>1
  <2>2. CASE UNCHANGED box \/ Mail!Get("mqtt")
    <3>1. Waiting' = Waiting
      BY <1>0, <2>2 DEF Waiting, Mail!Get, BoxOK, Boxes
    <3>. QED
      BY <2>1, <3>1 DEF Queued
  <2>3. CASE Mail!Get("storage")
    BY <1>0, <2>1, <2>3, GetKeepsOrder
  <2>. QED
    BY <1>1, <2>2, <2>3
<1>2. CASE CollectStore
  <2>1. /\ cycle \in Samples /\ NextSent = cycle /\ NextSent' = cycle + 1
        /\ UNCHANGED box \/ Mail!Put("storage", cycle)
    BY <1>0, <1>2 DEF CollectStore, BoxOK, Samples, NextSent
  <2>2. CASE UNCHANGED box
    BY <1>0, <2>1, <2>2 DEF Queued, Waiting
  <2>3. CASE Mail!Put("storage", cycle)
    BY <1>0, <2>1, <2>3, PutKeepsOrder
  <2>. QED
    BY <2>1, <2>2, <2>3
<1>3. CASE CollectPublish \/ CollectBeyond
  <2>1. NextSent' = NextSent
    BY <1>3 DEF CollectPublish, CollectBeyond, NextSent
  <2>2. Waiting' = Waiting
    BY <1>0, <1>3 DEF CollectPublish, CollectBeyond, Mail!Put, Waiting, BoxOK, Boxes
  <2>. QED
    BY <1>0, <2>1, <2>2 DEF Queued
<1>4. CASE PowerFails
  <2> DEFINE period == StoreEvery * PublishEvery
             steps == (NextSent + period - 1) \div period
  <2>1. cycle' = steps * period /\ cpc' = "storage"
    BY <1>4 DEF PowerFails, NextSent
  <2>2. period \in Nat \ {0} /\ NextSent \in Nat
    BY <1>0, UplinkAssumption DEF NextSent, BoxOK
  <2>3. NextSent' = cycle'
    BY <2>1 DEF NextSent
  <2> HIDE DEF period
  <2>4. NextSent <= steps * period
    BY <2>2
  <2>5. Queued' = {}
    BY <1>4 DEF PowerFails, Queued, Waiting, Boxes, Elements
  <2>. QED
    BY <2>1, <2>3, <2>4, <2>5
<1>5. CASE Storage \/ Library
  BY <1>1, <1>5 DEF Storage, StorageTake, StorageOverrun, StorageClean,
                    Library, SessionBreaks, SessionNoticed, ConnLost
<1>6. CASE Mqtt
  BY <1>1, <1>6 DEF Mqtt, MqttInitFails, MqttInitConnects, MqttInitRaises, MqttRecv,
       MqttConnectFails, MqttConnects, MqttRaises, MqttLive,
       ResumeFlush, ResumeQuery, ResumeSend, ResumeSendFails, ResumeMark
<1>7. CASE UNCHANGED vars
  BY <1>1, <1>7 DEF vars
<1>. QED
  BY <1>2, <1>3, <1>4, <1>5, <1>6, <1>7 DEF Next, Collect
(* Rows are fetched from the table, nowhere else.                          *)
LEMMA FetchedMoves ==
    ASSUME [Next]_vars, NEW id \in DOMAIN fetched'
    PROVE  fetched'[id] \in InTable' \/ (id \in DOMAIN fetched /\ fetched'[id] = fetched[id])
<1> USE DEF resume
<1>1. ASSUME UNCHANGED fetched
      PROVE  id \in DOMAIN fetched /\ fetched'[id] = fetched[id]
  BY <1>1
<1>2. ASSUME fetched' = NoRows PROVE FALSE
  BY <1>2 DEF NoRows
<1>3. CASE ResumeQuery
  <2>1. PICK k \in 0..ResumeSize : fetched' = [i \in Oldest(Unsynced, k) |-> rows[i]]
    BY <1>3 DEF ResumeQuery
  <2>2. rows' = rows
    BY <1>3 DEF ResumeQuery, table
  <2>. QED
    BY <2>1, <2>2 DEF Oldest, Unsynced, InTable
<1>4. CASE ResumeSendFails \/ ResumeMark \/ PowerFails
  <2>1. UNCHANGED fetched \/ fetched' = NoRows
    BY <1>4 DEF ResumeSendFails, ResumeMark, PowerFails
  <2>. QED
    BY <1>1, <1>2, <2>1
<1>5. CASE \/ MqttInitFails \/ MqttInitConnects \/ MqttInitRaises \/ MqttRecv
           \/ MqttConnectFails \/ MqttConnects \/ MqttRaises \/ MqttLive
           \/ ResumeFlush \/ ResumeSend
  BY <1>1, <1>5 DEF MqttInitFails, MqttInitConnects, MqttInitRaises, MqttRecv,
       MqttConnectFails, MqttConnects, MqttRaises, MqttLive, ResumeFlush, ResumeSend
<1>6. CASE Collect \/ Storage \/ Library
  BY <1>1, <1>6 DEF Collect, CollectStore, CollectPublish, CollectBeyond,
       Storage, StorageTake, StorageOverrun, StorageClean,
       Library, SessionBreaks, SessionNoticed, ConnLost
<1>7. CASE UNCHANGED vars
  BY <1>1, <1>7 DEF vars
<1>. QED
  BY <1>3, <1>4, <1>5, <1>6, <1>7 DEF Next, Mqtt

LEMMA LedgerKept ==
    ASSUME StoreInv, StoreInv', LedgerOK, [Next]_vars
    PROVE  LedgerOK'
<1>1. NothingMoved \/ Flushes \/ Takes \/ Expires \/ Marks \/ Sends
  BY StepKinds
<1>2. Queued' \subseteq Queued \cup {NextSent} /\ NextSent <= NextSent'
  BY QueueMoves DEF StoreInv
<1>3. /\ OnePlace /\ InTable = Marked \cup Fresh
      /\ InTable \cup Buffered \cup Queued \cup lost \cup expired \subseteq Int
      /\ NextSent \in Int /\ NextSent' \in Int
  BY OnePlaceHolds, SetsOfSamples DEF StoreInv, NextSent, BoxOK
<1>4. InTable' = Marked' \cup Fresh'
  <2>1. synced \subseteq DOMAIN rows => InTable = Marked \cup Fresh
    BY TableParts
  <2>2. (synced \subseteq DOMAIN rows)' => (InTable = Marked \cup Fresh)'
    BY <2>1, TableParts, PTL
  <2>. QED
    BY <2>2 DEF StoreInv, UploadInv, RowsInv, IdsOK
<1> DEFINE Old == InTable \cup Buffered \cup lost \cup expired
<1>5. /\ Before(Old, Queued) /\ \A m \in Old \cup Queued : m < NextSent
  BY DEF StoreInv, InOrder, LedgerOK, Before
<1>6. ASSUME lost' \cup expired' \subseteq Old
      PROVE  Before(lost' \cup expired', Queued' \cup {NextSent'})
  BY <1>2, <1>3, <1>5, <1>6 DEF Before
<1>7. ASSUME NEW E, Buffered \subseteq E, E \cap (lost \cup expired) = {}, E \cap InTable = {},
             FlushesOf(E)
      PROVE  /\ lost' \cap expired' = {} /\ expired' = expired /\ lost' \subseteq lost \cup E
             /\ (Buffered' \cup InTable') \cap (lost' \cup expired') = {}
             /\ InTable \cup expired \subseteq InTable' \cup expired'
  BY <1>3, <1>4, <1>7 DEF FlushesOf, OnePlace
<1>8. /\ lost' \cap expired' = {}
      /\ (Buffered' \cup InTable') \cap (lost' \cup expired') = {}
      /\ Before(lost' \cup expired', Queued' \cup {NextSent'})
      /\ InTable \cup expired \subseteq InTable' \cup expired'
  <2>1. CASE NothingMoved \/ Marks \/ Sends
    <3>1. InTable' = InTable /\ UNCHANGED <<Buffered, lost, expired>>
      BY <1>3, <1>4, <2>1 DEF NothingMoved, Marks, Sends
    <3>. QED
      BY <1>3, <1>6, <3>1 DEF OnePlace
  <2>2. CASE Expires
    <3>1. /\ InTable' \subseteq InTable /\ expired' = expired \cup (InTable \ InTable')
          /\ UNCHANGED <<Buffered, lost>>
      BY <1>3, <1>4, <2>2 DEF Expires
    <3>. QED
      BY <1>3, <1>6, <3>1 DEF OnePlace
  <2>3. CASE Flushes
    <3>1. /\ lost' \cap expired' = {} /\ expired' = expired /\ lost' \subseteq lost \cup Buffered
          /\ (Buffered' \cup InTable') \cap (lost' \cup expired') = {}
          /\ InTable \cup expired \subseteq InTable' \cup expired'
      BY <1>3, <1>7, <2>3 DEF Flushes, OnePlace
    <3>. QED
      BY <1>6, <3>1
  <2>4. CASE Takes
    <3>1. PICK n \in Queued : Before({n}, Queued') /\ FlushesOf(Buffered \cup {n})
      BY <2>4 DEF Takes
    <3>2. n \notin Old /\ n < NextSent /\ n \in Int
      BY <1>3, <1>5 DEF Before
    <3>3. /\ lost' \cap expired' = {} /\ expired' = expired
          /\ lost' \subseteq lost \cup Buffered \cup {n}
          /\ (Buffered' \cup InTable') \cap (lost' \cup expired') = {}
          /\ InTable \cup expired \subseteq InTable' \cup expired'
      <4>1. (Buffered \cup {n}) \cap (lost \cup expired) = {}
            /\ (Buffered \cup {n}) \cap InTable = {}
        BY <1>3, <3>2 DEF OnePlace
      <4>. QED
        BY <1>7, <3>1, <4>1
    <3>4. Before(lost' \cup expired', Queued' \cup {NextSent'})
      BY <1>2, <1>3, <1>5, <3>1, <3>2, <3>3 DEF Before
    <3>. QED
      BY <3>3, <3>4
  <2>. QED
    BY <1>1, <2>1, <2>2, <2>3, <2>4
<1>9. \A id \in DOMAIN fetched' : fetched'[id] \in InTable' \cup expired'
  BY <1>8, FetchedMoves DEF LedgerOK
<1>. QED
  BY <1>8, <1>9 DEF LedgerOK

(* The places and the stages go together.                                  *)
LEMMA Places ==
    StoreInv /\ LedgerOK =>
        /\ OnePlace /\ InTable = Marked \cup Fresh
        /\ \A n \in Samples : StageRow(n)
BY OnePlaceHolds, StageRows

(* The steps of Outbox, as far as one sample is concerned.                 *)
MovesOn(n) ==
    \/ Stage(n)' = Stage(n)
    \/ Stage(n) = "new" /\ Stage(n)' \in {"buffered", "stored", "lost"}
    \/ Stage(n) = "buffered" /\ Stage(n)' \in {"stored", "lost"}
    \/ Stage(n) = "stored" /\ Stage(n)' = "marked" /\ n \in handed
    \/ Stage(n) \in {"stored", "marked"} /\ Stage(n)' = "expired"

(* Every step of Uplink is a step of Outbox, or none.                      *)
LEMMA LedgerStep ==
    ASSUME StoreInv, StoreInv', LedgerOK, LedgerOK', [Next]_vars
    PROVE  [Ledger!Next]_(Ledger!vars)
<1>1. NothingMoved \/ Flushes \/ Takes \/ Expires \/ Marks \/ Sends
  BY StepKinds
<1>2. /\ OnePlace /\ InTable = Marked \cup Fresh
      /\ \A n \in Samples : StageRow(n)
      /\ InTable \cup Buffered \cup Queued \cup lost \cup expired \subseteq Int
  BY Places, SetsOfSamples DEF StoreInv
<1>3. /\ OnePlace' /\ InTable' = Marked' \cup Fresh'
      /\ \A n \in Samples : StageRow(n)'
  <2>1. (StoreInv /\ LedgerOK)' =>
          (OnePlace /\ InTable = Marked \cup Fresh /\ \A n \in Samples : StageRow(n))'
    BY Places, PTL
  <2>. QED
    BY <2>1
<1>4. ASSUME NEW n \in Samples
      PROVE  Stage(n)' \in {"new", "buffered", "stored", "marked", "lost", "expired"}
  BY <1>3 DEF StageRow
<1>5. ASSUME UNCHANGED handed, \A n \in Samples : MovesOn(n)
      PROVE  [Ledger!Next]_(Ledger!vars)
  <2>1. Ledger!Move
    BY <1>4, <1>5 DEF MovesOn, Ledger!Move, Ledger!Stages, Ledger!Accept, Ledger!Flush,
                      Ledger!Mark, Ledger!Expire, Ledger!Stay
  <2>. QED
    BY <2>1 DEF Ledger!Next
<1>6. ASSUME NEW E, Buffered \subseteq E, FlushesOf(E), E \cap InTable = {},
             \A n \in Samples : n \in E \ Buffered => Stage(n) = "new"
      PROVE  [Ledger!Next]_(Ledger!vars)
  <2>1. UNCHANGED handed
    BY <1>6 DEF FlushesOf
  <2>2. ASSUME NEW n \in Samples PROVE MovesOn(n)
    <3>1. StageRow(n) /\ StageRow(n)'
      BY <1>2, <1>3
    <3>2. CASE n \in E
      <4>1. Stage(n) \in {"buffered", "new"}
        BY <1>6, <3>1, <3>2 DEF StageRow
      <4>2. n \in Buffered' \cup Fresh' \cup lost' /\ (n \in Buffered' => Buffered' = E)
        BY <1>6, <3>2 DEF FlushesOf
      <4>3. CASE n \in Buffered'
        BY <1>6, <3>1, <3>2, <4>3 DEF StageRow, MovesOn
      <4>4. CASE n \notin Buffered'
        BY <3>1, <4>1, <4>2, <4>4 DEF StageRow, MovesOn
      <4>. QED
        BY <4>3, <4>4
    <3>3. CASE n \notin E
      <4>1. /\ n \notin Buffered /\ n \notin Buffered'
            /\ (n \in Marked' <=> n \in Marked) /\ (n \in Fresh' <=> n \in Fresh)
            /\ (n \in lost' <=> n \in lost) /\ (n \in expired' <=> n \in expired)
        BY <1>6, <3>3 DEF FlushesOf
      <4>. QED
        BY <1>2, <1>3, <3>1, <4>1 DEF StageRow, MovesOn
    <3>. QED
      BY <3>2, <3>3
  <2>. QED
    BY <1>5, <2>1, <2>2
<1>7. CASE NothingMoved
  <2>1. \A n \in Samples : MovesOn(n)
    BY <1>2, <1>3, <1>7 DEF NothingMoved, StageRow, MovesOn
  <2>. QED
    BY <1>5, <1>7, <2>1 DEF NothingMoved
<1>8. CASE Flushes
  BY <1>2, <1>6, <1>8 DEF Flushes, OnePlace
<1>9. CASE Takes
  <2>1. PICK n \in Queued : FlushesOf(Buffered \cup {n})
    BY <1>9 DEF Takes
  <2>2. n \notin InTable \cup Buffered \cup lost \cup expired
    <3>1. Before(InTable \cup Buffered \cup lost \cup expired, Queued)
      BY DEF StoreInv, InOrder, LedgerOK, Before
    <3>2. (InTable \cup Buffered \cup lost \cup expired) \cap Queued = {}
      BY <1>2, <3>1, Apart
    <3>. QED
      BY <2>1, <3>2
  <2>3. n \in Samples => Stage(n) = "new"
    BY <1>2, <2>2 DEF StageRow
  <2>4. (Buffered \cup {n}) \cap InTable = {}
    BY <1>2, <2>2 DEF OnePlace
  <2>. QED
    BY <1>6, <2>1, <2>3, <2>4
<1>10. CASE Expires
  <2>1. ASSUME NEW n \in Samples PROVE MovesOn(n)
    <3>1. StageRow(n) /\ StageRow(n)'
      BY <1>2, <1>3
    <3>2. CASE n \in InTable \ InTable'
      <4>1. n \in expired' /\ (n \in Marked \/ n \in Fresh)
        BY <1>2, <1>3, <1>10, <3>2 DEF Expires
      <4>. QED
        BY <3>1, <4>1 DEF StageRow, MovesOn
    <3>3. CASE n \notin InTable \ InTable'
      <4>1. /\ (n \in Marked' <=> n \in Marked) /\ (n \in Fresh' <=> n \in Fresh)
            /\ n \in expired' <=> n \in expired
        BY <1>2, <1>3, <1>10, <3>3 DEF Expires, OnePlace
      <4>. QED
        BY <1>2, <1>3, <1>10, <3>1, <4>1 DEF Expires, StageRow, MovesOn
    <3>. QED
      BY <3>2, <3>3
  <2>. QED
    BY <1>5, <1>10, <2>1 DEF Expires
<1>11. CASE Marks
  <2>1. ASSUME NEW n \in Samples PROVE MovesOn(n)
    <3>1. StageRow(n) /\ StageRow(n)'
      BY <1>2, <1>3
    <3>2. CASE n \in Marked' \ Marked
      <4>1. n \in Fresh /\ n \in handed
        BY <1>11, <3>2 DEF Marks
      <4>. QED
        BY <3>1, <3>2, <4>1 DEF StageRow, MovesOn
    <3>3. CASE n \notin Marked' \ Marked
      <4>1. n \in Marked' <=> n \in Marked
        BY <1>11, <3>3 DEF Marks
      <4>2. n \in Fresh' <=> n \in Fresh
        BY <1>2, <1>3, <1>11, <4>1 DEF Marks, OnePlace
      <4>. QED
        BY <1>2, <1>3, <1>11, <3>1, <4>1, <4>2 DEF Marks, StageRow, MovesOn
    <3>. QED
      BY <3>2, <3>3
  <2>. QED
    BY <1>5, <1>11, <2>1 DEF Marks
<1>12. CASE Sends
  <2>1. PICK n \in InTable \cup expired : handed' = handed \cup {n}
    BY <1>12 DEF Sends
  <2>2. \A m \in Samples : Stage(m)' = Stage(m)
    BY <1>2, <1>3, <1>12 DEF Sends, StageRow
  <2>3. n \in Samples /\ Stage(n) \in {"stored", "marked", "expired"}
    <3>1. n \in Samples
      BY SetsOfSamples DEF StoreInv
    <3>. QED
      BY <1>2, <3>1 DEF StageRow
  <2>4. Ledger!Send(n)
    BY <2>1, <2>2, <2>3 DEF Ledger!Send
  <2>. QED
    BY <2>3, <2>4 DEF Ledger!Next
<1>. QED
  BY <1>1, <1>7, <1>8, <1>9, <1>10, <1>11, <1>12

(* Uplink implements Outbox: a sample that was stored is never lost and    *)
(* never marked before it was handed over, for every batch size, fault and *)
(* number of restarts.                                                     *)
THEOREM ImplementsOutbox == Spec => OutboxSafe
<1>1. Init => LedgerOK /\ Ledger!Init
  <2> SUFFICES ASSUME Init PROVE LedgerOK /\ Ledger!Init
    OBVIOUS
  <2>1. /\ Buffered = {} /\ InTable = {} /\ Queued = {} /\ lost = {} /\ expired = {}
        /\ handed = {} /\ synced = {} /\ DOMAIN fetched = {} /\ DOMAIN rows = {}
    BY DEF Init, Buffered, InTable, Queued, Waiting, Elements, NoRows, Boxes
  <2>2. LedgerOK
    BY <2>1 DEF LedgerOK, Before
  <2>3. Marked = {} /\ Fresh = {} /\ synced \subseteq DOMAIN rows
    BY <2>1 DEF Marked, Fresh, Unsynced
  <2>4. OnePlace
    BY <2>1, <2>3 DEF OnePlace
  <2>5. \A n \in Samples : Stage(n) = "new"
    BY <2>1, <2>3, <2>4, StageRows DEF StageRow
  <2>. QED
    BY <2>1, <2>2, <2>5 DEF Ledger!Init
<1>2. StoreInv /\ StoreInv' /\ LedgerOK /\ [Next]_vars => LedgerOK'
  BY LedgerKept
<1>3. StoreInv /\ StoreInv' /\ LedgerOK /\ LedgerOK' /\ [Next]_vars => [Ledger!Next]_(Ledger!vars)
  BY LedgerStep
<1>4. Spec => []StoreInv
  <2>1. BoxOK /\ BufferOK /\ UploadInv /\ ValuesOK /\ InOrder => StoreInv
    BY DEF StoreInv
  <2>. QED
    BY <2>1, BoxCorrect, BufferInvariant, UploadInvariant, ValuesCorrect, OrderInvariant, PTL
<1>. QED
  BY <1>1, <1>2, <1>3, <1>4, PTL DEF Spec, OutboxSafe, Ledger!Spec
=============================================================================
