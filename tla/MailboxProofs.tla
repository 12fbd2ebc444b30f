---------------------------- MODULE MailboxProofs ----------------------------
(***************************************************************************)
(* Theorems about Mailbox for every set of tasks, every order of           *)
(* registration, every capacity of at least one and any number of sends.   *)
(***************************************************************************)
EXTENDS Mailbox, SequenceTheorems, TLAPS

(* The list q without its n oldest messages and with m behind the rest.    *)
Pushed(q, n, m) == Append(SubSeq(q, n + 1, Len(q)), m)

LEMMA DropAppend ==
    ASSUME NEW S, NEW q \in Seq(S), NEW m \in S, NEW n \in 0..Len(q)
    PROVE  /\ Pushed(q, n, m) \in Seq(S) /\ Pushed(q, n, m) # <<>>
           /\ Len(Pushed(q, n, m)) = Len(q) - n + 1
           /\ \A i \in 1..(Len(q) - n) : Pushed(q, n, m)[i] = q[n + i]
           /\ Pushed(q, n, m)[Len(Pushed(q, n, m))] = m
<1>1. Len(q) \in Nat /\ n \in Nat /\ n <= Len(q)
  BY LenProperties
<1>2. \A i \in (n + 1)..Len(q) : q[i] \in S
  BY <1>1, ElementOfSeq
<1> DEFINE d == SubSeq(q, n + 1, Len(q))
<1>3. /\ d \in Seq(S)
      /\ Len(d) = Len(q) - n
      /\ \A i \in 1..(Len(q) - n) : d[i] = q[n + i]
  <2>1. ASSUME NEW a \in Int, NEW b \in Int, \A i \in a..b : q[i] \in S
        PROVE  /\ SubSeq(q, a, b) \in Seq(S)
               /\ Len(SubSeq(q, a, b)) = IF a <= b THEN b - a + 1 ELSE 0
               /\ \A i \in 1..(b - a + 1) : SubSeq(q, a, b)[i] = q[a + i - 1]
    BY <2>1, SubSeqProperties
  <2>2. /\ d \in Seq(S)
        /\ Len(d) = IF n + 1 <= Len(q) THEN Len(q) - (n + 1) + 1 ELSE 0
        /\ \A i \in 1..(Len(q) - (n + 1) + 1) : d[i] = q[n + 1 + i - 1]
    BY <1>1, <1>2, <2>1
  <2> HIDE DEF d
  <2>3. QED BY <1>1, <2>2
<1> HIDE DEF d
<1>4. /\ Append(d, m) \in Seq(S) /\ Append(d, m) # <<>>
      /\ Len(Append(d, m)) = Len(d) + 1
      /\ \A i \in 1..Len(d) : Append(d, m)[i] = d[i]
      /\ Append(d, m)[Len(d) + 1] = m
  <2>1. \A x \in Seq(S) : /\ Append(x, m) \in Seq(S) /\ Append(x, m) # <<>>
                          /\ Len(Append(x, m)) = Len(x) + 1
                          /\ \A i \in 1..Len(x) : Append(x, m)[i] = x[i]
                          /\ Append(x, m)[Len(x) + 1] = m
    BY AppendProperties
  <2>2. QED BY <1>3, <2>1
<1>5. QED BY <1>1, <1>3, <1>4 DEF d, Pushed

-----------------------------------------------------------------------------
(* What the locals of a call mean: a receiver looks for its own node, a    *)
(* sender for a receiver's; the pointer of a completed search is the node  *)
(* looked for; only a receiver sleeps.                                     *)
CallsOK ==
    \A t \in Tasks :
        /\ pc[t] \in {"lookup", "found", "waiting"} =>
              want[t] \in Receivers /\ (t \in Receivers => want[t] = t)
        /\ pc[t] \in {"found", "waiting"} => ptr[t] = want[t]
        /\ pc[t] = "waiting" => t \in Receivers
        /\ pc[t] \in {"lookup", "found"} /\ t \in Senders => sent[t] > 0

CountingInv == TypeOK /\ CallsOK /\ CountedAndBounded

(* The overflow loop takes off as many messages as it should: none from a  *)
(* list that is not full, otherwise enough to make room for one and never  *)
(* more than four fifths allow.                                            *)
LEMMA OverflowProperties ==
    ASSUME TypeOK, CountedAndBounded, NEW t \in Tasks
    PROVE  /\ Overflow(t) \in 0..Len(queue[t])
           /\ Len(queue[t]) - Overflow(t) < MaxLen[t]
           /\ Len(queue[t]) < MaxLen[t] => Overflow(t) = 0
           /\ Len(queue[t]) >= MaxLen[t] =>
                 /\ Overflow(t) > 0
                 /\ Len(queue[t]) - Overflow(t) >= (4 * MaxLen[t]) \div 5
<1>1. MaxLen[t] \in Nat /\ MaxLen[t] > 0
  BY LengthAssumption
<1>2. Len(queue[t]) \in Nat /\ curLen[t] = Len(queue[t]) /\ curLen[t] <= MaxLen[t]
  BY LenProperties DEF TypeOK, CountedAndBounded
<1>3. Watermark(t) \in Nat /\ Watermark(t) < MaxLen[t] /\ Watermark(t) = (4 * MaxLen[t]) \div 5
  BY <1>1 DEF Watermark
<1>4. QED BY <1>1, <1>2, <1>3 DEF Overflow

(* Each variable keeps its type, the locals keep their meaning and cur_len *)
(* is the length of a list that never exceeds max_len.                     *)
THEOREM CountingInvariant == Spec => []CountingInv
<1> USE DEF CountingInv, registry, lists, locals
<1>1. Init => CountingInv
  BY TasksAssumption, LengthAssumption, EmptySeq
     DEF Init, TypeOK, CallsOK, CountedAndBounded, MainPcs, Pcs, Nodes
<1>2. CountingInv /\ [Next]_vars => CountingInv'
  <2> SUFFICES ASSUME CountingInv, [Next]_vars PROVE CountingInv'
    OBVIOUS
  <2> USE TasksAssumption DEF TypeOK, CallsOK, CountedAndBounded, MainPcs, Pcs, Nodes, Receivers
  <2>1. ASSUME NEW t \in Tasks, Insert(t) PROVE CountingInv'
    BY <2>1 DEF Insert
  <2>2. ASSUME NEW t \in Tasks, NodeFails(t) PROVE CountingInv'
    BY <2>2 DEF NodeFails
  <2>3. ASSUME NEW t \in Tasks, CreateSucceeds(t) PROVE CountingInv'
    BY <2>3 DEF CreateSucceeds
  <2>4. ASSUME NEW t \in Tasks, CreateFails(t) PROVE CountingInv'
    BY <2>4 DEF CreateFails
  <2>5. ASSUME NEW t \in Tasks, FreeNode(t) PROVE CountingInv'
    <3>1. TypeOK'
      BY <2>5, EmptySeq DEF FreeNode
    <3>2. CallsOK'
      BY <2>5 DEF FreeNode
    <3>3. Len(<<>>) = 0
      OBVIOUS
    <3>4. curLen'[t] = Len(queue'[t]) /\ curLen'[t] <= MaxLen[t]
      <4>1. queue'[t] = <<>> /\ curLen'[t] = 0
        BY <2>5 DEF FreeNode
      <4>2. MaxLen[t] \in Nat
        BY LengthAssumption
      <4>3. QED BY <3>3, <4>1, <4>2
    <3>5. CountedAndBounded'
      BY <2>5, <3>4 DEF FreeNode
    <3>6. QED BY <3>1, <3>2, <3>5
  <2>6. CASE WaitAllTask
    BY <2>6 DEF WaitAllTask
  <2>7. HeadNode \in Nodes
    BY DEF HeadNode
  <2>8. ASSUME NEW s \in Senders, NEW t \in Receivers, SendBegin(s, t) PROVE CountingInv'
    <3>1. s \in Tasks /\ t \in Tasks /\ sent[s] + 1 \in 0..MaxSend /\ sent[s] + 1 > 0
      BY <2>8, LengthAssumption DEF SendBegin
    <3>2. /\ UNCHANGED <<registry, lists>>
          /\ sent' = [sent EXCEPT ![s] = sent[s] + 1]
          /\ ptr' = [ptr EXCEPT ![s] = HeadNode] /\ want' = [want EXCEPT ![s] = t]
          /\ listed' = [listed EXCEPT ![s] = t \in linked]
          /\ pc' = [pc EXCEPT ![s] = "lookup"]
      BY <2>8 DEF SendBegin, ReadHead
    <3>3. TypeOK'
      BY <2>7, <3>1, <3>2
    <3>4. CallsOK'
      BY <3>1, <3>2
    <3>5. CountedAndBounded'
      BY <3>2
    <3>6. QED BY <3>3, <3>4, <3>5
  <2>9. ASSUME NEW r \in Receivers, RecvBegin(r) PROVE CountingInv'
    BY <2>7, <2>9 DEF RecvBegin, ReadHead
  <2>10. ASSUME NEW t \in Tasks, Search(t) PROVE CountingInv'
    <3>1. UNCHANGED <<registry, lists, sent, want, listed>> /\ pc[t] = "lookup"
      BY <2>10 DEF Search
    <3>2. CASE ptr' = [ptr EXCEPT ![t] = want[t]] /\ pc' = [pc EXCEPT ![t] = "found"]
      <4>1. ptr' \in [Tasks -> Nodes] /\ pc' \in [Tasks -> Pcs]
        BY <3>2
      <4>2. CallsOK'
        BY <3>1, <3>2
      <4>3. QED BY <3>1, <4>1, <4>2
    <3>3. CASE ptr' = [ptr EXCEPT ![t] = NoNode] /\ pc' = [pc EXCEPT ![t] = "notfound"]
      <4>1. ptr' \in [Tasks -> Nodes] /\ pc' \in [Tasks -> Pcs]
        BY <3>3
      <4>2. CallsOK'
        BY <3>1, <3>3
      <4>3. QED BY <3>1, <4>1, <4>2
    <3>4. QED BY <2>10, <3>2, <3>3 DEF Search
  <2>11. ASSUME NEW t \in Tasks, ReturnNotFound(t) PROVE CountingInv'
    BY <2>11 DEF ReturnNotFound, DropLocals
  <2>12. ASSUME NEW t \in Tasks, TouchFreed(t) PROVE CountingInv'
    BY <2>12 DEF TouchFreed
  <2>13. ASSUME NEW s \in Senders, SendNoMemory(s) PROVE CountingInv'
    BY <2>13 DEF SendNoMemory, DropLocals
  <2>14. ASSUME NEW s \in Senders, SendAppend(s) PROVE CountingInv'
    <3> DEFINE t == ptr[s]
               m == [from |-> s, no |-> sent[s]]
    <3>1. pc[s] = "found" /\ t \in Receivers /\ s \in Tasks /\ s # t
      BY <2>14 DEF SendAppend
    <3>2. m \in Message
      BY <2>14, <3>1, LengthAssumption DEF Message
    <3>3. /\ Overflow(t) \in 0..Len(queue[t])
          /\ Len(queue[t]) - Overflow(t) < MaxLen[t]
      BY <3>1, OverflowProperties
    <3> DEFINE q == Pushed(queue[t], Overflow(t), m)
    <3>4. q \in Seq(Message) /\ Len(q) = Len(queue[t]) - Overflow(t) + 1
      BY <3>1, <3>2, <3>3, DropAppend
    <3>5. /\ queue' = [queue EXCEPT ![t] = q]
          /\ curLen' = [curLen EXCEPT ![t] = curLen[t] - Overflow(t) + 1]
          /\ \/ pc' = [pc EXCEPT ![s] = "idle"]
             \/ pc[t] = "waiting" /\ pc' = [pc EXCEPT ![s] = "idle", ![t] = "found"]
          /\ ptr' = [ptr EXCEPT ![s] = NoNode]
          /\ want' = [want EXCEPT ![s] = NoNode]
          /\ listed' = [listed EXCEPT ![s] = FALSE]
          /\ UNCHANGED <<registry, last, sent>>
      BY <2>14, <3>1 DEF SendAppend, DropLocals, Enqueue, CountAfterSend, Signalled, Pushed
    <3> HIDE DEF q, m
    <3>6. Len(queue[t]) \in Nat /\ curLen[t] = Len(queue[t])
      BY <3>1, LenProperties
    <3>7. TypeOK'
      <4>1. queue' \in [Tasks -> Seq(Message)]
        BY <3>1, <3>4, <3>5
      <4>2. curLen' \in [Tasks -> Nat]
        BY <3>1, <3>3, <3>5, <3>6
      <4>3. pc' \in [Tasks -> Pcs]
        <5>1. CASE pc' = [pc EXCEPT ![s] = "idle"]
          BY <3>1, <5>1
        <5>2. CASE pc' = [pc EXCEPT ![s] = "idle", ![t] = "found"]
          BY <3>1, <5>2
        <5>3. QED BY <3>5, <5>1, <5>2
      <4>4. ptr' \in [Tasks -> Nodes] /\ want' \in [Tasks -> Nodes] /\ listed' \in [Tasks -> BOOLEAN]
        BY <3>5
      <4>5. QED BY <3>5, <4>1, <4>2, <4>3, <4>4
    <3>8. CallsOK'
      BY <3>1, <3>5
    <3>9. CountedAndBounded'
      <4>1. MaxLen[t] \in Nat
        BY <3>1, LengthAssumption
      <4>2. curLen'[t] = Len(queue'[t]) /\ curLen'[t] <= MaxLen[t]
        BY <3>1, <3>3, <3>4, <3>5, <3>6, <4>1
      <4>3. QED BY <3>5, <4>2
    <3>10. QED BY <3>7, <3>8, <3>9
  <2>15. ASSUME NEW r \in Receivers, RecvWait(r) PROVE CountingInv'
    BY <2>15 DEF RecvWait
  <2>16. ASSUME NEW r \in Receivers, RecvTake(r) PROVE CountingInv'
    <3>1. pc[r] = "found" /\ ptr[r] = r /\ queue[r] # <<>> /\ r \in Tasks
      BY <2>16 DEF RecvTake
    <3>2. /\ Head(queue[r]) \in Message /\ Tail(queue[r]) \in Seq(Message)
          /\ Len(Tail(queue[r])) = Len(queue[r]) - 1 /\ Len(queue[r]) \in Nat
      BY <3>1, HeadTailProperties, LenProperties
    <3>3. /\ queue' = [queue EXCEPT ![r] = Tail(queue[r])]
          /\ curLen' = [curLen EXCEPT ![r] = curLen[r] - 1]
          /\ last' = [last EXCEPT ![r][Head(queue[r]).from] = Head(queue[r]).no]
          /\ pc' = [pc EXCEPT ![r] = "idle"]
          /\ ptr' = [ptr EXCEPT ![r] = NoNode]
          /\ want' = [want EXCEPT ![r] = NoNode]
          /\ listed' = [listed EXCEPT ![r] = FALSE]
          /\ UNCHANGED <<registry, sent>>
      BY <2>16, <3>1 DEF RecvTake, DropLocals
    <3>4. last' \in [Tasks -> [Senders -> 0..MaxSend]]
      BY <3>2, <3>3, <3>1 DEF Message
    <3>5. curLen[r] = Len(queue[r]) /\ Len(queue[r]) > 0
      BY <3>2, <3>1, EmptySeq
    <3>6. TypeOK'
      BY <3>1, <3>2, <3>3, <3>4, <3>5
    <3>7. CallsOK'
      BY <3>1, <3>3
    <3>8. CountedAndBounded'
      <4>1. curLen'[r] = Len(queue'[r]) /\ curLen'[r] <= MaxLen[r]
        <5>1. queue'[r] = Tail(queue[r]) /\ curLen'[r] = curLen[r] - 1
          BY <3>1, <3>3
        <5>2. MaxLen[r] \in Nat /\ curLen[r] <= MaxLen[r] /\ curLen[r] \in Nat
          BY <3>1, LengthAssumption
        <5>3. QED BY <3>2, <3>5, <5>1, <5>2
      <4>2. QED BY <3>3, <4>1
    <3>9. QED BY <3>6, <3>7, <3>8
  <2>17. ASSUME NEW r \in Receivers, SpuriousWakeup(r) PROVE CountingInv'
    BY <2>17 DEF SpuriousWakeup
  <2>18. CASE UNCHANGED vars
    BY <2>18 DEF vars
  <2>19. QED
    BY <2>1, <2>2, <2>3, <2>4, <2>5, <2>6, <2>8, <2>9, <2>10, <2>11, <2>12, <2>13,
       <2>14, <2>15, <2>16, <2>17, <2>18 DEF Next, Main, Thread
<1>3. QED BY <1>1, <1>2, PTL DEF Spec

(* Each variable keeps its type in every reachable state.                  *)
THEOREM TypeCorrect == Spec => []TypeOK
BY CountingInvariant, PTL DEF CountingInv

(* However sends, receives, failed registrations and overflows interleave, *)
(* cur_len is the length of the list and never exceeds max_len.            *)
THEOREM CountCorrect == Spec => []CountedAndBounded
BY CountingInvariant, PTL DEF CountingInv

-----------------------------------------------------------------------------
(* The waiting thread of a node and its list change only in critical       *)
(* sections: it falls asleep over an empty list, and whoever fills the     *)
(* list wakes it up.                                                       *)
THEOREM WakeupCorrect == Spec => []NoLostWakeup
<1> USE DEF NoLostWakeup, registry, lists, locals
<1>1. Init => NoLostWakeup
  BY DEF Init, Receivers
<1>2. CountingInv /\ NoLostWakeup /\ [Next]_vars => NoLostWakeup'
  <2> SUFFICES ASSUME CountingInv, NoLostWakeup, [Next]_vars PROVE NoLostWakeup'
    OBVIOUS
  <2> USE TasksAssumption DEF CountingInv, TypeOK, CallsOK, Receivers
  <2>1. ASSUME NEW t \in Tasks, Insert(t) \/ NodeFails(t) \/ CreateFails(t) PROVE NoLostWakeup'
    BY <2>1 DEF Insert, NodeFails, CreateFails
  <2>2. ASSUME NEW t \in Tasks, CreateSucceeds(t) PROVE NoLostWakeup'
    BY <2>2 DEF CreateSucceeds
  <2>3. ASSUME NEW t \in Tasks, FreeNode(t) PROVE NoLostWakeup'
    BY <2>3 DEF FreeNode
  <2>4. CASE WaitAllTask
    BY <2>4 DEF WaitAllTask
  <2>5. ASSUME NEW s \in Senders, NEW t \in Receivers, SendBegin(s, t) PROVE NoLostWakeup'
    BY <2>5 DEF SendBegin, ReadHead
  <2>6. ASSUME NEW r \in Receivers, RecvBegin(r) PROVE NoLostWakeup'
    BY <2>6 DEF RecvBegin, ReadHead
  <2>7. ASSUME NEW t \in Tasks, Search(t) \/ ReturnNotFound(t) \/ TouchFreed(t) PROVE NoLostWakeup'
    BY <2>7 DEF Search, ReturnNotFound, TouchFreed
  <2>8. ASSUME NEW s \in Senders, SendNoMemory(s) PROVE NoLostWakeup'
    BY <2>8 DEF SendNoMemory
  <2>9. ASSUME NEW s \in Senders, SendAppend(s) PROVE NoLostWakeup'
    <3>1. pc[s] = "found" /\ ptr[s] \in Receivers /\ s \in Tasks
      BY <2>9 DEF SendAppend
    <3>2. ASSUME NEW r \in Receivers, pc'[r] = "waiting" PROVE r # ptr[s] /\ pc[r] = "waiting"
      BY <2>9, <3>1, <3>2 DEF SendAppend, Signalled
    <3>3. \A r \in Receivers : r # ptr[s] => queue'[r] = queue[r]
      BY <2>9 DEF SendAppend
    <3>4. QED BY <3>2, <3>3
  <2>10. ASSUME NEW r \in Receivers, RecvWait(r) PROVE NoLostWakeup'
    BY <2>10 DEF RecvWait
  <2>11. ASSUME NEW r \in Receivers, RecvTake(r) PROVE NoLostWakeup'
    <3>1. ptr[r] = r
      BY <2>11 DEF RecvTake
    <3>2. QED BY <2>11, <3>1 DEF RecvTake
  <2>12. ASSUME NEW r \in Receivers, SpuriousWakeup(r) PROVE NoLostWakeup'
    BY <2>12 DEF SpuriousWakeup
  <2>13. CASE UNCHANGED vars
    BY <2>13 DEF vars
  <2>14. QED
    BY <2>1, <2>2, <2>3, <2>4, <2>5, <2>6, <2>7, <2>8, <2>9, <2>10, <2>11, <2>12, <2>13
       DEF Next, Main, Thread
<1>3. QED BY <1>1, <1>2, CountingInvariant, PTL DEF Spec

-----------------------------------------------------------------------------
(* The registry as main() builds it.  Nodes still linked were registered   *)
(* before the current task, except possibly its own; freed nodes were too  *)
(* and are never linked again; the nodes of earlier tasks have a first one *)
(* (the latest), which a failed registration uncovers again.               *)
HasLatest(S) == S = {} \/ \E t \in S : \A u \in S : Order[u] <= Order[t]

Earlier == {t \in linked : Order[t] < regNo}

RegistryOK ==
    /\ \A t \in freed : Order[t] < regNo /\ t \notin linked
    /\ \A t \in linked : Order[t] < regNo \/ (mainPc = "create" /\ Order[t] = regNo)
    /\ HasLatest(Earlier)

RegistryInv == CountingInv /\ RegistryOK

LEMMA LessOrSame ==
    ASSUME NEW S, NEW f, NEW n \in Nat, \A u \in S : f[u] \in Nat,
           \A u \in S : f[u] < n \/ f[u] = n
    PROVE  \A u \in S : f[u] <= n
OBVIOUS

(* The head of the registry is the node registered last.                   *)
LEMMA HeadIsLatest ==
    ASSUME RegistryInv
    PROVE  /\ HeadNode = NoNode <=> linked = {}
           /\ HeadNode \in linked \cup {NoNode}
           /\ \A t \in linked : Order[t] <= Order[HeadNode]
<1> USE DEF RegistryInv, CountingInv, TypeOK
<1>1. CASE linked = {}
  BY <1>1 DEF HeadNode
<1>2. CASE linked # {}
  <2>1. \E t \in linked : \A u \in linked : Order[u] <= Order[t]
    <3>1. \A u \in linked : Order[u] \in Nat /\ Order[u] <= regNo
      <4>1. \A u \in linked : Order[u] \in Nat
        BY OrderAssumption
      <4>2. \A u \in linked : Order[u] < regNo \/ Order[u] = regNo
        BY DEF RegistryOK
      <4>3. regNo \in Nat
        OBVIOUS
      <4>4. \A u \in linked : Order[u] <= regNo
        BY <4>1, <4>2, <4>3, LessOrSame, Zenon
      <4>5. QED BY <4>1, <4>4
    <3>2. CASE \E t \in linked : Order[t] = regNo
      BY <3>1, <3>2
    <3>3. CASE Earlier = linked
      BY <1>2, <3>3 DEF RegistryOK, HasLatest
    <3>4. QED BY <3>2, <3>3 DEF RegistryOK, Earlier
  <2>2. HeadNode \in linked /\ \A u \in linked : Order[u] <= Order[HeadNode]
    BY <1>2, <2>1 DEF HeadNode
  <2>3. QED BY <1>2, <2>2, TasksAssumption
<1>3. QED BY <1>1, <1>2

LEMMA RegistryInvariant == Spec => []RegistryInv
<1> USE DEF RegistryInv, registry, lists, locals
<1>1. Init => RegistryOK
  BY DEF Init, RegistryOK, HasLatest, Earlier
<1>2. RegistryInv /\ [Next]_vars => RegistryOK'
  <2> SUFFICES ASSUME RegistryInv, [Next]_vars PROVE RegistryOK'
    OBVIOUS
  <2> USE OrderAssumption DEF CountingInv, TypeOK
  <2>1. ASSUME NEW t \in Tasks, Insert(t) PROVE RegistryOK'
    <3>1. Earlier' = Earlier
      BY <2>1 DEF Insert, Earlier
    <3>2. QED BY <2>1, <3>1 DEF Insert, RegistryOK, HasLatest
  <2>2. ASSUME NEW t \in Tasks, NodeFails(t) PROVE RegistryOK'
    <3>1. Earlier' = Earlier
      BY <2>2 DEF NodeFails, Earlier, RegistryOK
    <3>2. QED BY <2>2, <3>1 DEF NodeFails, RegistryOK, HasLatest
  <2>3. ASSUME NEW t \in Tasks, CreateSucceeds(t) PROVE RegistryOK'
    <3>1. /\ regNo' = regNo + 1 /\ Order[t] = regNo /\ linked' = linked /\ freed' = freed
          /\ regNo \in Nat
      BY <2>3 DEF CreateSucceeds
    <3>2. \A u \in linked : Order[u] \in Nat /\ Order[u] <= regNo
      <4>1. \A u \in linked : Order[u] \in Nat
        OBVIOUS
      <4>2. \A u \in linked : Order[u] < regNo \/ Order[u] = regNo
        BY DEF RegistryOK
      <4>3. \A u \in linked : Order[u] <= regNo
        BY <3>1, <4>1, <4>2, LessOrSame, Zenon
      <4>4. QED BY <4>1, <4>3
    <3>3. Earlier' = linked
      BY <3>1, <3>2 DEF Earlier
    <3>4. HasLatest(linked)
      <4>1. CASE t \in linked
        BY <3>1, <3>2, <4>1 DEF HasLatest
      <4>2. CASE t \notin linked
        <5>1. Earlier = linked
          BY <3>1, <4>2 DEF RegistryOK, Earlier
        <5>2. QED BY <5>1 DEF RegistryOK
      <4>3. QED BY <4>1, <4>2
    <3>5. HasLatest(Earlier')
      BY <3>3, <3>4
    <3>6. \A u \in freed : Order[u] < regNo' /\ u \notin linked'
      <4>1. \A u \in freed : Order[u] \in Nat /\ Order[u] < regNo /\ u \notin linked
        BY DEF RegistryOK
      <4>2. QED BY <3>1, <4>1
    <3>7. \A u \in linked' : Order[u] < regNo'
      BY <3>1, <3>2
    <3>8. QED BY <3>1, <3>5, <3>6, <3>7 DEF RegistryOK, HasLatest
  <2>4. ASSUME NEW t \in Tasks, CreateFails(t) PROVE RegistryOK'
    <3>1. Earlier' = Earlier
      BY <2>4 DEF CreateFails, Earlier, RegistryOK
    <3>2. QED BY <2>4, <3>1 DEF CreateFails, RegistryOK, HasLatest
  <2>5. ASSUME NEW t \in Tasks, FreeNode(t) PROVE RegistryOK'
    <3>1. \A u \in linked : Order[u] < regNo
      BY <2>5 DEF FreeNode, RegistryOK
    <3>2. Earlier' = Earlier
      BY <2>5, <3>1 DEF FreeNode, Earlier
    <3>3. QED BY <2>5, <3>1, <3>2 DEF FreeNode, RegistryOK, HasLatest
  <2>6. CASE WaitAllTask
    <3>1. Earlier' = Earlier
      BY <2>6 DEF WaitAllTask, Earlier
    <3>2. QED BY <2>6, <3>1 DEF WaitAllTask, RegistryOK, HasLatest
  <2>7. CASE UNCHANGED registry
    <3>1. Earlier' = Earlier
      BY <2>7 DEF Earlier
    <3>2. QED BY <2>7, <3>1 DEF RegistryOK, HasLatest
  <2>8. ASSUME NEW t \in Tasks, Thread(t) PROVE UNCHANGED registry
    BY <2>8 DEF Thread, SendBegin, RecvBegin, Search, ReturnNotFound, TouchFreed,
                SendNoMemory, SendAppend, RecvWait, RecvTake
  <2>9. ASSUME NEW r \in Receivers, SpuriousWakeup(r) PROVE UNCHANGED registry
    BY <2>9 DEF SpuriousWakeup
  <2>10. QED
    BY <2>1, <2>2, <2>3, <2>4, <2>5, <2>6, <2>7, <2>8, <2>9 DEF Next, Main, vars
<1>3. QED BY <1>1, <1>2, CountingInvariant, PTL DEF Spec

-----------------------------------------------------------------------------
(* What a stale head pointer is still good for: if the wanted node was     *)
(* linked when the call began, it is the node pointed at or lies behind it *)
(* in the list, and being older than the head it is not the one a failed   *)
(* registration takes out.                                                 *)
LookupOK ==
    \A t \in Tasks :
        /\ pc[t] = "lookup" /\ ptr[t] # NoNode => Order[ptr[t]] <= regNo
        /\ pc[t] = "lookup" /\ listed[t] =>
              /\ ptr[t] # NoNode
              /\ \/ want[t] = ptr[t]
                 \/ want[t] \in linked /\ Order[want[t]] < Order[ptr[t]]

(* A call never misses a task that was registered when it began; a task    *)
(* thread never fails to find its own node.                                *)
THEOREM LookupCorrect == Spec => []NoFalseMiss
<1> DEFINE Inv == LookupOK /\ NoFalseMiss
<1> USE OrderAssumption, TasksAssumption DEF registry, lists, locals
<1>1. Init => Inv
  BY DEF Init, LookupOK, NoFalseMiss
<1>2. RegistryInv /\ Inv /\ [Next]_vars => Inv'
  <2> SUFFICES ASSUME RegistryInv, Inv, [Next]_vars PROVE Inv'
    OBVIOUS
  <2> USE DEF LookupOK, NoFalseMiss
  <2>1. /\ regNo \in Nat /\ \A u \in Tasks : Order[u] \in Nat
        /\ linked \subseteq Tasks
        /\ pc \in [Tasks -> Pcs] /\ ptr \in [Tasks -> Nodes] /\ want \in [Tasks -> Nodes]
        /\ listed \in [Tasks -> BOOLEAN]
        /\ \A u \in Tasks : ptr[u] # NoNode => ptr[u] \in Tasks
    BY DEF RegistryInv, CountingInv, TypeOK, Nodes
  <2>2. ASSUME NEW t \in Tasks, Insert(t) PROVE Inv'
    BY <2>1, <2>2 DEF Insert
  <2>3. ASSUME UNCHANGED <<linked, pc, locals>>, regNo' = regNo + 1 PROVE Inv'
    <3>1. \A u \in Tasks : Order[u] <= regNo => Order[u] <= regNo'
      BY <2>1, <2>3
    <3>2. QED BY <2>1, <2>3, <3>1
  <2>4. ASSUME NEW t \in Tasks, CreateSucceeds(t) PROVE Inv'
    <3>1. \A u \in Tasks : Order[u] <= regNo => Order[u] <= regNo'
      BY <2>1, <2>4 DEF CreateSucceeds
    <3>2. QED BY <2>1, <2>4, <3>1 DEF CreateSucceeds
  <2>5. ASSUME NEW t \in Tasks, CreateFails(t) PROVE Inv'
    <3>1. ASSUME NEW u \in Tasks, pc[u] = "lookup", listed[u], want[u] # ptr[u]
          PROVE  want[u] # t
      BY <2>1, <2>5, <3>1 DEF CreateFails
    <3>2. QED BY <2>1, <2>5, <3>1 DEF CreateFails
  <2>6. CASE UNCHANGED <<regNo, linked, pc, locals>>
    BY <2>6
  <2>7. ASSUME NEW t \in Tasks, NEW n \in Receivers, ReadHead(t, n), UNCHANGED registry
        PROVE  Inv'
    <3>1. HeadNode = NoNode \/ (HeadNode \in linked /\ Order[HeadNode] <= regNo)
      <4>1. HeadNode \in linked => Order[HeadNode] < regNo \/ Order[HeadNode] = regNo
        BY DEF RegistryInv, RegistryOK
      <4>2. HeadNode \in linked => Order[HeadNode] \in Nat
        BY <2>1
      <4>3. QED BY <2>1, <4>1, <4>2, HeadIsLatest
    <3>2. ASSUME n \in linked, n # HeadNode
          PROVE  HeadNode # NoNode /\ Order[n] < Order[HeadNode]
      <4>1. HeadNode \in linked /\ Order[n] <= Order[HeadNode]
        BY <3>2, HeadIsLatest
      <4>2. Order[n] # Order[HeadNode] /\ Order[n] \in Nat /\ Order[HeadNode] \in Nat
        BY <2>1, <3>2, <4>1
      <4>3. QED BY <2>1, <4>1, <4>2
    <3>3. n # NoNode
      BY DEF Receivers
    <3>4. QED BY <2>1, <2>7, <3>1, <3>2, <3>3 DEF ReadHead
  <2>8. ASSUME NEW t \in Tasks, Search(t) PROVE Inv'
    <3>1. pc[t] = "lookup" /\ listed[t] => want[t] \in Walk(ptr[t])
      BY <2>1 DEF Walk
    <3>2. QED BY <2>1, <2>8, <3>1 DEF Search
  <2>9. ASSUME UNCHANGED <<regNo, linked>>,
               \A t \in Tasks : pc'[t] \in {"lookup", "notfound"} =>
                  /\ pc'[t] = pc[t] /\ ptr'[t] = ptr[t]
                  /\ want'[t] = want[t] /\ listed'[t] = listed[t]
        PROVE  Inv'
    BY <2>9
  <2>10. ASSUME NEW s \in Senders, SendAppend(s) PROVE Inv'
    BY <2>1, <2>9, <2>10 DEF SendAppend, Signalled, DropLocals
  <2>11. CASE Main \/ WaitAllTask
    BY <2>2, <2>3, <2>4, <2>5, <2>6, <2>11 DEF Main, NodeFails, FreeNode, WaitAllTask
  <2>12. ASSUME NEW t \in Tasks, Thread(t) PROVE Inv'
    <3>1. CASE \/ t \in Senders /\ \E u \in Receivers : SendBegin(t, u)
               \/ t \in Receivers /\ RecvBegin(t)
      BY <2>7, <3>1 DEF SendBegin, RecvBegin
    <3>2. CASE ReturnNotFound(t) \/ SendNoMemory(t) \/ RecvTake(t)
      BY <2>1, <2>9, <3>2 DEF ReturnNotFound, SendNoMemory, RecvTake, DropLocals
    <3>3. CASE TouchFreed(t) \/ RecvWait(t)
      BY <2>1, <2>9, <3>3 DEF TouchFreed, RecvWait
    <3>4. QED BY <2>8, <2>10, <2>12, <3>1, <3>2, <3>3 DEF Thread
  <2>13. ASSUME NEW r \in Receivers, SpuriousWakeup(r) PROVE Inv'
    BY <2>1, <2>9, <2>13 DEF SpuriousWakeup
  <2>14. QED BY <2>6, <2>11, <2>12, <2>13 DEF Next, vars
<1>3. QED BY <1>1, <1>2, RegistryInvariant, PTL DEF Spec

-----------------------------------------------------------------------------
(* The threads, the registry and the condition variable implement          *)
(* LossyMailbox: each step of the mailbox is a put, a get or an abandoned  *)
(* box, or changes no box at all.                                          *)
THEOREM ImplementsLossyMailbox == Spec => BoxSafe
<1>1. Init => Box!Init
  BY DEF Init, Box!Init
<1>2. CountingInv /\ [Next]_vars => [Box!Next]_(Box!vars)
  <2> SUFFICES ASSUME CountingInv, [Next]_vars PROVE Box!Next \/ UNCHANGED Box!vars
    OBVIOUS
  <2> USE TasksAssumption DEF registry, lists, locals, Receivers
  <2>1. ASSUME NEW t \in Tasks, FreeNode(t) PROVE Box!Abandon(t)
    BY <2>1 DEF FreeNode, Box!Abandon
  <2>2. ASSUME NEW s \in Senders, SendAppend(s)
        PROVE  \E t \in Tasks, m \in Message : Box!Put(t, m)
    <3> DEFINE t == ptr[s]
               m == [from |-> s, no |-> sent[s]]
    <3>1. t \in Tasks /\ t \notin freed /\ sent[s] \in 1..MaxSend /\ UNCHANGED freed
      BY <2>2, LengthAssumption DEF SendAppend, CountingInv, TypeOK, CallsOK
    <3>2. m \in Message
      BY <3>1 DEF Message
    <3>3. Overflow(t) \in 0..Len(queue[t]) /\ Box!MayLose(t, Overflow(t))
      <4>1. MaxLen[t] \in Nat /\ Len(queue[t]) \in Nat
        BY <3>1, LengthAssumption, LenProperties DEF CountingInv, TypeOK
      <4>2. /\ Overflow(t) \in 0..Len(queue[t])
            /\ Len(queue[t]) < MaxLen[t] => Overflow(t) = 0
            /\ Len(queue[t]) >= MaxLen[t] =>
                  /\ Overflow(t) > 0
                  /\ Len(queue[t]) - Overflow(t) >= (4 * MaxLen[t]) \div 5
        BY <3>1, OverflowProperties DEF CountingInv
      <4>3. QED BY <4>1, <4>2 DEF Box!MayLose
    <3>4. queue' = [queue EXCEPT ![t] =
                      Append(SubSeq(@, Overflow(t) + 1, Len(@)), m)]
      BY <2>2 DEF SendAppend, Enqueue
    <3>5. Box!Put(t, m)
      BY <3>1, <3>3, <3>4 DEF Box!Put
    <3>6. QED BY <3>1, <3>2, <3>5
  <2>3. ASSUME NEW r \in Receivers, RecvTake(r) PROVE Box!Get(r)
    <3>1. ptr[r] = r
      BY <2>3 DEF RecvTake, CountingInv, CallsOK
    <3>2. QED BY <2>3, <3>1 DEF RecvTake, Box!Get
  <2>4. ASSUME NEW t \in Tasks, Insert(t) \/ NodeFails(t) \/ CreateSucceeds(t) \/ CreateFails(t)
        PROVE  UNCHANGED Box!vars
    BY <2>4 DEF Insert, NodeFails, CreateSucceeds, CreateFails, Box!vars
  <2>5. CASE WaitAllTask \/ UNCHANGED vars
    BY <2>5 DEF WaitAllTask, vars, Box!vars
  <2>6. ASSUME NEW t \in Tasks, NEW u \in Tasks,
               SendBegin(t, u) \/ RecvBegin(t) \/ Search(t) \/ ReturnNotFound(t)
        PROVE  UNCHANGED Box!vars
    BY <2>6 DEF SendBegin, RecvBegin, Search, ReturnNotFound, Box!vars
  <2>7. ASSUME NEW t \in Tasks,
               TouchFreed(t) \/ SendNoMemory(t) \/ RecvWait(t) \/ SpuriousWakeup(t)
        PROVE  UNCHANGED Box!vars
    BY <2>7 DEF TouchFreed, SendNoMemory, RecvWait, SpuriousWakeup, Box!vars
  <2>8. QED
    BY <2>1, <2>2, <2>3, <2>4, <2>5, <2>6, <2>7 DEF Next, Main, Thread, Box!Next
<1>3. QED BY <1>1, <1>2, CountingInvariant, PTL DEF Spec, BoxSafe, Box!SafeSpec

-----------------------------------------------------------------------------
(* A message that is being sent is newer than all its sender has queued or *)
(* delivered so far.                                                       *)
Fresh ==
    \A s \in Senders : pc[s] \in {"lookup", "found"} =>
        \A t \in Tasks :
            /\ last[t][s] < sent[s]
            /\ \A j \in 1..Len(queue[t]) : queue[t][j].from = s => queue[t][j].no < sent[s]

(* InOrder for the one list q of task t, with what was taken from it in l  *)
(* and the numbers given so far in n.                                      *)
Ascending(q, l, n) ==
    \A j \in 1..Len(q) :
        /\ l[q[j].from] < q[j].no
        /\ q[j].no <= n[q[j].from]
        /\ \A i \in 1..(j - 1) : q[i].from = q[j].from => q[i].no < q[j].no

LEMMA MessageParts ==
    ASSUME NEW q \in Seq(Message)
    PROVE  /\ Len(q) \in Nat
           /\ \A j \in 1..Len(q) : /\ q[j] \in Message
                                  /\ q[j].from \in Senders /\ q[j].no \in Nat
<1>1. Len(q) \in Nat /\ \A j \in 1..Len(q) : q[j] \in Message
  BY LenProperties, ElementOfSeq
<1>2. \A m \in Message : m.from \in Senders /\ m.no \in Nat
  BY LengthAssumption DEF Message
<1>3. QED BY <1>1, <1>2

LEMMA PushedMessage ==
    ASSUME NEW q \in Seq(Message), NEW m \in Message, NEW n \in 0..Len(q)
    PROVE  /\ Len(Pushed(q, n, m)) = Len(q) - n + 1
           /\ \A i \in 1..(Len(q) - n) : Pushed(q, n, m)[i] = q[n + i]
           /\ Pushed(q, n, m)[Len(Pushed(q, n, m))] = m
BY DropAppend

LEMMA AscendingDropAppend ==
    ASSUME NEW q \in Seq(Message), NEW l \in [Senders -> Nat], NEW k \in [Senders -> Nat],
           NEW n \in 0..Len(q), NEW s \in Senders, k[s] \in 1..MaxSend,
           Ascending(q, l, k), l[s] < k[s],
           \A j \in 1..Len(q) : q[j].from = s => q[j].no < k[s]
    PROVE  Ascending(Pushed(q, n, [from |-> s, no |-> k[s]]), l, k)
<1> DEFINE m == [from |-> s, no |-> k[s]]
           r == Pushed(q, n, m)
<1>1. Len(q) \in Nat /\ \A j \in 1..Len(q) : q[j].from \in Senders /\ q[j].no \in Nat
  BY MessageParts
<1>2. m \in Message /\ m.from = s /\ m.no = k[s]
  BY DEF Message
<1>3. /\ Len(r) = Len(q) - n + 1
      /\ \A i \in 1..(Len(q) - n) : r[i] = q[n + i]
      /\ r[Len(r)] = m
  <2> HIDE DEF m
  <2>1. QED BY <1>2, PushedMessage
<1> HIDE DEF r, m
<1>4. SUFFICES Ascending(r, l, k)
  BY DEF r, m
<1>5. ASSUME NEW j \in 1..(Len(q) - n)
      PROVE  /\ l[r[j].from] < r[j].no /\ r[j].no <= k[r[j].from]
             /\ \A i \in 1..(j - 1) : r[i].from = r[j].from => r[i].no < r[j].no
  <2>1. n + j \in 1..Len(q) /\ r[j] = q[n + j]
    BY <1>1, <1>3
  <2>2. ASSUME NEW i \in 1..(j - 1) PROVE n + i \in 1..(n + j - 1) /\ r[i] = q[n + i]
    <3>1. n + i \in 1..(n + j - 1) /\ i \in 1..(Len(q) - n)
      BY <1>1
    <3>2. QED BY <1>3, <3>1
  <2>3. /\ l[q[n + j].from] < q[n + j].no /\ q[n + j].no <= k[q[n + j].from]
        /\ \A i \in 1..(n + j - 1) : q[i].from = q[n + j].from => q[i].no < q[n + j].no
    BY <2>1 DEF Ascending
  <2>4. QED BY <2>1, <2>2, <2>3
<1>6. /\ l[m.from] < m.no /\ m.no <= k[m.from]
      /\ \A i \in 1..(Len(q) - n) : r[i].from = m.from => r[i].no < m.no
  <2>1. ASSUME NEW i \in 1..(Len(q) - n) PROVE n + i \in 1..Len(q) /\ r[i] = q[n + i]
    BY <1>1, <1>3
  <2>2. QED BY <1>2, <2>1
<1>7. ASSUME NEW j \in 1..Len(r) PROVE j \in 1..(Len(q) - n) \/ (j = Len(r) /\ j - 1 = Len(q) - n)
  BY <1>1, <1>3
<1>8. QED BY <1>3, <1>5, <1>6, <1>7 DEF Ascending

LEMMA AscendingTail ==
    ASSUME NEW q \in Seq(Message), q # <<>>, NEW l \in [Senders -> Nat], NEW k,
           Ascending(q, l, k)
    PROVE  Ascending(Tail(q), [l EXCEPT ![Head(q).from] = Head(q).no], k)
<1> DEFINE r == Tail(q)
           l2 == [l EXCEPT ![q[1].from] = q[1].no]
<1>1. Len(q) \in Nat /\ \A j \in 1..Len(q) : q[j].from \in Senders /\ q[j].no \in Nat
  BY MessageParts
<1>2. Len(q) >= 1 /\ Head(q) = q[1]
  BY <1>1, EmptySeq
<1>3. Len(r) = Len(q) - 1 /\ \A j \in 1..Len(r) : r[j] = q[j + 1]
  BY HeadTailProperties
<1> HIDE DEF r
<1>4. ASSUME NEW j \in 1..Len(r)
      PROVE  /\ l2[r[j].from] < r[j].no /\ r[j].no <= k[r[j].from]
             /\ \A i \in 1..(j - 1) : r[i].from = r[j].from => r[i].no < r[j].no
  <2>1. j + 1 \in 1..Len(q) /\ 1 \in 1..(j + 1 - 1) /\ r[j] = q[j + 1]
    BY <1>1, <1>2, <1>3
  <2>2. ASSUME NEW i \in 1..(j - 1) PROVE i + 1 \in 1..(j + 1 - 1) /\ r[i] = q[i + 1]
    BY <1>1, <1>3
  <2>3. l2[r[j].from] < r[j].no
    <3>1. CASE r[j].from = q[1].from
      BY <1>1, <1>2, <2>1, <3>1 DEF Ascending
    <3>2. CASE r[j].from # q[1].from
      BY <1>1, <2>1, <3>2 DEF Ascending
    <3>3. QED BY <3>1, <3>2
  <2>4. /\ q[j + 1].no <= k[q[j + 1].from]
        /\ \A i \in 1..(j + 1 - 1) : q[i].from = q[j + 1].from => q[i].no < q[j + 1].no
    BY <2>1 DEF Ascending
  <2>5. QED BY <2>1, <2>2, <2>3, <2>4
<1>5. QED BY <1>2, <1>4 DEF Ascending, r

(* What a task takes from one sender comes in the order it was sent and    *)
(* never twice, however often the list overflows in between.               *)
THEOREM OrderCorrect == Spec => []InOrder
<1> DEFINE Taken == \A t \in Tasks, s \in Senders : last[t][s] <= sent[s]
           Lists == \A t \in Tasks : Ascending(queue[t], last[t], sent)
           Inv == Fresh /\ Taken /\ Lists
<1> USE TasksAssumption DEF registry, lists, locals, Receivers
<1>1. Init => Inv
  <2> SUFFICES ASSUME Init PROVE Inv
    OBVIOUS
  <2>1. \A t \in Tasks : queue[t] = <<>> /\ Len(queue[t]) = 0
    BY DEF Init
  <2>2. QED BY <2>1 DEF Init, Fresh, Ascending
<1>2. CountingInv /\ Inv /\ [Next]_vars => Inv'
  <2> SUFFICES ASSUME CountingInv, Inv, [Next]_vars PROVE Inv'
    OBVIOUS
  <2>1. /\ \A t \in Tasks : queue[t] \in Seq(Message)
        /\ \A t \in Tasks : last[t] \in [Senders -> Nat]
        /\ sent \in [Senders -> Nat]
        /\ \A t \in Tasks, s \in Senders : last[t][s] \in Nat /\ sent[s] \in Nat
    BY LengthAssumption DEF CountingInv, TypeOK
  <2>2. \A t \in Tasks : /\ Len(queue[t]) \in Nat
                        /\ \A j \in 1..Len(queue[t]) :
                             queue[t][j].from \in Senders /\ queue[t][j].no \in Nat
    BY <2>1, MessageParts
  <2>3. ASSUME UNCHANGED <<queue, last, sent>>,
               \A s \in Senders : pc'[s] \in {"lookup", "found"} => pc[s] \in {"lookup", "found"}
        PROVE  Inv'
    BY <2>3 DEF Fresh, Ascending
  <2>4. ASSUME NEW t \in Tasks, FreeNode(t) PROVE Inv'
    <3>1. /\ UNCHANGED <<pc, last, sent>>
          /\ queue'[t] = <<>> /\ Len(queue'[t]) = 0
          /\ \A u \in Tasks : u # t => queue'[u] = queue[u]
      BY <2>4 DEF FreeNode, CountingInv, TypeOK
    <3>2. ASSUME NEW u \in Tasks PROVE Ascending(queue'[u], last[u], sent)
      <4>1. CASE u = t
        BY <3>1, <4>1 DEF Ascending
      <4>2. CASE u # t
        BY <3>1, <4>2
      <4>3. QED BY <4>1, <4>2
    <3>3. Lists'
      BY <3>1, <3>2 DEF Ascending
    <3>4. Fresh'
      BY <3>1 DEF Fresh
    <3>5. QED BY <3>1, <3>3, <3>4
  <2>5. ASSUME NEW s \in Senders, NEW t \in Receivers, SendBegin(s, t) PROVE Inv'
    <3>1. /\ UNCHANGED <<queue, last>>
          /\ \A u \in Senders : u # s => pc'[u] = pc[u] /\ sent'[u] = sent[u]
          /\ sent'[s] = sent[s] + 1
      <4>1. /\ pc' = [pc EXCEPT ![s] = "lookup"] /\ sent' = [sent EXCEPT ![s] = sent[s] + 1]
            /\ UNCHANGED <<queue, last>>
        BY <2>5 DEF SendBegin, ReadHead
      <4>2. pc \in [Tasks -> Pcs] /\ s \in Tasks
        BY DEF CountingInv, TypeOK
      <4>3. QED BY <2>1, <4>1, <4>2
    <3>2. ASSUME NEW u \in Senders, NEW x \in Nat, x <= sent[u] PROVE x <= sent'[u]
      <4>1. CASE u = s
        BY <2>1, <3>1, <3>2, <4>1
      <4>2. CASE u # s
        BY <3>1, <3>2, <4>2
      <4>3. QED BY <4>1, <4>2
    <3>3. Taken'
      BY <2>1, <3>1, <3>2
    <3>4. Lists'
      BY <2>1, <2>2, <3>1, <3>2 DEF Ascending
    <3>5. \A x \in Nat : x <= sent[s] => x < sent'[s]
      BY <2>1, <3>1
    <3>6. Fresh'
      <4>1. ASSUME NEW u \in Tasks
            PROVE  /\ last[u][s] < sent'[s]
                   /\ \A j \in 1..Len(queue[u]) :
                         queue[u][j].from = s => queue[u][j].no < sent'[s]
        BY <2>1, <2>2, <3>5 DEF Ascending
      <4>2. QED BY <3>1, <4>1 DEF Fresh
    <3>7. QED BY <3>3, <3>4, <3>6
  <2>6. ASSUME NEW s \in Senders, SendAppend(s) PROVE Inv'
    <3> DEFINE t == ptr[s]
               m == [from |-> s, no |-> sent[s]]
               r == Pushed(queue[t], Overflow(t), m)
    <3>1. t \in Receivers /\ s # t /\ pc[s] = "found" /\ sent[s] \in 1..MaxSend
      BY <2>6, LengthAssumption DEF SendAppend, CountingInv, TypeOK, CallsOK
    <3>2. Overflow(t) \in 0..Len(queue[t])
      BY <3>1, OverflowProperties DEF CountingInv
    <3>3. /\ UNCHANGED <<last, sent>>
          /\ queue'[t] = r
          /\ \A u \in Tasks : u # t => queue'[u] = queue[u]
          /\ pc'[s] = "idle"
          /\ \A u \in Senders : u # s => pc'[u] = pc[u]
      BY <2>6, <3>1 DEF SendAppend, Enqueue, Signalled, Pushed, CountingInv, TypeOK
    <3>4. last[t][s] < sent[s] /\ \A j \in 1..Len(queue[t]) : queue[t][j].from = s => queue[t][j].no < sent[s]
      BY <3>1 DEF Fresh
    <3>5. Ascending(r, last[t], sent)
      BY <2>1, <3>1, <3>2, <3>4, AscendingDropAppend
    <3>6. Lists'
      <4>1. ASSUME NEW u \in Tasks PROVE Ascending(queue'[u], last[u], sent)
        <5>1. CASE u = t
          BY <3>3, <3>5, <5>1
        <5>2. CASE u # t
          BY <3>3, <5>2
        <5>3. QED BY <5>1, <5>2
      <4>2. QED BY <3>3, <4>1 DEF Ascending
    <3>7. m \in Message
      BY <3>1 DEF Message
    <3>8. /\ Len(r) = Len(queue[t]) - Overflow(t) + 1
          /\ \A i \in 1..(Len(queue[t]) - Overflow(t)) : r[i] = queue[t][Overflow(t) + i]
          /\ r[Len(r)] = m
      <4>1. queue[t] \in Seq(Message)
        BY <2>1, <3>1
      <4> HIDE DEF m
      <4>2. QED BY <4>1, <3>2, <3>7, PushedMessage, Zenon
    <3>9. m.from = s
      OBVIOUS
    <3> HIDE DEF r, m
    <3>10. ASSUME NEW j \in 1..Len(r), r[j].from # s
           PROVE  \E i \in 1..Len(queue[t]) : r[j] = queue[t][i]
      <4>1. j # Len(r)
        BY <3>8, <3>9, <3>10
      <4>2. j \in 1..(Len(queue[t]) - Overflow(t)) /\ Overflow(t) + j \in 1..Len(queue[t])
        BY <2>2, <3>1, <3>2, <3>8, <4>1
      <4>3. QED BY <3>8, <4>2
    <3>11. Fresh'
      BY <3>3, <3>10 DEF Fresh
    <3>12. QED BY <3>3, <3>6, <3>11
  <2>7. ASSUME NEW r \in Receivers, RecvTake(r) PROVE Inv'
    <3> DEFINE q == queue[r]
    <3>1. ptr[r] = r /\ r \in Tasks /\ q # <<>> /\ q \in Seq(Message)
      BY <2>1, <2>7 DEF RecvTake, CountingInv, CallsOK
    <3>2. /\ UNCHANGED sent
          /\ queue'[r] = Tail(q) /\ last'[r] = [last[r] EXCEPT ![Head(q).from] = Head(q).no]
          /\ \A u \in Tasks : u # r => queue'[u] = queue[u] /\ last'[u] = last[u]
          /\ \A s \in Senders : pc'[s] = pc[s]
      BY <2>7, <3>1 DEF RecvTake, CountingInv, TypeOK
    <3>3. Lists'
      <4>1. Ascending(queue'[r], last'[r], sent)
        <5>1. q \in Seq(Message) /\ q # <<>> /\ last[r] \in [Senders -> Nat]
              /\ Ascending(q, last[r], sent)
          BY <2>1, <3>1
        <5> HIDE DEF q
        <5>2. Ascending(Tail(q), [last[r] EXCEPT ![Head(q).from] = Head(q).no], sent)
          BY <5>1, AscendingTail
        <5>3. QED BY <3>2, <5>2
      <4>2. QED BY <3>2, <4>1 DEF Ascending
    <3>4. /\ Len(q) >= 1 /\ Head(q) = q[1]
          /\ Len(Tail(q)) = Len(q) - 1 /\ \A i \in 1..Len(Tail(q)) : Tail(q)[i] = q[i + 1]
      BY <2>2, <3>1, EmptySeq, HeadTailProperties
    <3>5. 1 \in 1..Len(q) /\ q[1].from \in Senders /\ last[r] \in [Senders -> Nat]
      BY <2>1, <2>2, <3>1, <3>4
    <3>6. Taken'
      <4>1. q[1].no <= sent[q[1].from]
        BY <3>1, <3>5 DEF Ascending
      <4>2. ASSUME NEW s \in Senders PROVE last'[r][s] <= sent[s]
        BY <3>1, <3>2, <3>4, <3>5, <4>1
      <4>3. QED BY <3>2, <4>2
    <3>7. Fresh'
      <4>1. ASSUME NEW s \in Senders, pc[s] \in {"lookup", "found"} PROVE last'[r][s] < sent[s]
        BY <3>1, <3>2, <3>4, <3>5, <4>1 DEF Fresh
      <4>2. ASSUME NEW i \in 1..Len(Tail(q)) PROVE i + 1 \in 1..Len(q) /\ Tail(q)[i] = q[i + 1]
        BY <2>2, <3>1, <3>4
      <4>3. ASSUME NEW s \in Senders, pc[s] \in {"lookup", "found"},
                   NEW i \in 1..Len(queue'[r]), queue'[r][i].from = s
            PROVE  queue'[r][i].no < sent[s]
        <5>1. i \in 1..Len(Tail(q)) /\ queue'[r][i] = q[i + 1]
          BY <3>2, <4>2, <4>3
        <5>2. i + 1 \in 1..Len(q) /\ q[i + 1].from = s
          BY <4>2, <4>3, <5>1
        <5>3. QED BY <3>1, <4>3, <5>1, <5>2 DEF Fresh
      <4>4. ASSUME NEW s \in Senders, pc[s] \in {"lookup", "found"}, NEW u \in Tasks
            PROVE  /\ last'[u][s] < sent[s]
                   /\ \A i \in 1..Len(queue'[u]) : queue'[u][i].from = s => queue'[u][i].no < sent[s]
        <5>1. CASE u = r
          BY <4>1, <4>3, <4>4, <5>1
        <5>2. CASE u # r
          BY <3>2, <4>4, <5>2 DEF Fresh
        <5>3. QED BY <5>1, <5>2
      <4>5. QED BY <3>2, <4>4 DEF Fresh
    <3>8. QED BY <3>3, <3>6, <3>7
  <2>8. CASE WaitAllTask \/ UNCHANGED vars
    BY <2>3, <2>8 DEF WaitAllTask, vars
  <2>9. ASSUME NEW t \in Tasks, Insert(t) \/ NodeFails(t) \/ CreateFails(t) PROVE Inv'
    BY <2>3, <2>9 DEF Insert, NodeFails, CreateFails
  <2>10. ASSUME NEW t \in Tasks, CreateSucceeds(t) PROVE Inv'
    BY <2>3, <2>10 DEF CreateSucceeds, CountingInv, TypeOK
  <2>11. ASSUME NEW r \in Receivers, RecvBegin(r) \/ RecvWait(r) \/ SpuriousWakeup(r) PROVE Inv'
    <3>1. UNCHANGED <<queue, last, sent>> /\ \A s \in Senders : pc'[s] = pc[s]
      BY <2>11 DEF RecvBegin, ReadHead, RecvWait, SpuriousWakeup, CountingInv, TypeOK
    <3>2. QED BY <2>3, <3>1
  <2>12. ASSUME NEW t \in Tasks,
                Search(t) \/ ReturnNotFound(t) \/ TouchFreed(t) \/ SendNoMemory(t)
         PROVE  Inv'
    BY <2>3, <2>12 DEF Search, ReturnNotFound, TouchFreed, SendNoMemory, CountingInv, TypeOK
  <2>13. QED
    BY <2>4, <2>5, <2>6, <2>7, <2>8, <2>9, <2>10, <2>11, <2>12 DEF Next, Main, Thread
<1>3. CountingInv /\ Inv => InOrder
  <2> SUFFICES ASSUME CountingInv, Inv PROVE InOrder
    OBVIOUS
  <2>1. \A t \in Tasks : DOMAIN queue[t] = 1..Len(queue[t])
    BY LenProperties DEF CountingInv, TypeOK
  <2>2. QED BY <2>1 DEF InOrder, Ascending
<1>4. QED BY <1>1, <1>2, <1>3, CountingInvariant, PTL DEF Spec

-----------------------------------------------------------------------------
(* Whose nodes are freed, and which threads run: only a task that may fail *)
(* loses its node, and then it never gets a thread.                        *)
FailedOK ==
    /\ freed \subseteq MayFail
    /\ mainPc = "free" => \A t \in Tasks : Order[t] = regNo => t \in MayFail
    /\ \A t \in Tasks : Order[t] >= regNo \/ t \in freed => pc[t] = "off"
    /\ \A t \in Tasks : pc[t] = "undefined" => ptr[t] \in freed

(* A step of a thread leaves main() and the threads that do not run alone. *)
LEMMA ThreadStep ==
    ASSUME CountingInv, NEW t \in Tasks, Thread(t) \/ (t \in Receivers /\ SpuriousWakeup(t))
    PROVE  /\ UNCHANGED registry /\ pc[t] # "off" /\ pc[t] # "undefined"
           /\ pc' \in [Tasks -> Pcs] /\ ptr' \in [Tasks -> Nodes]
           /\ \A u \in Tasks \ {t} : pc'[u] = pc[u] \/ (pc[u] = "waiting" /\ pc'[u] = "found")
           /\ \A u \in Tasks \ {t} : ptr'[u] = ptr[u]
           /\ pc'[t] # "off"
           /\ pc'[t] = "undefined" => ptr'[t] \in freed
<1> USE TasksAssumption DEF CountingInv, TypeOK, CallsOK, registry, lists, locals, Receivers
<1> DEFINE Goal == /\ UNCHANGED registry /\ pc[t] # "off" /\ pc[t] # "undefined"
                   /\ pc' \in [Tasks -> Pcs] /\ ptr' \in [Tasks -> Nodes]
                   /\ \A u \in Tasks \ {t} :
                          pc'[u] = pc[u] \/ (pc[u] = "waiting" /\ pc'[u] = "found")
                   /\ \A u \in Tasks \ {t} : ptr'[u] = ptr[u]
                   /\ pc'[t] # "off"
                   /\ pc'[t] = "undefined" => ptr'[t] \in freed
<1>0. HeadNode \in Nodes /\ pc \in [Tasks -> Pcs] /\ ptr \in [Tasks -> Nodes]
  BY DEF HeadNode, Nodes
<1>1. ASSUME NEW u \in Receivers, SendBegin(t, u) PROVE Goal
  BY <1>0, <1>1 DEF SendBegin, ReadHead, Pcs
<1>2. CASE RecvBegin(t)
  BY <1>0, <1>2 DEF RecvBegin, ReadHead, Pcs
<1>3. CASE Search(t)
  <2>1. /\ pc[t] = "lookup" /\ UNCHANGED registry /\ want[t] \in Nodes
        /\ \/ ptr' = [ptr EXCEPT ![t] = want[t]] /\ pc' = [pc EXCEPT ![t] = "found"]
           \/ ptr' = [ptr EXCEPT ![t] = NoNode] /\ pc' = [pc EXCEPT ![t] = "notfound"]
    BY <1>3 DEF Search
  <2> HIDE DEF CountingInv, TypeOK, CallsOK, lists, locals, Receivers
  <2>2. ptr' \in [Tasks -> Nodes] /\ \A u \in Tasks \ {t} : ptr'[u] = ptr[u]
    BY <1>0, <2>1 DEF Nodes
  <2>3. /\ pc' \in [Tasks -> Pcs] /\ pc'[t] \in {"found", "notfound"}
        /\ \A u \in Tasks \ {t} : pc'[u] = pc[u]
    BY <1>0, <2>1 DEF Pcs
  <2>4. QED BY <2>1, <2>2, <2>3
<1>4. CASE ReturnNotFound(t)
  BY <1>0, <1>4 DEF ReturnNotFound, DropLocals, Pcs, Nodes
<1>5. CASE TouchFreed(t)
  BY <1>0, <1>5 DEF TouchFreed, Pcs
<1>6. CASE SendNoMemory(t)
  BY <1>0, <1>6 DEF SendNoMemory, DropLocals, Pcs, Nodes
<1>7. CASE t \in Senders /\ SendAppend(t)
  <2>1. /\ pc[t] = "found" /\ ptr[t] \in Receivers /\ ptr[t] # t /\ UNCHANGED registry
        /\ pc' = Signalled(ptr[t], [pc EXCEPT ![t] = "idle"]) /\ DropLocals(t)
    BY <1>7 DEF SendAppend
  <2>2. /\ pc' \in [Tasks -> Pcs] /\ pc'[t] = "idle"
        /\ \A u \in Tasks \ {t} : pc'[u] = pc[u] \/ (pc[u] = "waiting" /\ pc'[u] = "found")
    <3> DEFINE p == [pc EXCEPT ![t] = "idle"]
    <3>1. /\ p \in [Tasks -> Pcs] /\ p[t] = "idle"
          /\ \A u \in Tasks \ {t} : p[u] = pc[u]
      BY <1>0 DEF Pcs
    <3> HIDE DEF p
    <3>2. pc' = IF p[ptr[t]] = "waiting" THEN [p EXCEPT ![ptr[t]] = "found"] ELSE p
      BY <2>1 DEF Signalled, p
    <3>3. ptr[t] \in Tasks \ {t} /\ p[ptr[t]] = pc[ptr[t]]
      BY <2>1, <3>1
    <3>4. CASE p[ptr[t]] = "waiting"
      <4>1. pc' = [p EXCEPT ![ptr[t]] = "found"]
        BY <3>2, <3>4
      <4>2. pc' \in [Tasks -> Pcs]
        BY <3>1, <4>1 DEF Pcs
      <4>3. pc'[ptr[t]] = "found" /\ \A u \in Tasks \ {ptr[t]} : pc'[u] = p[u]
        BY <3>1, <3>3, <4>1
      <4>4. QED BY <3>1, <3>3, <3>4, <4>2, <4>3
    <3>5. CASE p[ptr[t]] # "waiting"
      BY <3>1, <3>2, <3>5
    <3>6. QED BY <3>4, <3>5
  <2>3. ptr' \in [Tasks -> Nodes] /\ \A u \in Tasks \ {t} : ptr'[u] = ptr[u]
    BY <1>0, <2>1 DEF DropLocals, Nodes
  <2>4. QED BY <2>1, <2>2, <2>3
<1>8. CASE RecvWait(t)
  BY <1>0, <1>8 DEF RecvWait, Pcs
<1>9. CASE RecvTake(t)
  BY <1>0, <1>9 DEF RecvTake, DropLocals, Pcs, Nodes
<1>10. CASE SpuriousWakeup(t)
  BY <1>0, <1>10 DEF SpuriousWakeup, Pcs
<1>11. QED
  BY <1>1, <1>2, <1>3, <1>4, <1>5, <1>6, <1>7, <1>8, <1>9, <1>10 DEF Thread

LEMMA FailedInvariant == Spec => []FailedOK
<1> USE TasksAssumption, OrderAssumption
    DEF CountingInv, TypeOK, CallsOK, registry, lists, locals, Receivers
<1>1. Init => FailedOK
  BY DEF Init, FailedOK
<1>2. RegistryInv /\ FailedOK /\ [Next]_vars => FailedOK'
  <2> SUFFICES ASSUME RegistryInv, FailedOK, [Next]_vars PROVE FailedOK'
    OBVIOUS
  <2>0. CountingInv /\ regNo \in Nat /\ \A t \in freed : Order[t] < regNo
    BY DEF RegistryInv, RegistryOK
  <2>1. ASSUME NEW t \in Tasks, Insert(t) \/ CreateFails(t) PROVE FailedOK'
    BY <2>0, <2>1 DEF Insert, CreateFails, FailedOK
  <2>2. ASSUME NEW t \in Tasks, NodeFails(t) PROVE FailedOK'
    BY <2>0, <2>2 DEF NodeFails, FailedOK
  <2>3. ASSUME NEW t \in Tasks, CreateSucceeds(t) PROVE FailedOK'
    <3>1. /\ Order[t] = regNo /\ regNo' = regNo + 1 /\ mainPc' = "insert"
          /\ UNCHANGED <<freed, ptr>> /\ t \notin freed
          /\ pc'[t] = "idle" /\ \A u \in Tasks \ {t} : pc'[u] = pc[u]
      BY <2>0, <2>3 DEF CreateSucceeds
    <3>2. \A u \in Tasks : Order[u] >= regNo' \/ u \in freed' => pc'[u] = "off"
      BY <2>0, <3>1 DEF FailedOK
    <3>3. QED BY <3>1, <3>2 DEF FailedOK
  <2>4. ASSUME NEW t \in Tasks, FreeNode(t) PROVE FailedOK'
    <3>1. /\ mainPc = "free" /\ Order[t] = regNo /\ regNo' = regNo + 1 /\ mainPc' = "insert"
          /\ freed' = freed \cup {t} /\ UNCHANGED <<ptr, pc>>
      BY <2>4 DEF FreeNode
    <3>2. t \in MayFail /\ pc[t] = "off"
      BY <2>0, <3>1 DEF FailedOK
    <3>3. \A u \in Tasks : Order[u] >= regNo' \/ u \in freed' => pc'[u] = "off"
      BY <2>0, <3>1, <3>2 DEF FailedOK
    <3>4. QED BY <3>1, <3>2, <3>3 DEF FailedOK
  <2>5. CASE WaitAllTask
    BY <2>5 DEF WaitAllTask, FailedOK
  <2>6. ASSUME NEW t \in Tasks, Thread(t) \/ (t \in Receivers /\ SpuriousWakeup(t))
        PROVE  FailedOK'
    <3> HIDE DEF CountingInv, TypeOK, CallsOK, lists, locals, Receivers
    <3>1. /\ UNCHANGED <<mainPc, regNo, linked, freed>> /\ pc[t] # "off"
          /\ pc'[t] = "undefined" => ptr'[t] \in freed
          /\ \A u \in Tasks \ {t} : pc'[u] = pc[u] \/ (pc[u] = "waiting" /\ pc'[u] = "found")
          /\ \A u \in Tasks \ {t} : ptr'[u] = ptr[u]
      BY <2>0, <2>6, ThreadStep, Zenon
    <3>2. \A u \in Tasks : Order[u] >= regNo \/ u \in freed => pc'[u] = "off"
      BY <3>1 DEF FailedOK
    <3>3. \A u \in Tasks : pc'[u] = "undefined" => ptr'[u] \in freed
      BY <3>1 DEF FailedOK
    <3>4. QED BY <3>1, <3>2, <3>3 DEF FailedOK
  <2>7. CASE UNCHANGED vars
    BY <2>7 DEF vars, FailedOK
  <2>8. QED
    BY <2>1, <2>2, <2>3, <2>4, <2>5, <2>6, <2>7 DEF Next, Main
<1>3. QED BY <1>1, <1>2, RegistryInvariant, PTL DEF Spec

(* No step of any thread produces a pointer to a node that is free already,*)
(* and the list a receiver has found is never freed, since main() frees    *)
(* only nodes whose threads it could not start.                            *)
THEOREM DanglingOnlyFromBefore == Spec => NoFreshDangling
<1> DEFINE Old == \A t \in Tasks : ptr'[t] \in freed' => ptr'[t] = ptr[t]
<1> DEFINE Own == \A r \in Receivers : pc'[r] \in {"found", "waiting"} => ptr'[r] \notin freed'
<1>1. RegistryInv /\ [Next]_vars => [Old]_vars
  <2> SUFFICES ASSUME RegistryInv, [Next]_vars PROVE Old \/ UNCHANGED vars
    OBVIOUS
  <2> USE TasksAssumption DEF RegistryInv, RegistryOK, CountingInv, TypeOK, registry, lists, locals
  <2>1. HeadNode \notin freed
    BY HeadIsLatest
  <2>2. CASE Main \/ WaitAllTask
    BY <2>2 DEF Main, WaitAllTask, Insert, NodeFails, CreateSucceeds, CreateFails, FreeNode
  <2>3. ASSUME NEW t \in Tasks, NEW n \in Tasks, ReadHead(t, n), UNCHANGED freed PROVE Old
    BY <2>1, <2>3 DEF ReadHead
  <2>4. ASSUME NEW t \in Tasks, Search(t) PROVE Old
    <3>1. \A u \in Walk(ptr[t]) : u = ptr[t] \/ u \in linked
      BY DEF Walk
    <3>2. QED BY <2>4, <3>1 DEF Search
  <2>5. ASSUME NEW t \in Tasks, DropLocals(t), UNCHANGED freed PROVE Old
    BY <2>5 DEF DropLocals
  <2>6. CASE UNCHANGED <<ptr, freed>>
    BY <2>6
  <2>7. ASSUME NEW t \in Tasks, Thread(t) PROVE Old
    BY <2>3, <2>4, <2>5, <2>6, <2>7
       DEF Thread, SendBegin, RecvBegin, ReturnNotFound, TouchFreed, SendNoMemory,
           SendAppend, RecvWait, RecvTake, Receivers
  <2>8. ASSUME NEW r \in Receivers, SpuriousWakeup(r) PROVE Old
    BY <2>6, <2>8 DEF SpuriousWakeup
  <2>9. QED BY <2>2, <2>7, <2>8 DEF Next
<1>2. RegistryInv' /\ FailedOK' => Own
  BY DEF RegistryInv, CountingInv, CallsOK, FailedOK, Receivers
<1>3. RegistryInv /\ FailedOK /\ RegistryInv' /\ FailedOK' /\ [Next]_vars => [Old /\ Own]_vars
  BY <1>1, <1>2
<1>4. QED BY <1>3, RegistryInvariant, FailedInvariant, PTL DEF Spec, NoFreshDangling

(* A thread is lost to a freed node only when the registration of another  *)
(* task ran out of resources while the thread was looking for a node: its  *)
(* own node is never the one, and no other task's is freed.                *)
THEOREM UndefinedExplained ==
    Spec => [](\A t \in Tasks : pc[t] = "undefined" => ptr[t] \in (freed \cap MayFail) \ {t})
<1>1. FailedOK => \A t \in Tasks : pc[t] = "undefined" => ptr[t] \in (freed \cap MayFail) \ {t}
  BY DEF FailedOK
<1>2. QED BY <1>1, FailedInvariant, PTL

(* When no registration fails, no node is ever freed and no thread is lost *)
(* to one, and a task main() has registered stays findable, with a thread  *)
(* of its own, for good.                                                   *)
THEOREM SafeWithoutFailures ==
    ASSUME MayFail = {}
    PROVE  Spec => []( /\ freed = {} /\ \A t \in Tasks : pc[t] # "undefined"
                       /\ \A t \in Tasks : Order[t] < regNo => t \in linked /\ pc[t] # "off")
<1> DEFINE Registered ==
        /\ \A t \in Tasks : Order[t] < regNo => t \in linked /\ pc[t] # "off"
        /\ mainPc = "create" => \A t \in Tasks : Order[t] = regNo => t \in linked
<1> USE TasksAssumption, OrderAssumption
    DEF CountingInv, TypeOK, CallsOK, registry, lists, locals, Receivers
<1>1. Init => Registered
  BY DEF Init
<1>2. RegistryInv /\ FailedOK /\ Registered /\ [Next]_vars => Registered'
  <2> SUFFICES ASSUME RegistryInv, FailedOK, Registered, [Next]_vars PROVE Registered'
    OBVIOUS
  <2>0. CountingInv /\ regNo \in Nat /\ mainPc \in MainPcs /\ pc \in [Tasks -> Pcs]
    BY DEF RegistryInv
  <2>1. ASSUME NEW t \in Tasks, Insert(t) PROVE Registered'
    BY <2>0, <2>1 DEF Insert
  <2>2. ASSUME NEW t \in Tasks, NodeFails(t) \/ CreateFails(t) PROVE FALSE
    BY <2>2 DEF NodeFails, CreateFails
  <2>3. ASSUME NEW t \in Tasks, CreateSucceeds(t) PROVE Registered'
    <3>1. /\ mainPc = "create" /\ Order[t] = regNo /\ regNo' = regNo + 1
          /\ mainPc' = "insert" /\ linked' = linked
          /\ pc'[t] = "idle" /\ \A u \in Tasks \ {t} : pc'[u] = pc[u]
      BY <2>0, <2>3 DEF CreateSucceeds
    <3>2. \A u \in Tasks : Order[u] < regNo + 1 => Order[u] < regNo \/ u = t
      BY <2>0, <3>1
    <3>3. QED BY <3>1, <3>2
  <2>4. ASSUME NEW t \in Tasks, FreeNode(t) PROVE FALSE
    BY <2>4 DEF FreeNode, FailedOK
  <2>5. CASE WaitAllTask
    BY <2>5 DEF WaitAllTask
  <2>6. ASSUME NEW t \in Tasks, Thread(t) \/ (t \in Receivers /\ SpuriousWakeup(t))
        PROVE  Registered'
    <3> HIDE DEF CountingInv, TypeOK, CallsOK, lists, locals, Receivers
    <3>1. /\ UNCHANGED <<mainPc, regNo, linked, freed>> /\ pc'[t] # "off"
          /\ \A u \in Tasks \ {t} : pc'[u] = pc[u] \/ (pc[u] = "waiting" /\ pc'[u] = "found")
      BY <2>0, <2>6, ThreadStep, Zenon
    <3>2. QED BY <3>1
  <2>7. CASE UNCHANGED vars
    BY <2>7 DEF vars
  <2>8. QED
    BY <2>1, <2>2, <2>3, <2>4, <2>5, <2>6, <2>7 DEF Next, Main
<1>3. FailedOK => freed = {} /\ \A t \in Tasks : pc[t] # "undefined"
  BY DEF FailedOK
<1>4. QED BY <1>1, <1>2, <1>3, RegistryInvariant, FailedInvariant, PTL DEF Spec
=============================================================================
