-------------------------------- MODULE Mailbox --------------------------------
(***************************************************************************)
(* core/mailbox.c: the registry of tasks and their bounded message lists,  *)
(* as main() sets it up and the task threads use it.                       *)
(*                                                                         *)
(* Grain of the steps.  A section executed under PthreadLock or ListLock   *)
(* is one step.  What the code reads outside a lock (the head of the       *)
(* registry in MailBoxSendMsg and MailBoxRecvMsg) and what it does between *)
(* two sections are separate steps, so that other threads come in between. *)
(*                                                                         *)
(* The registry.  A node is only ever inserted at the head, so the list is *)
(* represented by the set of linked nodes: a task registered later is      *)
(* nearer to the head.  main() is the only registrar and unlinks only the  *)
(* node it has just inserted.                                              *)
(***************************************************************************)
EXTENDS Integers, Sequences, FiniteSets

CONSTANTS
    Tasks,      \* registered names; each has one thread and one node
    Senders,    \* the tasks whose thread calls MailBoxSendMsg, the others receive
    Order,      \* Order[t]: position of t among the Register calls of main()
    MaxLen,     \* MaxLen[t]: max_len of the node of t
    MayFail,    \* tasks whose registration may run out of resources
    NoNode,     \* the null pointer
    MaxSend     \* bound of the model: messages each sender sends

ASSUME TasksAssumption ==
    /\ IsFiniteSet(Tasks)
    /\ Senders \subseteq Tasks
    /\ MayFail \subseteq Tasks
    /\ NoNode \notin Tasks

ASSUME OrderAssumption ==
    /\ Order \in [Tasks -> Nat]
    /\ \A t, u \in Tasks : Order[t] = Order[u] => t = u

ASSUME LengthAssumption ==
    /\ MaxLen \in [Tasks -> Nat \ {0}]
    /\ MaxSend \in Nat

Receivers == Tasks \ Senders
Nodes == Tasks \cup {NoNode}
Message == [from : Senders, no : 1..MaxSend]

VARIABLES
    mainPc,     \* where main() is in _RegisterMailBoxTask
    regNo,      \* the position of the task main() registers now
    linked,     \* nodes in the list behind PthreadHead
    freed,      \* nodes given back after a failed pthread_create
    queue,      \* queue[t]: message list of the node of t, oldest first
    curLen,     \* curLen[t]: its cur_len
    pc,         \* pc[t]: where the thread of t is in a mailbox call
    ptr,        \* ptr[t]: its local ptmpPthreadNode
    want,       \* want[t]: the node its current call looks for
    sent,       \* sent[s]: messages s has begun to send; numbers them
    listed,     \* history: was the wanted node linked when the call began
    last        \* history: last[t][s] is the newest message t got from s

registry == <<mainPc, regNo, linked, freed>>
lists == <<queue, curLen, last>>
locals == <<ptr, want, listed>>
vars == <<registry, lists, pc, sent, locals>>

MainPcs == {"insert", "create", "free", "joining"}
Pcs == {"off", "idle", "lookup", "found", "notfound", "waiting", "undefined"}

Init ==
    /\ mainPc = "insert" /\ regNo = 0
    /\ linked = {} /\ freed = {}
    /\ queue = [t \in Tasks |-> <<>>]
    /\ curLen = [t \in Tasks |-> 0]
    /\ pc = [t \in Tasks |-> "off"]
    /\ ptr = [t \in Tasks |-> NoNode]
    /\ want = [t \in Tasks |-> NoNode]
    /\ sent = [s \in Senders |-> 0]
    /\ listed = [t \in Tasks |-> FALSE]
    /\ last = [t \in Tasks |-> [s \in Senders |-> 0]]

-----------------------------------------------------------------------------
(* main(): one Register call per task, in the order Order.                 *)

Insert(t) ==
    /\ mainPc = "insert" /\ Order[t] = regNo
    /\ linked' = linked \cup {t}
    /\ mainPc' = "create"
    /\ UNCHANGED <<regNo, freed, lists, pc, sent, locals>>

(* No memory for the node, or its lock or condition variable cannot be     *)
(* initialised: -1 is returned, main() ignores it and goes on.             *)
NodeFails(t) ==
    /\ mainPc = "insert" /\ Order[t] = regNo
    /\ t \in MayFail
    /\ regNo' = regNo + 1
    /\ UNCHANGED <<mainPc, linked, freed, lists, pc, sent, locals>>

(* glibc stores the thread id before the new thread runs, so the thread    *)
(* finds its node from its first instruction on.                           *)
CreateSucceeds(t) ==
    /\ mainPc = "create" /\ Order[t] = regNo
    /\ pc' = [pc EXCEPT ![t] = "idle"]
    /\ mainPc' = "insert" /\ regNo' = regNo + 1
    /\ UNCHANGED <<linked, freed, lists, sent, locals>>

(* Mutant: the node of a thread that was not created stays in the list.    *)
CreateFails_NoUnlink(t) ==
    /\ mainPc = "create" /\ Order[t] = regNo
    /\ t \in MayFail
    /\ mainPc' = "free"
    /\ UNCHANGED <<regNo, linked, freed, lists, pc, sent, locals>>

CreateFails(t) ==
    /\ mainPc = "create" /\ Order[t] = regNo
    /\ t \in MayFail
    /\ linked' = linked \ {t}
    /\ mainPc' = "free"
    /\ UNCHANGED <<regNo, freed, lists, pc, sent, locals>>

(* The locks are destroyed and the node is freed; what it held is lost.    *)
FreeNode(t) ==
    /\ mainPc = "free" /\ Order[t] = regNo
    /\ freed' = freed \cup {t}
    /\ queue' = [queue EXCEPT ![t] = <<>>]
    /\ curLen' = [curLen EXCEPT ![t] = 0]
    /\ mainPc' = "insert" /\ regNo' = regNo + 1
    /\ UNCHANGED <<linked, last, pc, sent, locals>>

(* The user types q: MailBoxWaitAllTask joins the first thread of the list,*)
(* whose function never returns, so main() stays there.                    *)
WaitAllTask ==
    /\ mainPc = "insert" /\ \A t \in Tasks : Order[t] < regNo
    /\ mainPc' = "joining"
    /\ UNCHANGED <<regNo, linked, freed, lists, pc, sent, locals>>

Main == \E t \in Tasks : \/ Insert(t) \/ NodeFails(t) \/ CreateSucceeds(t)
                         \/ CreateFails(t) \/ FreeNode(t)

-----------------------------------------------------------------------------
(* Finding a node: the head is read first, the list is walked later.       *)

HeadNode ==
    IF linked = {} THEN NoNode
    ELSE CHOOSE t \in linked : \A u \in linked : Order[u] <= Order[t]

(* Mutant: the walk starts behind the node the pointer is at.              *)
Walk_SkipsFirst(p) ==
    IF p = NoNode THEN {} ELSE {t \in linked : Order[t] < Order[p]}

(* The nodes a walk that starts at the pointer p comes across.  p itself   *)
(* may have been unlinked in between; its next pointer is left as it was.  *)
Walk(p) ==
    IF p = NoNode THEN {}
    ELSE {p} \cup {t \in linked : Order[t] < Order[p]}

ReadHead(t, name) ==
    /\ ptr' = [ptr EXCEPT ![t] = HeadNode]
    /\ want' = [want EXCEPT ![t] = name]
    /\ listed' = [listed EXCEPT ![t] = name \in linked]
    /\ pc' = [pc EXCEPT ![t] = "lookup"]

Search(t) ==
    /\ pc[t] = "lookup" /\ ptr[t] \notin freed
    /\ \/ /\ want[t] \in Walk(ptr[t])
          /\ ptr' = [ptr EXCEPT ![t] = want[t]]
          /\ pc' = [pc EXCEPT ![t] = "found"]
       \/ /\ want[t] \notin Walk(ptr[t])
          /\ ptr' = [ptr EXCEPT ![t] = NoNode]
          /\ pc' = [pc EXCEPT ![t] = "notfound"]
    /\ UNCHANGED <<registry, lists, sent, want, listed>>

(* The call returns: its local variables are gone.                         *)
DropLocals(t) ==
    /\ ptr' = [ptr EXCEPT ![t] = NoNode]
    /\ want' = [want EXCEPT ![t] = NoNode]
    /\ listed' = [listed EXCEPT ![t] = FALSE]

ReturnNotFound(t) ==
    /\ pc[t] = "notfound"
    /\ pc' = [pc EXCEPT ![t] = "idle"]
    /\ DropLocals(t)
    /\ UNCHANGED <<registry, lists, sent>>

(* The pointer is dereferenced after the node was freed.  Nothing is said  *)
(* about what that thread does from here on.                               *)
TouchFreed(t) ==
    /\ pc[t] \in {"lookup", "found"} /\ ptr[t] \in freed
    /\ pc' = [pc EXCEPT ![t] = "undefined"]
    /\ UNCHANGED <<registry, lists, sent, locals>>

-----------------------------------------------------------------------------
(* MailBoxSendMsg                                                          *)

SendBegin(s, t) ==
    /\ pc[s] = "idle" /\ sent[s] < MaxSend
    /\ sent' = [sent EXCEPT ![s] = @ + 1]
    /\ ReadHead(s, t)
    /\ UNCHANGED <<registry, lists>>

SendNoMemory(s) ==
    /\ pc[s] = "found"
    /\ pc' = [pc EXCEPT ![s] = "idle"]
    /\ DropLocals(s)
    /\ UNCHANGED <<registry, lists, sent>>

(* Mutant: the list is cut down to one fifth.                              *)
Watermark_Fifth(t) == MaxLen[t] \div 5

Watermark(t) == (MaxLen[t] * 4) \div 5

(* Mutant: a list of exactly max_len messages does not count as full.      *)
Overflow_OffByOne(t) ==
    IF curLen[t] <= MaxLen[t] THEN 0 ELSE curLen[t] - Watermark(t)

(* How many messages the overflow loop takes off the front.                *)
Overflow(t) ==
    IF curLen[t] < MaxLen[t] THEN 0
    ELSE LET n == curLen[t] - Watermark(t)
         IN  IF n <= Len(queue[t]) THEN n ELSE Len(queue[t])

(* The new message goes behind the last one; cur_len follows by hand.      *)
Enqueue_AtHead(q, m) == <<m>> \o q     \* mutant: no walk to the tail
Enqueue(q, m) == Append(q, m)

CountAfterSend_NoIncrement(t, n) == curLen[t] - n     \* mutant: no cur_len++
CountAfterSend(t, n) == curLen[t] - n + 1

(* Mutants: nobody is signalled; only a list that was not empty signals.   *)
Signalled_Never(t, p) == p
Signalled_IfNotEmpty(t, p) ==
    IF p[t] = "waiting" /\ queue[t] # <<>> THEN [p EXCEPT ![t] = "found"] ELSE p

(* pthread_cond_signal: at most one thread waits for a node, its own.      *)
Signalled(t, p) == IF p[t] = "waiting" THEN [p EXCEPT ![t] = "found"] ELSE p

SendAppend(s) ==
    /\ pc[s] = "found" /\ ptr[s] \notin freed
    /\ LET t == ptr[s]
           n == Overflow(t)
       IN  /\ queue' = [queue EXCEPT ![t] =
                          Enqueue(SubSeq(@, n + 1, Len(@)), [from |-> s, no |-> sent[s]])]
           /\ curLen' = [curLen EXCEPT ![t] = CountAfterSend(t, n)]
           /\ pc' = Signalled(t, [pc EXCEPT ![s] = "idle"])
    /\ DropLocals(s)
    /\ UNCHANGED <<registry, last, sent>>

-----------------------------------------------------------------------------
(* MailBoxRecvMsg                                                          *)

RecvBegin(r) ==
    /\ pc[r] = "idle"
    /\ ReadHead(r, r)
    /\ UNCHANGED <<registry, lists, sent>>

RecvWait(r) ==
    /\ pc[r] = "found" /\ queue[ptr[r]] = <<>>
    /\ pc' = [pc EXCEPT ![r] = "waiting"]
    /\ UNCHANGED <<registry, lists, sent, locals>>

RecvTake(r) ==
    /\ pc[r] = "found" /\ queue[ptr[r]] # <<>>
    /\ LET m == Head(queue[ptr[r]])
       IN  last' = [last EXCEPT ![r][m.from] = m.no]
    /\ queue' = [queue EXCEPT ![ptr[r]] = Tail(@)]
    /\ curLen' = [curLen EXCEPT ![ptr[r]] = @ - 1]
    /\ pc' = [pc EXCEPT ![r] = "idle"]
    /\ DropLocals(r)
    /\ UNCHANGED <<registry, sent>>

(* pthread_cond_wait may return without a signal. *)
SpuriousWakeup(r) ==
    /\ pc[r] = "waiting"
    /\ pc' = [pc EXCEPT ![r] = "found"]
    /\ UNCHANGED <<registry, lists, sent, locals>>

-----------------------------------------------------------------------------
Thread(t) ==
    \/ t \in Senders /\ \E u \in Receivers : SendBegin(t, u)
    \/ t \in Receivers /\ RecvBegin(t)
    \/ Search(t)
    \/ ReturnNotFound(t)
    \/ TouchFreed(t)
    \/ t \in Senders /\ (SendNoMemory(t) \/ SendAppend(t))
    \/ t \in Receivers /\ (RecvWait(t) \/ RecvTake(t))

Next ==
    \/ Main
    \/ WaitAllTask
    \/ \E t \in Tasks : Thread(t)
    \/ \E r \in Receivers : SpuriousWakeup(r)

Spec == Init /\ [][Next]_vars

(* main() registers all its tasks and every thread the kernel has started  *)
(* keeps being scheduled; nobody owes the user's q or a spurious wakeup.   *)
FairSpec ==
    /\ Spec
    /\ WF_vars(Main)
    /\ \A t \in Tasks : WF_vars(Thread(t))

-----------------------------------------------------------------------------
(* Every variable keeps its type (mailbox.h:42-53 and the locals of the    *)
(* two calls).                                                             *)
TypeOK ==
    /\ mainPc \in MainPcs /\ regNo \in Nat
    /\ linked \subseteq Tasks /\ freed \subseteq Tasks
    /\ queue \in [Tasks -> Seq(Message)]
    /\ curLen \in [Tasks -> Nat]
    /\ pc \in [Tasks -> Pcs]
    /\ ptr \in [Tasks -> Nodes]
    /\ want \in [Tasks -> Nodes]
    /\ sent \in [Senders -> 0..MaxSend]
    /\ listed \in [Tasks -> BOOLEAN]
    /\ last \in [Tasks -> [Senders -> 0..MaxSend]]

(* cur_len, kept by hand in three places, always is the length of the list,*)
(* and no list ever grows past max_len, however sends and receives mix.    *)
CountedAndBounded ==
    \A t \in Tasks : curLen[t] = Len(queue[t]) /\ curLen[t] <= MaxLen[t]

(* What a task gets from one sender comes in the order it was sent and     *)
(* never twice: a list is ascending per sender and starts after the newest *)
(* message already taken, overflow or not.                                 *)
InOrder ==
    \A t \in Tasks : \A j \in DOMAIN queue[t] :
        LET m == queue[t][j]
        IN  /\ last[t][m.from] < m.no
            /\ m.no <= sent[m.from]
            /\ \A i \in 1..(j - 1) :
                  queue[t][i].from = m.from => queue[t][i].no < m.no

(* No lost wakeup: a thread sleeps in pthread_cond_wait only while its     *)
(* list is empty.                                                          *)
NoLostWakeup ==
    \A r \in Receivers : pc[r] = "waiting" => queue[r] = <<>>

(* Although the head pointer is read before PthreadLock is taken, a call   *)
(* never reports a task as unknown that was registered when it began; in   *)
(* particular a thread always finds its own node.                          *)
NoFalseMiss ==
    \A t \in Tasks : pc[t] = "notfound" => ~listed[t]

(* A failed registration can hurt only the walks under way, which began at *)
(* a head that main() has then freed: no thread obtains a pointer to a     *)
(* node that is freed already, and once a receiver has found its node the  *)
(* list it waits for and takes from is never freed.                        *)
NoFreshDangling ==
    [][/\ \A t \in Tasks : ptr'[t] \in freed' => ptr'[t] = ptr[t]
       /\ \A r \in Receivers : pc'[r] \in {"found", "waiting"} => ptr'[r] \notin freed']_vars

(* Each message in the list of a running task leaves it again: its owner   *)
(* takes it or newer messages push it out.                                 *)
Served ==
    \A t \in Receivers, s \in Senders, n \in 1..MaxSend :
        LET waits == \E i \in DOMAIN queue[t] : queue[t][i] = [from |-> s, no |-> n]
        IN  waits ~> ~waits

(* The promise of LossyMailbox; a list is the box of its task.             *)
Box == INSTANCE LossyMailbox WITH
    Messages <- Message, box <- queue, gone <- freed

BoxSafe == Box!SafeSpec
BoxFair == Box!FairSpec
=============================================================================
