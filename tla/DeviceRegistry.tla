---------------------------- MODULE DeviceRegistry ----------------------------
(***************************************************************************)
(* The devices on the RS485 and the CAN bus, in core/main.c: for each bus  *)
(* a list of registered ids and a buffer of their latest values.  The UI   *)
(* thread adds and removes devices, the thread of the bus fills the        *)
(* buffer, collect copies it into every sample.                            *)
(*                                                                         *)
(* List and buffer have a lock each.  What runs under one lock is a step:  *)
(* adding and removing are two steps, between which the bus thread runs;   *)
(* the bus thread itself looks at the list in one step and at the buffer   *)
(* in later ones.  The two buses share nothing but the UI thread, so one   *)
(* behaviour is about one bus, chosen in Init.                             *)
(***************************************************************************)
EXTENDS Integers, Sequences, FiniteSets

CONSTANTS
    Ids,        \* device ids the user may type in
    MaxDev,     \* RS485_MAX_DEV, CAN_MAX_DEV: size of a list and of a buffer
    Readings,   \* the values devices report
    Ignored     \* a CAN frame that is an error or a remote frame

Zero == 0       \* the value of an entry before the first reading
None == -1      \* history: no reading was stored

ASSUME RegistryAssumption ==
    /\ Ids \subseteq Nat /\ IsFiniteSet(Ids)
    /\ MaxDev \in Nat \ {0}
    /\ Readings \subseteq Nat \ {Zero}
    /\ Ignored \notin [id : Nat, val : Nat]

VARIABLES
    bus,        \* the bus this behaviour is about
    ids,        \* g_rs485_ids or g_can_ids up to the count
    buf,        \* g_rs485_buf or g_can_buf up to the count
    ui, uiId,   \* UI thread: which half of which call comes next
    todo,       \* pthread_rs485: the part of its copy of the list still to be read
    frame,      \* pthread_can: its local variable
    updating,   \* pthread_can: the id of frame was found in the list
    latest,     \* history: latest[i] is what was last stored for i since it was added
    late,       \* history: how often i was stored since it was removed
    crowded     \* history: the ids that found the buffer full when they were added

thread == <<todo, frame, updating>>
history == <<latest, late, crowded>>
vars == <<bus, ids, buf, ui, uiId, thread, history>>

Entry == [id : Ids, val : Readings \cup {Zero}]
Frame == [id : Ids, val : Readings] \cup {Ignored}
Listed == {ids[k] : k \in DOMAIN ids}
Places(i) == {k \in DOMAIN buf : buf[k].id = i}
First(S) == CHOOSE k \in S : \A j \in S : k <= j

(* frame has no initial value: whatever was on the stack.                  *)
Init ==
    /\ bus \in {"rs485", "can"}
    /\ ids = <<>> /\ buf = <<>>
    /\ ui = "idle" /\ uiId \in Ids
    /\ todo = <<>> /\ updating = FALSE
    /\ frame \in IF bus = "can" THEN Frame ELSE {Ignored}
    /\ latest = [i \in Ids |-> None] /\ late = [i \in Ids |-> 0]
    /\ crowded = {}

-----------------------------------------------------------------------------
(* The UI thread                                                           *)

(* arr[k] = arr[count - 1]; count--                                        *)
SwapRemoved_NoSwap(s, k) == SubSeq(s, 1, Len(s) - 1)      \* mutant: only count--
SwapRemoved(s, k) ==
    [j \in 1..(Len(s) - 1) |-> IF j = k THEN s[Len(s)] ELSE s[j]]

(* Mutant: one more id than there is room for.                             *)
MayAdd_OneMore(i) == i \notin Listed /\ Len(ids) <= MaxDev
MayAdd(i) == i \notin Listed /\ Len(ids) < MaxDev

AddToList(i) ==
    /\ ui = "idle" /\ MayAdd(i)
    /\ ids' = Append(ids, i)
    /\ ui' = "append" /\ uiId' = i
    /\ latest' = [latest EXCEPT ![i] = None] /\ late' = [late EXCEPT ![i] = 0]
    /\ UNCHANGED <<bus, buf, thread, crowded>>

(* An entry is appended even if the bus thread has made one already.       *)
AppendEntry ==
    /\ ui = "append" /\ ui' = "idle"
    /\ IF Len(buf) < MaxDev
          THEN /\ buf' = Append(buf, [id |-> uiId, val |-> Zero])
               /\ crowded' = crowded \ {uiId}
          ELSE /\ crowded' = crowded \cup {uiId}
               /\ UNCHANGED buf
    /\ UNCHANGED <<bus, ids, uiId, thread, latest, late>>

RemoveFromList(i) ==
    /\ ui = "idle" /\ i \in Listed
    /\ ids' = SwapRemoved(ids, First({k \in DOMAIN ids : ids[k] = i}))
    /\ ui' = "erase" /\ uiId' = i
    /\ latest' = [latest EXCEPT ![i] = None] /\ late' = [late EXCEPT ![i] = 0]
    /\ UNCHANGED <<bus, buf, thread, crowded>>

(* Only the first entry of the device is removed.                          *)
EraseEntry ==
    /\ ui = "erase" /\ ui' = "idle"
    /\ buf' = IF Places(uiId) = {} THEN buf ELSE SwapRemoved(buf, First(Places(uiId)))
    /\ UNCHANGED <<bus, ids, uiId, thread, history>>

(* Modbus slaves are numbered from 1 to 247; CAN ids are not checked.      *)
Rs485AddDevice ==
    /\ bus = "rs485"
    /\ \/ \E i \in Ids \cap 1..247 : AddToList(i)
       \/ AppendEntry

Rs485RemoveDevice ==
    /\ bus = "rs485"
    /\ \/ \E i \in Ids : RemoveFromList(i)
       \/ EraseEntry

CanAddDevice ==
    /\ bus = "can"
    /\ \/ \E i \in Ids : AddToList(i)
       \/ AppendEntry

CanRemoveDevice ==
    /\ bus = "can"
    /\ \/ \E i \in Ids : RemoveFromList(i)
       \/ EraseEntry

-----------------------------------------------------------------------------
(* The bus threads                                                         *)

(* Mutant: an entry is appended although there is one.                     *)
Place_Append(i) == Len(buf) + 1

(* Where a reading of i goes: to the first entry of i, else behind the last*)
Place(i) == IF Places(i) = {} THEN Len(buf) + 1 ELSE First(Places(i))

(* Mutant: a reading replaces the whole buffer.                            *)
Store_ReplacesAll(i, v) ==
    /\ buf' = <<[id |-> i, val |-> v]>>
    /\ IF i \in Listed
          THEN latest' = [latest EXCEPT ![i] = v] /\ UNCHANGED late
          ELSE late' = [late EXCEPT ![i] = @ + 1] /\ UNCHANGED latest

Store(i, v) ==
    IF Place(i) <= MaxDev
    THEN /\ buf' = [k \in DOMAIN buf \cup {Place(i)} |->
                       IF k = Place(i) THEN [id |-> i, val |-> v] ELSE buf[k]]
         /\ IF i \in Listed
               THEN latest' = [latest EXCEPT ![i] = v] /\ UNCHANGED late
               ELSE late' = [late EXCEPT ![i] = @ + 1] /\ UNCHANGED latest
    ELSE UNCHANGED <<buf, latest, late>>

(* pthread_rs485 copies the list, then reads one device after the other.   *)
Rs485Copy ==
    /\ bus = "rs485" /\ todo = <<>>
    /\ todo' = ids
    /\ UNCHANGED <<bus, ids, buf, ui, uiId, frame, updating, history>>

Rs485Read ==
    /\ todo # <<>> /\ todo' = Tail(todo)
    /\ \E v \in Readings : Store(Head(todo), v)
    /\ UNCHANGED <<bus, ids, ui, uiId, frame, updating, crowded>>

Rs485ReadFails ==
    /\ todo # <<>> /\ todo' = Tail(todo)
    /\ UNCHANGED <<bus, ids, buf, ui, uiId, frame, updating, history>>

(* pthread_can looks the id of its frame up, then stores the values.       *)
Found_Always(f) == f # Ignored      \* mutant: ids that are not listed are stored
Found(f) == f # Ignored /\ f.id \in Listed

CanReceive ==
    /\ bus = "can" /\ ~updating
    /\ \E f \in Frame :
          /\ frame' = f /\ updating' = Found(f)
    /\ UNCHANGED <<bus, ids, buf, ui, uiId, todo, history>>

(* No frame within a second: recvfrom returns -1, which is not less than a *)
(* size_t, and the thread goes on with what frame holds.                   *)
CanTimeout ==
    /\ bus = "can" /\ ~updating
    /\ updating' = Found(frame)
    /\ UNCHANGED <<bus, ids, buf, ui, uiId, todo, frame, history>>

CanStore ==
    /\ updating /\ updating' = FALSE
    /\ Store(frame.id, frame.val)
    /\ UNCHANGED <<bus, ids, ui, uiId, todo, frame, crowded>>

-----------------------------------------------------------------------------
User == Rs485AddDevice \/ Rs485RemoveDevice \/ CanAddDevice \/ CanRemoveDevice
BusThread == \/ Rs485Copy \/ Rs485Read \/ Rs485ReadFails
             \/ CanReceive \/ CanTimeout \/ CanStore

Next == User \/ BusThread

Spec == Init /\ [][Next]_vars

-----------------------------------------------------------------------------
(* Every variable keeps its type; list and buffer stay within their arrays *)
(* of MaxDev elements.                                                     *)
TypeOK ==
    /\ bus \in {"rs485", "can"}
    /\ ids \in Seq(Ids) /\ Len(ids) <= MaxDev
    /\ bus = "rs485" => Listed \subseteq 1..247
    /\ buf \in Seq(Entry) /\ Len(buf) <= MaxDev
    /\ ui \in {"idle", "append", "erase"} /\ uiId \in Ids
    /\ todo \in Seq(Ids) /\ frame \in Frame
    /\ updating \in BOOLEAN /\ (updating => frame # Ignored)
    /\ latest \in [Ids -> Readings \cup {None}] /\ late \in [Ids -> Nat]
    /\ crowded \subseteq Ids

(* However additions, removals and the bus thread interleave, a device has *)
(* at most two entries, and at most one when it is not registered.         *)
AtMostTwice ==
    \A i \in Ids :
        LET settled == i \in Listed /\ ~(ui = "append" /\ uiId = i)
            leaving == ui = "erase" /\ uiId = i
        IN  Cardinality(Places(i)) <= IF settled \/ leaving THEN 2 ELSE 1

(* A registered device has an entry, as the comments at main.c:491 and 561 *)
(* ask for, unless the buffer was full when it was added; removing others, *)
(* with their entries moved about, never takes it away.                    *)
MissingOnlyWhenCrowded ==
    \A i \in Listed \ crowded : (ui = "append" /\ uiId = i) \/ Places(i) # {}

(* What was last stored for a registered device is in one of its entries:  *)
(* neither a second entry nor the removal of other devices loses it.       *)
LatestIsShown ==
    \A i \in Listed : latest[i] # None => \E k \in Places(i) : buf[k].val = latest[i]

(* A bus thread that is not aware of a removal yet stores at most one more *)
(* reading of the device.                                                  *)
OneLateReading == \A i \in Ids : i \notin Listed => late[i] <= 1

(* When a removal is over and the bus thread has turned to other devices,  *)
(* the device is gone from the buffer (comment at main.c:592).             *)
RemovedIsGone ==
    \A i \in Ids :
        Places(i) # {} => \/ i \in Listed
                          \/ ui = "erase" /\ uiId = i
                          \/ i \in {todo[k] : k \in DOMAIN todo}
                          \/ updating /\ frame.id = i
=============================================================================
