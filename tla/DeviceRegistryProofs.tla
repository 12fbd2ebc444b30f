------------------------ MODULE DeviceRegistryProofs ------------------------
(***************************************************************************)
(* Theorems about DeviceRegistry for all device ids, readings and sizes of *)
(* the arrays.                                                             *)
(***************************************************************************)
EXTENDS DeviceRegistry, WellFoundedInduction, SequenceTheorems, FiniteSetTheorems, TLAPS

-----------------------------------------------------------------------------
(* Lemmas about the helpers.                                               *)

(* The first place is one of the places.                                   *)
LEMMA FirstIsMember ==
    ASSUME NEW S \in SUBSET Nat, S # {}
    PROVE  First(S) \in S
<1>1. \E k \in S : \A j \in S : k <= j
  <2> DEFINE R == OpToRel(<, Nat)
  <2>1. IsWellFoundedOn(R, Nat)
    BY NatLessThanWellFounded
  <2>2. \A x, y \in Nat : y < x => <<y, x>> \in R
    BY DEF OpToRel
  <2> HIDE DEF R
  <2>3. PICK k \in S : \A j \in S : <<j, k>> \notin R
    BY <2>1, WFMin
  <2>4. \A j \in S : ~(j < k)
    BY <2>2, <2>3, Zenon
  <2>5. \A j \in S : k <= j
    BY <2>4
  <2>6. QED BY <2>5
<1>2. QED BY <1>1 DEF First

(* Removing an element by moving the last one into its place keeps every   *)
(* other element and adds none.                                            *)
LEMMA SwapRemovedKeeps ==
    ASSUME NEW S, NEW s \in Seq(S), NEW k \in 1..Len(s)
    PROVE  /\ SwapRemoved(s, k) \in Seq(S)
           /\ Len(SwapRemoved(s, k)) = Len(s) - 1
           /\ \A j \in 1..Len(s) : j # k =>
                 \E m \in 1..Len(SwapRemoved(s, k)) : SwapRemoved(s, k)[m] = s[j]
           /\ \A m \in 1..Len(SwapRemoved(s, k)) :
                 \E j \in 1..Len(s) : SwapRemoved(s, k)[m] = s[j]
<1> DEFINE n == Len(s) - 1
           r == SwapRemoved(s, k)
<1>1. n \in Nat /\ \A j \in 1..Len(s) : s[j] \in S
  OBVIOUS
<1>2. r = [j \in 1..n |-> IF j = k THEN s[Len(s)] ELSE s[j]]
  BY DEF SwapRemoved
<1>3. \A m \in 1..n : r[m] = IF m = k THEN s[Len(s)] ELSE s[m]
  BY <1>2
<1>4. r \in [1..n -> S]
  BY <1>1, <1>2
<1>5. r \in Seq(S) /\ Len(r) = n
  BY <1>1, <1>4
<1> HIDE DEF r
<1>6. ASSUME NEW j \in 1..Len(s), j # k PROVE \E m \in 1..n : r[m] = s[j]
  <2>1. CASE j = Len(s)
    <3>1. k \in 1..n /\ r[k] = s[j]
      BY <1>3, <1>6, <2>1
    <3>2. QED BY <3>1
  <2>2. CASE j # Len(s)
    <3>1. j \in 1..n /\ r[j] = s[j]
      BY <1>3, <1>6, <2>2
    <3>2. QED BY <3>1
  <2>3. QED BY <2>1, <2>2
<1>7. ASSUME NEW m \in 1..n PROVE \E j \in 1..Len(s) : r[m] = s[j]
  <2>1. CASE m = k
    BY <1>3, <2>1
  <2>2. CASE m # k
    BY <1>3, <2>2
  <2>3. QED BY <2>1, <2>2
<1>8. QED BY <1>5, <1>6, <1>7 DEF r

(* Storing a reading keeps the type of the buffer, its bound and every     *)
(* entry of another device; the device has an entry with the reading then. *)
LEMMA StoreKeeps ==
    ASSUME buf \in Seq(Entry), Len(buf) <= MaxDev, NEW i \in Ids, NEW v \in Readings,
           Store(i, v), Place(i) <= MaxDev
    PROVE  /\ buf' \in Seq(Entry) /\ Len(buf') <= MaxDev
           /\ \A k \in DOMAIN buf : buf[k].id # i => k \in DOMAIN buf' /\ buf'[k] = buf[k]
           /\ Place(i) \in DOMAIN buf' /\ buf'[Place(i)] = [id |-> i, val |-> v]
           /\ \A k \in DOMAIN buf : buf'[k].id = buf[k].id
           /\ DOMAIN buf' = DOMAIN buf \cup {Place(i)}
<1> DEFINE p == Place(i)
           n == Len(buf)
           e == [id |-> i, val |-> v]
<1>1. n \in Nat /\ DOMAIN buf = 1..n /\ \A k \in 1..n : buf[k] \in Entry
  OBVIOUS
<1>2. \/ p = n + 1 /\ Places(i) = {}
      \/ p \in Places(i)
  <2>1. CASE Places(i) = {}
    BY <2>1 DEF Place
  <2>2. CASE Places(i) # {}
    <3>1. Places(i) \in SUBSET Nat
      BY <1>1 DEF Places
    <3>2. QED BY <2>2, <3>1, FirstIsMember DEF Place
  <2>3. QED BY <2>1, <2>2
<1>3. buf' = [k \in 1..n \cup {p} |-> IF k = p THEN e ELSE buf[k]]
  BY <1>1 DEF Store
<1>4. e \in Entry
  BY DEF Entry
<1> HIDE DEF p, e
<1>5. CASE p = n + 1 /\ Places(i) = {}
  <2>1. buf' \in [1..(n + 1) -> Entry]
    BY <1>1, <1>3, <1>4, <1>5
  <2>2. buf' \in Seq(Entry) /\ Len(buf') = n + 1
    BY <1>1, <2>1
  <2>3. n + 1 <= MaxDev
    BY <1>5 DEF p
  <2>4. \A k \in 1..n : buf'[k] = buf[k]
    BY <1>1, <1>3, <1>5
  <2>5. QED BY <1>1, <1>3, <1>5, <2>1, <2>2, <2>3, <2>4 DEF p, e
<1>6. CASE p \in Places(i)
  <2>1. p \in 1..n /\ buf[p].id = i
    BY <1>1, <1>6 DEF Places
  <2>2. buf' \in [1..n -> Entry]
    BY <1>1, <1>3, <1>4, <2>1
  <2>3. buf' \in Seq(Entry) /\ Len(buf') = n
    BY <1>1, <2>2
  <2>4. \A k \in 1..n : k # p => buf'[k] = buf[k]
    BY <1>1, <1>3
  <2>5. buf'[p] = e /\ e.id = i
    BY <1>3, <2>1 DEF e
  <2>6. \A k \in 1..n : buf'[k].id = buf[k].id
    BY <2>1, <2>4, <2>5
  <2>7. QED BY <1>1, <2>1, <2>2, <2>3, <2>4, <2>5, <2>6 DEF p, e
<1>7. QED BY <1>2, <1>5, <1>6

-----------------------------------------------------------------------------
(* Types and the registration list.                                        *)

(* No id is listed twice; the device that is being added is listed, the    *)
(* one that is being removed is not.                                       *)
ListOK ==
    /\ \A k, m \in DOMAIN ids : ids[k] = ids[m] => k = m
    /\ ui = "append" => uiId \in Listed
    /\ ui = "erase" => uiId \notin Listed

ListInv == TypeOK /\ ListOK

(* Adding an id to the list.                                               *)
LEMMA AddKeepsList ==
    ASSUME ListInv, NEW i \in Ids, AddToList(i), bus = "rs485" => i \in 1..247
    PROVE  ListInv' /\ Listed' = Listed \cup {i}
<1> USE DEF ListInv, TypeOK
<1>1. Len(ids) \in Nat /\ Len(ids) < MaxDev /\ i \notin Listed
  BY DEF AddToList, MayAdd
<1>2. /\ ids' \in Seq(Ids) /\ Len(ids') = Len(ids) + 1
      /\ \A k \in 1..Len(ids) : ids'[k] = ids[k]
      /\ ids'[Len(ids) + 1] = i
  BY <1>1 DEF AddToList
<1> DEFINE n == Len(ids)
<1>d. DOMAIN ids = 1..n /\ DOMAIN ids' = 1..(n + 1) /\ n \in Nat
  BY <1>1, <1>2
<1>n. \A k \in 1..(n + 1) : k \in 1..n \/ k = n + 1
  BY <1>1
<1>3. Listed' = Listed \cup {i}
  <2>1. \A j \in Listed' : j \in Listed \cup {i}
    BY <1>2, <1>d, <1>n DEF Listed
  <2>2. \A j \in Listed : j \in Listed'
    <3>1. \A k \in 1..n : k \in 1..(n + 1) /\ ids'[k] = ids[k]
      BY <1>2, <1>d
    <3>2. QED BY <1>d, <3>1 DEF Listed
  <2>3. i \in Listed'
    <3>1. n + 1 \in 1..(n + 1) /\ ids'[n + 1] = i
      BY <1>2, <1>d
    <3>2. QED BY <1>d, <3>1 DEF Listed
  <2>4. QED BY <2>1, <2>2, <2>3
<1>4. \A k \in 1..Len(ids) : ids[k] # i
  BY <1>1 DEF Listed
<1>5. \A k, m \in DOMAIN ids' : ids'[k] = ids'[m] => k = m
  <2>1. \A k, m \in 1..n : ids[k] = ids[m] => k = m
    BY <1>d DEF ListOK
  <2> SUFFICES ASSUME NEW k \in 1..(n + 1), NEW m \in 1..(n + 1), ids'[k] = ids'[m]
               PROVE  k = m
    BY <1>d
  <2>2. CASE k \in 1..n /\ m \in 1..n
    BY <1>2, <2>1, <2>2
  <2>3. CASE k = n + 1 \/ m = n + 1
    BY <1>2, <1>4, <1>n, <2>3
  <2>4. QED BY <1>n, <2>2, <2>3
<1>6. ui' = "append" /\ uiId' = i
  BY DEF AddToList
<1>7. Len(ids') <= MaxDev
  BY <1>1, <1>2, RegistryAssumption
<1>8. latest' \in [Ids -> Readings \cup {None}] /\ late' \in [Ids -> Nat]
  BY DEF AddToList
<1>9. UNCHANGED <<bus, buf, todo, frame, updating, crowded>>
  BY DEF AddToList, thread
<1>10. TypeOK'
  BY <1>2, <1>3, <1>6, <1>7, <1>8, <1>9 DEF Listed
<1>11. QED BY <1>3, <1>5, <1>6, <1>10 DEF ListOK

(* Taking an id off the list, with the last one moved into its place.      *)
LEMMA RemoveKeepsList ==
    ASSUME ListInv, NEW i \in Ids, RemoveFromList(i)
    PROVE  ListInv' /\ Listed' = Listed \ {i}
<1> USE DEF ListInv, TypeOK
<1> DEFINE S == {k \in DOMAIN ids : ids[k] = i}
           p == First(S)
           n == Len(ids) - 1
<1>1. S # {} /\ S \in SUBSET Nat
  BY DEF RemoveFromList, Listed
<1>2. p \in 1..Len(ids) /\ ids[p] = i
  <2> HIDE DEF S
  <2>1. p \in S
    BY <1>1, FirstIsMember
  <2>2. QED BY <2>1 DEF S
<1>3. ids' = SwapRemoved(ids, p)
  BY DEF RemoveFromList
<1> HIDE DEF p, S
<1>d. DOMAIN ids = 1..(n + 1) /\ Len(ids) = n + 1 /\ ids \in Seq(Ids)
  BY <1>2
<1>4. ids' \in Seq(Ids) /\ Len(ids') = n
  BY <1>2, <1>3, SwapRemovedKeeps
<1>5. n \in Nat /\ \A m \in 1..n : ids'[m] = IF m = p THEN ids[n + 1] ELSE ids[m]
  BY <1>2, <1>3, <1>d DEF SwapRemoved
<1>6. \A k, m \in 1..(n + 1) : ids[k] = ids[m] => k = m
  BY <1>d DEF ListOK
<1>7. Listed' = Listed \ {i}
  <2>1. \A m \in 1..n : ids'[m] \in Listed /\ ids'[m] # i
    <3>1. ASSUME NEW m \in 1..n PROVE ids'[m] \in Listed /\ ids'[m] # i
      <4>1. CASE m = p
        <5>1. n + 1 \in 1..(n + 1) /\ n + 1 # p /\ ids'[m] = ids[n + 1]
          BY <1>2, <1>5, <4>1
        <5>2. ids[n + 1] # ids[p]
          BY <1>2, <1>d, <1>6, <5>1
        <5>3. QED BY <1>2, <1>d, <5>1, <5>2 DEF Listed
      <4>2. CASE m # p
        <5>1. m \in 1..(n + 1) /\ ids'[m] = ids[m]
          BY <1>5, <4>2
        <5>2. ids[m] # ids[p]
          BY <1>2, <1>d, <1>6, <4>2, <5>1
        <5>3. QED BY <1>2, <1>d, <5>1, <5>2 DEF Listed
      <4>3. QED BY <4>1, <4>2
    <3>2. QED BY <3>1
  <2>2. \A k \in 1..(n + 1) : ids[k] # i => \E m \in 1..n : ids'[m] = ids[k]
    <3>1. \A k \in 1..Len(ids) : k # p =>
            \E m \in 1..Len(SwapRemoved(ids, p)) : SwapRemoved(ids, p)[m] = ids[k]
      BY <1>2, SwapRemovedKeeps
    <3>2. \A k \in 1..(n + 1) : k # p => \E m \in 1..n : ids'[m] = ids[k]
      BY <1>3, <1>4, <1>d, <3>1
    <3>3. QED BY <1>2, <3>2
  <2>3. DOMAIN ids' = 1..n
    BY <1>4, <1>5
  <2>4. ASSUME NEW j \in Listed' PROVE j \in Listed \ {i}
    BY <2>1, <2>3 DEF Listed
  <2>5. ASSUME NEW j \in Listed, j # i PROVE j \in Listed'
    <3>1. PICK k \in 1..(n + 1) : ids[k] = j
      BY <1>d DEF Listed
    <3>2. PICK m \in 1..n : ids'[m] = j
      BY <2>2, <2>5, <3>1
    <3>3. QED BY <2>3, <3>2 DEF Listed
  <2>6. QED BY <2>4, <2>5
<1>8. \A k, m \in DOMAIN ids' : ids'[k] = ids'[m] => k = m
  <2>1. DOMAIN ids' = 1..n
    BY <1>4, <1>5
  <2> SUFFICES ASSUME NEW k \in 1..n, NEW m \in 1..n, ids'[k] = ids'[m] PROVE k = m
    BY <2>1
  <2> DEFINE f(j) == IF j = p THEN n + 1 ELSE j
  <2>2. f(k) \in 1..(n + 1) /\ f(m) \in 1..(n + 1) /\ ids[f(k)] = ids[f(m)]
    BY <1>5
  <2>3. f(k) = f(m)
    BY <1>6, <2>2
  <2>4. QED BY <1>5, <2>3
<1>9. ui' = "erase" /\ uiId' = i
  BY DEF RemoveFromList
<1>10. latest' \in [Ids -> Readings \cup {None}] /\ late' \in [Ids -> Nat]
  BY DEF RemoveFromList
<1>11. UNCHANGED <<bus, buf, todo, frame, updating, crowded>>
  BY DEF RemoveFromList, thread
<1>12. Len(ids') <= MaxDev
  BY <1>4, RegistryAssumption
<1>13. TypeOK'
  BY <1>4, <1>7, <1>9, <1>10, <1>11, <1>12 DEF Listed
<1>14. QED BY <1>7, <1>8, <1>9, <1>13 DEF ListOK

(* The second halves of both calls change the buffer only.                 *)
LEMMA AppendKeepsTypes ==
    ASSUME TypeOK, AppendEntry
    PROVE  /\ buf' \in Seq(Entry) /\ Len(buf') <= MaxDev
           /\ \A k \in DOMAIN buf : k \in DOMAIN buf' /\ buf'[k] = buf[k]
           /\ uiId \in crowded' \/ Places(uiId)' # {}
<1> USE DEF TypeOK
<1>1. CASE Len(buf) < MaxDev
  <2> DEFINE e == [id |-> uiId, val |-> Zero]
  <2>1. buf' = Append(buf, e) /\ UNCHANGED uiId
    BY <1>1 DEF AppendEntry
  <2>2. e \in Entry /\ e.id = uiId
    BY DEF Entry
  <2> HIDE DEF e
  <2>3. /\ buf' \in Seq(Entry) /\ Len(buf') = Len(buf) + 1 /\ Len(buf) \in Nat
        /\ \A k \in 1..Len(buf) : buf'[k] = buf[k]
        /\ buf'[Len(buf) + 1] = e
    BY <2>1, <2>2
  <2>4. Len(buf) + 1 \in Places(uiId)'
    BY <2>1, <2>2, <2>3 DEF Places
  <2>5. Len(buf') <= MaxDev
    BY <1>1, <2>3, RegistryAssumption
  <2>6. QED BY <2>1, <2>3, <2>4, <2>5
<1>2. CASE ~(Len(buf) < MaxDev)
  BY <1>2 DEF AppendEntry
<1>3. QED BY <1>1, <1>2

LEMMA EraseKeepsTypes ==
    ASSUME TypeOK, EraseEntry
    PROVE  /\ buf' \in Seq(Entry) /\ Len(buf') <= MaxDev
           /\ \A k \in DOMAIN buf : buf[k].id # uiId =>
                 \E m \in DOMAIN buf' : buf'[m] = buf[k]
<1> USE DEF TypeOK
<1>1. CASE Places(uiId) = {}
  BY <1>1 DEF EraseEntry
<1>2. CASE Places(uiId) # {}
  <2> DEFINE p == First(Places(uiId))
  <2>1. Places(uiId) \in SUBSET Nat
    BY DEF Places
  <2>2. p \in Places(uiId)
    BY <1>2, <2>1, FirstIsMember
  <2>3. p \in 1..Len(buf) /\ buf[p].id = uiId
    BY <2>2 DEF Places
  <2>4. buf' = SwapRemoved(buf, p)
    BY <1>2 DEF EraseEntry
  <2> HIDE DEF p
  <2>5. /\ buf' \in Seq(Entry) /\ Len(buf') = Len(buf) - 1
        /\ \A j \in 1..Len(buf) : j # p => \E m \in 1..Len(buf') : buf'[m] = buf[j]
    BY <2>3, <2>4, SwapRemovedKeeps
  <2>6. Len(buf) \in Nat /\ DOMAIN buf = 1..Len(buf) /\ DOMAIN buf' = 1..Len(buf')
    BY <2>5
  <2>7. Len(buf') <= MaxDev
    BY <2>5, <2>6, RegistryAssumption
  <2>8. \A k \in DOMAIN buf : buf[k].id # uiId => \E m \in DOMAIN buf' : buf'[m] = buf[k]
    BY <2>3, <2>5, <2>6
  <2>9. QED BY <2>5, <2>7, <2>8
<1>3. QED BY <1>1, <1>2

(* Store, whether there is room or not.                                    *)
LEMMA StoreKeepsTypes ==
    ASSUME TypeOK, NEW i \in Ids, NEW v \in Readings, Store(i, v)
    PROVE  /\ buf' \in Seq(Entry) /\ Len(buf') <= MaxDev
           /\ latest' \in [Ids -> Readings \cup {None}] /\ late' \in [Ids -> Nat]
<1> USE DEF TypeOK
<1>1. buf' \in Seq(Entry) /\ Len(buf') <= MaxDev
  <2>1. CASE Place(i) <= MaxDev
    BY <2>1, StoreKeeps
  <2>2. CASE ~(Place(i) <= MaxDev)
    BY <2>2 DEF Store
  <2>3. QED BY <2>1, <2>2
<1>2. late' \in [Ids -> Nat]
  BY DEF Store
<1>3. latest' \in [Ids -> Readings \cup {None}]
  BY DEF Store
<1>4. QED BY <1>1, <1>2, <1>3

(* No device is listed twice, and what the UI thread still has to do to    *)
(* the buffer agrees with the list.                                        *)
THEOREM ListInvariant == Spec => []ListInv
<1> USE RegistryAssumption
<1>1. Init => ListInv
  <2> SUFFICES ASSUME Init PROVE ListInv
    OBVIOUS
  <2>1. ids = <<>> /\ Listed = {} /\ Len(ids) = 0 /\ ids \in Seq(Ids)
    BY DEF Init, Listed
  <2>2. buf \in Seq(Entry) /\ Len(buf) = 0 /\ todo \in Seq(Ids)
    BY DEF Init
  <2>3. frame \in Frame
    BY DEF Init, Frame
  <2>4. ui = "idle" /\ uiId \in Ids /\ updating = FALSE /\ bus \in {"rs485", "can"}
    BY DEF Init
  <2>5. latest \in [Ids -> Readings \cup {None}] /\ late \in [Ids -> Nat]
    BY DEF Init
  <2>6. crowded \subseteq Ids
    BY DEF Init
  <2>7. TypeOK
    <3>1. Len(ids) <= MaxDev /\ Len(buf) <= MaxDev
      BY <2>1, <2>2
    <3>2. QED BY <2>1, <2>2, <2>3, <2>4, <2>5, <2>6, <3>1, Zenon DEF TypeOK
  <2>8. QED BY <2>1, <2>4, <2>7 DEF ListInv, ListOK
<1>2. ListInv /\ [Next]_vars => ListInv'
  <2> SUFFICES ASSUME ListInv, [Next]_vars PROVE ListInv'
    OBVIOUS
  <2> USE DEF thread, history
  <2>1. ASSUME NEW i \in Ids, AddToList(i), bus = "rs485" => i \in 1..247 PROVE ListInv'
    BY <2>1, AddKeepsList
  <2>2. ASSUME NEW i \in Ids, RemoveFromList(i) PROVE ListInv'
    BY <2>2, RemoveKeepsList
  <2>3. CASE AppendEntry
    <3>1. buf' \in Seq(Entry) /\ Len(buf') <= MaxDev
      BY <2>3, AppendKeepsTypes DEF ListInv
    <3>2. /\ UNCHANGED <<bus, ids, uiId, thread, latest, late>>
          /\ ui' = "idle" /\ crowded' \subseteq Ids
      BY <2>3 DEF AppendEntry, ListInv, TypeOK
    <3>3. QED BY <3>1, <3>2 DEF ListInv, ListOK, TypeOK, Listed
  <2>4. CASE EraseEntry
    <3>1. buf' \in Seq(Entry) /\ Len(buf') <= MaxDev
      BY <2>4, EraseKeepsTypes DEF ListInv
    <3>2. UNCHANGED <<bus, ids, uiId, thread, history>> /\ ui' = "idle"
      BY <2>4 DEF EraseEntry
    <3>3. QED BY <3>1, <3>2 DEF ListInv, ListOK, TypeOK, Listed
  <2>5. CASE Rs485Copy \/ Rs485ReadFails
    <3>1. UNCHANGED <<bus, ids, buf, ui, uiId, frame, updating, history>>
      BY <2>5 DEF Rs485Copy, Rs485ReadFails
    <3>2. todo \in Seq(Ids) /\ ids \in Seq(Ids)
      BY DEF ListInv, TypeOK
    <3>3. todo' \in Seq(Ids)
      <4>1. CASE Rs485Copy
        BY <3>2, <4>1 DEF Rs485Copy
      <4>2. CASE Rs485ReadFails
        BY <3>2, <4>2 DEF Rs485ReadFails
      <4>3. QED BY <2>5, <4>1, <4>2
    <3>4. QED BY <3>1, <3>3 DEF ListInv, ListOK, TypeOK, Listed
  <2>6. CASE Rs485Read
    <3>1. todo' \in Seq(Ids) /\ Head(todo) \in Ids
      BY <2>6 DEF Rs485Read, ListInv, TypeOK
    <3>2. PICK v \in Readings : Store(Head(todo), v)
      BY <2>6 DEF Rs485Read
    <3>3. /\ buf' \in Seq(Entry) /\ Len(buf') <= MaxDev
          /\ latest' \in [Ids -> Readings \cup {None}] /\ late' \in [Ids -> Nat]
      BY <3>1, <3>2, StoreKeepsTypes DEF ListInv
    <3>4. UNCHANGED <<bus, ids, ui, uiId, frame, updating, crowded>>
      BY <2>6 DEF Rs485Read
    <3>5. QED BY <3>1, <3>3, <3>4 DEF ListInv, ListOK, TypeOK, Listed
  <2>7. CASE CanReceive \/ CanTimeout
    <3>1. UNCHANGED <<bus, ids, buf, ui, uiId, todo, latest, late, crowded>>
      BY <2>7 DEF CanReceive, CanTimeout
    <3>2. frame' \in Frame /\ updating' \in BOOLEAN /\ (updating' => frame' # Ignored)
      BY <2>7 DEF CanReceive, CanTimeout, Found, ListInv, TypeOK
    <3>3. QED BY <3>1, <3>2 DEF ListInv, ListOK, TypeOK, Listed
  <2>8. CASE CanStore
    <3>1. frame.id \in Ids /\ frame.val \in Readings
      BY <2>8 DEF CanStore, ListInv, TypeOK, Frame
    <3>2. Store(frame.id, frame.val) /\ updating' = FALSE
      BY <2>8 DEF CanStore
    <3>3. /\ buf' \in Seq(Entry) /\ Len(buf') <= MaxDev
          /\ latest' \in [Ids -> Readings \cup {None}] /\ late' \in [Ids -> Nat]
      BY <3>1, <3>2, StoreKeepsTypes DEF ListInv
    <3>4. UNCHANGED <<bus, ids, ui, uiId, todo, frame, crowded>>
      BY <2>8 DEF CanStore
    <3>5. QED BY <3>2, <3>3, <3>4 DEF ListInv, ListOK, TypeOK, Listed
  <2>9. CASE UNCHANGED vars
    BY <2>9 DEF vars, ListInv, ListOK, TypeOK, Listed
  <2>10. QED
    BY <2>1, <2>2, <2>3, <2>4, <2>5, <2>6, <2>7, <2>8, <2>9
       DEF Next, User, BusThread, Rs485AddDevice, Rs485RemoveDevice, CanAddDevice, CanRemoveDevice
<1>3. QED BY <1>1, <1>2, PTL DEF Spec

(* Every variable of the registry keeps its type: neither the list nor the *)
(* buffer outgrows its array.                                              *)
THEOREM TypeCorrect == Spec => []TypeOK
<1>1. ListInv => TypeOK
  BY DEF ListInv
<1>2. QED BY <1>1, ListInvariant, PTL

-----------------------------------------------------------------------------
(* The entries of the registered devices.                                  *)

(* A registered device keeps its entry, whatever happens to the entries of *)
(* other devices around it: comments at main.c:491 and 561.                *)
THEOREM EntryCorrect == Spec => []MissingOnlyWhenCrowded
<1> USE RegistryAssumption
<1>1. Init => MissingOnlyWhenCrowded
  BY DEF Init, MissingOnlyWhenCrowded, Listed
<1>2. ListInv /\ ListInv' /\ MissingOnlyWhenCrowded /\ [Next]_vars => MissingOnlyWhenCrowded'
  <2> SUFFICES ASSUME ListInv, ListInv', MissingOnlyWhenCrowded, [Next]_vars,
                      NEW j \in (Listed \ crowded)'
               PROVE  (ui = "append" /\ uiId = j)' \/ Places(j)' # {}
    BY DEF MissingOnlyWhenCrowded
  <2> USE DEF thread, history
  <2> DEFINE kept == \A k \in Places(j) : \E m \in DOMAIN buf' : buf'[m] = buf[k]
  <2>0. ASSUME Places(j) # {}, kept PROVE Places(j)' # {}
    BY <2>0 DEF Places
  <2>s. ASSUME NEW i \in Ids, NEW v \in Readings, Store(i, v), Places(j) # {}
        PROVE  Places(j)' # {}
    <3>1. CASE Place(i) <= MaxDev
      <4>1. /\ Place(i) \in DOMAIN buf' /\ buf'[Place(i)] = [id |-> i, val |-> v]
            /\ \A k \in DOMAIN buf : buf[k].id # i => k \in DOMAIN buf' /\ buf'[k] = buf[k]
        BY <2>s, <3>1, StoreKeeps DEF ListInv, TypeOK
      <4>2. Place(i) \in Places(i)'
        BY <4>1 DEF Places
      <4>3. QED BY <2>s, <4>1, <4>2 DEF Places
    <3>2. CASE ~(Place(i) <= MaxDev)
      BY <2>s, <3>2 DEF Store, Places
    <3>3. QED BY <3>1, <3>2
  <2>1. ASSUME NEW i \in Ids, AddToList(i), bus = "rs485" => i \in 1..247
        PROVE  (ui = "append" /\ uiId = j)' \/ Places(j)' # {}
    <3>1. Listed' = Listed \cup {i} /\ UNCHANGED <<buf, crowded>>
      BY <2>1, AddKeepsList DEF AddToList
    <3>2. ui = "idle" /\ (ui = "append" /\ uiId = i)'
      BY <2>1 DEF AddToList
    <3>3. QED BY <3>1, <3>2 DEF MissingOnlyWhenCrowded, Places
  <2>2. ASSUME NEW i \in Ids, RemoveFromList(i) PROVE Places(j)' # {}
    <3>1. Listed' = Listed \ {i} /\ UNCHANGED <<buf, crowded>> /\ ui = "idle"
      BY <2>2, RemoveKeepsList DEF RemoveFromList
    <3>2. QED BY <3>1 DEF MissingOnlyWhenCrowded, Places
  <2>3. CASE AppendEntry
    <3>1. /\ \A k \in DOMAIN buf : k \in DOMAIN buf' /\ buf'[k] = buf[k]
          /\ uiId \in crowded' \/ Places(uiId)' # {}
      BY <2>3, AppendKeepsTypes DEF ListInv
    <3>2. /\ UNCHANGED <<ids, uiId>>
          /\ crowded' = crowded \cup {uiId} \/ crowded' = crowded \ {uiId}
      BY <2>3 DEF AppendEntry
    <3>3. CASE j = uiId
      BY <3>1, <3>2, <3>3 DEF Places
    <3>4. CASE j # uiId
      <4>1. Places(j) # {}
        BY <3>2, <3>4 DEF MissingOnlyWhenCrowded, Listed
      <4>2. QED BY <2>0, <3>1, <4>1 DEF Places
    <3>5. QED BY <3>3, <3>4
  <2>4. CASE EraseEntry
    <3>1. UNCHANGED <<ids, crowded>> /\ ui = "erase"
      BY <2>4 DEF EraseEntry
    <3>2. j # uiId /\ Places(j) # {}
      BY <3>1 DEF MissingOnlyWhenCrowded, ListInv, ListOK, Listed
    <3>3. kept
      BY <2>4, <3>2, EraseKeepsTypes DEF ListInv, Places
    <3>4. QED BY <2>0, <3>2, <3>3
  <2>5. CASE UNCHANGED <<ids, buf, ui, uiId, crowded>>
    BY <2>5 DEF MissingOnlyWhenCrowded, Places, Listed
  <2>6. ASSUME NEW i \in Ids, NEW v \in Readings, Store(i, v),
               UNCHANGED <<ids, ui, uiId, crowded>>
        PROVE  (ui = "append" /\ uiId = j)' \/ Places(j)' # {}
    <3>1. (ui = "append" /\ uiId = j) \/ Places(j) # {}
      BY <2>6 DEF MissingOnlyWhenCrowded, Listed
    <3>2. QED BY <2>6, <2>s, <3>1
  <2>7. CASE Rs485Read
    <3>1. Head(todo) \in Ids
      BY <2>7 DEF Rs485Read, ListInv, TypeOK
    <3>2. QED BY <2>6, <2>7, <3>1 DEF Rs485Read
  <2>8. CASE CanStore
    <3>1. frame.id \in Ids /\ frame.val \in Readings
      BY <2>8 DEF CanStore, ListInv, TypeOK, Frame
    <3>2. QED BY <2>6, <2>8, <3>1 DEF CanStore
  <2>9. QED
    BY <2>1, <2>2, <2>3, <2>4, <2>5, <2>7, <2>8
       DEF Next, vars, User, BusThread, Rs485AddDevice, Rs485RemoveDevice, CanAddDevice,
           CanRemoveDevice, Rs485Copy, Rs485ReadFails, CanReceive, CanTimeout
<1>3. QED BY <1>1, <1>2, ListInvariant, PTL DEF Spec

(* The reading last stored for a registered device stays in the buffer     *)
(* while other devices are removed: pthread_can and pthread_rs485 store it *)
(* in the first entry, the removals swap entries.                          *)
THEOREM LatestCorrect == Spec => []LatestIsShown
<1> USE RegistryAssumption
<1> DEFINE Shown(j) == \E k \in Places(j) : buf[k].val = latest[j]
<1>1. Init => LatestIsShown
  BY DEF Init, LatestIsShown, Listed
<1>2. ListInv /\ ListInv' /\ LatestIsShown /\ [Next]_vars => LatestIsShown'
  <2> SUFFICES ASSUME ListInv, ListInv', LatestIsShown, [Next]_vars,
                      NEW j \in Listed', latest'[j] # None
               PROVE  Shown(j)'
    BY DEF LatestIsShown
  <2> USE DEF thread, history
  <2>t. latest \in [Ids -> Readings \cup {None}] /\ Listed' \subseteq Ids
    BY DEF ListInv, TypeOK, Listed
  <2>0. ASSUME j \in Listed, latest'[j] = latest[j],
               \A k \in Places(j) : \E m \in DOMAIN buf' : buf'[m] = buf[k]
        PROVE  Shown(j)'
    <3>1. PICK k \in Places(j) : buf[k].val = latest[j]
      BY <2>0 DEF LatestIsShown
    <3>2. PICK m \in DOMAIN buf' : buf'[m] = buf[k]
      BY <2>0
    <3>3. m \in Places(j)' /\ buf'[m].val = latest'[j]
      BY <2>0, <3>1, <3>2 DEF Places
    <3>4. QED BY <3>3
  <2>1. ASSUME NEW i \in Ids, AddToList(i), bus = "rs485" => i \in 1..247 PROVE Shown(j)'
    <3>1. Listed' = Listed \cup {i} /\ UNCHANGED buf
      BY <2>1, AddKeepsList DEF AddToList
    <3>2. j # i /\ latest'[j] = latest[j]
      BY <2>1, <2>t DEF AddToList
    <3>3. QED BY <2>0, <3>1, <3>2 DEF Places
  <2>2. ASSUME NEW i \in Ids, RemoveFromList(i) PROVE Shown(j)'
    <3>1. Listed' = Listed \ {i} /\ UNCHANGED buf
      BY <2>2, RemoveKeepsList DEF RemoveFromList
    <3>2. latest'[j] = latest[j]
      BY <2>2, <2>t, <3>1 DEF RemoveFromList
    <3>3. QED BY <2>0, <3>1, <3>2 DEF Places
  <2>3. CASE AppendEntry
    <3>1. \A k \in DOMAIN buf : k \in DOMAIN buf' /\ buf'[k] = buf[k]
      BY <2>3, AppendKeepsTypes DEF ListInv
    <3>2. UNCHANGED <<ids, latest>>
      BY <2>3 DEF AppendEntry
    <3>3. QED BY <2>0, <3>1, <3>2 DEF Places, Listed
  <2>4. CASE EraseEntry
    <3>1. UNCHANGED <<ids, latest>> /\ ui = "erase"
      BY <2>4 DEF EraseEntry
    <3>2. j # uiId
      BY <3>1 DEF ListInv, ListOK, Listed
    <3>3. \A k \in Places(j) : \E m \in DOMAIN buf' : buf'[m] = buf[k]
      BY <2>4, <3>2, EraseKeepsTypes DEF ListInv, Places
    <3>4. QED BY <2>0, <3>1, <3>3 DEF Listed
  <2>5. CASE UNCHANGED <<ids, buf, latest>>
    BY <2>0, <2>5 DEF Places, Listed
  <2>6. ASSUME NEW i \in Ids, NEW v \in Readings, Store(i, v), UNCHANGED ids
        PROVE  Shown(j)'
    <3>0. j \in Listed
      BY <2>6 DEF Listed
    <3>1. CASE Place(i) <= MaxDev
      <4>1. /\ Place(i) \in DOMAIN buf' /\ buf'[Place(i)] = [id |-> i, val |-> v]
            /\ \A k \in DOMAIN buf : buf[k].id # i => k \in DOMAIN buf' /\ buf'[k] = buf[k]
        BY <2>6, <3>1, StoreKeeps DEF ListInv, TypeOK
      <4>2. CASE j = i
        <5>1. latest'[j] = v
          BY <2>6, <2>t, <3>0, <3>1, <4>2 DEF Store
        <5>2. Place(i) \in Places(j)' /\ buf'[Place(i)].val = v
          BY <4>1, <4>2 DEF Places
        <5>3. QED BY <5>1, <5>2
      <4>3. CASE j # i
        <5>1. latest'[j] = latest[j]
          BY <2>6, <2>t, <3>1, <4>3 DEF Store
        <5>2. \A k \in Places(j) : \E m \in DOMAIN buf' : buf'[m] = buf[k]
          BY <4>1, <4>3 DEF Places
        <5>3. QED BY <2>0, <3>0, <5>1, <5>2
      <4>4. QED BY <4>2, <4>3
    <3>2. CASE ~(Place(i) <= MaxDev)
      BY <2>5, <2>6, <3>2 DEF Store
    <3>3. QED BY <3>1, <3>2
  <2>7. CASE Rs485Read
    <3>1. Head(todo) \in Ids
      BY <2>7 DEF Rs485Read, ListInv, TypeOK
    <3>2. QED BY <2>6, <2>7, <3>1 DEF Rs485Read
  <2>8. CASE CanStore
    <3>1. frame.id \in Ids /\ frame.val \in Readings
      BY <2>8 DEF CanStore, ListInv, TypeOK, Frame
    <3>2. QED BY <2>6, <2>8, <3>1 DEF CanStore
  <2>9. QED
    BY <2>1, <2>2, <2>3, <2>4, <2>5, <2>7, <2>8
       DEF Next, vars, User, BusThread, Rs485AddDevice, Rs485RemoveDevice, CanAddDevice,
           CanRemoveDevice, Rs485Copy, Rs485ReadFails, CanReceive, CanTimeout
<1>3. QED BY <1>1, <1>2, ListInvariant, PTL DEF Spec

-----------------------------------------------------------------------------
(* Readings that arrive late.                                              *)

(* The ids the bus thread has looked up and not dealt with yet.            *)
Pending == {todo[k] : k \in DOMAIN todo} \cup {i \in Ids : updating /\ frame.id = i}

(* One pass of the bus thread stores an id once; a registered id, and one  *)
(* that is pending, has not been stored since it was removed.              *)
LateOK ==
    /\ \A k, m \in DOMAIN todo : todo[k] = todo[m] => k = m
    /\ bus = "rs485" => ~updating
    /\ bus = "can" => todo = <<>>
    /\ \A i \in Ids : /\ late[i] <= 1
                      /\ i \in Listed \cup Pending => late[i] = 0

(* A device that was removed is stored once more at most: the rest of the  *)
(* pass of pthread_rs485, or the frame pthread_can has looked up already.  *)
THEOREM LateCorrect == Spec => []OneLateReading
<1> USE RegistryAssumption DEF thread, history
<1>1. Init => LateOK
  BY DEF Init, LateOK, Listed, Pending
<1>2. ListInv /\ ListInv' /\ LateOK /\ [Next]_vars => LateOK'
  <2> SUFFICES ASSUME ListInv, ListInv', LateOK, [Next]_vars PROVE LateOK'
    OBVIOUS
  <2>t. late \in [Ids -> Nat] /\ todo \in Seq(Ids) /\ ids \in Seq(Ids)
    BY DEF ListInv, TypeOK
  <2>1. ASSUME NEW i \in Ids, AddToList(i), bus = "rs485" => i \in 1..247 PROVE LateOK'
    <3>1. Listed' = Listed \cup {i} /\ late' = [late EXCEPT ![i] = 0]
      BY <2>1, AddKeepsList DEF AddToList
    <3>2. UNCHANGED <<bus, todo, frame, updating>> /\ Pending' = Pending
      BY <2>1 DEF AddToList, Pending
    <3>3. QED BY <2>t, <3>1, <3>2 DEF LateOK
  <2>2. ASSUME NEW i \in Ids, RemoveFromList(i) PROVE LateOK'
    <3>1. Listed' = Listed \ {i} /\ late' = [late EXCEPT ![i] = 0]
      BY <2>2, RemoveKeepsList DEF RemoveFromList
    <3>2. UNCHANGED <<bus, todo, frame, updating>> /\ Pending' = Pending
      BY <2>2 DEF RemoveFromList, Pending
    <3>3. QED BY <2>t, <3>1, <3>2 DEF LateOK
  <2>3. ASSUME UNCHANGED <<bus, ids, late, todo, frame, updating>> PROVE LateOK'
    <3>1. Listed' = Listed /\ Pending' = Pending
      BY <2>3 DEF Listed, Pending
    <3>2. QED BY <2>3, <3>1 DEF LateOK
  <2>4. CASE Rs485Copy
    <3>1. UNCHANGED <<bus, ids, late, updating>> /\ todo' = ids /\ bus = "rs485"
      BY <2>4 DEF Rs485Copy
    <3>2. Listed' = Listed /\ Pending' = Listed
      BY <3>1 DEF Listed, Pending, LateOK
    <3>3. \A k, m \in DOMAIN ids : ids[k] = ids[m] => k = m
      BY DEF ListInv, ListOK
    <3>4. QED BY <3>1, <3>2, <3>3 DEF LateOK
  <2>5. CASE Rs485Read \/ Rs485ReadFails
    <3> DEFINE h == Head(todo)
    <3>1. UNCHANGED <<bus, ids, updating, frame>> /\ todo # <<>> /\ todo' = Tail(todo)
      BY <2>5 DEF Rs485Read, Rs485ReadFails
    <3>2. /\ Len(todo) \in Nat \ {0} /\ Len(todo') = Len(todo) - 1 /\ todo' \in Seq(Ids)
          /\ \A k \in 1..(Len(todo) - 1) : k + 1 \in 1..Len(todo) /\ todo'[k] = todo[k + 1]
          /\ h = todo[1] /\ h \in Ids /\ 1 \in 1..Len(todo)
      BY <2>t, <3>1
    <3>d. DOMAIN todo = 1..Len(todo) /\ DOMAIN todo' = 1..(Len(todo) - 1)
      BY <2>t, <3>2
    <3> HIDE DEF h
    <3>3. \A k, m \in DOMAIN todo' : todo'[k] = todo'[m] => k = m
      <4> SUFFICES ASSUME NEW k \in 1..(Len(todo) - 1), NEW m \in 1..(Len(todo) - 1),
                          todo'[k] = todo'[m]
                   PROVE  k = m
        BY <3>d
      <4>1. k + 1 = m + 1
        BY <3>2, <3>d DEF LateOK
      <4>2. QED BY <3>2, <4>1
    <3>4. \A k \in DOMAIN todo' : todo'[k] # h
      <4> SUFFICES ASSUME NEW k \in 1..(Len(todo) - 1), todo'[k] = h PROVE FALSE
        BY <3>d
      <4>1. k + 1 = 1
        BY <3>2, <3>d DEF LateOK
      <4>2. QED BY <3>2, <4>1
    <3>5. bus = "rs485" /\ ~updating
      BY <3>1 DEF LateOK, ListInv, TypeOK
    <3>6. Listed' = Listed /\ Pending' \subseteq Pending /\ h \in Pending /\ h \notin Pending'
      <4>1. {todo'[k] : k \in DOMAIN todo'} \subseteq {todo[k] : k \in DOMAIN todo}
        BY <3>2, <3>d
      <4>2. h \in {todo[k] : k \in DOMAIN todo} /\ h \notin {todo'[k] : k \in DOMAIN todo'}
        BY <3>2, <3>4, <3>d
      <4>3. QED BY <3>1, <3>5, <4>1, <4>2 DEF Listed, Pending
    <3>7. \/ late' = late
          \/ h \notin Listed /\ late' = [late EXCEPT ![h] = @ + 1]
      BY <2>5 DEF Rs485Read, Rs485ReadFails, Store, h
    <3>8. late[h] = 0
      BY <3>2, <3>6 DEF LateOK
    <3>9. \A i \in Ids : late'[i] <= 1 /\ (i \in Listed' \cup Pending' => late'[i] = 0)
      BY <2>t, <3>2, <3>6, <3>7, <3>8 DEF LateOK
    <3>10. QED BY <3>1, <3>3, <3>5, <3>9 DEF LateOK
  <2>6. CASE CanReceive \/ CanTimeout
    <3>1. UNCHANGED <<bus, ids, todo, late>> /\ bus = "can"
      BY <2>6 DEF CanReceive, CanTimeout
    <3>2. todo = <<>> /\ Listed' = Listed /\ Pending' \subseteq Listed
      <4>1. todo = <<>> /\ todo' = <<>> /\ Listed' = Listed
        BY <3>1 DEF LateOK, Listed
      <4>2. updating' => frame'.id \in Listed
        <5>1. CASE CanReceive
          BY <5>1 DEF CanReceive, Found
        <5>2. CASE CanTimeout
          BY <5>2 DEF CanTimeout, Found
        <5>3. QED BY <2>6, <5>1, <5>2
      <4>3. Pending' = {i \in Ids : updating' /\ frame'.id = i}
        BY <4>1 DEF Pending
      <4>4. QED BY <4>1, <4>2, <4>3
    <3>3. QED BY <3>1, <3>2 DEF LateOK
  <2>7. CASE CanStore
    <3> DEFINE h == frame.id
    <3>1. UNCHANGED <<bus, ids, todo, frame>> /\ updating /\ ~updating'
      BY <2>7 DEF CanStore
    <3>2. h \in Ids /\ bus = "can" /\ todo = <<>>
      BY <3>1 DEF LateOK, ListInv, TypeOK, Frame
    <3>3. Listed' = Listed /\ Pending' = {} /\ h \in Pending
      BY <3>1, <3>2 DEF Listed, Pending
    <3>4. \/ late' = late
          \/ h \notin Listed /\ late' = [late EXCEPT ![h] = @ + 1]
      BY <2>7 DEF CanStore, Store
    <3> HIDE DEF h
    <3>5. \A i \in Ids : late'[i] <= 1 /\ (i \in Listed' \cup Pending' => late'[i] = 0)
      BY <2>t, <3>2, <3>3, <3>4 DEF LateOK
    <3>6. QED BY <3>1, <3>2, <3>5 DEF LateOK
  <2>8. QED
    BY <2>1, <2>2, <2>3, <2>4, <2>5, <2>6, <2>7
       DEF Next, vars, User, BusThread, Rs485AddDevice, Rs485RemoveDevice, CanAddDevice,
           CanRemoveDevice, AppendEntry, EraseEntry
<1>3. ListInv /\ LateOK => OneLateReading
  BY DEF LateOK, OneLateReading
<1>4. QED BY <1>1, <1>2, <1>3, ListInvariant, PTL DEF Spec

-----------------------------------------------------------------------------
(* The number of entries of a device.                                      *)

(* The places of a device are finitely many.                               *)
LEMMA PlacesFinite ==
    ASSUME NEW b \in Seq(Entry), NEW j
    PROVE  LET P == {k \in DOMAIN b : b[k].id = j}
           IN  IsFiniteSet(P) /\ Cardinality(P) \in Nat
<1> DEFINE P == {k \in DOMAIN b : b[k].id = j}
<1>1. Len(b) \in Nat /\ DOMAIN b = 1..Len(b)
  OBVIOUS
<1>2. IsFiniteSet(1..Len(b)) /\ P \in SUBSET (1..Len(b))
  BY <1>1, FS_Interval
<1> HIDE DEF P
<1>3. IsFiniteSet(P)
  BY <1>2, FS_Subset
<1>4. IsFiniteSet(P) /\ Cardinality(P) \in Nat
  BY <1>3, FS_CardinalityType
<1>5. QED BY <1>4 DEF P

(* Appending an entry gives its device one place more, others none.        *)
LEMMA AppendCounts ==
    ASSUME TypeOK, AppendEntry, NEW j
    PROVE  Cardinality(Places(j)') <= Cardinality(Places(j)) + (IF j = uiId THEN 1 ELSE 0)
<1> USE DEF TypeOK
<1>0. IsFiniteSet(Places(j)) /\ Cardinality(Places(j)) \in Nat
  BY PlacesFinite DEF Places
<1>1. CASE Len(buf) < MaxDev
  <2> DEFINE e == [id |-> uiId, val |-> Zero]
             n == Len(buf)
  <2>1. buf' = Append(buf, e) /\ e \in Entry /\ e.id = uiId
    BY <1>1 DEF AppendEntry, Entry
  <2> HIDE DEF e
  <2>2. /\ n \in Nat /\ DOMAIN buf = 1..n /\ DOMAIN buf' = 1..(n + 1)
        /\ \A k \in 1..n : buf'[k] = buf[k]
        /\ buf'[n + 1] = e
    BY <2>1
  <2>3. \A k \in 1..(n + 1) : k \in 1..n \/ k = n + 1
    BY <2>2
  <2>4. CASE j = uiId
    <3>1. Places(j)' = Places(j) \cup {n + 1}
      BY <2>1, <2>2, <2>3, <2>4 DEF Places
    <3>2. Cardinality(Places(j)') = IF n + 1 \in Places(j) THEN Cardinality(Places(j))
                                                            ELSE Cardinality(Places(j)) + 1
      BY <1>0, <3>1, FS_AddElement
    <3>3. QED BY <1>0, <2>4, <3>2
  <2>5. CASE j # uiId
    <3>1. Places(j)' = Places(j)
      BY <2>1, <2>2, <2>3, <2>5 DEF Places
    <3>2. QED BY <1>0, <2>5, <3>1
  <2>6. QED BY <2>4, <2>5
<1>2. CASE ~(Len(buf) < MaxDev)
  <2>1. Places(j)' = Places(j)
    BY <1>2 DEF AppendEntry, Places
  <2>2. QED BY <1>0, <2>1
<1>3. QED BY <1>1, <1>2

(* Erasing an entry takes a place of its device, if it has one, and does   *)
(* not multiply the entry that is moved.                                   *)
LEMMA EraseCounts ==
    ASSUME TypeOK, TypeOK', EraseEntry, NEW j
    PROVE  /\ Cardinality(Places(j)') <= Cardinality(Places(j))
           /\ j = uiId => \/ Cardinality(Places(j)') = 0
                          \/ Cardinality(Places(j)') <= Cardinality(Places(j)) - 1
<1> USE DEF TypeOK
<1>0. IsFiniteSet(Places(j)) /\ Cardinality(Places(j)) \in Nat
  BY PlacesFinite DEF Places
<1>1. CASE Places(uiId) = {}
  <2>1. Places(j)' = Places(j)
    BY <1>1 DEF EraseEntry, Places
  <2>2. QED BY <1>0, <1>1, <2>1, FS_EmptySet
<1>2. CASE Places(uiId) # {}
  <2> DEFINE p == First(Places(uiId))
             n == Len(buf) - 1
             T == Places(j) \ {p}
             f == [m \in Places(j)' |-> IF m = p THEN n + 1 ELSE m]
  <2>1. Places(uiId) \in SUBSET Nat
    BY DEF Places
  <2>2. p \in Places(uiId)
    BY <1>2, <2>1, FirstIsMember
  <2>3. buf' = SwapRemoved(buf, p)
    BY <1>2 DEF EraseEntry
  <2> HIDE DEF p
  <2>4. p \in 1..(n + 1) /\ buf[p].id = uiId /\ DOMAIN buf = 1..(n + 1) /\ n \in Nat
    BY <2>2 DEF Places
  <2>5. /\ DOMAIN buf' = 1..n
        /\ \A m \in 1..n : buf'[m] = IF m = p THEN buf[n + 1] ELSE buf[m]
    BY <2>3, <2>4 DEF SwapRemoved
  <2>6. \A m \in Places(j)' : f[m] \in T
    <3> SUFFICES ASSUME NEW m \in Places(j)'
                 PROVE  (IF m = p THEN n + 1 ELSE m) \in T
      OBVIOUS
    <3>1. m \in 1..n /\ buf'[m].id = j
      BY <2>5 DEF Places
    <3>2. CASE m = p
      <4>1. n + 1 \in 1..(n + 1) /\ n + 1 # p /\ buf[n + 1].id = j
        <5>1. buf'[m] = buf[n + 1]
          BY <2>5, <3>1, <3>2
        <5>2. m # n + 1 /\ n + 1 \in 1..(n + 1)
          <6> HIDE DEF n
          <6>1. QED BY <2>4, <3>1
        <5>3. QED BY <3>1, <3>2, <5>1, <5>2
      <4>2. QED BY <2>4, <3>2, <4>1 DEF Places
    <3>3. CASE m # p
      <4>1. m \in 1..(n + 1) /\ buf[m].id = j
        BY <2>4, <2>5, <3>1, <3>3
      <4>2. QED BY <2>4, <3>3, <4>1 DEF Places
    <3>4. QED BY <3>2, <3>3
  <2>7. \A a, b \in Places(j)' : f[a] = f[b] => a = b
    <3>1. \A m \in Places(j)' : m \in 1..n
      BY <2>5 DEF Places
    <3>2. \A m \in Places(j)' : m # n + 1
      BY <2>4, <3>1
    <3>3. QED BY <3>2
  <2>8. f \in Injection(Places(j)', T)
    BY <2>6, <2>7 DEF Injection, IsInjective
  <2>9. /\ IsFiniteSet(T)
        /\ Cardinality(T) = IF p \in Places(j) THEN Cardinality(Places(j)) - 1
                                               ELSE Cardinality(Places(j))
    BY <1>0, FS_RemoveElement
  <2> HIDE DEF f, T, n
  <2>10. IsFiniteSet(Places(j)') /\ Cardinality(Places(j)') <= Cardinality(T)
    BY <2>8, <2>9, FS_Injection
  <2>11. Cardinality(Places(j)') \in Nat
    BY <2>10, FS_CardinalityType
  <2>12. QED BY <1>0, <2>2, <2>9, <2>10, <2>11
<1>3. QED BY <1>1, <1>2

(* Storing a reading gives its device a place if it has none.              *)
LEMMA StoreCounts ==
    ASSUME TypeOK, NEW i \in Ids, NEW v \in Readings, Store(i, v), NEW j
    PROVE  Places(j)' = Places(j) \/ Cardinality(Places(j)') = 1
<1> USE DEF TypeOK
<1>1. CASE Place(i) <= MaxDev
  <2>1. /\ buf'[Place(i)] = [id |-> i, val |-> v]
        /\ \A k \in DOMAIN buf : buf'[k].id = buf[k].id
        /\ DOMAIN buf' = DOMAIN buf \cup {Place(i)}
    BY <1>1, StoreKeeps
  <2>2. \A k \in DOMAIN buf : k \in Places(j)' <=> k \in Places(j)
    BY <2>1 DEF Places
  <2>3. CASE Places(i) # {}
    <3>1. Places(i) \in SUBSET Nat
      BY DEF Places
    <3>2. Place(i) \in DOMAIN buf
      <4>1. First(Places(i)) \in Places(i)
        BY <2>3, <3>1, FirstIsMember
      <4>2. QED BY <2>3, <4>1 DEF Place, Places
    <3>3. QED BY <2>1, <2>2, <3>2 DEF Places
  <2>4. CASE Places(i) = {}
    <3>1. CASE j = i
      <4>1. Places(j)' = {Place(i)}
        BY <2>1, <2>2, <2>4, <3>1 DEF Places
      <4>2. QED BY <4>1, FS_Singleton
    <3>2. CASE j # i
      <4>1. Place(i) \notin Places(j)'
        BY <2>1, <3>2 DEF Places
      <4>2. QED BY <2>1, <2>2, <4>1 DEF Places
    <3>3. QED BY <3>1, <3>2
  <2>5. QED BY <2>3, <2>4
<1>2. CASE ~(Place(i) <= MaxDev)
  BY <1>2 DEF Store, Places
<1>3. QED BY <1>1, <1>2

(* The entry that the bus thread makes before the user interface has made  *)
(* its own is the only duplicate there ever is: removing the device and    *)
(* adding it again, in any interleaving, does not pile up entries.         *)
THEOREM EntriesBounded == Spec => []AtMostTwice
<1> USE RegistryAssumption DEF thread, history
<1> DEFINE settled(i) == i \in Listed /\ ~(ui = "append" /\ uiId = i)
           leaving(i) == ui = "erase" /\ uiId = i
           twice(i) == settled(i) \/ leaving(i)
           count(i) == Cardinality(Places(i))
<1>0. AtMostTwice <=> \A i \in Ids : count(i) <= IF twice(i) THEN 2 ELSE 1
  BY DEF AtMostTwice
<1>0p. AtMostTwice' <=> \A i \in Ids : count(i)' <= IF twice(i)' THEN 2 ELSE 1
  BY DEF AtMostTwice
<1>1. Init => AtMostTwice
  <2> SUFFICES ASSUME Init PROVE AtMostTwice
    OBVIOUS
  <2>1. \A i \in Ids : Places(i) = {}
    BY DEF Init, Places
  <2>2. \A i \in Ids : count(i) = 0
    BY <2>1, FS_EmptySet
  <2>3. QED BY <1>0, <2>2
<1>2. ListInv /\ ListInv' /\ AtMostTwice /\ [Next]_vars => AtMostTwice'
  <2> SUFFICES ASSUME ListInv, ListInv', AtMostTwice, [Next]_vars, NEW j \in Ids
               PROVE  count(j)' <= IF twice(j)' THEN 2 ELSE 1
    BY <1>0p
  <2>t. TypeOK /\ TypeOK' /\ count(j) \in Nat
    BY PlacesFinite DEF ListInv, TypeOK, Places
  <2>c. count(j) <= IF twice(j) THEN 2 ELSE 1
    BY <1>0
  <2> DEFINE goal == count(j)' <= IF twice(j)' THEN 2 ELSE 1
  <2> HIDE DEF count
  <2>0. ASSUME twice(j) => twice(j)', count(j)' = count(j) PROVE goal
    BY <2>0, <2>c, <2>t
  <2>1. ASSUME NEW i \in Ids, AddToList(i), bus = "rs485" => i \in 1..247 PROVE goal
    <3>1. Listed' = Listed \cup {i} /\ ui = "idle" /\ ui' = "append" /\ uiId' = i
      BY <2>1, AddKeepsList DEF AddToList
    <3>2. i \notin Listed /\ count(j)' = count(j)
      BY <2>1 DEF AddToList, MayAdd, count, Places
    <3>3. QED BY <2>0, <3>1, <3>2
  <2>2. ASSUME NEW i \in Ids, RemoveFromList(i) PROVE goal
    <3>1. Listed' = Listed \ {i} /\ ui = "idle" /\ ui' = "erase" /\ uiId' = i
      BY <2>2, RemoveKeepsList DEF RemoveFromList
    <3>2. count(j)' = count(j)
      BY <2>2 DEF RemoveFromList, count, Places
    <3>3. QED BY <2>0, <3>1, <3>2
  <2>3. CASE AppendEntry
    <3>1. count(j)' <= count(j) + (IF j = uiId THEN 1 ELSE 0)
      BY <2>3, <2>t, AppendCounts DEF count
    <3>2. ui = "append" /\ ui' = "idle" /\ uiId' = uiId /\ Listed' = Listed
      BY <2>3 DEF AppendEntry, Listed
    <3>3. count(j)' \in Nat
      BY <2>t, PlacesFinite DEF count, Places, TypeOK
    <3>4. CASE j = uiId
      <4>1. ~twice(j) /\ twice(j)'
        BY <3>2, <3>4 DEF ListInv, ListOK
      <4>2. QED BY <2>c, <2>t, <3>1, <3>3, <3>4, <4>1
    <3>5. CASE j # uiId
      <4>1. twice(j) <=> twice(j)'
        BY <3>2, <3>5
      <4>2. QED BY <2>c, <2>t, <3>1, <3>3, <3>5, <4>1
    <3>6. QED BY <3>4, <3>5
  <2>4. CASE EraseEntry
    <3>1. /\ count(j)' <= count(j)
          /\ j = uiId => count(j)' = 0 \/ count(j)' <= count(j) - 1
      BY <2>4, <2>t, EraseCounts DEF count
    <3>2. ui = "erase" /\ ui' = "idle" /\ uiId' = uiId /\ Listed' = Listed
      BY <2>4 DEF EraseEntry, Listed
    <3>3. count(j)' \in Nat
      BY <2>t, PlacesFinite DEF count, Places, TypeOK
    <3>4. CASE j = uiId
      <4>1. count(j) <= 2
        BY <2>c, <2>t
      <4>2. count(j)' <= 1
        BY <2>t, <3>1, <3>3, <3>4, <4>1
      <4>3. QED BY <3>3, <4>2
    <3>5. CASE j # uiId
      <4>1. twice(j) <=> twice(j)'
        BY <3>2, <3>5
      <4>2. QED BY <2>c, <2>t, <3>1, <3>3, <4>1
    <3>6. QED BY <3>4, <3>5
  <2>5. CASE UNCHANGED <<ids, buf, ui, uiId>>
    <3>1. (twice(j) <=> twice(j)') /\ count(j)' = count(j)
      BY <2>5 DEF Listed, count, Places
    <3>2. QED BY <2>0, <3>1
  <2>6. ASSUME NEW i \in Ids, NEW v \in Readings, Store(i, v), UNCHANGED <<ids, ui, uiId>>
        PROVE  goal
    <3>1. Places(j)' = Places(j) \/ count(j)' = 1
      BY <2>6, <2>t, StoreCounts DEF count
    <3>2. twice(j) <=> twice(j)'
      BY <2>6 DEF Listed
    <3>3. CASE Places(j)' = Places(j)
      BY <2>0, <3>2, <3>3 DEF count
    <3>4. CASE count(j)' = 1
      BY <3>4
    <3>5. QED BY <3>1, <3>3, <3>4
  <2>7. CASE Rs485Read
    <3>1. Head(todo) \in Ids
      BY <2>7 DEF Rs485Read, ListInv, TypeOK
    <3>2. QED BY <2>6, <2>7, <3>1 DEF Rs485Read
  <2>8. CASE CanStore
    <3>1. frame.id \in Ids /\ frame.val \in Readings
      BY <2>8 DEF CanStore, ListInv, TypeOK, Frame
    <3>2. QED BY <2>6, <2>8, <3>1 DEF CanStore
  <2>9. goal
    <3>1. CASE Rs485AddDevice \/ CanAddDevice
      BY <2>1, <2>3, <3>1 DEF Rs485AddDevice, CanAddDevice
    <3>2. CASE Rs485RemoveDevice \/ CanRemoveDevice
      BY <2>2, <2>4, <3>2 DEF Rs485RemoveDevice, CanRemoveDevice
    <3>3. CASE Rs485Copy \/ Rs485ReadFails \/ CanReceive \/ CanTimeout \/ UNCHANGED vars
      BY <2>5, <3>3 DEF vars, Rs485Copy, Rs485ReadFails, CanReceive, CanTimeout
    <3>4. QED BY <2>7, <2>8, <3>1, <3>2, <3>3 DEF Next, User, BusThread
  <2>10. QED BY <2>9
<1>3. QED BY <1>1, <1>2, ListInvariant, PTL DEF Spec

-----------------------------------------------------------------------------
(* A buffer with room for two entries of every device.                     *)

(* A set with a new member has one more.                                   *)
LEMMA OneMore ==
    ASSUME NEW S, IsFiniteSet(S), NEW x, x \notin S, NEW n \in Nat, Cardinality(S) = n
    PROVE  IsFiniteSet(S \cup {x}) /\ Cardinality(S \cup {x}) = n + 1
<1>1. /\ IsFiniteSet(S \cup {x})
      /\ Cardinality(S \cup {x}) = IF x \in S THEN Cardinality(S) ELSE Cardinality(S) + 1
  BY FS_AddElement, Zenon
<1>2. QED BY <1>1

(* Two different members are one too many for a set of one.                *)
LEMMA TwoMembers ==
    ASSUME NEW S, IsFiniteSet(S), NEW x \in S, NEW y \in S, x # y
    PROVE  /\ Cardinality(S) >= 2
           /\ IsFiniteSet({x, y}) /\ Cardinality({x, y}) = 2
<1>1. IsFiniteSet({x}) /\ Cardinality({x}) = 1 /\ y \notin {x}
  BY FS_Singleton
<1>2. IsFiniteSet({x} \cup {y}) /\ Cardinality({x} \cup {y}) = 1 + 1
  BY <1>1, OneMore, Zenon, 1 \in Nat
<1>3. {x, y} = {x} \cup {y} /\ {x, y} \in SUBSET S
  OBVIOUS
<1>4. IsFiniteSet({x, y}) /\ Cardinality({x, y}) = 2
  BY <1>2, <1>3
<1>5. Cardinality({x, y}) <= Cardinality(S)
  BY <1>3, FS_Subset
<1>6. Cardinality(S) \in Nat
  BY FS_CardinalityType
<1>7. QED BY <1>4, <1>5, <1>6

(* Three different members are one too many for a set of two.              *)
LEMMA ThreeMembers ==
    ASSUME NEW S, IsFiniteSet(S), NEW x \in S, NEW y \in S, NEW z \in S,
           x # y, x # z, y # z
    PROVE  Cardinality(S) >= 3
<1> DEFINE P == {x, y}
<1>1. IsFiniteSet(P) /\ Cardinality(P) = 2
  BY TwoMembers
<1>2. z \notin P /\ P \cup {z} \in SUBSET S
  OBVIOUS
<1> HIDE DEF P
<1>3. Cardinality(P \cup {z}) = 2 + 1
  BY <1>1, <1>2, OneMore, Zenon, 2 \in Nat
<1>4. Cardinality(P \cup {z}) <= Cardinality(S)
  BY <1>2, FS_Subset
<1>5. Cardinality(S) \in Nat
  BY FS_CardinalityType
<1>6. QED BY <1>3, <1>4, <1>5

(* When an entry is about to be appended, the device has one at most and   *)
(* the others two: numbering the entries of each device one and two shows  *)
(* that there are fewer than twice as many as devices.                     *)
LEMMA RoomToAppend ==
    ASSUME ListInv, AtMostTwice, ui = "append"
    PROVE  Len(buf) < 2 * Cardinality(Ids)
<1> DEFINE n == Len(buf)
           nth(k) == IF k = First(Places(buf[k].id)) THEN 1 ELSE 2
           T == Ids \X {1, 2}
           last == <<uiId, 2>>
           f == [k \in 1..n |-> <<buf[k].id, nth(k)>>]
<1>1. /\ n \in Nat /\ DOMAIN buf = 1..n /\ uiId \in Ids
      /\ \A k \in 1..n : buf[k] \in Entry
  <2>1. buf \in Seq(Entry) /\ uiId \in Ids
    BY DEF ListInv, TypeOK
  <2>2. QED BY <2>1
<1>2. \A k \in 1..n : buf[k].id \in Ids /\ k \in Places(buf[k].id)
  BY <1>1 DEF Entry, Places
<1>3. \A i : /\ IsFiniteSet(Places(i)) /\ Cardinality(Places(i)) \in Nat
             /\ Places(i) \in SUBSET Nat
  <2>1. buf \in Seq(Entry)
    BY DEF ListInv, TypeOK
  <2>2. \A i : LET P == {k \in DOMAIN buf : buf[k].id = i}
               IN  IsFiniteSet(P) /\ Cardinality(P) \in Nat
    BY <2>1, PlacesFinite
  <2>3. \A i : Places(i) = {k \in DOMAIN buf : buf[k].id = i} /\ Places(i) \in SUBSET Nat
    BY <1>1 DEF Places
  <2>4. QED BY <2>2, <2>3, Zenon
<1>4. \A i \in Ids : Cardinality(Places(i)) <= 2
  BY <1>3 DEF AtMostTwice
<1>5. Cardinality(Places(uiId)) <= 1
  BY <1>1 DEF AtMostTwice
<1>6. \A k \in 1..n : f[k] \in T \ {last}
  <2> SUFFICES ASSUME NEW k \in 1..n, buf[k].id = uiId PROVE nth(k) = 1
    BY <1>2
  <2> SUFFICES ASSUME k # First(Places(uiId)) PROVE FALSE
    OBVIOUS
  <2>1. k \in Places(uiId)
    BY <1>2
  <2>2. First(Places(uiId)) \in Places(uiId)
    BY <1>3, <2>1, FirstIsMember
  <2>3. Cardinality(Places(uiId)) >= 2
    BY <1>3, <2>1, <2>2, TwoMembers
  <2>4. QED BY <1>3, <1>5, <2>3
<1>7. ASSUME NEW k \in 1..n, NEW m \in 1..n, f[k] = f[m] PROVE k = m
  <2>1. buf[m].id = buf[k].id /\ nth(k) = nth(m)
    BY <1>7
  <2>2. k \in Places(buf[k].id) /\ m \in Places(buf[k].id) /\ buf[k].id \in Ids
    BY <1>2, <2>1
  <2> DEFINE first == First(Places(buf[k].id))
  <2>3. first \in Places(buf[k].id)
    BY <1>3, <2>2, FirstIsMember
  <2>4. CASE k = first \/ m = first
    BY <2>1, <2>4
  <2>5. CASE k # first /\ m # first
    <3> SUFFICES ASSUME k # m PROVE FALSE
      OBVIOUS
    <3> HIDE DEF first
    <3>1. Cardinality(Places(buf[k].id)) >= 3
      BY <1>3, <2>2, <2>3, <2>5, ThreeMembers
    <3>2. QED BY <1>3, <1>4, <2>2, <3>1
  <2>6. QED BY <2>4, <2>5
<1>8. f \in Injection(1..n, T \ {last})
  BY <1>6, <1>7 DEF Injection, IsInjective
<1>9. IsFiniteSet(T) /\ Cardinality(T) = Cardinality(Ids) * 2 /\ last \in T
  <2>1. IsFiniteSet({1, 2}) /\ Cardinality({1, 2}) = 2
    <3>1. IsFiniteSet({1}) /\ Cardinality({1}) = 1
      BY FS_Singleton
    <3>2. {1, 2} = {1} \cup {2} /\ 2 \notin {1}
      OBVIOUS
    <3>3. QED BY <3>1, <3>2, FS_AddElement
  <2>2. QED BY <1>1, <2>1, RegistryAssumption, FS_Product
<1>10. /\ IsFiniteSet(T \ {last}) /\ Cardinality(T \ {last}) = Cardinality(T) - 1
  BY <1>9, FS_RemoveElement
<1>11. Cardinality(1..n) <= Cardinality(T \ {last})
  <2> HIDE DEF f, T, last
  <2>1. QED BY <1>8, <1>10, FS_Injection
<1>12. Cardinality(1..n) = n
  BY <1>1, FS_Interval
<1>13. Cardinality(Ids) \in Nat
  BY RegistryAssumption, FS_CardinalityType
<1> HIDE DEF n, T, last
<1>14. QED BY <1>1, <1>9, <1>10, <1>11, <1>12, <1>13 DEF n

(* What the comments at main.c:491 and 561 ask for holds as long as no     *)
(* more than half as many different ids are ever used as the buffer has    *)
(* entries: no device finds the buffer full, so that every registered one  *)
(* has an entry, but for the one whose entry is still to be appended.      *)
THEOREM NobodyCrowdedOut ==
    ASSUME 2 * Cardinality(Ids) <= MaxDev
    PROVE  Spec => [](/\ crowded = {}
                      /\ \A i \in Listed : (ui = "append" /\ uiId = i) \/ Places(i) # {})
<1> DEFINE Fits == crowded = {}
           Present == \A i \in Listed : (ui = "append" /\ uiId = i) \/ Places(i) # {}
<1>1. Init => Fits
  BY DEF Init
<1>2. ListInv /\ AtMostTwice /\ Fits /\ [Next]_vars => Fits'
  <2> SUFFICES ASSUME ListInv, AtMostTwice, Fits, [Next]_vars PROVE Fits'
    OBVIOUS
  <2>1. CASE AppendEntry
    <3>1. Len(buf) < 2 * Cardinality(Ids)
      BY <2>1, RoomToAppend DEF AppendEntry
    <3>2. Len(buf) \in Nat /\ Cardinality(Ids) \in Nat
      BY RegistryAssumption, FS_CardinalityType DEF ListInv, TypeOK
    <3>3. Len(buf) < MaxDev
      BY <3>1, <3>2, RegistryAssumption
    <3>4. QED BY <2>1, <3>3 DEF AppendEntry
  <2>2. CASE UNCHANGED crowded
    BY <2>2
  <2>3. AppendEntry \/ UNCHANGED crowded
    BY DEF Next, vars, history, User, BusThread, Rs485AddDevice, Rs485RemoveDevice,
           CanAddDevice, CanRemoveDevice, AddToList, RemoveFromList, EraseEntry, Rs485Copy,
           Rs485Read, Rs485ReadFails, CanReceive, CanTimeout, CanStore
  <2>4. QED BY <2>1, <2>2, <2>3
<1>3. MissingOnlyWhenCrowded /\ Fits => Present
  BY DEF MissingOnlyWhenCrowded
<1>4. QED BY <1>1, <1>2, <1>3, ListInvariant, EntriesBounded, EntryCorrect, PTL DEF Spec

-----------------------------------------------------------------------------
(* Where an entry that nothing removes any more comes from.                *)
LeftBehind(i) == Places(i) # {} /\ i \notin Listed /\ ~(ui = "erase" /\ uiId = i)

LeftOnlyBy ==
    \A i \in Ids : LeftBehind(i)' =>
        \/ LeftBehind(i)
        \/ ui = "erase" /\ uiId = i /\ Cardinality(Places(i)) = 2
        \/ late'[i] = late[i] + 1

(* Storing a reading of another device leaves the places as they are; an   *)
(* entry of a device that is not registered is noted as a late one.        *)
LEMMA StoreLeaves ==
    ASSUME TypeOK, NEW i \in Ids, NEW v \in Readings, Store(i, v), NEW j \in Ids
    PROVE  \/ Places(j)' = Places(j)
           \/ i = j /\ (j \notin Listed => late'[j] = late[j] + 1)
<1> USE DEF TypeOK
<1>1. CASE Place(i) <= MaxDev
  <2>1. /\ buf'[Place(i)] = [id |-> i, val |-> v]
        /\ \A k \in DOMAIN buf : buf'[k].id = buf[k].id
        /\ DOMAIN buf' = DOMAIN buf \cup {Place(i)}
    BY <1>1, StoreKeeps
  <2>2. CASE j # i
    <3>1. Place(i) \notin Places(j)'
      BY <2>1, <2>2 DEF Places
    <3>2. \A k \in DOMAIN buf : k \in Places(j)' <=> k \in Places(j)
      BY <2>1 DEF Places
    <3>3. QED BY <2>1, <3>1, <3>2 DEF Places
  <2>3. CASE j = i
    <3>1. j \notin Listed => late' = [late EXCEPT ![j] = @ + 1]
      BY <1>1, <2>3 DEF Store
    <3>2. QED BY <2>3, <3>1
  <2>4. QED BY <2>2, <2>3
<1>2. CASE ~(Place(i) <= MaxDev)
  BY <1>2 DEF Store, Places
<1>3. QED BY <1>1, <1>2

(* What the comment at main.c:592 promises fails in two ways only: the     *)
(* removal finds two entries and takes one, or the bus thread, which had   *)
(* looked the device up before, stores one more reading.  In every other   *)
(* step a removed device without an entry stays without one.               *)
THEOREM LeftBehindExplained == Spec => [][LeftOnlyBy]_vars
<1> USE RegistryAssumption DEF thread, history
<1>1. ListInv /\ ListInv' /\ AtMostTwice /\ [Next]_vars => [LeftOnlyBy]_vars
  <2> SUFFICES ASSUME ListInv, ListInv', AtMostTwice, Next, NEW j \in Ids, LeftBehind(j)'
               PROVE  \/ LeftBehind(j)
                      \/ ui = "erase" /\ uiId = j /\ Cardinality(Places(j)) = 2
                      \/ late'[j] = late[j] + 1
    BY DEF LeftOnlyBy
  <2> DEFINE goal == \/ LeftBehind(j)
                     \/ ui = "erase" /\ uiId = j /\ Cardinality(Places(j)) = 2
                     \/ late'[j] = late[j] + 1
  <2>t. /\ TypeOK /\ TypeOK' /\ IsFiniteSet(Places(j)) /\ Cardinality(Places(j)) \in Nat
        /\ IsFiniteSet(Places(j)') /\ Cardinality(Places(j)') \in Nat
    <3>1. TypeOK /\ TypeOK' /\ buf \in Seq(Entry) /\ buf' \in Seq(Entry)
      BY DEF ListInv, TypeOK
    <3>2. QED BY <3>1, PlacesFinite DEF Places
  <2>e. /\ Cardinality(Places(j)) = 0 <=> Places(j) = {}
        /\ Cardinality(Places(j)') = 0 <=> Places(j)' = {}
    BY <2>t, FS_EmptySet
  <2>l. Places(j)' # {} /\ j \notin Listed' /\ ~(ui' = "erase" /\ uiId' = j)
    BY DEF LeftBehind
  <2>1. ASSUME NEW i \in Ids, AddToList(i), bus = "rs485" => i \in 1..247 PROVE goal
    <3>1. Listed' = Listed \cup {i} /\ ui = "idle"
      BY <2>1, AddKeepsList DEF AddToList
    <3>2. Places(j)' = Places(j)
      BY <2>1 DEF AddToList, Places
    <3>3. QED BY <2>l, <3>1, <3>2 DEF LeftBehind
  <2>2. ASSUME NEW i \in Ids, RemoveFromList(i) PROVE goal
    <3>1. Listed' = Listed \ {i} /\ ui = "idle" /\ ui' = "erase" /\ uiId' = i
      BY <2>2, RemoveKeepsList DEF RemoveFromList
    <3>2. Places(j)' = Places(j)
      BY <2>2 DEF RemoveFromList, Places
    <3>3. QED BY <2>l, <3>1, <3>2 DEF LeftBehind
  <2>3. CASE AppendEntry
    <3>1. ui = "append" /\ Listed' = Listed
      BY <2>3 DEF AppendEntry, Listed
    <3>2. j # uiId
      BY <2>l, <3>1 DEF ListInv, ListOK
    <3>3. Cardinality(Places(j)') <= Cardinality(Places(j))
      BY <2>3, <2>t, <3>2, AppendCounts
    <3>4. Places(j) # {}
      BY <2>t, <2>e, <2>l, <3>3
    <3>5. QED BY <2>l, <3>1, <3>4 DEF LeftBehind
  <2>4. CASE EraseEntry
    <3>1. /\ Cardinality(Places(j)') <= Cardinality(Places(j))
          /\ j = uiId => \/ Cardinality(Places(j)') = 0
                         \/ Cardinality(Places(j)') <= Cardinality(Places(j)) - 1
      BY <2>4, <2>t, EraseCounts
    <3>2. ui = "erase" /\ Listed' = Listed
      BY <2>4 DEF EraseEntry, Listed
    <3>3. CASE j = uiId
      <4>1. Cardinality(Places(j)) <= 2
        BY <2>t, <3>2, <3>3 DEF AtMostTwice
      <4>2. Cardinality(Places(j)) = 2
        BY <2>t, <2>e, <2>l, <3>1, <3>3, <4>1
      <4>3. QED BY <3>2, <3>3, <4>2
    <3>4. CASE j # uiId
      <4>1. Places(j) # {}
        BY <2>t, <2>e, <2>l, <3>1
      <4>2. QED BY <2>l, <3>2, <3>4, <4>1 DEF LeftBehind
    <3>5. QED BY <3>3, <3>4
  <2>5. CASE UNCHANGED <<ids, buf, ui, uiId>>
    BY <2>5, <2>l DEF LeftBehind, Listed, Places
  <2>6. ASSUME NEW i \in Ids, NEW v \in Readings, Store(i, v), UNCHANGED <<ids, ui, uiId>>
        PROVE  goal
    <3>1. Listed' = Listed
      BY <2>6 DEF Listed
    <3>2. CASE Places(j)' = Places(j)
      BY <2>6, <2>l, <3>1, <3>2 DEF LeftBehind
    <3>3. CASE j \notin Listed => late'[j] = late[j] + 1
      BY <2>l, <3>1, <3>3
    <3>4. QED BY <2>6, <2>t, <3>2, <3>3, StoreLeaves
  <2>7. CASE Rs485Read
    <3>1. Head(todo) \in Ids
      BY <2>7 DEF Rs485Read, ListInv, TypeOK
    <3>2. QED BY <2>6, <2>7, <3>1 DEF Rs485Read
  <2>8. CASE CanStore
    <3>1. frame.id \in Ids /\ frame.val \in Readings
      BY <2>8 DEF CanStore, ListInv, TypeOK, Frame
    <3>2. QED BY <2>6, <2>8, <3>1 DEF CanStore
  <2>9. goal
    <3>1. CASE Rs485AddDevice \/ CanAddDevice
      BY <2>1, <2>3, <3>1 DEF Rs485AddDevice, CanAddDevice
    <3>2. CASE Rs485RemoveDevice \/ CanRemoveDevice
      BY <2>2, <2>4, <3>2 DEF Rs485RemoveDevice, CanRemoveDevice
    <3>3. CASE Rs485Copy \/ Rs485ReadFails \/ CanReceive \/ CanTimeout
      BY <2>5, <3>3 DEF Rs485Copy, Rs485ReadFails, CanReceive, CanTimeout
    <3>4. QED BY <2>7, <2>8, <3>1, <3>2, <3>3 DEF Next, User, BusThread
  <2>10. QED BY <2>9
<1>2. QED BY <1>1, ListInvariant, EntriesBounded, PTL DEF Spec
=============================================================================
