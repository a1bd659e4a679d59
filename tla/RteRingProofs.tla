--------------------------- MODULE RteRingProofs ---------------------------
(***************************************************************************)
(* Proofs about RteRing, for every ring size, every index width, every set *)
(* of producers and consumers and all four combinations of the             *)
(* single-producer and single-consumer flags, in three parts: the indices  *)
(* stay in order and ranges apart (IInv, and what follows from it alone),  *)
(* the ring implements BoundedFifo (Contents), and what the queries of     *)
(* RingQuery answer can be relied on (Promises).                           *)
(***************************************************************************)
EXTENDS RingQuery, TLAPS

(* Wrapping sums and differences of indices are indices. *)
LEMMA WrapType ==
  \A a, b \in Index : Plus(a, b) \in Index /\ Minus(a, b) \in Index
  BY SizeAssumption DEF Index, Plus, Minus

(* Moving an index forward by k lengthens the way to it by k, as long as    *)
(* the way does not come full circle.                                       *)
LEMMA Advance ==
  ASSUME NEW a \in Index, NEW b \in Index, NEW k \in Index,
         Dist(a, b) + k < IndexMod
  PROVE  Dist(a, Plus(b, k)) = Dist(a, b) + k
  BY SizeAssumption DEF Index, Plus, Minus, Dist

(* Moving the start forward by k shortens the way by k. *)
LEMMA Shorten ==
  ASSUME NEW a \in Index, NEW b \in Index, NEW k \in Index,
         k <= Dist(a, b)
  PROVE  Dist(Plus(a, k), b) = Dist(a, b) - k
  BY SizeAssumption DEF Index, Plus, Minus, Dist

(* The slot of an index is an index of the table. *)
LEMMA SlotType ==
  \A a \in Index : Slot(a) \in 0 .. Mask
  BY SizeAssumption DEF Index, Slot, Mask

(* The way from one index to another is a value an index can have, ... *)
LEMMA DistType ==
  \A a, b \in Index : Dist(a, b) \in Index
  BY WrapType DEF Dist

(* ... so a natural number, ... *)
LEMMA DistNat ==
  \A a, b \in Index : Dist(a, b) \in Nat
  BY DistType DEF Index

(* ... and 0 only from an index to itself. *)
LEMMA DistZero ==
  \A a, b \in Index : Dist(a, a) = 0 /\ (Dist(a, b) = 0 => a = b)
  BY SizeAssumption DEF Index, Minus, Dist

(* Two ways laid end to end, when they do not come full circle. *)
LEMMA Chain ==
  ASSUME NEW a \in Index, NEW b \in Index, NEW c \in Index,
         Dist(a, b) + Dist(b, c) < IndexMod
  PROVE  Dist(a, c) = Dist(a, b) + Dist(b, c)
  BY SizeAssumption DEF Index, Minus, Dist

(* While a thread copies, its loop counter is an index, and a producer's    *)
(* stays within the caller's table.                                         *)
LEMMA CopyBounds ==
  ASSUME TypeOK, Counters
  PROVE  /\ \A t \in Threads : pc[t] = "reserve" \/ Holding(t) => n[t] \in Index
         /\ \A t \in Threads : pc[t] = "copy" => i[t] \in Index /\ i[t] < n[t]
         /\ \A p \in Producers : pc[p] = "copy" => i[p] + 1 \in 1 .. Len(obj_table[p])
<1>1. \A t \in Threads : pc[t] = "reserve" \/ Holding(t)
         => n[t] \in Index /\ n[t] \in 1 .. max[t]
  BY DEF Counters
<1>2. \A t \in Threads : pc[t] = "copy" => i[t] \in Index /\ i[t] < n[t]
  <2> SUFFICES ASSUME NEW t \in Threads, pc[t] = "copy"
               PROVE  i[t] \in Index /\ i[t] < n[t]
    OBVIOUS
  <2>1. i[t] < n[t] /\ i[t] \in Nat /\ n[t] \in Index
    BY <1>1 DEF Counters, TypeOK, Holding
  <2> QED
    BY <2>1, SizeAssumption DEF Index
<1>3. ASSUME NEW p \in Producers, pc[p] = "copy"
      PROVE  i[p] + 1 \in 1 .. Len(obj_table[p])
  <2>1. p \in Threads
    BY DEF Threads
  <2>2. /\ i[p] < n[p] /\ n[p] \in 1 .. max[p] /\ Len(obj_table[p]) = max[p]
        /\ i[p] \in Nat /\ max[p] \in Nat
    BY <2>1, <1>3, <1>1 DEF Counters, TypeOK, Holding
  <2> QED
    BY <2>2
<1> QED
  BY <1>1, <1>2, <1>3

(* The flags are given only to a ring with one thread on that side.         *)
LEMMA Flags == (SpEnqueue => Lone(Producers)) /\ (ScDequeue => Lone(Consumers))
  BY SingleProducer, SingleConsumer DEF Lone

-----------------------------------------------------------------------------
(* Every action keeps the types.  The only typing that needs more than the  *)
(* types themselves is the copy of an object: the loop counter stays within *)
(* the caller's table.                                                      *)
LEMMA TypeStep == IInv /\ [Next]_vars => TypeOK'
<1> SUFFICES ASSUME IInv, [Next]_vars PROVE TypeOK'
  OBVIOUS
<1> USE SizeAssumption, RequestsAssumption, BehaviorsAssumption, WrapType
<1>t. TypeOK /\ Counters
  BY DEF IInv
<1>0. /\ Producers \subseteq Threads /\ Consumers \subseteq Threads
      /\ Mask \in Index /\ 0 \in Index /\ 0 \in 0 .. MaxDrift
  BY DEF Threads, Mask, Index, MaxDrift
<1>c. /\ \A t \in Threads : pc[t] = "reserve" \/ Holding(t) => n[t] \in Index
      /\ \A t \in Threads : pc[t] = "copy" => i[t] \in Index /\ i[t] < n[t]
      /\ \A p \in Producers : pc[p] = "copy" => i[p] + 1 \in 1 .. Len(obj_table[p])
  BY <1>t, CopyBounds
<1>1. ASSUME NEW p \in Producers, EnqueueCall(p) PROVE TypeOK'
  <2>1. PICK k \in Requests, b \in Behaviors :
           /\ max' = [max EXCEPT ![p] = k]
           /\ behavior' = [behavior EXCEPT ![p] = b]
           /\ obj_table' \in {[obj_table EXCEPT ![p] = s] : s \in [1 .. k -> Items]}
           /\ LoadProdHead(p, k)
    BY <1>1 DEF EnqueueCall
  <2>2. PICK s \in [1 .. k -> Items] : obj_table' = [obj_table EXCEPT ![p] = s]
    BY <2>1
  <2>3. s \in Seq(Items \cup {NoItem})
    OBVIOUS
  <2>4. obj_table' \in [Threads -> Seq(Items \cup {NoItem})]
    BY <2>2, <2>3, <1>t, <1>0 DEF TypeOK
  <2> QED
    BY <2>1, <2>4, <1>t, <1>0 DEF LoadProdHead, TypeOK, PCs, index
<1>2. ASSUME NEW p \in Producers, EnqueueAgain(p) PROVE TypeOK'
  BY <1>2, <1>t, <1>0 DEF EnqueueAgain, LoadProdHead, TypeOK, PCs, index, call, local
<1>3. ASSUME NEW p \in Producers, EnqueueAdmitted(p) PROVE TypeOK'
  <2>1. FreeEntries(head[p]) \in Index
    BY <1>t, <1>0 DEF FreeEntries, TypeOK
  <2>2. FreeEntries(head[p]) \in Nat
    BY <2>1 DEF Index
  <2>3. n' = n \/ n' = [n EXCEPT ![p] = FreeEntries(head[p])]
    BY <1>3 DEF EnqueueAdmitted
  <2>4. n' \in [Threads -> Nat]
    BY <2>2, <2>3, <1>t, <1>0 DEF TypeOK
  <2> QED
    BY <2>1, <2>4, <1>3, <1>t, <1>0 DEF EnqueueAdmitted, TypeOK, PCs, index, call
<1>4. ASSUME NEW p \in Producers, EnqueueRefused(p) PROVE TypeOK'
  BY <1>4, <1>t, <1>0 DEF EnqueueRefused, Finish, TypeOK, PCs, index, call, local
<1>5. ASSUME NEW p \in Producers, ReserveSlots(p) PROVE TypeOK'
  <2>1. drift' \in [Threads -> 0 .. MaxDrift]
    <3>1. n[p] \in Nat /\ \A u \in Threads : drift[u] \in 0 .. MaxDrift /\ drift[u] \in Nat
      BY <1>5, <1>t, <1>c, <1>0 DEF ReserveSlots, TypeOK, Index, MaxDrift
    <3>2. \A u \in Producers \ {p} : Racing(u) => drift[u] + n[p] \in 0 .. MaxDrift
      BY <3>1, <1>5, <1>0 DEF ReserveSlots, Overtake, MaxDrift
    <3> QED
      BY <3>1, <3>2, <1>5, <1>0 DEF ReserveSlots, Overtake
  <2>2. prod_head' \in Index
    BY <1>5, <1>t, <1>0, <1>c DEF ReserveSlots, TypeOK
  <2> QED
    BY <2>1, <2>2, <1>5, <1>t, <1>0 DEF ReserveSlots, TypeOK, PCs, call, local
<1>6. ASSUME NEW p \in Producers, ReserveSlotsFails(p) PROVE TypeOK'
  BY <1>6, <1>t, <1>0 DEF ReserveSlotsFails, ForgetSnapshot, TypeOK, PCs, index, call, local
<1>7. ASSUME NEW p \in Producers, WriteEntry(p) PROVE TypeOK'
  <2>1. obj_table[p][i[p] + 1] \in Items \cup {NoItem}
    <3>1. i[p] + 1 \in 1 .. Len(obj_table[p]) /\ obj_table[p] \in Seq(Items \cup {NoItem})
      BY <1>7, <1>t, <1>0, <1>c DEF WriteEntry, TypeOK
    <3> QED
      BY <3>1
  <2>2. i' \in [Threads -> Nat]
    BY <1>7, <1>t, <1>0 DEF WriteEntry, TypeOK
  <2>3. slots' \in [0 .. Mask -> Items \cup {NoItem}]
    BY <2>1, <1>7, <1>t DEF WriteEntry, TypeOK
  <2> QED
    BY <2>2, <2>3, <1>7, <1>t, <1>0 DEF WriteEntry, TypeOK, PCs, index, call
<1>8. ASSUME NEW p \in Producers, CheckWatermark(p) PROVE TypeOK'
  BY <1>8, <1>t, <1>0 DEF CheckWatermark, TypeOK, PCs, index, call, local
<1>9. ASSUME NEW p \in Producers, PublishEntries(p) PROVE TypeOK'
  BY <1>9, <1>c, <1>t, <1>0 DEF PublishEntries, Holding, Finish, TypeOK, PCs, index, call, local
<1>10. ASSUME NEW c \in Consumers, DequeueCall(c) PROVE TypeOK'
  BY <1>10, <1>t, <1>0 DEF DequeueCall, LoadConsHead, TypeOK, PCs, index, call, local
<1>11. ASSUME NEW c \in Consumers, DequeueAgain(c) PROVE TypeOK'
  BY <1>11, <1>t, <1>0 DEF DequeueAgain, LoadConsHead, TypeOK, PCs, index, call, local
<1>12. ASSUME NEW c \in Consumers, DequeueAdmitted(c) PROVE TypeOK'
  <2>1. Entries(head[c]) \in Index
    BY <1>t, <1>0 DEF Entries, TypeOK
  <2>2. Entries(head[c]) \in Nat
    BY <2>1 DEF Index
  <2>3. n' = n \/ n' = [n EXCEPT ![c] = Entries(head[c])]
    BY <1>12 DEF DequeueAdmitted
  <2>4. n' \in [Threads -> Nat]
    BY <2>2, <2>3, <1>t, <1>0 DEF TypeOK
  <2> QED
    BY <2>1, <2>4, <1>12, <1>t, <1>0 DEF DequeueAdmitted, TypeOK, PCs, index, call
<1>13. ASSUME NEW c \in Consumers, DequeueRefused(c) PROVE TypeOK'
  BY <1>13, <1>t, <1>0 DEF DequeueRefused, Finish, TypeOK, PCs, index, call, local
<1>14. ASSUME NEW c \in Consumers, ReserveEntries(c) PROVE TypeOK'
  <2>1. drift' \in [Threads -> 0 .. MaxDrift]
    <3>1. n[c] \in Nat /\ \A u \in Threads : drift[u] \in 0 .. MaxDrift /\ drift[u] \in Nat
      BY <1>14, <1>t, <1>c, <1>0 DEF ReserveEntries, TypeOK, Index, MaxDrift
    <3>2. \A u \in Consumers \ {c} : Racing(u) => drift[u] + n[c] \in 0 .. MaxDrift
      BY <3>1, <1>14, <1>0 DEF ReserveEntries, Overtake, MaxDrift
    <3> QED
      BY <3>1, <3>2, <1>14, <1>0 DEF ReserveEntries, Overtake
  <2>2. cons_head' \in Index
    BY <1>14, <1>t, <1>0, <1>c DEF ReserveEntries, TypeOK
  <2> QED
    BY <2>1, <2>2, <1>14, <1>t, <1>0 DEF ReserveEntries, TypeOK, PCs, call, local
<1>15. ASSUME NEW c \in Consumers, ReserveEntriesFails(c) PROVE TypeOK'
  BY <1>15, <1>t, <1>0 DEF ReserveEntriesFails, ForgetSnapshot, TypeOK, PCs, index, call, local
<1>16. ASSUME NEW c \in Consumers, ReadEntry(c) PROVE TypeOK'
  <2>1. Slot(Plus(head[c], i[c])) \in 0 .. Mask
    <3>1. Plus(head[c], i[c]) \in Index
      BY <1>16, <1>t, <1>0, <1>c DEF ReadEntry, TypeOK
    <3> QED
      BY <3>1, SlotType
  <2>2. i' \in [Threads -> Nat]
    BY <1>16, <1>t, <1>0 DEF ReadEntry, TypeOK
  <2>3. obj_table' \in [Threads -> Seq(Items \cup {NoItem})]
    <3>1. slots[Slot(Plus(head[c], i[c]))] \in Items \cup {NoItem}
      BY <2>1, <1>t DEF TypeOK
    <3>2. Append(obj_table[c], slots[Slot(Plus(head[c], i[c]))]) \in Seq(Items \cup {NoItem})
      BY <3>1, <1>t, <1>0 DEF TypeOK
    <3> QED
      BY <3>2, <1>16, <1>t, <1>0 DEF ReadEntry, TypeOK
  <2> QED
    BY <2>2, <2>3, <1>16, <1>t, <1>0 DEF ReadEntry, TypeOK, PCs, index, call
<1>17. ASSUME NEW c \in Consumers, ReleaseSlots(c) PROVE TypeOK'
  BY <1>17, <1>c, <1>t, <1>0 DEF ReleaseSlots, Holding, Finish, TypeOK, PCs, index, call, local
<1>18. ASSUME NEW count \in WaterMarks, SetWaterMark(count) PROVE TypeOK'
  BY <1>18, <1>t, WaterMarksAssumption DEF SetWaterMark, TypeOK, PCs, index, call, local
<1>19. CASE UNCHANGED vars
  BY <1>19, <1>t DEF vars, TypeOK, PCs, index, call, local
<1> QED
  BY <1>1, <1>2, <1>3, <1>4, <1>5, <1>6, <1>7, <1>8, <1>9, <1>10, <1>11, <1>12, <1>13, <1>14, <1>15, <1>16, <1>17, <1>18, <1>19 DEF Next, EnqueueStep, DequeueStep

-----------------------------------------------------------------------------
(* The counters of a call: each action touches those of its own thread.     *)
LEMMA CounterStep == IInv /\ [Next]_vars => Counters'
<1> SUFFICES ASSUME IInv, [Next]_vars PROVE Counters'
  OBVIOUS
<1> USE DEF Counters, Holding
<1>t. TypeOK /\ Counters /\ TypeOK'
  BY TypeStep DEF IInv
<1>0. /\ Producers \subseteq Threads /\ Consumers \subseteq Threads
      /\ \A k \in Requests : k \in Nat /\ k >= 1
      /\ \A p \in Producers, c \in Consumers : p # c
      /\ Mask \in Index
  BY RequestsAssumption, ThreadsAssumption, SizeAssumption DEF Threads, Mask, Index
<1>1. ASSUME NEW p \in Producers, EnqueueCall(p) PROVE Counters'
  <2>1. PICK k \in Requests, b \in Behaviors :
           /\ max' = [max EXCEPT ![p] = k]
           /\ obj_table' \in {[obj_table EXCEPT ![p] = s] : s \in [1 .. k -> Items]}
           /\ LoadProdHead(p, k)
    BY <1>1 DEF EnqueueCall
  <2>2. PICK s \in [1 .. k -> Items] : obj_table' = [obj_table EXCEPT ![p] = s]
    BY <2>1
  <2>3. Len(s) = k
    BY <1>0
  <2> QED
    BY <2>1, <2>2, <2>3, <1>1, <1>t, <1>0 DEF EnqueueCall, LoadProdHead, TypeOK
<1>2. ASSUME NEW p \in Producers, EnqueueAgain(p) PROVE Counters'
  BY <1>2, <1>t, <1>0 DEF EnqueueAgain, LoadProdHead, call, local, TypeOK
<1>3. ASSUME NEW p \in Producers, EnqueueAdmitted(p) PROVE Counters'
  <2>1. /\ pc[p] = "tail" /\ pc'[p] = "reserve" /\ i' = i
        /\ \/ n'[p] = n[p] /\ n[p] <= FreeEntries(head[p])
           \/ n'[p] = FreeEntries(head[p]) /\ FreeEntries(head[p]) # 0 /\ n[p] > FreeEntries(head[p])
        /\ \A u \in Threads \ {p} : pc'[u] = pc[u] /\ n'[u] = n[u]
        /\ max' = max /\ obj_table' = obj_table
    BY <1>3, <1>t, <1>0 DEF EnqueueAdmitted, call, TypeOK
  <2>2. FreeEntries(head[p]) \in Index
    BY <1>t, <1>0, WrapType DEF FreeEntries, TypeOK
  <2>3. n[p] = max[p] /\ max[p] >= 1 /\ max[p] \in Nat /\ i[p] = 0
    BY <2>1, <1>t, <1>0 DEF TypeOK
  <2>4. n'[p] \in 1 .. max[p] /\ n'[p] \in Index
    BY <2>1, <2>2, <2>3, SizeAssumption DEF Index
  <2> QED
    BY <2>1, <2>3, <2>4, <1>t, <1>0
<1>4. ASSUME NEW p \in Producers, EnqueueRefused(p) PROVE Counters'
  BY <1>4, <1>t, <1>0 DEF EnqueueRefused, Finish, TypeOK
<1>5. ASSUME NEW p \in Producers, ReserveSlots(p) PROVE Counters'
  <2>1. /\ pc[p] = "reserve" /\ pc'[p] = "copy"
        /\ \A u \in Threads \ {p} : pc'[u] = pc[u]
        /\ n' = n /\ i' = i /\ max' = max /\ obj_table' = obj_table
    BY <1>5, <1>t, <1>0 DEF ReserveSlots, call, local, TypeOK
  <2>2. i[p] = 0 /\ n[p] \in 1 .. max[p] /\ max[p] \in Nat
    BY <2>1, <1>t, <1>0 DEF TypeOK
  <2> QED
    BY <2>1, <2>2, <1>t, <1>0
<1>6. ASSUME NEW p \in Producers, ReserveSlotsFails(p) PROVE Counters'
  BY <1>6, <1>t, <1>0 DEF ReserveSlotsFails, ForgetSnapshot, call, local, TypeOK
<1>7. ASSUME NEW p \in Producers, WriteEntry(p) PROVE Counters'
  <2>1. /\ pc[p] = "copy" /\ i'[p] = i[p] + 1 /\ n' = n /\ max' = max
        /\ pc'[p] = IF i[p] + 1 = n[p] THEN "mark" ELSE "copy"
        /\ \A u \in Threads \ {p} : pc'[u] = pc[u] /\ i'[u] = i[u]
        /\ obj_table' = obj_table
    BY <1>7, <1>t, <1>0 DEF WriteEntry, call, TypeOK
  <2>2. i[p] < n[p] /\ i[p] \in Nat /\ n[p] \in Nat
    BY <2>1, <1>t, <1>0 DEF TypeOK
  <2> QED
    BY <2>1, <2>2, <1>t, <1>0
<1>8. ASSUME NEW p \in Producers, CheckWatermark(p) PROVE Counters'
  BY <1>8, <1>t, <1>0 DEF CheckWatermark, call, local, TypeOK
<1>9. ASSUME NEW p \in Producers, PublishEntries(p) PROVE Counters'
  BY <1>9, <1>t, <1>0 DEF PublishEntries, Finish, TypeOK
<1>10. ASSUME NEW c \in Consumers, DequeueCall(c) PROVE Counters'
  <2>1. PICK k \in Requests, b \in Behaviors :
           max' = [max EXCEPT ![c] = k] /\ LoadConsHead(c, k)
    BY <1>10 DEF DequeueCall
  <2>2. /\ max'[c] = k /\ n'[c] = k /\ pc[c] = "idle" /\ pc'[c] = "tail"
        /\ \A u \in Threads \ {c} : max'[u] = max[u] /\ n'[u] = n[u] /\ pc'[u] = pc[u]
        /\ i' = i /\ obj_table' = obj_table
    BY <2>1, <1>10, <1>t, <1>0 DEF DequeueCall, LoadConsHead, TypeOK
  <2>3. \A p \in Producers : p # c /\ p \in Threads
    BY <1>0
  <2> QED
    BY <2>2, <2>3, <1>t, <1>0
<1>11. ASSUME NEW c \in Consumers, DequeueAgain(c) PROVE Counters'
  BY <1>11, <1>t, <1>0 DEF DequeueAgain, LoadConsHead, call, local, TypeOK
<1>12. ASSUME NEW c \in Consumers, DequeueAdmitted(c) PROVE Counters'
  <2>1. /\ pc[c] = "tail" /\ pc'[c] = "reserve" /\ i' = i
        /\ \/ n'[c] = n[c] /\ n[c] <= Entries(head[c])
           \/ n'[c] = Entries(head[c]) /\ Entries(head[c]) # 0 /\ n[c] > Entries(head[c])
        /\ \A u \in Threads \ {c} : pc'[u] = pc[u] /\ n'[u] = n[u]
        /\ max' = max /\ obj_table' = obj_table
    BY <1>12, <1>t, <1>0 DEF DequeueAdmitted, call, TypeOK
  <2>2. Entries(head[c]) \in Index
    BY <1>t, <1>0, WrapType DEF Entries, TypeOK
  <2>3. n[c] = max[c] /\ max[c] >= 1 /\ max[c] \in Nat /\ i[c] = 0
    BY <2>1, <1>t, <1>0 DEF TypeOK
  <2>4. n'[c] \in 1 .. max[c] /\ n'[c] \in Index
    BY <2>1, <2>2, <2>3, SizeAssumption DEF Index
  <2> QED
    BY <2>1, <2>3, <2>4, <1>t, <1>0
<1>13. ASSUME NEW c \in Consumers, DequeueRefused(c) PROVE Counters'
  BY <1>13, <1>t, <1>0 DEF DequeueRefused, Finish, TypeOK
<1>14. ASSUME NEW c \in Consumers, ReserveEntries(c) PROVE Counters'
  <2>1. /\ pc[c] = "reserve" /\ pc'[c] = "copy"
        /\ \A u \in Threads \ {c} : pc'[u] = pc[u]
        /\ n' = n /\ i' = i /\ max' = max /\ obj_table' = obj_table
    BY <1>14, <1>t, <1>0 DEF ReserveEntries, call, local, TypeOK
  <2>2. i[c] = 0 /\ n[c] \in 1 .. max[c] /\ max[c] \in Nat
    BY <2>1, <1>t, <1>0 DEF TypeOK
  <2> QED
    BY <2>1, <2>2, <1>t, <1>0
<1>15. ASSUME NEW c \in Consumers, ReserveEntriesFails(c) PROVE Counters'
  BY <1>15, <1>t, <1>0 DEF ReserveEntriesFails, ForgetSnapshot, call, local, TypeOK
<1>16. ASSUME NEW c \in Consumers, ReadEntry(c) PROVE Counters'
  <2>1. /\ pc[c] = "copy" /\ i'[c] = i[c] + 1 /\ n' = n /\ max' = max
        /\ pc'[c] = IF i[c] + 1 = n[c] THEN "publish" ELSE "copy"
        /\ \A u \in Threads \ {c} : pc'[u] = pc[u] /\ i'[u] = i[u]
        /\ \A p \in Producers : obj_table'[p] = obj_table[p]
    BY <1>16, <1>t, <1>0 DEF ReadEntry, call, TypeOK
  <2>2. i[c] < n[c] /\ i[c] \in Nat /\ n[c] \in Nat
    BY <2>1, <1>t, <1>0 DEF TypeOK
  <2>3. \A p \in Producers : p # c /\ p \in Threads /\ pc'[p] = pc[p]
    BY <2>1, <1>0
  <2> QED
    BY <2>1, <2>2, <2>3, <1>t, <1>0
<1>17. ASSUME NEW c \in Consumers, ReleaseSlots(c) PROVE Counters'
  BY <1>17, <1>t, <1>0 DEF ReleaseSlots, Finish, TypeOK
<1>18. ASSUME NEW count \in WaterMarks, SetWaterMark(count) PROVE Counters'
  BY <1>18, <1>t DEF SetWaterMark, call, local
<1>19. CASE UNCHANGED vars
  BY <1>19, <1>t DEF vars, call, local
<1> QED
  BY <1>1, <1>2, <1>3, <1>4, <1>5, <1>6, <1>7, <1>8, <1>9, <1>10, <1>11, <1>12, <1>13, <1>14, <1>15, <1>16, <1>17, <1>18, <1>19 DEF Next, EnqueueStep, DequeueStep

-----------------------------------------------------------------------------
(* The part of the invariant that relates the four indices and the ranges.  *)
IndexInv == IndexOrder /\ RangesDisjoint /\ Snapshots /\ StillAdmitted /\ Alone

(* A step that moves no index and in which thread t neither gains, loses    *)
(* nor moves a range keeps it, provided t's own snapshot is right.          *)
LEMMA QuietStep ==
  ASSUME IndexInv, ThreadsAssumption, NEW t \in Threads, UNCHANGED index,
         \A u \in Threads \ {t} : /\ pc'[u] = pc[u] /\ head'[u] = head[u]
                                  /\ n'[u] = n[u] /\ drift'[u] = drift[u],
         Holding(t) <=> Holding(t)',
         Holding(t) => head'[t] = head[t] /\ n'[t] = n[t],
         drift'[t] = 0 \/ drift'[t] = drift[t],
         Racing(t)' => (t \in Producers => Dist(head'[t], prod_head) = drift'[t]),
         Racing(t)' => (t \in Consumers => Dist(head'[t], cons_head) = drift'[t]),
         pc'[t] = "reserve" /\ drift'[t] = 0 /\ t \in Producers
            => Dist(cons_tail, prod_head) + n'[t] <= Mask,
         pc'[t] = "reserve" /\ drift'[t] = 0 /\ t \in Consumers
            => n'[t] <= Dist(cons_head, prod_tail)
  PROVE  IndexInv'
<1> USE DEF index
<1>0. Producers \subseteq Threads /\ Consumers \subseteq Threads
  BY DEF Threads
<1>h. \A u \in Threads : /\ Holding(u)' <=> Holding(u)
                         /\ Holding(u) => head'[u] = head[u] /\ n'[u] = n[u]
  BY DEF Holding
<1>1. IndexOrder'
  BY DEF IndexInv, IndexOrder, Dist, Minus, Mask
<1>2. RangesDisjoint'
  BY <1>0, <1>h DEF IndexInv, RangesDisjoint, RangesOf, Dist, Minus
<1>3. Snapshots'
  BY <1>0 DEF IndexInv, Snapshots, Racing
<1>4. StillAdmitted'
  BY <1>0 DEF IndexInv, StillAdmitted
<1>5. Alone'
  BY <1>0, <1>h DEF IndexInv, Alone, AloneOn
<1> QED
  BY <1>1, <1>2, <1>3, <1>4, <1>5 DEF IndexInv

(* What the invariant says of distances, for use with linear arithmetic. *)
LEMMA Distances ==
  ASSUME TypeOK, IndexOrder
  PROVE  /\ Dist(cons_tail, cons_head) \in 0 .. Mask
         /\ Dist(cons_head, prod_tail) \in 0 .. Mask
         /\ Dist(prod_tail, prod_head) \in 0 .. Mask
         /\ Dist(cons_tail, prod_head) = Dist(cons_tail, cons_head)
               + Dist(cons_head, prod_tail) + Dist(prod_tail, prod_head)
         /\ Dist(cons_tail, prod_tail) = Dist(cons_tail, cons_head)
               + Dist(cons_head, prod_tail)
         /\ Dist(cons_head, prod_head) = Dist(cons_head, prod_tail)
               + Dist(prod_tail, prod_head)
         /\ Mask < IndexMod /\ Mask \in Nat
<1>1. /\ Dist(cons_tail, cons_head) \in Nat /\ Dist(cons_head, prod_tail) \in Nat
      /\ Dist(prod_tail, prod_head) \in Nat
  BY DistType DEF TypeOK, Index
<1>2. Mask < IndexMod /\ Mask \in Nat /\ IndexMod \in Nat
  BY SizeAssumption DEF Mask
<1>3. /\ Dist(cons_tail, cons_head) \in 0 .. Mask
      /\ Dist(cons_head, prod_tail) \in 0 .. Mask
      /\ Dist(prod_tail, prod_head) \in 0 .. Mask
      /\ Dist(cons_tail, cons_head) + Dist(cons_head, prod_tail)
           + Dist(prod_tail, prod_head) <= Mask
  BY <1>1, <1>2 DEF IndexOrder
<1>4. /\ Dist(cons_tail, prod_tail) = Dist(cons_tail, cons_head) + Dist(cons_head, prod_tail)
      /\ Dist(cons_head, prod_head) = Dist(cons_head, prod_tail) + Dist(prod_tail, prod_head)
  BY <1>2, <1>3, Chain DEF TypeOK
<1>5. Dist(cons_tail, prod_head) = Dist(cons_tail, prod_tail) + Dist(prod_tail, prod_head)
  BY <1>2, <1>3, <1>4, Chain DEF TypeOK
<1> QED
  BY <1>2, <1>3, <1>4, <1>5

(* The free-entry count a producer computes from its own, possibly old,     *)
(* copy of the head: the true room plus what the others reserved meanwhile. *)
LEMMA FreeEntriesValue ==
  ASSUME IInv, NEW p \in Producers, pc[p] = "tail"
  PROVE  FreeEntries(head[p]) = Mask - Dist(cons_tail, prod_head) + drift[p]
<1>1. /\ head[p] \in Index /\ prod_head \in Index /\ cons_tail \in Index
      /\ drift[p] \in Nat /\ drift[p] <= IndexMod - Size
      /\ Dist(head[p], prod_head) = drift[p]
  BY SizeAssumption DEF IInv, TypeOK, Threads, Snapshots, Racing, MaxDrift
<1>2. Dist(cons_tail, prod_head) \in 0 .. Mask
  <2>1. TypeOK /\ IndexOrder
    BY DEF IInv
  <2>2. Dist(cons_tail, prod_head) \in Nat
    BY <1>1, DistType DEF Index
  <2> QED
    BY <2>1, <2>2, Distances DEF IndexOrder
<1> QED
  BY <1>1, <1>2, SizeAssumption DEF FreeEntries, Dist, Plus, Minus, Index, Mask

(* Likewise the entries a consumer counts. *)
LEMMA EntriesValue ==
  ASSUME IInv, NEW c \in Consumers, pc[c] = "tail"
  PROVE  Entries(head[c]) = Dist(cons_head, prod_tail) + drift[c]
<1>1. /\ head[c] \in Index /\ cons_head \in Index /\ prod_tail \in Index
      /\ drift[c] \in Nat /\ drift[c] <= IndexMod - Size
      /\ Dist(head[c], cons_head) = drift[c]
  BY SizeAssumption DEF IInv, TypeOK, Threads, Snapshots, Racing, MaxDrift
<1>2. Dist(cons_head, prod_tail) \in 0 .. Mask
  BY Distances DEF IInv
<1> QED
  BY <1>1, <1>2, SizeAssumption DEF Entries, Dist, Minus, Index, Mask

-----------------------------------------------------------------------------
(* The enqueue steps that move no index. *)
LEMMA QuietEnqueue ==
  ASSUME IInv, NEW p \in Producers,
         \/ EnqueueCall(p) \/ EnqueueAgain(p) \/ EnqueueAdmitted(p)
         \/ EnqueueRefused(p) \/ ReserveSlotsFails(p)
         \/ WriteEntry(p) \/ CheckWatermark(p)
  PROVE  IndexInv'
<1> USE ThreadsAssumption
<1>t. TypeOK /\ IndexInv /\ p \in Threads /\ p \notin Consumers
  BY DEF IInv, IndexInv, Threads
<1>d. Dist(prod_head, prod_head) = 0
  BY <1>t, DistZero DEF TypeOK
<1>f. FreeEntries(head[p]) \in Nat
  <2>1. Mask \in Index /\ cons_tail \in Index /\ head[p] \in Index
    BY <1>t, SizeAssumption DEF TypeOK, Mask, Index
  <2>2. FreeEntries(head[p]) \in Index
    BY <2>1, WrapType DEF FreeEntries
  <2> QED
    BY <2>2 DEF Index
<1>load. ASSUME NEW k, LoadProdHead(p, k), pc[p] = "idle" \/ pc[p] = "again"
         PROVE  IndexInv'
  <2>1. /\ pc'[p] = "tail" /\ head'[p] = prod_head /\ drift'[p] = 0
        /\ UNCHANGED index
        /\ \A u \in Threads \ {p} : /\ pc'[u] = pc[u] /\ head'[u] = head[u]
                                   /\ n'[u] = n[u] /\ drift'[u] = drift[u]
    BY <1>load, <1>t DEF LoadProdHead, TypeOK
  <2> QED
    BY <2>1, <1>load, <1>t, <1>d, QuietStep DEF Holding, Racing
<1>1. CASE EnqueueCall(p)
  <2>1. PICK k \in Requests : LoadProdHead(p, k)
    BY <1>1 DEF EnqueueCall
  <2> QED
    BY <2>1, <1>1, <1>load DEF EnqueueCall
<1>2. CASE EnqueueAgain(p)
  BY <1>2, <1>load DEF EnqueueAgain
<1>3. CASE EnqueueRefused(p)
  BY <1>3, <1>t, QuietStep DEF EnqueueRefused, Finish, Holding, Racing, TypeOK, local, call
<1>4. CASE ReserveSlotsFails(p)
  BY <1>4, <1>t, QuietStep DEF ReserveSlotsFails, ForgetSnapshot, Holding, Racing, TypeOK, local, call
<1>5. CASE WriteEntry(p)
  <2>1. /\ pc[p] = "copy" /\ pc'[p] \in {"copy", "mark"} /\ drift' = drift
        /\ head' = head /\ n' = n /\ UNCHANGED index
        /\ \A u \in Threads \ {p} : pc'[u] = pc[u]
    BY <1>5, <1>t DEF WriteEntry, TypeOK
  <2> QED
    BY <2>1, <1>t, QuietStep DEF Holding, Racing
<1>6. CASE CheckWatermark(p)
  BY <1>6, <1>t, QuietStep DEF CheckWatermark, Holding, Racing, TypeOK, local, call
<1>7. CASE EnqueueAdmitted(p)
  <2>1. /\ pc[p] = "tail" /\ pc' = [pc EXCEPT ![p] = "reserve"] /\ drift' = drift
        /\ head' = head /\ UNCHANGED index
        /\ \/ n[p] <= FreeEntries(head[p]) /\ n' = n
           \/ n' = [n EXCEPT ![p] = FreeEntries(head[p])]
    BY <1>7 DEF EnqueueAdmitted
  <2>2. /\ pc'[p] = "reserve"
        /\ n'[p] <= FreeEntries(head[p])
        /\ \A u \in Threads \ {p} : pc'[u] = pc[u] /\ n'[u] = n[u]
    BY <2>1, <1>f, <1>t DEF TypeOK
  <2>3. drift[p] = 0 => Dist(cons_tail, prod_head) + n'[p] <= Mask
    <3>1. FreeEntries(head[p]) = Mask - Dist(cons_tail, prod_head) + drift[p]
      BY <2>1, FreeEntriesValue
    <3>2. n'[p] \in Nat /\ Mask \in Nat /\ Dist(cons_tail, prod_head) \in Nat
      <4>1. Mask \in Nat /\ Dist(cons_tail, prod_head) \in Nat
        BY <1>t, Distances DEF IndexInv
      <4>2. n'[p] \in Nat
        BY <2>1, <1>f, <1>t DEF TypeOK
      <4> QED
        BY <4>1, <4>2
    <3> QED
      BY <2>2, <3>1, <3>2
  <2>4. Dist(head[p], prod_head) = drift[p]
    BY <2>1, <1>t DEF IndexInv, Snapshots, Racing
  <2> QED
    BY <2>1, <2>2, <2>3, <2>4, <1>t, QuietStep DEF Holding, Racing
<1> QED
  BY <1>1, <1>2, <1>3, <1>4, <1>5, <1>6, <1>7

(* The dequeue steps that move no index. *)
LEMMA QuietDequeue ==
  ASSUME IInv, NEW c \in Consumers,
         \/ DequeueCall(c) \/ DequeueAgain(c) \/ DequeueAdmitted(c)
         \/ DequeueRefused(c) \/ ReserveEntriesFails(c) \/ ReadEntry(c)
  PROVE  IndexInv'
<1> USE ThreadsAssumption
<1>t. TypeOK /\ IndexInv /\ c \in Threads /\ c \notin Producers
  BY DEF IInv, IndexInv, Threads
<1>d. Dist(cons_head, cons_head) = 0
  BY <1>t, DistZero DEF TypeOK
<1>f. Entries(head[c]) \in Nat
  <2>1. Entries(head[c]) \in Index
    BY <1>t, WrapType DEF Entries, TypeOK
  <2> QED
    BY <2>1 DEF Index
<1>load. ASSUME NEW k, LoadConsHead(c, k), pc[c] = "idle" \/ pc[c] = "again"
         PROVE  IndexInv'
  <2>1. /\ pc'[c] = "tail" /\ head'[c] = cons_head /\ drift'[c] = 0
        /\ UNCHANGED index
        /\ \A u \in Threads \ {c} : /\ pc'[u] = pc[u] /\ head'[u] = head[u]
                                   /\ n'[u] = n[u] /\ drift'[u] = drift[u]
    BY <1>load, <1>t DEF LoadConsHead, TypeOK
  <2> QED
    BY <2>1, <1>load, <1>t, <1>d, QuietStep DEF Holding, Racing
<1>1. CASE DequeueCall(c)
  <2>1. PICK k \in Requests : LoadConsHead(c, k)
    BY <1>1 DEF DequeueCall
  <2> QED
    BY <2>1, <1>1, <1>load DEF DequeueCall
<1>2. CASE DequeueAgain(c)
  BY <1>2, <1>load DEF DequeueAgain
<1>3. CASE DequeueRefused(c)
  BY <1>3, <1>t, QuietStep DEF DequeueRefused, Finish, Holding, Racing, TypeOK, local, call
<1>4. CASE ReserveEntriesFails(c)
  BY <1>4, <1>t, QuietStep DEF ReserveEntriesFails, ForgetSnapshot, Holding, Racing, TypeOK, local, call
<1>5. CASE ReadEntry(c)
  <2>1. /\ pc[c] = "copy" /\ pc'[c] \in {"copy", "publish"} /\ drift' = drift
        /\ head' = head /\ n' = n /\ UNCHANGED index
        /\ \A u \in Threads \ {c} : pc'[u] = pc[u]
    BY <1>5, <1>t DEF ReadEntry, TypeOK
  <2> QED
    BY <2>1, <1>t, QuietStep DEF Holding, Racing
<1>6. CASE DequeueAdmitted(c)
  <2>1. /\ pc[c] = "tail" /\ pc' = [pc EXCEPT ![c] = "reserve"] /\ drift' = drift
        /\ head' = head /\ UNCHANGED index
        /\ \/ n[c] <= Entries(head[c]) /\ n' = n
           \/ n' = [n EXCEPT ![c] = Entries(head[c])]
    BY <1>6 DEF DequeueAdmitted
  <2>2. /\ pc'[c] = "reserve"
        /\ n'[c] <= Entries(head[c])
        /\ \A u \in Threads \ {c} : pc'[u] = pc[u] /\ n'[u] = n[u]
    BY <2>1, <1>f, <1>t DEF TypeOK
  <2>3. drift[c] = 0 => n'[c] <= Dist(cons_head, prod_tail)
    <3>1. Entries(head[c]) = Dist(cons_head, prod_tail) + drift[c]
      BY <2>1, EntriesValue
    <3>2. Dist(cons_head, prod_tail) \in Nat
      BY <1>t, Distances DEF IndexInv
    <3> QED
      BY <2>2, <3>1, <3>2
  <2>4. Dist(head[c], cons_head) = drift[c]
    BY <2>1, <1>t DEF IndexInv, Snapshots, Racing
  <2> QED
    BY <2>1, <2>2, <2>3, <2>4, <1>t, QuietStep DEF Holding, Racing
<1> QED
  BY <1>1, <1>2, <1>3, <1>4, <1>5, <1>6

-----------------------------------------------------------------------------
(* A producer reserves a range: prod.head moves forward by at most the      *)
(* room there is, and the new range starts where the others end.            *)
LEMMA ReserveSlotsKeeps ==
  ASSUME IInv, NEW p \in Producers, ReserveSlots(p)
  PROVE  IndexInv'
<1> DEFINE k == n[p]
<1>t. TypeOK /\ IndexInv /\ Counters /\ p \in Threads /\ p \notin Consumers
      /\ Producers \subseteq Threads /\ Consumers \subseteq Threads
      /\ Producers \cap Consumers = {}
  BY ThreadsAssumption DEF IInv, IndexInv, Threads
<1>1. /\ pc[p] = "reserve" /\ pc' = [pc EXCEPT ![p] = "copy"]
      /\ prod_head' = Plus(head[p], k)
      /\ prod_tail' = prod_tail /\ cons_head' = cons_head /\ cons_tail' = cons_tail
      /\ head' = head /\ n' = n
      /\ Overtake(Producers, p, k)
  BY DEF ReserveSlots, local
<1>2. k \in Nat /\ k >= 1 /\ k \in Index
  BY <1>t, <1>1, CopyBounds DEF Counters, TypeOK, Index
<1>3. head[p] = prod_head /\ drift[p] = 0
  <2>1. Dist(head[p], prod_head) = drift[p]
    BY <1>t, <1>1 DEF IndexInv, Snapshots, Racing
  <2>2. CASE SpEnqueue
    BY Flags, <2>1, <2>2, <1>t, DistZero DEF IndexInv, Alone, AloneOn, TypeOK
  <2>3. CASE ~SpEnqueue
    BY <2>1, <2>3, <1>t, DistZero DEF ReserveSlots, TypeOK
  <2> QED
    BY <2>2, <2>3
<1>4. Dist(cons_tail, prod_head) + k <= Mask
  BY <1>1, <1>3, <1>t DEF IndexInv, StillAdmitted
<1>5. /\ Dist(prod_tail, prod_head') = Dist(prod_tail, prod_head) + k
      /\ Dist(cons_tail, prod_head') = Dist(cons_tail, prod_head) + k
  <2>1. /\ Dist(prod_tail, prod_head) + k < IndexMod
        /\ Dist(cons_tail, prod_head) + k < IndexMod
        /\ prod_tail \in Index /\ cons_tail \in Index /\ prod_head \in Index
    <3>1. /\ Dist(cons_tail, prod_head) \in Nat /\ Dist(prod_tail, prod_head) \in Nat
          /\ Dist(prod_tail, prod_head) <= Dist(cons_tail, prod_head)
          /\ Mask < IndexMod /\ Mask \in Nat /\ IndexMod \in Nat
      BY <1>t, Distances, SizeAssumption DEF IndexInv
    <3> QED
      BY <3>1, <1>2, <1>4, <1>t DEF TypeOK
  <2> QED
    BY <2>1, <1>1, <1>2, <1>3, Advance
<1>6. IndexOrder'
  <2>1. /\ Dist(cons_tail, cons_head)' = Dist(cons_tail, cons_head)
        /\ Dist(cons_head, prod_tail)' = Dist(cons_head, prod_tail)
        /\ Dist(prod_tail, prod_head)' = Dist(prod_tail, prod_head')
    BY <1>1 DEF Dist, Minus
  <2> QED
    BY <2>1, <1>2, <1>4, <1>5, <1>t, Distances DEF IndexInv, IndexOrder, Mask
<1>7. RangesDisjoint'
  <2>1. \A u \in Threads : /\ u # p => (Holding(u)' <=> Holding(u))
                           /\ ~Holding(p)
    BY <1>1, <1>t DEF Holding, TypeOK
  <2>2. RangesOf(Consumers, cons_tail, cons_head)'
    BY <2>1, <1>1, <1>t DEF IndexInv, RangesDisjoint, RangesOf, Dist, Minus
  <2>3. /\ \A u \in Producers : Holding(u) =>
             Dist(prod_tail, head[u]) + n[u] <= Dist(prod_tail, prod_head)
        /\ \A u, v \in Producers : u # v /\ Holding(u) /\ Holding(v) =>
             \/ Dist(prod_tail, head[u]) + n[u] <= Dist(prod_tail, head[v])
             \/ Dist(prod_tail, head[v]) + n[v] <= Dist(prod_tail, head[u])
        /\ Dist(prod_tail, head[p]) = Dist(prod_tail, prod_head)
        /\ Dist(prod_tail, prod_head) \in Nat
        /\ \A u \in Producers : n[u] \in Nat /\ Dist(prod_tail, head[u]) \in Nat
    <3>1. \A u \in Producers : n[u] \in Nat /\ Dist(prod_tail, head[u]) \in Nat
      BY <1>t, DistNat DEF TypeOK
    <3>2. Dist(prod_tail, prod_head) \in Nat
      BY <1>t, Distances DEF IndexInv
    <3> QED
      BY <3>1, <3>2, <1>3, <1>t DEF IndexInv, RangesDisjoint, RangesOf
  <2>4. RangesOf(Producers, prod_tail, prod_head)'
    <3>1. /\ \A u \in Producers : Dist(prod_tail, head[u])' = Dist(prod_tail, head[u])
          /\ Dist(prod_tail, prod_head)' = Dist(prod_tail, prod_head')
      BY <1>1 DEF Dist, Minus
    <3>2. \A u \in Producers : Holding(u)' =>
             Dist(prod_tail, head[u])' + n'[u] <= Dist(prod_tail, prod_head)'
      BY <3>1, <2>1, <2>3, <1>1, <1>2, <1>5, <1>t
    <3>3. \A u, v \in Producers : u # v /\ Holding(u)' /\ Holding(v)' =>
             \/ Dist(prod_tail, head[u])' + n'[u] <= Dist(prod_tail, head[v])'
             \/ Dist(prod_tail, head[v])' + n'[v] <= Dist(prod_tail, head[u])'
      BY <3>1, <2>1, <2>3, <1>1, <1>2, <1>t
    <3> QED
      BY <3>2, <3>3 DEF RangesOf
  <2> QED
    BY <2>2, <2>4 DEF RangesDisjoint
<1>8. Snapshots'
  <2>1. ASSUME NEW u \in Producers, Racing(u)'
        PROVE  Dist(head[u], prod_head)' = drift'[u]
    <3>1. u # p /\ Racing(u) /\ u \in Threads
      BY <2>1, <1>1, <1>t DEF Racing, TypeOK
    <3>2. drift'[u] = drift[u] + k /\ drift[u] + k <= MaxDrift
      BY <3>1, <1>1 DEF Overtake
    <3>3. /\ head[u] \in Index /\ prod_head \in Index /\ drift[u] \in Nat
          /\ MaxDrift < IndexMod /\ MaxDrift \in Nat /\ IndexMod \in Nat
          /\ Dist(head[u], prod_head) = drift[u]
      BY <3>1, <1>t, SizeAssumption DEF TypeOK, IndexInv, Snapshots, MaxDrift
    <3>4. Dist(head[u], Plus(prod_head, k)) = drift[u] + k
      BY <3>2, <3>3, <1>2, Advance
    <3> QED
      BY <3>2, <3>4, <1>1, <1>3 DEF Dist, Minus
  <2>2. ASSUME NEW u \in Consumers, Racing(u)'
        PROVE  Dist(head[u], cons_head)' = drift'[u]
    <3>1. u # p /\ Racing(u) /\ u \in Threads /\ u \notin Producers
      BY <2>2, <1>1, <1>t DEF Racing, TypeOK
    <3>2. drift'[u] = drift[u]
      BY <3>1, <1>1 DEF Overtake
    <3> QED
      BY <3>1, <3>2, <2>2, <1>1, <1>t DEF IndexInv, Snapshots, Dist, Minus
  <2> QED
    BY <2>1, <2>2 DEF Snapshots
<1>9. StillAdmitted'
  <2>1. ASSUME NEW u \in Producers, pc'[u] = "reserve", drift'[u] = 0
        PROVE  FALSE
    <3>1. u # p /\ Racing(u) /\ u \in Threads
      BY <2>1, <1>1, <1>t DEF Racing, TypeOK
    <3>2. drift'[u] = drift[u] + k /\ drift[u] \in Nat
      BY <3>1, <1>1, <1>t DEF Overtake, TypeOK, MaxDrift
    <3> QED
      BY <3>2, <2>1, <1>2
  <2>2. ASSUME NEW u \in Consumers, pc'[u] = "reserve", drift'[u] = 0
        PROVE  n'[u] <= Dist(cons_head, prod_tail)'
    <3>1. u # p /\ u \in Threads /\ u \notin Producers /\ pc[u] = "reserve"
      BY <2>2, <1>1, <1>t DEF TypeOK
    <3>2. drift'[u] = drift[u]
      BY <3>1, <1>1 DEF Overtake
    <3> QED
      BY <3>1, <3>2, <2>2, <1>1, <1>t DEF IndexInv, StillAdmitted, Dist, Minus
  <2> QED
    BY <2>1, <2>2 DEF StillAdmitted
<1>10. Alone'
  <2>1. ASSUME Lone(Producers)
        PROVE  AloneOn(Producers, prod_tail, prod_head)'
    <3>1. \A q \in Producers : q = p
      BY <2>1 DEF Lone
    <3>2. prod_tail = prod_head
      BY <2>1, <1>1, <1>t DEF IndexInv, Alone, AloneOn, Holding
    <3>3. /\ drift'[p] = 0 /\ Holding(p)' /\ head'[p] = prod_tail'
          /\ Plus(head'[p], n'[p]) = prod_head'
      BY <3>2, <1>1, <1>3, <1>t DEF Overtake, Holding, TypeOK
    <3> QED
      BY <3>1, <3>3, <1>1 DEF AloneOn, Plus
  <2>2. ASSUME Lone(Consumers)
        PROVE  AloneOn(Consumers, cons_tail, cons_head)'
    <3>1. \A u \in Consumers : u # p /\ u \in Threads /\ u \notin Producers
      BY <1>t
    <3>2. \A u \in Consumers : drift'[u] = drift[u] /\ pc'[u] = pc[u]
      BY <3>1, <1>1, <1>t DEF Overtake, TypeOK
    <3> QED
      BY <3>2, <2>2, <1>1, <1>t DEF IndexInv, Alone, AloneOn, Holding, Plus
  <2> QED
    BY <2>1, <2>2 DEF Alone
<1> QED
  BY <1>6, <1>7, <1>8, <1>9, <1>10 DEF IndexInv
(* A consumer reserves a range: cons.head moves forward by at most the      *)
(* published entries there are.                                             *)
LEMMA ReserveEntriesKeeps ==
  ASSUME IInv, NEW c \in Consumers, ReserveEntries(c)
  PROVE  IndexInv'
<1> DEFINE k == n[c]
<1>t. TypeOK /\ IndexInv /\ Counters /\ c \in Threads /\ c \notin Producers
      /\ Consumers \subseteq Threads /\ Producers \subseteq Threads
      /\ Consumers \cap Producers = {}
  BY ThreadsAssumption DEF IInv, IndexInv, Threads
<1>1. /\ pc[c] = "reserve" /\ pc' = [pc EXCEPT ![c] = "copy"]
      /\ cons_head' = Plus(head[c], k)
      /\ cons_tail' = cons_tail /\ prod_head' = prod_head /\ prod_tail' = prod_tail
      /\ head' = head /\ n' = n
      /\ Overtake(Consumers, c, k)
  BY DEF ReserveEntries, local
<1>2. k \in Nat /\ k >= 1 /\ k \in Index
  BY <1>t, <1>1, CopyBounds DEF Counters, TypeOK, Index
<1>3. head[c] = cons_head /\ drift[c] = 0
  <2>1. Dist(head[c], cons_head) = drift[c]
    BY <1>t, <1>1 DEF IndexInv, Snapshots, Racing
  <2>2. CASE ScDequeue
    BY Flags, <2>1, <2>2, <1>t, DistZero DEF IndexInv, Alone, AloneOn, TypeOK
  <2>3. CASE ~ScDequeue
    BY <2>1, <2>3, <1>t, DistZero DEF ReserveEntries, TypeOK
  <2> QED
    BY <2>2, <2>3
<1>4. k <= Dist(cons_head, prod_tail)
  BY <1>1, <1>3, <1>t DEF IndexInv, StillAdmitted
<1>5. /\ Dist(cons_tail, cons_head') = Dist(cons_tail, cons_head) + k
      /\ Dist(cons_head', prod_tail) = Dist(cons_head, prod_tail) - k
  <2>1. /\ Dist(cons_tail, cons_head) + k < IndexMod
        /\ prod_tail \in Index /\ cons_tail \in Index /\ cons_head \in Index
    <3>1. /\ Dist(cons_tail, cons_head) \in Nat /\ Dist(cons_head, prod_tail) \in Nat
          /\ Dist(prod_tail, prod_head) \in Nat
          /\ Dist(cons_tail, cons_head) + Dist(cons_head, prod_tail)
               + Dist(prod_tail, prod_head) <= Mask
          /\ Mask < IndexMod /\ Mask \in Nat /\ IndexMod \in Nat
      BY <1>t, Distances, SizeAssumption DEF IndexInv, IndexOrder
    <3> QED
      BY <3>1, <1>2, <1>4, <1>t DEF TypeOK
  <2> QED
    BY <2>1, <1>1, <1>2, <1>3, <1>4, Advance, Shorten
<1>6. IndexOrder'
  <2>1. /\ Dist(cons_tail, cons_head)' = Dist(cons_tail, cons_head')
        /\ Dist(cons_head, prod_tail)' = Dist(cons_head', prod_tail)
        /\ Dist(prod_tail, prod_head)' = Dist(prod_tail, prod_head)
    BY <1>1 DEF Dist, Minus
  <2>2. /\ Dist(cons_tail, cons_head) \in Nat /\ Dist(cons_head, prod_tail) \in Nat
        /\ Dist(prod_tail, prod_head) \in Nat
    BY <1>t, Distances DEF IndexInv
  <2> QED
    BY <2>1, <2>2, <1>2, <1>5, <1>t DEF IndexInv, IndexOrder, Mask
<1>7. RangesDisjoint'
  <2>1. \A u \in Threads : /\ u # c => (Holding(u)' <=> Holding(u))
                           /\ ~Holding(c)
    BY <1>1, <1>t DEF Holding, TypeOK
  <2>2. RangesOf(Producers, prod_tail, prod_head)'
    BY <2>1, <1>1, <1>t DEF IndexInv, RangesDisjoint, RangesOf, Dist, Minus
  <2>3. /\ \A u \in Consumers : Holding(u) =>
             Dist(cons_tail, head[u]) + n[u] <= Dist(cons_tail, cons_head)
        /\ \A u, v \in Consumers : u # v /\ Holding(u) /\ Holding(v) =>
             \/ Dist(cons_tail, head[u]) + n[u] <= Dist(cons_tail, head[v])
             \/ Dist(cons_tail, head[v]) + n[v] <= Dist(cons_tail, head[u])
        /\ Dist(cons_tail, head[c]) = Dist(cons_tail, cons_head)
        /\ Dist(cons_tail, cons_head) \in Nat
        /\ \A u \in Consumers : n[u] \in Nat /\ Dist(cons_tail, head[u]) \in Nat
    <3>1. \A u \in Consumers : n[u] \in Nat /\ Dist(cons_tail, head[u]) \in Nat
      BY <1>t, DistNat DEF TypeOK
    <3>2. Dist(cons_tail, cons_head) \in Nat
      BY <1>t, Distances DEF IndexInv
    <3> QED
      BY <3>1, <3>2, <1>3, <1>t DEF IndexInv, RangesDisjoint, RangesOf
  <2>4. RangesOf(Consumers, cons_tail, cons_head)'
    <3>1. /\ \A u \in Consumers : Dist(cons_tail, head[u])' = Dist(cons_tail, head[u])
          /\ Dist(cons_tail, cons_head)' = Dist(cons_tail, cons_head')
      BY <1>1 DEF Dist, Minus
    <3>2. \A u \in Consumers : Holding(u)' =>
             Dist(cons_tail, head[u])' + n'[u] <= Dist(cons_tail, cons_head)'
      BY <3>1, <2>1, <2>3, <1>1, <1>2, <1>5, <1>t
    <3>3. \A u, v \in Consumers : u # v /\ Holding(u)' /\ Holding(v)' =>
             \/ Dist(cons_tail, head[u])' + n'[u] <= Dist(cons_tail, head[v])'
             \/ Dist(cons_tail, head[v])' + n'[v] <= Dist(cons_tail, head[u])'
      BY <3>1, <2>1, <2>3, <1>1, <1>2, <1>t
    <3> QED
      BY <3>2, <3>3 DEF RangesOf
  <2> QED
    BY <2>2, <2>4 DEF RangesDisjoint
<1>8. Snapshots'
  <2>1. ASSUME NEW u \in Consumers, Racing(u)'
        PROVE  Dist(head[u], cons_head)' = drift'[u]
    <3>1. u # c /\ Racing(u) /\ u \in Threads
      BY <2>1, <1>1, <1>t DEF Racing, TypeOK
    <3>2. drift'[u] = drift[u] + k /\ drift[u] + k <= MaxDrift
      BY <3>1, <1>1 DEF Overtake
    <3>3. /\ head[u] \in Index /\ cons_head \in Index /\ drift[u] \in Nat
          /\ MaxDrift < IndexMod /\ MaxDrift \in Nat /\ IndexMod \in Nat
          /\ Dist(head[u], cons_head) = drift[u]
      BY <3>1, <1>t, SizeAssumption DEF TypeOK, IndexInv, Snapshots, MaxDrift
    <3>4. Dist(head[u], Plus(cons_head, k)) = drift[u] + k
      BY <3>2, <3>3, <1>2, Advance
    <3> QED
      BY <3>2, <3>4, <1>1, <1>3 DEF Dist, Minus
  <2>2. ASSUME NEW u \in Producers, Racing(u)'
        PROVE  Dist(head[u], prod_head)' = drift'[u]
    <3>1. u # c /\ Racing(u) /\ u \in Threads /\ u \notin Consumers
      BY <2>2, <1>1, <1>t DEF Racing, TypeOK
    <3>2. drift'[u] = drift[u]
      BY <3>1, <1>1 DEF Overtake
    <3> QED
      BY <3>1, <3>2, <2>2, <1>1, <1>t DEF IndexInv, Snapshots, Dist, Minus
  <2> QED
    BY <2>1, <2>2 DEF Snapshots
<1>9. StillAdmitted'
  <2>1. ASSUME NEW u \in Consumers, pc'[u] = "reserve", drift'[u] = 0
        PROVE  FALSE
    <3>1. u # c /\ Racing(u) /\ u \in Threads
      BY <2>1, <1>1, <1>t DEF Racing, TypeOK
    <3>2. drift'[u] = drift[u] + k /\ drift[u] \in Nat
      BY <3>1, <1>1, <1>t DEF Overtake, TypeOK, MaxDrift
    <3> QED
      BY <3>2, <2>1, <1>2
  <2>2. ASSUME NEW u \in Producers, pc'[u] = "reserve", drift'[u] = 0
        PROVE  Dist(cons_tail, prod_head)' + n'[u] <= Mask
    <3>1. u # c /\ u \in Threads /\ u \notin Consumers /\ pc[u] = "reserve"
      BY <2>2, <1>1, <1>t DEF TypeOK
    <3>2. drift'[u] = drift[u]
      BY <3>1, <1>1 DEF Overtake
    <3> QED
      BY <3>1, <3>2, <2>2, <1>1, <1>t DEF IndexInv, StillAdmitted, Dist, Minus
  <2> QED
    BY <2>1, <2>2 DEF StillAdmitted
<1>10. Alone'
  <2>1. ASSUME Lone(Consumers)
        PROVE  AloneOn(Consumers, cons_tail, cons_head)'
    <3>1. \A q \in Consumers : q = c
      BY <2>1 DEF Lone
    <3>2. cons_tail = cons_head
      BY <2>1, <1>1, <1>t DEF IndexInv, Alone, AloneOn, Holding
    <3>3. /\ drift'[c] = 0 /\ Holding(c)' /\ head'[c] = cons_tail'
          /\ Plus(head'[c], n'[c]) = cons_head'
      BY <3>2, <1>1, <1>3, <1>t DEF Overtake, Holding, TypeOK
    <3> QED
      BY <3>1, <3>3, <1>1 DEF AloneOn, Plus
  <2>2. ASSUME Lone(Producers)
        PROVE  AloneOn(Producers, prod_tail, prod_head)'
    <3>1. \A u \in Producers : u # c /\ u \in Threads /\ u \notin Consumers
      BY <1>t
    <3>2. \A u \in Producers : drift'[u] = drift[u] /\ pc'[u] = pc[u]
      BY <3>1, <1>1, <1>t DEF Overtake, TypeOK
    <3> QED
      BY <3>2, <2>2, <1>1, <1>t DEF IndexInv, Alone, AloneOn, Holding, Plus
  <2> QED
    BY <2>1, <2>2 DEF Alone
<1> QED
  BY <1>6, <1>7, <1>8, <1>9, <1>10 DEF IndexInv

(* A producer publishes its range: it is the first of the ranges in         *)
(* progress, so prod.tail moves to where the next one starts.               *)
LEMMA PublishEntriesKeeps ==
  ASSUME IInv, NEW p \in Producers, PublishEntries(p)
  PROVE  IndexInv'
<1> DEFINE k == n[p]
<1>t. TypeOK /\ IndexInv /\ Counters /\ p \in Threads /\ p \notin Consumers
      /\ Producers \subseteq Threads /\ Consumers \subseteq Threads
      /\ Producers \cap Consumers = {}
  BY ThreadsAssumption DEF IInv, IndexInv, Threads
<1>1. /\ pc[p] = "publish" /\ pc' = [pc EXCEPT ![p] = "idle"] /\ Holding(p)
      /\ prod_tail' = Plus(head[p], k)
      /\ prod_head' = prod_head /\ cons_head' = cons_head /\ cons_tail' = cons_tail
      /\ \A u \in Threads \ {p} : head'[u] = head[u] /\ n'[u] = n[u] /\ pc'[u] = pc[u]
      /\ drift' = drift
  BY <1>t DEF PublishEntries, Finish, Holding, TypeOK
<1>2. k \in Nat /\ k >= 1 /\ k \in Index
  BY <1>t, <1>1, CopyBounds DEF Counters, TypeOK, Index
<1>3. head[p] = prod_tail
  <2>1. CASE SpEnqueue
    BY Flags, <2>1, <1>1, <1>t DEF IndexInv, Alone, AloneOn
  <2>2. CASE ~SpEnqueue
    BY <2>2 DEF PublishEntries
  <2> QED
    BY <2>1, <2>2
<1>4. k <= Dist(prod_tail, prod_head)
  <2>1. Dist(prod_tail, head[p]) = 0
    BY <1>3, <1>t, DistZero DEF TypeOK
  <2> QED
    BY <2>1, <1>1, <1>2, <1>t DEF IndexInv, RangesDisjoint, RangesOf
<1>5. \A u \in Producers \ {p} : Holding(u) => k <= Dist(prod_tail, head[u])
  <2> SUFFICES ASSUME NEW u \in Producers \ {p}, Holding(u)
               PROVE  k <= Dist(prod_tail, head[u])
    OBVIOUS
  <2>1. Dist(prod_tail, head[p]) = 0
    BY <1>3, <1>t, DistZero DEF TypeOK
  <2>2. Dist(prod_tail, head[u]) \in Nat /\ n[u] \in Nat /\ n[u] >= 1
    <3>1. u \in Threads /\ head[u] \in Index /\ max[u] \in Nat /\ n[u] \in Nat
      BY <1>t DEF TypeOK
    <3>2. n[u] \in 1 .. max[u]
      BY <3>1, <1>t DEF Counters
    <3> QED
      BY <3>1, <3>2, <1>t, DistNat DEF TypeOK
  <2>3. \/ Dist(prod_tail, head[p]) + n[p] <= Dist(prod_tail, head[u])
        \/ Dist(prod_tail, head[u]) + n[u] <= Dist(prod_tail, head[p])
    BY <1>1, <1>t DEF IndexInv, RangesDisjoint, RangesOf
  <2> QED
    BY <2>1, <2>2, <2>3, <1>2
<1>6. /\ Dist(cons_head, prod_tail') = Dist(cons_head, prod_tail) + k
      /\ Dist(prod_tail', prod_head) = Dist(prod_tail, prod_head) - k
      /\ \A u \in Producers \ {p} :
           Holding(u) => Dist(prod_tail', head[u]) = Dist(prod_tail, head[u]) - k
  <2>1. /\ Dist(cons_head, prod_tail) + k < IndexMod
        /\ prod_tail \in Index /\ prod_head \in Index /\ cons_head \in Index
        /\ \A u \in Threads : head[u] \in Index
    <3>1. /\ Dist(cons_tail, cons_head) \in Nat /\ Dist(cons_head, prod_tail) \in Nat
          /\ Dist(prod_tail, prod_head) \in Nat
          /\ Dist(cons_tail, cons_head) + Dist(cons_head, prod_tail)
               + Dist(prod_tail, prod_head) <= Mask
          /\ Mask < IndexMod /\ Mask \in Nat /\ IndexMod \in Nat
      BY <1>t, Distances, SizeAssumption DEF IndexInv, IndexOrder
    <3> QED
      BY <3>1, <1>2, <1>4, <1>t DEF TypeOK
  <2>2. Dist(cons_head, Plus(prod_tail, k)) = Dist(cons_head, prod_tail) + k
    BY <2>1, <1>2, Advance
  <2>3. Dist(Plus(prod_tail, k), prod_head) = Dist(prod_tail, prod_head) - k
    BY <2>1, <1>2, <1>4, Shorten
  <2>4. ASSUME NEW u \in Producers \ {p}, Holding(u)
        PROVE  Dist(Plus(prod_tail, k), head[u]) = Dist(prod_tail, head[u]) - k
    BY <2>1, <2>4, <1>2, <1>5, <1>t, Shorten
  <2>5. prod_tail' = Plus(prod_tail, k)
    BY <1>1, <1>3
  <2> QED
    BY <2>2, <2>3, <2>4, <2>5
<1>7. IndexOrder'
  <2>1. /\ Dist(cons_tail, cons_head)' = Dist(cons_tail, cons_head)
        /\ Dist(cons_head, prod_tail)' = Dist(cons_head, prod_tail')
        /\ Dist(prod_tail, prod_head)' = Dist(prod_tail', prod_head)
    BY <1>1 DEF Dist, Minus
  <2>2. /\ Dist(cons_tail, cons_head) \in Nat /\ Dist(cons_head, prod_tail) \in Nat
        /\ Dist(prod_tail, prod_head) \in Nat
    BY <1>t, Distances DEF IndexInv
  <2> QED
    BY <2>1, <2>2, <1>2, <1>6, <1>t DEF IndexInv, IndexOrder, Mask
<1>8. RangesDisjoint'
  <2>1. /\ \A u \in Threads \ {p} : Holding(u)' <=> Holding(u)
        /\ ~Holding(p)'
    BY <1>1, <1>t DEF Holding, TypeOK
  <2>2. RangesOf(Consumers, cons_tail, cons_head)'
    <3>1. /\ \A u \in Consumers : Dist(cons_tail, head[u])' = Dist(cons_tail, head[u])
                                  /\ n'[u] = n[u] /\ (Holding(u)' <=> Holding(u))
          /\ Dist(cons_tail, cons_head)' = Dist(cons_tail, cons_head)
      BY <2>1, <1>1, <1>t DEF Dist, Minus
    <3> QED
      BY <3>1, <1>t DEF IndexInv, RangesDisjoint, RangesOf
  <2>3. \A u \in Producers : Holding(u)' =>
           /\ u # p /\ Holding(u) /\ n'[u] = n[u] /\ n[u] \in Nat
           /\ Dist(prod_tail, head[u])' = Dist(prod_tail, head[u]) - k
           /\ Dist(prod_tail, head[u]) \in Nat
    <3>1. \A u \in Producers \ {p} : Dist(prod_tail, head[u])' = Dist(prod_tail', head[u])
      BY <1>1, <1>t DEF Dist, Minus
    <3>2. \A u \in Producers : Dist(prod_tail, head[u]) \in Nat /\ n[u] \in Nat
      BY <1>t, DistNat DEF TypeOK
    <3> QED
      BY <3>1, <3>2, <2>1, <1>1, <1>6, <1>t
  <2>4. /\ Dist(prod_tail, prod_head)' = Dist(prod_tail, prod_head) - k
        /\ Dist(prod_tail, prod_head) \in Nat
    <3>1. Dist(prod_tail, prod_head)' = Dist(prod_tail', prod_head)
      BY <1>1 DEF Dist, Minus
    <3> QED
      BY <3>1, <1>6, <1>t, DistNat DEF TypeOK
  <2>5. RangesOf(Producers, prod_tail, prod_head)'
    <3>1. ASSUME NEW u \in Producers, Holding(u)'
          PROVE  Dist(prod_tail, head[u])' + n'[u] <= Dist(prod_tail, prod_head)'
      <4>1. Dist(prod_tail, head[u]) + n[u] <= Dist(prod_tail, prod_head)
        BY <2>3, <3>1, <1>t DEF IndexInv, RangesDisjoint, RangesOf
      <4> QED
        BY <4>1, <2>3, <2>4, <3>1, <1>2
    <3>2. ASSUME NEW u \in Producers, NEW v \in Producers,
                 u # v, Holding(u)', Holding(v)'
          PROVE  \/ Dist(prod_tail, head[u])' + n'[u] <= Dist(prod_tail, head[v])'
                 \/ Dist(prod_tail, head[v])' + n'[v] <= Dist(prod_tail, head[u])'
      <4>1. \/ Dist(prod_tail, head[u]) + n[u] <= Dist(prod_tail, head[v])
            \/ Dist(prod_tail, head[v]) + n[v] <= Dist(prod_tail, head[u])
        BY <2>3, <3>2, <1>t DEF IndexInv, RangesDisjoint, RangesOf
      <4> QED
        BY <4>1, <2>3, <3>2, <1>2
    <3> QED
      BY <3>1, <3>2 DEF RangesOf
  <2> QED
    BY <2>2, <2>5 DEF RangesDisjoint
<1>r. \A u \in Threads : /\ Racing(u)' => u # p /\ Racing(u)
                         /\ pc'[u] = "reserve" => u # p /\ pc[u] = "reserve"
                         /\ u # p => head'[u] = head[u] /\ n'[u] = n[u]
  BY <1>1, <1>t DEF Racing, TypeOK
<1>9. Snapshots'
  BY <1>r, <1>1, <1>t DEF IndexInv, Snapshots, Dist, Minus
<1>10. StillAdmitted'
  <2>1. ASSUME NEW u \in Producers, pc'[u] = "reserve", drift'[u] = 0
        PROVE  Dist(cons_tail, prod_head)' + n'[u] <= Mask
    BY <2>1, <1>r, <1>1, <1>t DEF IndexInv, StillAdmitted, Dist, Minus
  <2>2. ASSUME NEW u \in Consumers, pc'[u] = "reserve", drift'[u] = 0
        PROVE  n'[u] <= Dist(cons_head, prod_tail)'
    <3>1. n[u] <= Dist(cons_head, prod_tail) /\ n'[u] = n[u]
      BY <2>2, <1>r, <1>1, <1>t DEF IndexInv, StillAdmitted
    <3>2. Dist(cons_head, prod_tail)' = Dist(cons_head, prod_tail')
      BY <1>1 DEF Dist, Minus
    <3>3. n[u] \in Nat /\ Dist(cons_head, prod_tail) \in Nat
      BY <1>t, DistNat DEF TypeOK
    <3> QED
      BY <3>1, <3>2, <3>3, <1>2, <1>6
  <2> QED
    BY <2>1, <2>2 DEF StillAdmitted
<1>11. Alone'
  <2>1. ASSUME Lone(Producers)
        PROVE  AloneOn(Producers, prod_tail, prod_head)'
    <3>1. \A q \in Producers : q = p
      BY <2>1 DEF Lone
    <3>2. prod_tail' = prod_head' /\ drift'[p] = 0 /\ ~Holding(p)'
      BY <2>1, <1>1, <1>3, <1>t DEF IndexInv, Alone, AloneOn, Holding, TypeOK
    <3> QED
      BY <3>1, <3>2 DEF AloneOn
  <2>2. ASSUME Lone(Consumers)
        PROVE  AloneOn(Consumers, cons_tail, cons_head)'
    <3>1. \A u \in Consumers : /\ drift'[u] = drift[u] /\ pc'[u] = pc[u]
                                /\ head'[u] = head[u] /\ n'[u] = n[u]
      BY <1>1, <1>t
    <3> QED
      BY <3>1, <2>2, <1>1, <1>t DEF IndexInv, Alone, AloneOn, Holding, Plus
  <2> QED
    BY <2>1, <2>2 DEF Alone
<1> QED
  BY <1>7, <1>8, <1>9, <1>10, <1>11 DEF IndexInv

(* A consumer releases its range: cons.tail moves to where the next range   *)
(* in progress starts, and producers gain that much room.                   *)
LEMMA ReleaseSlotsKeeps ==
  ASSUME IInv, NEW c \in Consumers, ReleaseSlots(c)
  PROVE  IndexInv'
<1> DEFINE k == n[c]
<1>t. TypeOK /\ IndexInv /\ Counters /\ c \in Threads /\ c \notin Producers
      /\ Consumers \subseteq Threads /\ Producers \subseteq Threads
      /\ Consumers \cap Producers = {}
  BY ThreadsAssumption DEF IInv, IndexInv, Threads
<1>1. /\ pc[c] = "publish" /\ pc' = [pc EXCEPT ![c] = "idle"] /\ Holding(c)
      /\ cons_tail' = Plus(head[c], k)
      /\ cons_head' = cons_head /\ prod_head' = prod_head /\ prod_tail' = prod_tail
      /\ \A u \in Threads \ {c} : head'[u] = head[u] /\ n'[u] = n[u] /\ pc'[u] = pc[u]
      /\ drift' = drift
  BY <1>t DEF ReleaseSlots, Finish, Holding, TypeOK
<1>2. k \in Nat /\ k >= 1 /\ k \in Index
  BY <1>t, <1>1, CopyBounds DEF Counters, TypeOK, Index
<1>3. head[c] = cons_tail
  <2>1. CASE ScDequeue
    BY Flags, <2>1, <1>1, <1>t DEF IndexInv, Alone, AloneOn
  <2>2. CASE ~ScDequeue
    BY <2>2 DEF ReleaseSlots
  <2> QED
    BY <2>1, <2>2
<1>4. k <= Dist(cons_tail, cons_head)
  <2>1. Dist(cons_tail, head[c]) = 0
    BY <1>3, <1>t, DistZero DEF TypeOK
  <2> QED
    BY <2>1, <1>1, <1>2, <1>t DEF IndexInv, RangesDisjoint, RangesOf
<1>5. \A u \in Consumers \ {c} : Holding(u) => k <= Dist(cons_tail, head[u])
  <2> SUFFICES ASSUME NEW u \in Consumers \ {c}, Holding(u)
               PROVE  k <= Dist(cons_tail, head[u])
    OBVIOUS
  <2>1. Dist(cons_tail, head[c]) = 0
    BY <1>3, <1>t, DistZero DEF TypeOK
  <2>2. Dist(cons_tail, head[u]) \in Nat /\ n[u] \in Nat /\ n[u] >= 1
    <3>1. u \in Threads /\ head[u] \in Index /\ max[u] \in Nat /\ n[u] \in Nat
      BY <1>t DEF TypeOK
    <3>2. n[u] \in 1 .. max[u]
      BY <3>1, <1>t DEF Counters
    <3> QED
      BY <3>1, <3>2, <1>t, DistNat DEF TypeOK
  <2>3. \/ Dist(cons_tail, head[c]) + n[c] <= Dist(cons_tail, head[u])
        \/ Dist(cons_tail, head[u]) + n[u] <= Dist(cons_tail, head[c])
    BY <1>1, <1>t DEF IndexInv, RangesDisjoint, RangesOf
  <2> QED
    BY <2>1, <2>2, <2>3, <1>2
<1>6. /\ Dist(cons_tail', cons_head) = Dist(cons_tail, cons_head) - k
      /\ Dist(cons_tail', prod_head) = Dist(cons_tail, prod_head) - k
      /\ \A u \in Consumers \ {c} :
           Holding(u) => Dist(cons_tail', head[u]) = Dist(cons_tail, head[u]) - k
  <2>1. /\ cons_tail \in Index /\ prod_head \in Index /\ cons_head \in Index
        /\ \A u \in Threads : head[u] \in Index
        /\ k <= Dist(cons_tail, prod_head)
    <3>1. /\ Dist(cons_tail, cons_head) \in Nat
          /\ Dist(cons_tail, cons_head) <= Dist(cons_tail, prod_head)
          /\ Dist(cons_tail, prod_head) \in Nat
      BY <1>t, Distances DEF IndexInv
    <3> QED
      BY <3>1, <1>2, <1>4, <1>t DEF TypeOK
  <2>2. Dist(Plus(cons_tail, k), cons_head) = Dist(cons_tail, cons_head) - k
    BY <2>1, <1>2, <1>4, Shorten
  <2>3. Dist(Plus(cons_tail, k), prod_head) = Dist(cons_tail, prod_head) - k
    BY <2>1, <1>2, Shorten
  <2>4. ASSUME NEW u \in Consumers \ {c}, Holding(u)
        PROVE  Dist(Plus(cons_tail, k), head[u]) = Dist(cons_tail, head[u]) - k
    BY <2>1, <2>4, <1>2, <1>5, <1>t, Shorten
  <2>5. cons_tail' = Plus(cons_tail, k)
    BY <1>1, <1>3
  <2> QED
    BY <2>2, <2>3, <2>4, <2>5
<1>7. IndexOrder'
  <2>1. /\ Dist(cons_tail, cons_head)' = Dist(cons_tail', cons_head)
        /\ Dist(cons_head, prod_tail)' = Dist(cons_head, prod_tail)
        /\ Dist(prod_tail, prod_head)' = Dist(prod_tail, prod_head)
    BY <1>1 DEF Dist, Minus
  <2>2. /\ Dist(cons_tail, cons_head) \in Nat /\ Dist(cons_head, prod_tail) \in Nat
        /\ Dist(prod_tail, prod_head) \in Nat /\ Mask \in Nat
    BY <1>t, Distances DEF IndexInv
  <2> QED
    BY <2>1, <2>2, <1>2, <1>4, <1>6, <1>t DEF IndexInv, IndexOrder, Mask
<1>8. RangesDisjoint'
  <2>1. /\ \A u \in Threads \ {c} : Holding(u)' <=> Holding(u)
        /\ ~Holding(c)'
    BY <1>1, <1>t DEF Holding, TypeOK
  <2>2. RangesOf(Producers, prod_tail, prod_head)'
    <3>1. /\ \A u \in Producers : Dist(prod_tail, head[u])' = Dist(prod_tail, head[u])
                                  /\ n'[u] = n[u] /\ (Holding(u)' <=> Holding(u))
          /\ Dist(prod_tail, prod_head)' = Dist(prod_tail, prod_head)
      BY <2>1, <1>1, <1>t DEF Dist, Minus
    <3> QED
      BY <3>1, <1>t DEF IndexInv, RangesDisjoint, RangesOf
  <2>3. \A u \in Consumers : Holding(u)' =>
           /\ u # c /\ Holding(u) /\ n'[u] = n[u] /\ n[u] \in Nat
           /\ Dist(cons_tail, head[u])' = Dist(cons_tail, head[u]) - k
           /\ Dist(cons_tail, head[u]) \in Nat
    <3>1. \A u \in Consumers \ {c} : Dist(cons_tail, head[u])' = Dist(cons_tail', head[u])
      BY <1>1, <1>t DEF Dist, Minus
    <3>2. \A u \in Consumers : Dist(cons_tail, head[u]) \in Nat /\ n[u] \in Nat
      BY <1>t, DistNat DEF TypeOK
    <3> QED
      BY <3>1, <3>2, <2>1, <1>1, <1>6, <1>t
  <2>4. /\ Dist(cons_tail, cons_head)' = Dist(cons_tail, cons_head) - k
        /\ Dist(cons_tail, cons_head) \in Nat
    <3>1. Dist(cons_tail, cons_head)' = Dist(cons_tail', cons_head)
      BY <1>1 DEF Dist, Minus
    <3> QED
      BY <3>1, <1>6, <1>t, DistNat DEF TypeOK
  <2>5. RangesOf(Consumers, cons_tail, cons_head)'
    <3>1. ASSUME NEW u \in Consumers, Holding(u)'
          PROVE  Dist(cons_tail, head[u])' + n'[u] <= Dist(cons_tail, cons_head)'
      <4>1. Dist(cons_tail, head[u]) + n[u] <= Dist(cons_tail, cons_head)
        BY <2>3, <3>1, <1>t DEF IndexInv, RangesDisjoint, RangesOf
      <4> QED
        BY <4>1, <2>3, <2>4, <3>1, <1>2
    <3>2. ASSUME NEW u \in Consumers, NEW v \in Consumers,
                 u # v, Holding(u)', Holding(v)'
          PROVE  \/ Dist(cons_tail, head[u])' + n'[u] <= Dist(cons_tail, head[v])'
                 \/ Dist(cons_tail, head[v])' + n'[v] <= Dist(cons_tail, head[u])'
      <4>1. \/ Dist(cons_tail, head[u]) + n[u] <= Dist(cons_tail, head[v])
            \/ Dist(cons_tail, head[v]) + n[v] <= Dist(cons_tail, head[u])
        BY <2>3, <3>2, <1>t DEF IndexInv, RangesDisjoint, RangesOf
      <4> QED
        BY <4>1, <2>3, <3>2, <1>2
    <3> QED
      BY <3>1, <3>2 DEF RangesOf
  <2> QED
    BY <2>2, <2>5 DEF RangesDisjoint
<1>r. \A u \in Threads : /\ Racing(u)' => u # c /\ Racing(u)
                         /\ pc'[u] = "reserve" => u # c /\ pc[u] = "reserve"
                         /\ u # c => head'[u] = head[u] /\ n'[u] = n[u]
  BY <1>1, <1>t DEF Racing, TypeOK
<1>9. Snapshots'
  BY <1>r, <1>1, <1>t DEF IndexInv, Snapshots, Dist, Minus
<1>10. StillAdmitted'
  <2>1. ASSUME NEW u \in Consumers, pc'[u] = "reserve", drift'[u] = 0
        PROVE  n'[u] <= Dist(cons_head, prod_tail)'
    BY <2>1, <1>r, <1>1, <1>t DEF IndexInv, StillAdmitted, Dist, Minus
  <2>2. ASSUME NEW u \in Producers, pc'[u] = "reserve", drift'[u] = 0
        PROVE  Dist(cons_tail, prod_head)' + n'[u] <= Mask
    <3>1. Dist(cons_tail, prod_head) + n[u] <= Mask /\ n'[u] = n[u]
      BY <2>2, <1>r, <1>1, <1>t DEF IndexInv, StillAdmitted
    <3>2. Dist(cons_tail, prod_head)' = Dist(cons_tail', prod_head)
      BY <1>1 DEF Dist, Minus
    <3>3. n[u] \in Nat /\ Dist(cons_tail, prod_head) \in Nat /\ Mask \in Nat
      BY <1>t, DistNat, Distances DEF TypeOK, IndexInv
    <3> QED
      BY <3>1, <3>2, <3>3, <1>2, <1>6
  <2> QED
    BY <2>1, <2>2 DEF StillAdmitted
<1>11. Alone'
  <2>1. ASSUME Lone(Consumers)
        PROVE  AloneOn(Consumers, cons_tail, cons_head)'
    <3>1. \A q \in Consumers : q = c
      BY <2>1 DEF Lone
    <3>2. cons_tail' = cons_head' /\ drift'[c] = 0 /\ ~Holding(c)'
      BY <2>1, <1>1, <1>3, <1>t DEF IndexInv, Alone, AloneOn, Holding, TypeOK
    <3> QED
      BY <3>1, <3>2 DEF AloneOn
  <2>2. ASSUME Lone(Producers)
        PROVE  AloneOn(Producers, prod_tail, prod_head)'
    <3>1. \A u \in Producers : /\ drift'[u] = drift[u] /\ pc'[u] = pc[u]
                                /\ head'[u] = head[u] /\ n'[u] = n[u]
      BY <1>1, <1>t
    <3> QED
      BY <3>1, <2>2, <1>1, <1>t DEF IndexInv, Alone, AloneOn, Holding, Plus
  <2> QED
    BY <2>1, <2>2 DEF Alone
<1> QED
  BY <1>7, <1>8, <1>9, <1>10, <1>11 DEF IndexInv

-----------------------------------------------------------------------------
(* The three facts about the inductive invariant. *)
(* The inductive invariant holds in an empty ring nobody uses. *)
THEOREM InitIInv == Init => IInv
<1> SUFFICES ASSUME Init PROVE IInv
  OBVIOUS
<1>1. PICK s \in StartIndexes : /\ prod_head = s /\ prod_tail = s
                               /\ cons_head = s /\ cons_tail = s
  BY DEF Init
<1>2. s \in Index /\ 0 \in Index /\ 0 \in 0 .. MaxDrift
  BY StartAssumption, SizeAssumption DEF Index, MaxDrift
<1>3. \A t \in Threads : pc[t] = "idle" /\ i[t] = 0 /\ drift[t] = 0
  BY DEF Init
<1>4. TypeOK
  BY <1>1, <1>2, SizeAssumption DEF Init, TypeOK, PCs
<1>5. Counters
  BY <1>3 DEF Counters, Holding, Threads
<1>6. IndexOrder
  BY <1>1, <1>2, DistZero, SizeAssumption DEF IndexOrder, Mask
<1>7. RangesDisjoint /\ Snapshots /\ StillAdmitted /\ Alone
  BY <1>1, <1>3 DEF RangesDisjoint, RangesOf, Snapshots, StillAdmitted, Alone,
                    AloneOn, Holding, Racing, Threads
<1> QED
  BY <1>4, <1>5, <1>6, <1>7 DEF IInv

(* Every step of every thread keeps the inductive invariant. *)
THEOREM NextIInv == IInv /\ [Next]_vars => IInv'
<1> SUFFICES ASSUME IInv, [Next]_vars PROVE IInv'
  OBVIOUS
<1>1. TypeOK' /\ Counters'
  BY TypeStep, CounterStep
<1>2. ASSUME NEW p \in Producers, EnqueueCall(p) \/ EnqueueStep(p)
      PROVE  IndexInv'
  BY <1>2, QuietEnqueue, ReserveSlotsKeeps, PublishEntriesKeeps DEF EnqueueStep
<1>3. ASSUME NEW c \in Consumers, DequeueCall(c) \/ DequeueStep(c)
      PROVE  IndexInv'
  BY <1>3, QuietDequeue, ReserveEntriesKeeps, ReleaseSlotsKeeps DEF DequeueStep
<1>4. ASSUME UNCHANGED <<index, pc, head, n, drift>>
      PROVE  IndexInv'
  BY <1>4 DEF index, IInv, IndexInv, IndexOrder, RangesDisjoint, RangesOf, Snapshots,
              StillAdmitted, Alone, AloneOn, Holding, Racing, Dist, Minus, Plus
<1>5. ASSUME NEW count \in WaterMarks, SetWaterMark(count)
      PROVE  IndexInv'
  BY <1>4, <1>5 DEF SetWaterMark, local
<1>6. ASSUME UNCHANGED vars
      PROVE  IndexInv'
  BY <1>4, <1>6 DEF vars, local
<1>7. IndexInv'
  BY <1>2, <1>3, <1>5, <1>6 DEF Next
<1> QED
  BY <1>1, <1>7 DEF IInv, IndexInv

(* A thread goes from its look at the opposite tail to idle only by its own *)
(* refused call.                                                            *)
LEMMA OnlyOwnCall ==
  ASSUME TypeOK, [Next]_vars, NEW t \in Threads, pc[t] = "tail", pc'[t] = "idle"
  PROVE  \/ t \in Producers /\ EnqueueRefused(t)
         \/ t \in Consumers /\ DequeueRefused(t)
<1> USE DEF TypeOK
<1>1. ASSUME NEW p \in Producers, EnqueueCall(p) \/ EnqueueStep(p), ~EnqueueRefused(p)
      PROVE  pc'[t] = pc[t] \/ pc'[t] # "idle" \/ pc[t] # "tail"
  BY <1>1 DEF EnqueueStep, EnqueueCall, LoadProdHead, EnqueueAgain, EnqueueAdmitted,
              ReserveSlots, ReserveSlotsFails, WriteEntry, CheckWatermark,
              PublishEntries, Finish, Threads
<1>2. ASSUME NEW c \in Consumers, DequeueCall(c) \/ DequeueStep(c), ~DequeueRefused(c)
      PROVE  pc'[t] = pc[t] \/ pc'[t] # "idle" \/ pc[t] # "tail"
  BY <1>2 DEF DequeueStep, DequeueCall, LoadConsHead, DequeueAgain, DequeueAdmitted,
              ReserveEntries, ReserveEntriesFails, ReadEntry, ReleaseSlots, Finish, Threads
<1>3. ASSUME NEW p \in Producers, EnqueueRefused(p)
      PROVE  p = t
  BY <1>3 DEF EnqueueRefused, Finish, Threads
<1>4. ASSUME NEW c \in Consumers, DequeueRefused(c)
      PROVE  c = t
  BY <1>4 DEF DequeueRefused, Finish, Threads
<1>5. ASSUME NEW count \in WaterMarks, SetWaterMark(count)
      PROVE  FALSE
  BY <1>5 DEF SetWaterMark
<1>6. ASSUME UNCHANGED vars
      PROVE  FALSE
  BY <1>6 DEF vars
<1> QED
  BY <1>1, <1>2, <1>3, <1>4, <1>5, <1>6 DEF Next

(* So it holds in every reachable state. *)
THEOREM SpecIInv == Spec => []IInv
  BY InitIInv, NextIInv, PTL DEF Spec

(* Every variable of the ring and every local variable of its users keeps   *)
(* its type; in particular the indices never leave their range.             *)
THEOREM TypeSafe == Spec => []TypeOK
<1>1. IInv => TypeOK
  BY DEF IInv
<1> QED
  BY <1>1, SpecIInv, PTL

(* The indices keep their cyclic order and never span more than mask        *)
(* entries, for any number of lcores enqueueing and dequeueing at once.     *)
THEOREM IndexOrderSafe == Spec => []IndexOrder
<1>1. IInv => IndexOrder
  BY DEF IInv
<1> QED
  BY <1>1, SpecIInv, PTL

(* No two lcores of one side ever hold overlapping ranges. *)
THEOREM RangesSafe == Spec => []RangesDisjoint
<1>1. IInv => RangesDisjoint
  BY DEF IInv
<1> QED
  BY <1>1, SpecIInv, PTL

(* An enqueue call fails only if there was really too little room when it   *)
(* looked, even though its copy of prod.head may have been out of date.     *)
LEMMA RefusalHonest == IInv /\ [Next]_vars => RefusalIsHonest
<1>1. ASSUME IInv, [Next]_vars, NEW p \in Producers, pc[p] = "tail", pc'[p] = "idle"
      PROVE  Dist(cons_tail, prod_head)
               + (IF behavior[p] = "FIXED" THEN max[p] ELSE 1) > Mask
  <2>t. TypeOK /\ p \in Threads /\ p \notin Consumers
    BY <1>1, ThreadsAssumption DEF IInv, Threads
  <2>1. EnqueueRefused(p)
    BY <2>t, <1>1, OnlyOwnCall DEF EnqueueStep
  <2>2. FreeEntries(head[p]) = Mask - Dist(cons_tail, prod_head) + drift[p]
    BY <1>1, FreeEntriesValue
  <2>3. /\ n[p] = max[p] /\ max[p] \in Nat /\ drift[p] \in Nat
        /\ behavior[p] \in {"FIXED", "VARIABLE"}
    BY <1>1, <2>t DEF IInv, TypeOK, Counters, MaxDrift
  <2>4. Dist(cons_tail, prod_head) \in Nat /\ Mask \in Nat
    BY <1>1, Distances DEF IInv
  <2> QED
    BY <2>1, <2>2, <2>3, <2>4 DEF EnqueueRefused
<1> QED
  BY <1>1 DEF RefusalIsHonest

(* A dequeue call fails only if there were really too few entries. *)
LEMMA EmptinessHonest == IInv /\ [Next]_vars => EmptinessIsHonest
<1>1. ASSUME IInv, [Next]_vars, NEW c \in Consumers, pc[c] = "tail", pc'[c] = "idle"
      PROVE  Dist(cons_head, prod_tail) < (IF behavior[c] = "FIXED" THEN max[c] ELSE 1)
  <2>t. TypeOK /\ c \in Threads /\ c \notin Producers
    BY <1>1, ThreadsAssumption DEF IInv, Threads
  <2>1. DequeueRefused(c)
    BY <2>t, <1>1, OnlyOwnCall
  <2>2. Entries(head[c]) = Dist(cons_head, prod_tail) + drift[c]
    BY <1>1, EntriesValue
  <2>3. /\ n[c] = max[c] /\ max[c] \in Nat /\ drift[c] \in Nat
        /\ behavior[c] \in {"FIXED", "VARIABLE"}
    BY <1>1, <2>t DEF IInv, TypeOK, Counters, MaxDrift
  <2>4. Dist(cons_head, prod_tail) \in Nat
    BY <1>1, Distances DEF IInv
  <2> QED
    BY <2>1, <2>2, <2>3, <2>4 DEF DequeueRefused
<1> QED
  BY <1>1 DEF EmptinessIsHonest

(* Whatever the interleaving, a call that fails fails for a true reason.    *)
THEOREM CallsAnsweredHonestly == Spec => AnswersHonest
<1>1. IInv /\ [Next]_vars => [RefusalIsHonest /\ EmptinessIsHonest]_vars
  BY RefusalHonest, EmptinessHonest
<1> QED
  BY <1>1, SpecIInv, PTL DEF Spec, AnswersHonest

(* A multiple of the size that is smaller than the size is 0. *)
LEMMA SmallMultiple ==
  ASSUME NEW m \in Int, Size * m >= 0, Size * m < Size
  PROVE  m = 0
<1>1. Size \in Nat /\ Size >= 1
  BY SizeAssumption
<1>2. CASE m >= 1
  <2>1. Size * m = Size + Size * (m - 1) /\ Size * (m - 1) >= 0
    BY <1>1, <1>2
  <2>. QED BY <1>1, <2>1
<1>3. CASE m <= -1
  <2>1. Size * m = -Size + Size * (m + 1) /\ Size * (m + 1) <= 0
    BY <1>1, <1>3
  <2>. QED BY <1>1, <2>1
<1>. QED BY <1>2, <1>3

(* Indices less than a table apart that share a slot are the same index.    *)
LEMMA SlotsApart ==
  ASSUME NEW a \in Index, NEW b \in Index, Dist(a, b) < Size, Slot(a) = Slot(b)
  PROVE  a = b
<1>1. PICK laps \in 1 .. IndexMod : IndexMod = laps * Size
  BY DivisionAssumption
<1>2. /\ Size \in Nat /\ Size >= 1 /\ IndexMod \in Nat
      /\ a \in Nat /\ b \in Nat /\ a < IndexMod /\ b < IndexMod
  BY SizeAssumption DEF Index
<1>3. /\ a = Size * (a \div Size) + (a % Size) /\ a \div Size \in Int /\ a % Size \in Int
      /\ b = Size * (b \div Size) + (b % Size) /\ b \div Size \in Int /\ b % Size \in Int
  BY <1>2
<1>4. a % Size = b % Size
  BY DEF Slot
<1>5. b - a = Size * (b \div Size - a \div Size)
  <2>. DEFINE q == a \div Size  r == b \div Size  s == a % Size
  <2>1. q \in Int /\ r \in Int /\ s \in Int /\ a = Size * q + s /\ b = Size * r + s
    BY <1>3, <1>4
  <2>. HIDE DEF q, r, s
  <2>2. b - a = Size * (r - q)
    BY <1>2, <2>1
  <2>. QED BY <2>2 DEF q, r
<1>6. Dist(a, b) = 0
  <2>1. CASE b >= a
    <3>1. Dist(a, b) = Size * (b \div Size - a \div Size)
      BY <1>2, <1>5, <2>1 DEF Dist, Minus
    <3>2. b \div Size - a \div Size = 0
      BY <1>2, <1>3, <2>1, <3>1, <1>5, SmallMultiple
    <3>. QED BY <1>2, <3>1, <3>2
  <2>2. CASE b < a
    <3>1. IndexMod = Size * laps /\ laps \in Int
      BY <1>1, <1>2
    <3>. DEFINE m == (b \div Size - a \div Size) + laps
    <3>2. m \in Int /\ Size * m = b - a + IndexMod
      BY <1>2, <1>3, <1>5, <3>1
    <3>. HIDE DEF m
    <3>3. Dist(a, b) = Size * m /\ Dist(a, b) >= 0
      BY <1>2, <2>2, <3>2 DEF Dist, Minus
    <3>4. m = 0
      BY <3>2, <3>3, SmallMultiple
    <3>. QED BY <1>2, <3>3, <3>4
  <2>. QED BY <1>2, <2>1, <2>2
<1>. QED BY <1>6, DistZero

(* Two places a different way from a third, less than a table away, are in  *)
(* different slots.                                                         *)
LEMMA WaysApart ==
  ASSUME NEW c \in Index, NEW a \in Index, NEW b \in Index,
         Dist(c, a) < Size, Dist(c, b) < Size, Dist(c, a) # Dist(c, b)
  PROVE  Slot(a) # Slot(b)
<1>1. CASE Dist(c, a) < Dist(c, b)
  <2>1. Dist(a, b) < Size /\ a # b
    BY <1>1, SizeAssumption DEF Index, Dist, Minus
  <2>. QED BY <2>1, SlotsApart
<1>2. CASE Dist(c, b) < Dist(c, a)
  <2>1. Dist(b, a) < Size /\ a # b
    BY <1>2, SizeAssumption DEF Index, Dist, Minus
  <2>. QED BY <2>1, SlotsApart
<1>. QED BY <1>1, <1>2, DistNat

(* Where the entries a thread has reserved are, counted from cons.tail.     *)
LEMMA HeldRange ==
  ASSUME IInv, NEW t \in Threads, Holding(t), NEW k \in 0 .. n[t] - 1
  PROVE  /\ Plus(head[t], k) \in Index
         /\ Dist(cons_tail, Plus(head[t], k)) = Dist(cons_tail, head[t]) + k
         /\ Dist(cons_tail, head[t]) + n[t] <= Mask
         /\ k \in Nat /\ k < n[t]
         /\ t \in Producers => Dist(cons_tail, head[t])
                                 = Dist(cons_tail, prod_tail) + Dist(prod_tail, head[t])
         /\ t \in Consumers => Dist(cons_tail, head[t]) + n[t] <= Dist(cons_tail, cons_head)
<1>1. /\ TypeOK /\ IndexOrder /\ Counters /\ RangesDisjoint
      /\ head[t] \in Index /\ n[t] \in Nat /\ n[t] \in Index
  <2>1. TypeOK /\ IndexOrder /\ Counters /\ RangesDisjoint
    BY DEF IInv
  <2>2. head[t] \in Index /\ n[t] \in Nat
    BY <2>1 DEF TypeOK
  <2>. QED BY <2>1, <2>2, CopyBounds
<1>2. k \in Nat /\ k < n[t] /\ k \in Index
  BY <1>1, SizeAssumption DEF Index
<1>3. /\ cons_tail \in Index /\ cons_head \in Index /\ prod_tail \in Index /\ prod_head \in Index
      /\ Mask \in Nat /\ IndexMod \in Nat /\ Mask < IndexMod /\ Mask < Size
  BY <1>1, SizeAssumption DEF TypeOK, Mask
<1>4. CASE t \in Producers
  <2>1. Dist(prod_tail, head[t]) + n[t] <= Dist(prod_tail, prod_head)
    BY <1>1, <1>4 DEF RangesDisjoint, RangesOf
  <2>2. /\ Dist(cons_tail, prod_tail) + Dist(prod_tail, prod_head) <= Mask
        /\ Dist(cons_tail, prod_tail) \in Nat /\ Dist(prod_tail, head[t]) \in Nat
        /\ Dist(prod_tail, prod_head) \in Nat
    <3>1. /\ Dist(cons_tail, cons_head) + Dist(cons_head, prod_tail)
               + Dist(prod_tail, prod_head) <= Mask
          /\ Dist(cons_tail, prod_tail) = Dist(cons_tail, cons_head) + Dist(cons_head, prod_tail)
      BY <1>1, Distances DEF IndexOrder
    <3>. QED BY <1>1, <1>3, <3>1, DistNat
  <2>3. Dist(cons_tail, head[t]) = Dist(cons_tail, prod_tail) + Dist(prod_tail, head[t])
    BY <1>1, <1>3, <2>1, <2>2, Chain
  <2>4. Dist(cons_tail, head[t]) + n[t] <= Mask /\ Dist(cons_tail, head[t]) + k < IndexMod
    BY <1>1, <1>2, <1>3, <2>1, <2>2, <2>3
  <2>5. t \notin Consumers
    BY <1>4, ThreadsAssumption
  <2>6. /\ Plus(head[t], k) \in Index
        /\ Dist(cons_tail, Plus(head[t], k)) = Dist(cons_tail, head[t]) + k
    <3>1. Plus(head[t], k) \in Index
      BY <1>1, <1>2, WrapType
    <3>2. Dist(cons_tail, head[t]) + k < IndexMod
      BY <2>4
    <3>. QED BY <1>1, <1>2, <1>3, <3>1, <3>2, Advance
  <2>. QED BY <1>2, <2>3, <2>4, <2>5, <2>6
<1>5. CASE t \in Consumers
  <2>1. Dist(cons_tail, head[t]) + n[t] <= Dist(cons_tail, cons_head)
    BY <1>1, <1>5 DEF RangesDisjoint, RangesOf
  <2>2. Dist(cons_tail, cons_head) <= Mask /\ Dist(cons_tail, cons_head) \in Nat
        /\ Dist(cons_tail, head[t]) \in Nat
    BY <1>1, <1>3, Distances, DistNat
  <2>3. Dist(cons_tail, head[t]) + n[t] <= Mask /\ Dist(cons_tail, head[t]) + k < IndexMod
    BY <1>1, <1>2, <1>3, <2>1, <2>2
  <2>4. t \notin Producers
    BY <1>5, ThreadsAssumption
  <2>5. Plus(head[t], k) \in Index
    BY <1>1, <1>2, WrapType
  <2>6. Dist(cons_tail, Plus(head[t], k)) = Dist(cons_tail, head[t]) + k
    BY <1>1, <1>2, <1>3, <2>3, Advance
  <2>. QED BY <1>2, <2>1, <2>3, <2>4, <2>5, <2>6
<1>. QED BY <1>4, <1>5 DEF Threads

(* No slot is written while another lcore has to read or write it.          *)
THEOREM SlotsNeverShared == Spec => []NoSharedSlot
<1>1. ASSUME IInv, NEW p \in Producers, NEW t \in Threads, p # t, pc[p] = "copy", pc[t] = "copy",
             NEW j \in i[p] .. n[p] - 1, NEW k \in i[t] .. n[t] - 1
      PROVE  Slot(Plus(head[p], j)) # Slot(Plus(head[t], k))
  <2>. DEFINE x == Plus(head[p], j)  y == Plus(head[t], k)
  <2>0. /\ p \in Threads /\ TypeOK /\ IndexOrder /\ RangesDisjoint /\ Holding(p) /\ Holding(t)
        /\ cons_tail \in Index /\ cons_head \in Index /\ prod_tail \in Index
        /\ head[p] \in Index /\ head[t] \in Index /\ n[p] \in Nat /\ n[t] \in Nat
        /\ Mask \in Nat /\ Mask < Size /\ j \in 0 .. n[p] - 1 /\ k \in 0 .. n[t] - 1
    <3>1. p \in Threads /\ TypeOK /\ IndexOrder /\ RangesDisjoint /\ Holding(p) /\ Holding(t)
      BY <1>1 DEF IInv, Threads, Holding
    <3>2. Mask \in Nat /\ Mask < Size
      BY SizeAssumption DEF Mask
    <3>3. i[p] \in Nat /\ i[t] \in Nat /\ n[p] \in Nat /\ n[t] \in Nat
      BY <3>1 DEF TypeOK
    <3>4. j \in 0 .. n[p] - 1 /\ k \in 0 .. n[t] - 1
      BY <1>1, <3>3
    <3>. QED BY <3>1, <3>2, <3>3, <3>4 DEF TypeOK
  <2>1. /\ x \in Index /\ Dist(cons_tail, x) = Dist(cons_tail, head[p]) + j
        /\ Dist(cons_tail, head[p]) + n[p] <= Mask /\ j \in Nat /\ j < n[p]
        /\ Dist(cons_tail, head[p]) = Dist(cons_tail, prod_tail) + Dist(prod_tail, head[p])
    BY <1>1, <2>0, HeldRange
  <2>2. /\ y \in Index /\ Dist(cons_tail, y) = Dist(cons_tail, head[t]) + k
        /\ Dist(cons_tail, head[t]) + n[t] <= Mask /\ k \in Nat /\ k < n[t]
    BY <1>1, <2>0, HeldRange
  <2>3. /\ Dist(cons_tail, head[p]) \in Nat /\ Dist(cons_tail, head[t]) \in Nat
        /\ Dist(cons_tail, prod_tail) \in Nat /\ Dist(prod_tail, head[p]) \in Nat
        /\ Dist(prod_tail, head[t]) \in Nat
    BY <2>0, DistNat
  <2>4. Dist(cons_tail, x) # Dist(cons_tail, y)
    <3>1. CASE t \in Producers
      <4>1. Dist(cons_tail, head[t]) = Dist(cons_tail, prod_tail) + Dist(prod_tail, head[t])
        BY <1>1, <2>0, <3>1, HeldRange
      <4>2. \/ Dist(prod_tail, head[p]) + n[p] <= Dist(prod_tail, head[t])
            \/ Dist(prod_tail, head[t]) + n[t] <= Dist(prod_tail, head[p])
        BY <1>1, <2>0, <3>1 DEF RangesDisjoint, RangesOf
      <4>. HIDE DEF x, y
      <4>. QED BY <2>0, <2>1, <2>2, <2>3, <4>1, <4>2
    <3>2. CASE t \in Consumers
      <4>1. Dist(cons_tail, head[t]) + n[t] <= Dist(cons_tail, cons_head)
        BY <1>1, <2>0, <3>2, HeldRange
      <4>2. Dist(cons_tail, cons_head) <= Dist(cons_tail, prod_tail)
            /\ Dist(cons_tail, cons_head) \in Nat
        BY <2>0, Distances
      <4>. HIDE DEF x, y
      <4>. QED BY <2>0, <2>1, <2>2, <2>3, <4>1, <4>2
    <3>. QED BY <3>1, <3>2 DEF Threads
  <2>. HIDE DEF x, y
  <2>5. Dist(cons_tail, x) < Size /\ Dist(cons_tail, y) < Size
    BY <2>0, <2>1, <2>2, <2>3, SizeAssumption
  <2>6. Slot(x) # Slot(y)
    BY <2>0, <2>1, <2>2, <2>4, <2>5, WaysApart
  <2>. QED BY <2>6 DEF x, y
<1>2. IInv => NoSharedSlot
  BY <1>1 DEF NoSharedSlot, SlotsHeld
<1>. QED BY <1>2, SpecIInv, PTL

(* The free entries a producer counted, as long as they matter, are still   *)
(* free: consumers only add to them.                                        *)
Counting(p) ==
  \/ pc[p] = "reserve" /\ drift[p] = 0
  \/ pc[p] \in {"copy", "mark"}

RoomKnown ==
  \A p \in Producers : Counting(p) => room[p] + Dist(cons_tail, head[p]) <= Mask

(* A step that leaves the call of p and cons.tail alone, except that p may  *)
(* fall behind.                                                             *)
LEMMA RoomStays ==
  ASSUME NEW p \in Producers, RoomKnown, Counting(p)',
         cons_tail' = cons_tail, head'[p] = head[p], room'[p] = room[p],
         \/ pc'[p] = pc[p] /\ (drift'[p] = 0 => drift[p] = 0)
         \/ pc[p] \in {"copy", "mark"}
  PROVE  room'[p] + Dist(cons_tail', head'[p]) <= Mask
  BY DEF RoomKnown, Counting

(* A producer of which another lcore's compare-and-set takes no notice.     *)
LEMMA OvertakeKeeps ==
  ASSUME TypeOK, NEW p \in Threads, NEW q \in Threads, p # q, NEW k \in Nat, k >= 1,
         NEW side \in SUBSET Threads, Overtake(side, q, k), drift'[p] = 0
  PROVE  drift[p] = 0
<1>1. drift[p] \in Nat
  BY DEF TypeOK, MaxDrift
<1>2. drift'[p] \in {drift[p] + k, drift[p]}
  BY DEF Overtake
<1>. QED BY <1>1, <1>2

(* A consumer that moves cons.tail hands back entries behind the head of p.  *)
LEMMA RoomRelease ==
  ASSUME IInv, RoomKnown, NEW c \in Consumers, ReleaseSlots(c), NEW p \in Producers, Counting(p)'
  PROVE  room'[p] + Dist(cons_tail', head'[p]) <= Mask
<1>1. /\ TypeOK /\ IndexOrder /\ RangesDisjoint /\ Counters /\ Snapshots
      /\ c \in Threads /\ p \in Threads /\ c # p
  BY ThreadsAssumption DEF IInv, Threads
<1>2. /\ pc[c] = "publish" /\ Holding(c) /\ cons_tail' = Plus(head[c], n[c])
      /\ pc'[p] = pc[p] /\ head'[p] = head[p] /\ room'[p] = room[p] /\ drift' = drift
  BY <1>1 DEF ReleaseSlots, Finish, Holding, TypeOK
<1>3. head[c] = cons_tail
  <2>1. CASE ScDequeue
    BY Flags, <1>1, <1>2, <2>1 DEF IInv, Alone, AloneOn
  <2>2. CASE ~ScDequeue
    BY <2>2 DEF ReleaseSlots
  <2>. QED BY <2>1, <2>2
<1>4. /\ cons_tail \in Index /\ cons_head \in Index /\ prod_tail \in Index /\ prod_head \in Index
      /\ head[p] \in Index /\ n[c] \in Index /\ n[c] \in Nat /\ room[p] \in Nat
  <2>1. n[c] \in Index
    BY <1>1, <1>2, CopyBounds
  <2>. QED BY <1>1, <2>1 DEF TypeOK, Index
<1>5. n[c] <= Dist(cons_tail, cons_head) /\ Dist(cons_tail, cons_head) \in Nat
  <2>1. Dist(cons_tail, head[c]) = 0
    BY <1>3, <1>4, DistZero
  <2>2. Dist(cons_tail, head[c]) + n[c] <= Dist(cons_tail, cons_head)
    BY <1>1, <1>2 DEF RangesDisjoint, RangesOf
  <2>. QED BY <1>4, <2>1, <2>2, DistNat
<1>6. n[c] <= Dist(cons_tail, head[p])
  <2>0. /\ Dist(cons_tail, prod_tail) = Dist(cons_tail, cons_head) + Dist(cons_head, prod_tail)
        /\ Dist(cons_head, prod_tail) \in Nat
        /\ Dist(cons_tail, prod_head) = Dist(cons_tail, prod_tail) + Dist(prod_tail, prod_head)
        /\ Dist(prod_tail, prod_head) \in Nat /\ Dist(prod_tail, head[p]) \in Nat
        /\ Dist(cons_tail, prod_head) <= Mask /\ Dist(cons_tail, prod_tail) \in Nat
    <3>1. /\ Dist(cons_tail, cons_head) \in Nat /\ Dist(cons_head, prod_tail) \in Nat
          /\ Dist(prod_tail, prod_head) \in Nat /\ Dist(prod_tail, head[p]) \in Nat
          /\ Dist(cons_tail, prod_tail) \in Nat
      BY <1>4, DistNat
    <3>2. /\ Dist(cons_tail, prod_tail) = Dist(cons_tail, cons_head) + Dist(cons_head, prod_tail)
          /\ Dist(cons_tail, prod_head) = Dist(cons_tail, cons_head)
                + Dist(cons_head, prod_tail) + Dist(prod_tail, prod_head)
      BY <1>1, Distances
    <3>3. Dist(cons_tail, cons_head) + Dist(cons_head, prod_tail)
             + Dist(prod_tail, prod_head) <= Mask
      BY <1>1 DEF IndexOrder
    <3>. QED BY <3>1, <3>2, <3>3
  <2>1. CASE pc[p] = "reserve" /\ drift[p] = 0
    <3>1. Dist(head[p], prod_head) = 0
      BY <1>1, <2>1 DEF Snapshots, Racing
    <3>2. head[p] = prod_head
      BY <1>4, <3>1, DistZero
    <3>. QED BY <1>4, <1>5, <2>0, <3>2
  <2>2. CASE pc[p] \in {"copy", "mark"}
    <3>1. Holding(p) /\ n[p] \in Nat
      BY <1>1, <2>2 DEF Holding, TypeOK
    <3>2. Dist(prod_tail, head[p]) + n[p] <= Dist(prod_tail, prod_head)
      BY <1>1, <3>1 DEF RangesDisjoint, RangesOf
    <3>3. Dist(cons_tail, prod_tail) + Dist(prod_tail, head[p]) < IndexMod
      <4>1. Mask \in Nat /\ IndexMod \in Nat /\ Mask < IndexMod
        BY SizeAssumption DEF Mask
      <4>. QED BY <2>0, <3>1, <3>2, <4>1
    <3>4. Dist(cons_tail, head[p]) = Dist(cons_tail, prod_tail) + Dist(prod_tail, head[p])
      BY <1>4, <3>3, Chain
    <3>. QED BY <1>4, <1>5, <2>0, <3>4
  <2>. QED BY <1>2, <2>1, <2>2 DEF Counting
<1>7. Dist(cons_tail', head[p]) = Dist(cons_tail, head[p]) - n[c]
  BY <1>2, <1>3, <1>4, <1>6, Shorten
<1>8. room[p] + Dist(cons_tail, head[p]) <= Mask
  BY <1>2 DEF RoomKnown, Counting
<1>9. Dist(cons_tail, head[p]) \in Nat /\ Mask \in Nat
  BY <1>4, DistNat, SizeAssumption DEF Mask
<1>10. room[p] + Dist(cons_tail', head[p]) <= Mask
  BY <1>4, <1>7, <1>8, <1>9
<1>. QED BY <1>2, <1>10

(* One step per action: only a producer's own reading of cons.tail, and the *)
(* release of entries, change what it knows.                                *)
LEMMA RoomStep == IInv /\ RoomKnown /\ [Next]_vars => RoomKnown'
<1>. SUFFICES ASSUME IInv, RoomKnown, [Next]_vars, NEW p \in Producers, Counting(p)'
              PROVE  room'[p] + Dist(cons_tail', head'[p]) <= Mask
  BY DEF RoomKnown
<1>1. TypeOK /\ Counters /\ p \in Threads /\ p \notin Consumers
  BY ThreadsAssumption DEF IInv, Threads
<1>2. ASSUME NEW q \in Producers, EnqueueAdmitted(q)
      PROVE  room'[p] + Dist(cons_tail', head'[p]) <= Mask
  <2>1. CASE p = q
    <3>1. /\ pc[p] = "tail" /\ pc'[p] = "reserve" /\ drift'[p] = drift[p] /\ cons_tail' = cons_tail
          /\ head'[p] = head[p] /\ room'[p] = FreeEntries(head[p])
      BY <1>1, <1>2, <2>1 DEF EnqueueAdmitted, index, TypeOK
    <3>2. drift[p] = 0
      BY <3>1 DEF Counting
    <3>3. head[p] = prod_head
      <4>1. Dist(head[p], prod_head) = 0
        BY <3>1, <3>2 DEF IInv, Snapshots, Racing
      <4>. QED BY <1>1, <4>1, DistZero DEF TypeOK
    <3>4. FreeEntries(head[p]) = Mask - Dist(cons_tail, prod_head) + drift[p]
      BY <3>1, FreeEntriesValue
    <3>5. Dist(cons_tail, prod_head) \in Nat /\ Mask \in Nat
      BY <1>1, DistNat, SizeAssumption DEF TypeOK, Mask
    <3>6. FreeEntries(head[p]) + Dist(cons_tail, head[p]) <= Mask
      BY <3>2, <3>3, <3>4, <3>5
    <3>. QED BY <3>1, <3>6
  <2>2. CASE p # q
    BY <1>1, <1>2, <2>2, RoomStays DEF EnqueueAdmitted, index, TypeOK
  <2>. QED BY <2>1, <2>2
<1>3. ASSUME NEW q \in Producers, ReserveSlots(q)
      PROVE  room'[p] + Dist(cons_tail', head'[p]) <= Mask
  <2>1. CASE p = q
    <3>1. drift[p] = 0
      <4>1. CASE SpEnqueue
        BY Flags, <4>1 DEF IInv, Alone, AloneOn
      <4>2. CASE ~SpEnqueue
        <5>1. pc[p] = "reserve" /\ head[p] = prod_head
          BY <1>3, <2>1, <4>2 DEF ReserveSlots
        <5>2. Dist(head[p], prod_head) = drift[p]
          BY <5>1 DEF IInv, Snapshots, Racing
        <5>. QED BY <1>1, <5>1, <5>2, DistZero DEF TypeOK
      <4>. QED BY <4>1, <4>2
    <3>2. pc[p] = "reserve" /\ cons_tail' = cons_tail /\ head' = head /\ room' = room
      BY <1>3, <2>1 DEF ReserveSlots, local
    <3>3. room[p] + Dist(cons_tail, head[p]) <= Mask
      BY <3>1, <3>2 DEF RoomKnown, Counting
    <3>. QED BY <3>2, <3>3
  <2>2. CASE p # q
    <3>1. /\ cons_tail' = cons_tail /\ head' = head /\ room' = room /\ pc'[p] = pc[p]
          /\ pc[q] = "reserve" /\ q \in Threads /\ Overtake(Producers, q, n[q])
      BY <1>1, <1>3, <2>2 DEF ReserveSlots, local, TypeOK, Threads
    <3>2. n[q] \in Nat /\ n[q] >= 1
      <4>1. max[q] \in Nat /\ n[q] \in 1 .. max[q]
        BY <1>1, <3>1 DEF Counters, TypeOK
      <4>. QED BY <4>1
    <3>3. drift'[p] = 0 => drift[p] = 0
      BY <1>1, <2>2, <3>1, <3>2, OvertakeKeeps DEF Threads
    <3>. QED BY <3>1, <3>3, RoomStays
  <2>. QED BY <2>1, <2>2
<1>4. ASSUME NEW q \in Producers,
             \/ EnqueueCall(q) \/ EnqueueAgain(q) \/ EnqueueRefused(q) \/ ReserveSlotsFails(q)
             \/ PublishEntries(q)
      PROVE  room'[p] + Dist(cons_tail', head'[p]) <= Mask
  <2>1. p # q
    BY <1>1, <1>4 DEF EnqueueCall, EnqueueAgain, LoadProdHead, EnqueueRefused, ReserveSlotsFails,
                      PublishEntries, Finish, Counting, TypeOK
  <2>2. /\ cons_tail' = cons_tail /\ pc'[p] = pc[p] /\ head'[p] = head[p] /\ room'[p] = room[p]
        /\ drift'[p] = drift[p]
    BY <1>1, <1>4, <2>1 DEF EnqueueCall, EnqueueAgain, LoadProdHead, EnqueueRefused,
         ReserveSlotsFails, ForgetSnapshot, PublishEntries, Finish, index, TypeOK
  <2>. QED BY <2>2, RoomStays
<1>5. ASSUME NEW q \in Producers, WriteEntry(q) \/ CheckWatermark(q)
      PROVE  room'[p] + Dist(cons_tail', head'[p]) <= Mask
  <2>1. /\ cons_tail' = cons_tail /\ head' = head /\ drift' = drift
        /\ p # q => room'[p] = room[p] /\ pc'[p] = pc[p]
    BY <1>1, <1>5 DEF WriteEntry, CheckWatermark, index, TypeOK
  <2>2. CASE p = q
    <3>1. WriteEntry(p)
      BY <1>1, <1>5, <2>2 DEF CheckWatermark, Counting, TypeOK
    <3>2. pc[p] = "copy" /\ room' = room
      BY <3>1 DEF WriteEntry
    <3>. QED BY <2>1, <3>2, RoomStays
  <2>. QED BY <2>1, <2>2, RoomStays
<1>6. ASSUME NEW c \in Consumers,
             \/ DequeueCall(c) \/ DequeueAgain(c) \/ DequeueAdmitted(c) \/ DequeueRefused(c)
             \/ ReserveEntriesFails(c) \/ ReadEntry(c)
      PROVE  room'[p] + Dist(cons_tail', head'[p]) <= Mask
  <2>1. /\ cons_tail' = cons_tail /\ pc'[p] = pc[p] /\ head'[p] = head[p] /\ room'[p] = room[p]
        /\ drift'[p] = drift[p]
    BY <1>1, <1>6 DEF DequeueCall, DequeueAgain, LoadConsHead, DequeueAdmitted, DequeueRefused,
         ReserveEntriesFails, ForgetSnapshot, ReadEntry, Finish, index, TypeOK
  <2>. QED BY <2>1, RoomStays
<1>7. ASSUME NEW c \in Consumers, ReserveEntries(c)
      PROVE  room'[p] + Dist(cons_tail', head'[p]) <= Mask
  <2>1. /\ cons_tail' = cons_tail /\ pc'[p] = pc[p] /\ head' = head /\ room' = room
        /\ drift'[p] = drift[p]
    BY <1>1, <1>7 DEF ReserveEntries, Overtake, local, TypeOK
  <2>. QED BY <2>1, RoomStays
<1>8. ASSUME NEW count \in WaterMarks, SetWaterMark(count)
      PROVE  room'[p] + Dist(cons_tail', head'[p]) <= Mask
  BY <1>8, RoomStays DEF SetWaterMark, index, local
<1>9. CASE UNCHANGED vars
  BY <1>9, RoomStays DEF vars, index, local
<1>. QED
  BY <1>2, <1>3, <1>4, <1>5, <1>6, <1>7, <1>8, <1>9, RoomRelease DEF Next, EnqueueStep, DequeueStep

(* Enqueue is silent about the watermark only while the entries up to its   *)
(* own do not exceed it, whatever consumers did during the call.            *)
THEOREM WatermarkReported == Spec => SilenceBelowWatermark
<1>1. Init => RoomKnown
  BY DEF Init, RoomKnown, Counting, Threads
<1>2. ASSUME IInv, RoomKnown, [Next]_vars, NEW p \in Producers,
             pc[p] = "mark", pc'[p] = "publish", ~quota'[p]
      PROVE  Dist(cons_tail, head[p]) + n[p] <= watermark
  <2>1. TypeOK /\ p \in Threads /\ p \notin Consumers
    BY ThreadsAssumption, <1>2 DEF IInv, Threads
  <2>2. CheckWatermark(p)
    <3>1. ASSUME NEW q \in Producers, EnqueueCall(q) \/ EnqueueStep(q) PROVE CheckWatermark(p)
      BY <1>2, <2>1, <3>1 DEF EnqueueStep, EnqueueCall, LoadProdHead, EnqueueAgain,
           EnqueueAdmitted, EnqueueRefused, ReserveSlots, ReserveSlotsFails, WriteEntry,
           CheckWatermark, PublishEntries, Finish, TypeOK
    <3>2. ASSUME NEW c \in Consumers, DequeueCall(c) \/ DequeueStep(c) PROVE FALSE
      BY <1>2, <2>1, <3>2 DEF DequeueStep, DequeueCall, LoadConsHead, DequeueAgain,
           DequeueAdmitted, DequeueRefused, ReserveEntries, ReserveEntriesFails, ReadEntry,
           ReleaseSlots, Finish, TypeOK
    <3>3. ASSUME NEW count \in WaterMarks, SetWaterMark(count) PROVE FALSE
      BY <1>2, <3>3 DEF SetWaterMark
    <3>4. CASE UNCHANGED vars
      BY <1>2, <3>4 DEF vars
    <3>. QED BY <1>2, <3>1, <3>2, <3>3, <3>4 DEF Next
  <2>3. ~((Mask + 1) - room[p] + n[p] > watermark)
    BY <1>2, <2>1, <2>2 DEF CheckWatermark, TypeOK
  <2>4. room[p] + Dist(cons_tail, head[p]) <= Mask
    BY <1>2 DEF RoomKnown, Counting
  <2>5. /\ room[p] \in Nat /\ n[p] \in Nat /\ watermark \in Nat /\ Mask \in Nat
        /\ Dist(cons_tail, head[p]) \in Nat
    <3>1. cons_tail \in Index /\ head[p] \in Index /\ room[p] \in Index
      BY <2>1 DEF TypeOK
    <3>2. Dist(cons_tail, head[p]) \in Nat
      BY <3>1, DistNat
    <3>3. room[p] \in Nat
      BY <3>1 DEF Index
    <3>4. n[p] \in Nat /\ watermark \in Nat
      BY <2>1 DEF TypeOK
    <3>5. Mask \in Nat
      BY SizeAssumption DEF Mask
    <3>. QED BY <3>2, <3>3, <3>4, <3>5
  <2>. QED BY <2>3, <2>4, <2>5
<1>3. IInv /\ RoomKnown /\ [Next]_vars =>
        [\A p \in Producers :
           pc[p] = "mark" /\ pc'[p] = "publish" /\ ~quota'[p]
             => Dist(cons_tail, head[p]) + n[p] <= watermark]_vars
  BY <1>2
<1>. QED BY <1>1, <1>3, RoomStep, SpecIInv, PTL DEF Spec, SilenceBelowWatermark

-----------------------------------------------------------------------------
(* The ring implements BoundedFifo.                                         *)

(* How far a call has come: a bulk call transfers all it was asked for, the *)
(* copy is over when the call goes on to publish, and a consumer's table    *)
(* has one entry for each turn of the copy.                                 *)
Progress(t) ==
  /\ (pc[t] = "reserve" \/ Holding(t)) /\ behavior[t] = "FIXED" => n[t] = max[t]
  /\ pc[t] \in {"mark", "publish"} => i[t] = n[t]
  /\ Holding(t) => i[t] <= n[t]
  /\ t \in Consumers => Len(obj_table[t]) = i[t]

(* The slots of a producer's range that it has passed hold what it has      *)
(* copied there: nobody else writes them.                                   *)
Written(p) ==
  Holding(p) =>
    \A k \in 0 .. i[p] - 1 : slots[Slot(Plus(head[p], k))] = obj_table[p][k + 1]

Contents == /\ \A t \in Threads : Progress(t)
            /\ \A p \in Producers : Written(p)

(* A step of thread t leaves the calls of the others alone.                 *)
OthersKeep(t) ==
  \A u \in Threads \ {t} :
     /\ pc'[u] = pc[u] /\ behavior'[u] = behavior[u] /\ max'[u] = max[u]
     /\ obj_table'[u] = obj_table[u] /\ head'[u] = head[u] /\ n'[u] = n[u] /\ i'[u] = i[u]

(* Enqueueing is a matter between a producer and the ring.                  *)
LEMMA EnqueueOthers ==
  ASSUME TypeOK, NEW p \in Producers, EnqueueCall(p) \/ EnqueueStep(p)
  PROVE  OthersKeep(p) /\ p \in Threads
<1>. USE DEF OthersKeep, TypeOK, call, local
<1>0. p \in Threads
  BY DEF Threads
<1>1. CASE EnqueueCall(p)
  <2>1. PICK k \in Requests, b \in Behaviors :
          /\ max' = [max EXCEPT ![p] = k] /\ behavior' = [behavior EXCEPT ![p] = b]
          /\ obj_table' \in {[obj_table EXCEPT ![p] = s] : s \in [1 .. k -> Items]}
          /\ LoadProdHead(p, k)
    BY <1>1 DEF EnqueueCall
  <2>. QED BY <1>0, <2>1 DEF LoadProdHead
<1>2. CASE EnqueueAgain(p)
  BY <1>0, <1>2 DEF EnqueueAgain, LoadProdHead
<1>3. CASE EnqueueAdmitted(p)
  BY <1>0, <1>3 DEF EnqueueAdmitted
<1>4. CASE EnqueueRefused(p)
  BY <1>0, <1>4 DEF EnqueueRefused, Finish
<1>5. CASE ReserveSlots(p)
  BY <1>0, <1>5 DEF ReserveSlots
<1>6. CASE ReserveSlotsFails(p)
  BY <1>0, <1>6 DEF ReserveSlotsFails, ForgetSnapshot
<1>7. CASE WriteEntry(p)
  BY <1>0, <1>7 DEF WriteEntry
<1>8. CASE CheckWatermark(p)
  BY <1>0, <1>8 DEF CheckWatermark
<1>9. CASE PublishEntries(p)
  BY <1>0, <1>9 DEF PublishEntries, Finish
<1>. QED
  BY <1>1, <1>2, <1>3, <1>4, <1>5, <1>6, <1>7, <1>8, <1>9 DEF EnqueueStep

(* And dequeueing one between a consumer and the ring.                      *)
LEMMA DequeueOthers ==
  ASSUME TypeOK, NEW c \in Consumers, DequeueCall(c) \/ DequeueStep(c)
  PROVE  OthersKeep(c) /\ c \in Threads /\ slots' = slots
<1>. USE DEF OthersKeep, TypeOK, call, local
<1>0. c \in Threads
  BY DEF Threads
<1>1. CASE DequeueCall(c)
  BY <1>0, <1>1 DEF DequeueCall, LoadConsHead
<1>2. CASE DequeueAgain(c)
  BY <1>0, <1>2 DEF DequeueAgain, LoadConsHead
<1>3. CASE DequeueAdmitted(c)
  BY <1>0, <1>3 DEF DequeueAdmitted
<1>4. CASE DequeueRefused(c)
  BY <1>0, <1>4 DEF DequeueRefused, Finish
<1>5. CASE ReserveEntries(c)
  BY <1>0, <1>5 DEF ReserveEntries
<1>6. CASE ReserveEntriesFails(c)
  BY <1>0, <1>6 DEF ReserveEntriesFails, ForgetSnapshot
<1>7. CASE ReadEntry(c)
  BY <1>0, <1>7 DEF ReadEntry
<1>8. CASE ReleaseSlots(c)
  BY <1>0, <1>8 DEF ReleaseSlots, Finish
<1>. QED
  BY <1>1, <1>2, <1>3, <1>4, <1>5, <1>6, <1>7, <1>8 DEF DequeueStep

(* Each step of a producer's call is in order.                              *)
LEMMA EnqueueProgress ==
  ASSUME IInv, NEW p \in Producers, Progress(p), EnqueueCall(p) \/ EnqueueStep(p)
  PROVE  Progress(p)'
<1>0. /\ TypeOK /\ Counters /\ p \in Threads /\ p \notin Consumers
      /\ i[p] \in Nat /\ n[p] \in Nat /\ max[p] \in Nat
  BY ThreadsAssumption DEF IInv, Threads, TypeOK
<1>. USE DEF Progress, Holding, TypeOK, call, local
<1>1. CASE EnqueueCall(p)
  <2>1. pc'[p] = "tail"
    BY <1>0, <1>1 DEF EnqueueCall, LoadProdHead
  <2>. QED BY <1>0, <2>1
<1>2. CASE EnqueueAgain(p)
  BY <1>0, <1>2 DEF EnqueueAgain, LoadProdHead
<1>3. CASE EnqueueAdmitted(p)
  <2>1. /\ pc'[p] = "reserve" /\ behavior' = behavior /\ max' = max /\ pc[p] = "tail"
        /\ behavior[p] = "FIXED" => n'[p] = n[p]
    BY <1>0, <1>3 DEF EnqueueAdmitted
  <2>2. n[p] = max[p]
    BY <1>0, <2>1 DEF Counters
  <2>. QED BY <1>0, <2>1, <2>2
<1>4. CASE EnqueueRefused(p)
  BY <1>0, <1>4 DEF EnqueueRefused, Finish
<1>5. CASE ReserveSlots(p)
  <2>1. i[p] = 0
    BY <1>0, <1>5 DEF ReserveSlots, Counters
  <2>. QED BY <1>0, <1>5, <2>1 DEF ReserveSlots
<1>6. CASE ReserveSlotsFails(p)
  BY <1>0, <1>6 DEF ReserveSlotsFails, ForgetSnapshot
<1>7. CASE WriteEntry(p)
  <2>1. i[p] < n[p]
    BY <1>0, <1>7 DEF WriteEntry, Counters
  <2>. QED BY <1>0, <1>7, <2>1 DEF WriteEntry
<1>8. CASE CheckWatermark(p)
  BY <1>0, <1>8 DEF CheckWatermark
<1>9. CASE PublishEntries(p)
  BY <1>0, <1>9 DEF PublishEntries, Finish
<1>. QED
  BY <1>1, <1>2, <1>3, <1>4, <1>5, <1>6, <1>7, <1>8, <1>9 DEF EnqueueStep

(* And each step of a consumer's.                                           *)
LEMMA DequeueProgress ==
  ASSUME IInv, NEW c \in Consumers, Progress(c), DequeueCall(c) \/ DequeueStep(c)
  PROVE  Progress(c)'
<1>0. /\ TypeOK /\ Counters /\ c \in Threads /\ c \notin Producers
      /\ i[c] \in Nat /\ n[c] \in Nat /\ max[c] \in Nat
      /\ obj_table[c] \in Seq(Items \cup {NoItem})
  BY ThreadsAssumption DEF IInv, Threads, TypeOK
<1>. USE DEF Progress, Holding, TypeOK, call, local
<1>1. CASE DequeueCall(c)
  <2>1. pc'[c] = "tail" /\ i' = i /\ obj_table' = obj_table
    BY <1>0, <1>1 DEF DequeueCall, LoadConsHead
  <2>. QED BY <1>0, <2>1
<1>2. CASE DequeueAgain(c)
  BY <1>0, <1>2 DEF DequeueAgain, LoadConsHead
<1>3. CASE DequeueAdmitted(c)
  <2>1. /\ pc'[c] = "reserve" /\ behavior' = behavior /\ max' = max /\ pc[c] = "tail"
        /\ behavior[c] = "FIXED" => n'[c] = n[c]
        /\ i' = i /\ obj_table' = obj_table
    BY <1>0, <1>3 DEF DequeueAdmitted
  <2>2. n[c] = max[c]
    BY <1>0, <2>1 DEF Counters
  <2>. QED BY <1>0, <2>1, <2>2
<1>4. CASE DequeueRefused(c)
  BY <1>0, <1>4 DEF DequeueRefused, Finish
<1>5. CASE ReserveEntries(c)
  <2>1. i[c] = 0
    BY <1>0, <1>5 DEF ReserveEntries, Counters
  <2>. QED BY <1>0, <1>5, <2>1 DEF ReserveEntries
<1>6. CASE ReserveEntriesFails(c)
  BY <1>0, <1>6 DEF ReserveEntriesFails, ForgetSnapshot
<1>7. CASE ReadEntry(c)
  <2>1. i[c] < n[c] /\ n' = n /\ max' = max /\ behavior' = behavior /\ i'[c] = i[c] + 1
        /\ pc'[c] = (IF i[c] + 1 = n[c] THEN "publish" ELSE "copy") /\ pc[c] = "copy"
    BY <1>0, <1>7 DEF ReadEntry, Counters
  <2>2. obj_table'[c] = Append(obj_table[c], slots[Slot(Plus(head[c], i[c]))])
    BY <1>0, <1>7 DEF ReadEntry
  <2>3. Len(obj_table'[c]) = Len(obj_table[c]) + 1
    <3>1. slots[Slot(Plus(head[c], i[c]))] \in Items \cup {NoItem}
      <4>1. i[c] \in Index
        BY <1>0, <2>1, CopyBounds
      <4>2. Slot(Plus(head[c], i[c])) \in 0 .. Mask
        BY <1>0, <4>1, WrapType, SlotType
      <4>. QED BY <1>0, <4>2
    <3>. QED BY <1>0, <2>2, <3>1
  <2>. QED BY <1>0, <2>1, <2>3
<1>8. CASE ReleaseSlots(c)
  BY <1>0, <1>8 DEF ReleaseSlots, Finish
<1>. QED
  BY <1>1, <1>2, <1>3, <1>4, <1>5, <1>6, <1>7, <1>8 DEF DequeueStep

(* Where a slot that is reserved or published lies, counted from cons.tail. *)
(* Two entries of producers' ranges are in different slots ...              *)
LEMMA WritesApart ==
  ASSUME IInv, NEW p \in Producers, NEW q \in Producers, Holding(p), Holding(q),
         NEW j \in 0 .. n[p] - 1, NEW k \in 0 .. n[q] - 1, p # q \/ j # k
  PROVE  Slot(Plus(head[p], j)) # Slot(Plus(head[q], k))
<1>1. /\ p \in Threads /\ q \in Threads /\ RangesDisjoint /\ TypeOK
      /\ cons_tail \in Index /\ prod_tail \in Index /\ head[p] \in Index /\ head[q] \in Index
      /\ n[p] \in Nat /\ n[q] \in Nat
  BY DEF IInv, Threads, TypeOK
<1>2. /\ Plus(head[p], j) \in Index /\ j \in Nat /\ j < n[p]
      /\ Dist(cons_tail, Plus(head[p], j)) = Dist(cons_tail, head[p]) + j
      /\ Dist(cons_tail, head[p]) + n[p] <= Mask
      /\ Dist(cons_tail, head[p]) = Dist(cons_tail, prod_tail) + Dist(prod_tail, head[p])
  BY <1>1, HeldRange
<1>3. /\ Plus(head[q], k) \in Index /\ k \in Nat /\ k < n[q]
      /\ Dist(cons_tail, Plus(head[q], k)) = Dist(cons_tail, head[q]) + k
      /\ Dist(cons_tail, head[q]) + n[q] <= Mask
      /\ Dist(cons_tail, head[q]) = Dist(cons_tail, prod_tail) + Dist(prod_tail, head[q])
  BY <1>1, HeldRange
<1>4. /\ Dist(cons_tail, prod_tail) \in Nat /\ Dist(prod_tail, head[p]) \in Nat
      /\ Dist(prod_tail, head[q]) \in Nat /\ Mask \in Nat /\ Mask < Size
  <2>1. Mask \in Nat /\ Mask < Size
    BY SizeAssumption DEF Mask
  <2>. QED BY <1>1, <2>1, DistNat
<1>5. Dist(cons_tail, head[p]) + j # Dist(cons_tail, head[q]) + k
  <2>1. CASE p = q
    BY <1>2, <1>3, <1>4, <2>1
  <2>2. CASE p # q
    <3>1. \/ Dist(prod_tail, head[p]) + n[p] <= Dist(prod_tail, head[q])
          \/ Dist(prod_tail, head[q]) + n[q] <= Dist(prod_tail, head[p])
      BY <1>1, <2>2 DEF RangesDisjoint, RangesOf
    <3>. QED BY <1>1, <1>2, <1>3, <1>4, <3>1
  <2>. QED BY <2>1, <2>2
<1>6. /\ Dist(cons_tail, Plus(head[p], j)) < Size
      /\ Dist(cons_tail, Plus(head[q], k)) < Size
      /\ Dist(cons_tail, Plus(head[p], j)) # Dist(cons_tail, Plus(head[q], k))
  BY <1>1, <1>2, <1>3, <1>4, <1>5, SizeAssumption
<1>. QED BY <1>1, <1>2, <1>3, <1>6, WaysApart

(* ... and so is an entry of a producer's range and one that is published   *)
(* or still being read.                                                     *)
LEMMA PublishedApart ==
  ASSUME IInv, NEW p \in Producers, Holding(p), NEW j \in 0 .. n[p] - 1,
         NEW y \in Index, Dist(cons_tail, y) < Dist(cons_tail, prod_tail)
  PROVE  Slot(y) # Slot(Plus(head[p], j))
<1>1. /\ p \in Threads /\ TypeOK /\ cons_tail \in Index /\ prod_tail \in Index
      /\ head[p] \in Index /\ n[p] \in Nat
  BY DEF IInv, Threads, TypeOK
<1>2. /\ Plus(head[p], j) \in Index /\ j \in Nat /\ j < n[p]
      /\ Dist(cons_tail, Plus(head[p], j)) = Dist(cons_tail, head[p]) + j
      /\ Dist(cons_tail, head[p]) + n[p] <= Mask
      /\ Dist(cons_tail, head[p]) = Dist(cons_tail, prod_tail) + Dist(prod_tail, head[p])
  BY <1>1, HeldRange
<1>3. /\ Dist(cons_tail, prod_tail) \in Nat /\ Dist(prod_tail, head[p]) \in Nat
      /\ Dist(cons_tail, y) \in Nat /\ Mask \in Nat /\ Mask < Size
  <2>1. Mask \in Nat /\ Mask < Size
    BY SizeAssumption DEF Mask
  <2>. QED BY <1>1, <2>1, DistNat
<1>4. /\ Dist(cons_tail, Plus(head[p], j)) < Size
      /\ Dist(cons_tail, y) < Size
      /\ Dist(cons_tail, Plus(head[p], j)) # Dist(cons_tail, y)
  BY <1>1, <1>2, <1>3, SizeAssumption
<1>. QED BY <1>1, <1>2, <1>4, WaysApart

(* A producer's copy goes to a slot of its own.                             *)
LEMMA WrittenStep ==
  ASSUME IInv, Contents,
         NEW p \in Producers, EnqueueCall(p) \/ EnqueueStep(p), NEW q \in Producers
  PROVE  Written(q)'
<1>0. /\ TypeOK /\ Counters /\ p \in Threads /\ q \in Threads
      /\ i[p] \in Nat /\ n[p] \in Nat /\ i[q] \in Nat /\ n[q] \in Nat
  BY DEF IInv, Threads, TypeOK
<1>1. OthersKeep(p)
  BY <1>0, EnqueueOthers
<1>2. CASE WriteEntry(p)
  <2>1. /\ pc[p] = "copy" /\ Holding(p) /\ i[p] < n[p] /\ i'[p] = i[p] + 1
        /\ head' = head /\ n' = n /\ obj_table' = obj_table
        /\ slots' = [slots EXCEPT ![Slot(Plus(head[p], i[p]))] = obj_table[p][i[p] + 1]]
    BY <1>0, <1>2 DEF WriteEntry, Holding, TypeOK, Counters, call
  <2>2. \A a \in Index : Slot(a) \in 0 .. Mask
    BY SlotType
  <2>3. /\ head[p] \in Index /\ head[q] \in Index /\ slots \in [0 .. Mask -> Items \cup {NoItem}]
        /\ i[p] \in Index
    BY <1>0, <2>1, CopyBounds DEF TypeOK
  <2>4. slots'[Slot(Plus(head[p], i[p]))] = obj_table[p][i[p] + 1]
    <3>1. Slot(Plus(head[p], i[p])) \in 0 .. Mask
      BY <2>2, <2>3, WrapType
    <3>. QED BY <2>1, <2>3, <3>1
  <2>5. ASSUME NEW k \in 0 .. n[q] - 1, Holding(q), p # q \/ i[p] # k
        PROVE  slots'[Slot(Plus(head[q], k))] = slots[Slot(Plus(head[q], k))]
    <3>1. Slot(Plus(head[p], i[p])) # Slot(Plus(head[q], k))
      BY <1>0, <2>1, <2>5, WritesApart
    <3>2. Slot(Plus(head[q], k)) \in 0 .. Mask
      <4>1. k \in Index
        <5>1. n[q] \in Index /\ n[q] \in Nat
          BY <1>0, <2>5, CopyBounds
        <5>. QED BY <5>1, SizeAssumption DEF Index
      <4>. QED BY <2>2, <2>3, <4>1, WrapType
    <3>. QED BY <2>1, <2>3, <3>1, <3>2
  <2>6. ASSUME Holding(q)', NEW k \in 0 .. i'[q] - 1
        PROVE  slots'[Slot(Plus(head'[q], k))] = obj_table'[q][k + 1]
    <3>1. Holding(q) /\ i[q] <= n[q]
      BY <1>0, <1>1, <2>1, <2>6 DEF OthersKeep, Holding, Contents, Progress
    <3>2. CASE q = p /\ k = i[p]
      BY <2>1, <2>4, <3>2
    <3>3. CASE ~(q = p /\ k = i[p])
      <4>1. k \in 0 .. i[q] - 1 /\ k \in 0 .. n[q] - 1
        BY <1>0, <1>1, <2>1, <2>6, <3>1, <3>3 DEF OthersKeep
      <4>2. slots[Slot(Plus(head[q], k))] = obj_table[q][k + 1]
        BY <3>1, <4>1 DEF Contents, Written
      <4>. QED BY <2>1, <2>5, <3>1, <3>3, <4>1, <4>2
    <3>. QED BY <3>2, <3>3
  <2>. QED BY <2>6 DEF Written, Slot, Plus
<1>3. CASE ~WriteEntry(p)
  <2>1. slots' = slots
    BY <1>3 DEF EnqueueStep, EnqueueCall, LoadProdHead, EnqueueAgain, EnqueueAdmitted, EnqueueRefused,
                ReserveSlots, ReserveSlotsFails, CheckWatermark, PublishEntries
  <2>2. CASE q # p
    <3>1. /\ pc'[q] = pc[q] /\ i'[q] = i[q] /\ head'[q] = head[q]
          /\ obj_table'[q] = obj_table[q]
      BY <1>0, <1>1, <2>2 DEF OthersKeep
    <3>. QED BY <2>1, <3>1 DEF Contents, Written, Holding
  <2>3. CASE q = p
    <3>1. CASE CheckWatermark(p)
      BY <1>0, <2>1, <2>3, <3>1 DEF CheckWatermark, Contents, Written, Holding, TypeOK, call
    <3>2. CASE ReserveSlots(p)
      <4>1. i'[p] = 0
        BY <1>0, <3>2 DEF ReserveSlots, Counters, local, Holding
      <4>. QED BY <2>3, <4>1 DEF Written
    <3>3. CASE ~CheckWatermark(p) /\ ~ReserveSlots(p)
      <4>1. ~Holding(p)'
        BY <1>0, <1>3, <3>3 DEF EnqueueStep, EnqueueCall, LoadProdHead, EnqueueAgain, EnqueueAdmitted,
             EnqueueRefused, ReserveSlotsFails, PublishEntries, Finish, Holding, TypeOK
      <4>. QED BY <2>3, <4>1 DEF Written
    <3>. QED BY <3>1, <3>2, <3>3
  <2>. QED BY <2>2, <2>3
<1>. QED BY <1>2, <1>3

(* The contents hold in every reachable state.                              *)
LEMMA InitContents == Init => Contents
<1>. SUFFICES ASSUME Init PROVE Contents
  OBVIOUS
<1>1. \A t \in Threads : pc[t] = "idle" /\ i[t] = 0 /\ obj_table[t] = <<>>
  BY DEF Init
<1>. QED BY <1>1 DEF Contents, Progress, Written, Holding, Threads

LEMMA NextContents == IInv /\ Contents /\ [Next]_vars => Contents'
<1>. SUFFICES ASSUME IInv, Contents, [Next]_vars PROVE Contents'
  OBVIOUS
<1>0. /\ TypeOK /\ Producers \subseteq Threads /\ Consumers \subseteq Threads
      /\ \A p \in Producers, c \in Consumers : p # c
  BY ThreadsAssumption DEF IInv, Threads
<1>1. ASSUME NEW t \in Threads, OthersKeep(t), Progress(t)'
      PROVE  \A u \in Threads : Progress(u)'
  BY <1>1 DEF OthersKeep, Contents, Progress, Holding
<1>2. ASSUME NEW p \in Producers, EnqueueCall(p) \/ EnqueueStep(p)
      PROVE  Contents'
  <2>1. OthersKeep(p) /\ Progress(p)'
    BY <1>0, <1>2, EnqueueOthers, EnqueueProgress DEF Contents
  <2>2. \A u \in Threads : Progress(u)'
    BY <1>0, <1>1, <2>1
  <2>3. \A q \in Producers : Written(q)'
    BY <1>2, WrittenStep
  <2>. QED BY <2>2, <2>3 DEF Contents
<1>3. ASSUME NEW c \in Consumers, DequeueCall(c) \/ DequeueStep(c)
      PROVE  Contents'
  <2>1. OthersKeep(c) /\ Progress(c)' /\ slots' = slots
    BY <1>0, <1>3, DequeueOthers, DequeueProgress DEF Contents
  <2>2. \A u \in Threads : Progress(u)'
    BY <1>0, <1>1, <2>1
  <2>3. \A q \in Producers : Written(q)'
    BY <1>0, <2>1 DEF Contents, Written, Holding, OthersKeep
  <2>. QED BY <2>2, <2>3 DEF Contents
<1>4. ASSUME UNCHANGED <<pc, behavior, max, obj_table, head, n, i, slots>>
      PROVE  Contents'
  BY <1>4 DEF Contents, Progress, Written, Holding
<1>5. ASSUME NEW count \in WaterMarks, SetWaterMark(count)
      PROVE  Contents'
  BY <1>4, <1>5 DEF SetWaterMark, call, local
<1>6. CASE UNCHANGED vars
  BY <1>4, <1>6 DEF vars, call, local
<1>. QED BY <1>2, <1>3, <1>5, <1>6 DEF Next

LEMMA SpecContents == Spec => [](IInv /\ Contents)
  BY InitContents, NextContents, SpecIInv, PTL DEF Spec

-----------------------------------------------------------------------------
(* Moving forward twice, and all the way to another index.                  *)
LEMMA TwoMoves ==
  ASSUME NEW a \in Index, NEW j \in Nat, NEW k \in Nat, j + k < IndexMod
  PROVE  Plus(Plus(a, j), k) = Plus(a, j + k)
  BY SizeAssumption DEF Index, Plus

LEMMA WholeWay ==
  ASSUME NEW a \in Index, NEW b \in Index
  PROVE  Plus(a, Dist(a, b)) = b
  BY SizeAssumption DEF Index, Plus, Minus, Dist

(* When the abstract state stays as it is: the queue while its two ends and *)
(* its slots do, ...                                                        *)
LEMMA QueueStays ==
  ASSUME UNCHANGED <<prod_tail, cons_head>>,
         \A k \in 1 .. Dist(cons_head, prod_tail) :
            slots'[Slot(Plus(cons_head, k - 1))] = slots[Slot(Plus(cons_head, k - 1))]
  PROVE  Queue' = Queue
<1>1. Dist(cons_head, prod_tail)' = Dist(cons_head, prod_tail)
  BY DEF Dist, Minus
<1>2. \A k : Slot(Plus(cons_head, k - 1))' = Slot(Plus(cons_head, k - 1))
  BY DEF Slot, Plus
<1>. QED BY <1>1, <1>2 DEF Queue

(* ... the calls of producers while they go on with the same arguments, ... *)
LEMMA PutCallsStay ==
  ASSUME \A p \in Producers :
           /\ pc'[p] = "idle" <=> pc[p] = "idle"
           /\ pc[p] # "idle" => obj_table'[p] = obj_table[p] /\ behavior'[p] = behavior[p]
  PROVE  PutCalls' = PutCalls
  BY DEF PutCalls

(* ... likewise those of consumers, ...                                     *)
LEMMA GetCallsStay ==
  ASSUME \A c \in Consumers :
           /\ pc'[c] = "idle" <=> pc[c] = "idle"
           /\ pc[c] # "idle" => max'[c] = max[c] /\ behavior'[c] = behavior[c]
  PROVE  GetCalls' = GetCalls
  BY DEF GetCalls

(* ... and what a consumer has taken while its range and the slots it still *)
(* has to read do.                                                          *)
LEMMA TakenStays ==
  ASSUME NEW c \in Consumers, Holding(c)' <=> Holding(c),
         Holding(c) => /\ obj_table'[c] = obj_table[c]
                       /\ head'[c] = head[c] /\ n'[c] = n[c] /\ i'[c] = i[c]
                       /\ \A k \in 1 .. n[c] - i[c] :
                             slots'[Slot(Plus(head[c], i[c] + k - 1))]
                               = slots[Slot(Plus(head[c], i[c] + k - 1))]
  PROVE  Taken'[c] = Taken[c]
<1>1. CASE ~Holding(c)
  BY <1>1 DEF Taken
<1>2. CASE Holding(c)
  <2>1. /\ obj_table'[c] = obj_table[c] /\ head'[c] = head[c] /\ n'[c] = n[c] /\ i'[c] = i[c]
        /\ Holding(c)'
    BY <1>2
  <2>2. \A k : Slot(Plus(head'[c], i'[c] + k - 1)) = Slot(Plus(head[c], i[c] + k - 1))
    BY <2>1
  <2>3. StillToCopy(c)' = StillToCopy(c)
    BY <1>2, <2>1, <2>2 DEF StillToCopy, Slot, Plus
  <2>. QED BY <1>2, <2>1, <2>3 DEF Taken
<1>. QED BY <1>1, <1>2

(* All consumers together.                                                  *)
LEMMA TakenFunction ==
  ASSUME \A c \in Consumers : Taken'[c] = Taken[c]
  PROVE  Taken' = Taken
  BY DEF Taken

(* Where the entries of the abstract queue lie, ...                         *)
LEMMA QueuePlaces ==
  ASSUME IInv, NEW k \in 1 .. Dist(cons_head, prod_tail)
  PROVE  /\ Plus(cons_head, k - 1) \in Index
         /\ Dist(cons_tail, Plus(cons_head, k - 1)) < Dist(cons_tail, prod_tail)
<1>1. /\ TypeOK /\ IndexOrder /\ cons_head \in Index /\ prod_tail \in Index /\ cons_tail \in Index
      /\ Dist(cons_tail, cons_head) \in Nat /\ Dist(cons_head, prod_tail) \in Nat
  BY DistNat DEF IInv, TypeOK
<1>2. /\ Dist(cons_tail, prod_tail) = Dist(cons_tail, cons_head) + Dist(cons_head, prod_tail)
      /\ Dist(cons_head, prod_tail) \in 0 .. Mask /\ Mask < IndexMod /\ Mask \in Nat
  BY <1>1, Distances
<1>3. Dist(cons_tail, prod_tail) < IndexMod
  BY <1>1, DistType, SizeAssumption DEF Index
<1>4. k - 1 \in Index /\ Dist(cons_tail, cons_head) + (k - 1) < IndexMod
  BY <1>1, <1>2, <1>3, SizeAssumption DEF Index
<1>5. Plus(cons_head, k - 1) \in Index
  BY <1>1, <1>4, WrapType
<1>6. Dist(cons_tail, Plus(cons_head, k - 1)) = Dist(cons_tail, cons_head) + (k - 1)
  BY <1>1, <1>4, Advance
<1>. QED BY <1>1, <1>2, <1>5, <1>6

(* ... and those a consumer still has to read.                              *)
LEMMA TakenPlaces ==
  ASSUME IInv, Contents, NEW c \in Consumers, Holding(c), NEW k \in 1 .. n[c] - i[c]
  PROVE  /\ Plus(head[c], i[c] + k - 1) \in Index
         /\ Dist(cons_tail, Plus(head[c], i[c] + k - 1)) < Dist(cons_tail, prod_tail)
<1>1. /\ TypeOK /\ IndexOrder /\ c \in Threads /\ n[c] \in Nat /\ i[c] \in Nat
      /\ cons_tail \in Index /\ head[c] \in Index
      /\ Dist(cons_tail, cons_head) \in Nat /\ Dist(cons_head, prod_tail) \in Nat
      /\ Dist(cons_tail, head[c]) \in Nat
  BY DistNat DEF IInv, TypeOK, Threads
<1>2. Dist(cons_tail, prod_tail) = Dist(cons_tail, cons_head) + Dist(cons_head, prod_tail)
  BY <1>1, Distances
<1>3. i[c] + k - 1 \in 0 .. n[c] - 1
  BY <1>1
<1>. DEFINE j == i[c] + k - 1
<1>4. j \in 0 .. n[c] - 1
  BY <1>3
<1>. HIDE DEF j
<1>5. /\ Plus(head[c], j) \in Index
      /\ Dist(cons_tail, Plus(head[c], j)) = Dist(cons_tail, head[c]) + j
      /\ Dist(cons_tail, head[c]) + n[c] <= Dist(cons_tail, cons_head)
      /\ j \in Nat /\ j < n[c]
  BY <1>1, <1>4, HeldRange
<1>6. Dist(cons_tail, Plus(head[c], j)) < Dist(cons_tail, prod_tail)
  BY <1>1, <1>2, <1>5
<1>. QED BY <1>5, <1>6 DEF j

(* A producer writes to no slot that has been published and not released.   *)
LEMMA PublishedKept ==
  ASSUME IInv, NEW p \in Producers, EnqueueCall(p) \/ EnqueueStep(p),
         NEW y \in Index, Dist(cons_tail, y) < Dist(cons_tail, prod_tail)
  PROVE  slots'[Slot(y)] = slots[Slot(y)]
<1>1. CASE WriteEntry(p)
  <2>1. /\ TypeOK /\ Counters /\ p \in Threads /\ i[p] \in Nat /\ n[p] \in Nat
        /\ slots \in [0 .. Mask -> Items \cup {NoItem}]
    BY DEF IInv, Threads, TypeOK
  <2>2. /\ Holding(p) /\ i[p] \in 0 .. n[p] - 1
        /\ slots' = [slots EXCEPT ![Slot(Plus(head[p], i[p]))] = obj_table[p][i[p] + 1]]
    BY <1>1, <2>1 DEF WriteEntry, Holding, Counters
  <2>3. Slot(y) # Slot(Plus(head[p], i[p]))
    BY <2>2, PublishedApart
  <2>4. Slot(y) \in 0 .. Mask
    BY SlotType
  <2>. QED BY <2>1, <2>2, <2>3, <2>4
<1>2. CASE ~WriteEntry(p)
  BY <1>2 DEF EnqueueStep, EnqueueCall, LoadProdHead, EnqueueAgain, EnqueueAdmitted, EnqueueRefused,
              ReserveSlots, ReserveSlotsFails, CheckWatermark, PublishEntries
<1>. QED BY <1>1, <1>2

(* A producer's step is of no concern to consumers, and changes the queue   *)
(* only when it publishes.                                                  *)
LEMMA EnqueueLeaves ==
  ASSUME IInv, Contents, NEW p \in Producers, EnqueueCall(p) \/ EnqueueStep(p)
  PROVE  GetCalls' = GetCalls /\ Taken' = Taken /\ (~PublishEntries(p) => Queue' = Queue)
<1>1. OthersKeep(p) /\ \A c \in Consumers : c \in Threads \ {p}
  BY EnqueueOthers, ThreadsAssumption DEF IInv, Threads
<1>2. \A c \in Consumers :
        /\ pc'[c] = pc[c] /\ behavior'[c] = behavior[c] /\ max'[c] = max[c]
        /\ obj_table'[c] = obj_table[c] /\ head'[c] = head[c] /\ n'[c] = n[c] /\ i'[c] = i[c]
  BY <1>1 DEF OthersKeep
<1>3. GetCalls' = GetCalls
  BY <1>2, GetCallsStay
<1>4. ASSUME NEW c \in Consumers
      PROVE  Taken'[c] = Taken[c]
  <2>1. Holding(c)' <=> Holding(c)
    BY <1>2 DEF Holding
  <2>2. ASSUME Holding(c), NEW k \in 1 .. n[c] - i[c]
        PROVE  slots'[Slot(Plus(head[c], i[c] + k - 1))] = slots[Slot(Plus(head[c], i[c] + k - 1))]
    BY <2>2, TakenPlaces, PublishedKept
  <2>. QED BY <1>2, <2>1, <2>2, TakenStays
<1>5. Taken' = Taken
  BY <1>4, TakenFunction
<1>6. ASSUME ~PublishEntries(p)
      PROVE  Queue' = Queue
  <2>1. UNCHANGED <<prod_tail, cons_head>>
    BY <1>6 DEF EnqueueStep, EnqueueCall, LoadProdHead, EnqueueAgain, EnqueueAdmitted, EnqueueRefused,
                ReserveSlots, ReserveSlotsFails, WriteEntry, CheckWatermark, index
  <2>2. ASSUME NEW k \in 1 .. Dist(cons_head, prod_tail)
        PROVE  slots'[Slot(Plus(cons_head, k - 1))] = slots[Slot(Plus(cons_head, k - 1))]
    BY QueuePlaces, PublishedKept
  <2>. QED BY <2>1, <2>2, QueueStays
<1>. QED BY <1>3, <1>5, <1>6

(* A consumer's step is of no concern to producers and other consumers, and *)
(* changes the queue only when it reserves entries.                         *)
LEMMA DequeueLeaves ==
  ASSUME IInv, NEW c \in Consumers, DequeueCall(c) \/ DequeueStep(c)
  PROVE  /\ PutCalls' = PutCalls /\ (~ReserveEntries(c) => Queue' = Queue)
         /\ \A d \in Consumers \ {c} : /\ Taken'[d] = Taken[d]
                                        /\ GetCalls'[d] = GetCalls[d]
<1>1. OthersKeep(c) /\ slots' = slots /\ \A p \in Producers : p \in Threads \ {c}
  BY DequeueOthers, ThreadsAssumption DEF IInv, Threads
<1>2. PutCalls' = PutCalls
  <2>1. \A p \in Producers : /\ pc'[p] = pc[p] /\ behavior'[p] = behavior[p]
                            /\ obj_table'[p] = obj_table[p]
    BY <1>1 DEF OthersKeep
  <2>. QED BY <2>1, PutCallsStay
<1>3. ASSUME NEW d \in Consumers \ {c}
      PROVE  Taken'[d] = Taken[d] /\ GetCalls'[d] = GetCalls[d]
  <2>1. /\ pc'[d] = pc[d] /\ behavior'[d] = behavior[d] /\ max'[d] = max[d]
        /\ obj_table'[d] = obj_table[d] /\ head'[d] = head[d] /\ n'[d] = n[d] /\ i'[d] = i[d]
    BY <1>1 DEF OthersKeep, Threads
  <2>2. Holding(d)' <=> Holding(d)
    BY <2>1 DEF Holding
  <2>3. Taken'[d] = Taken[d]
    BY <1>1, <2>1, <2>2, TakenStays
  <2>. QED BY <2>1, <2>3 DEF GetCalls
<1>4. ASSUME ~ReserveEntries(c)
      PROVE  Queue' = Queue
  <2>1. UNCHANGED <<prod_tail, cons_head>>
    BY <1>4 DEF DequeueStep, DequeueCall, LoadConsHead, DequeueAgain, DequeueAdmitted, DequeueRefused,
                ReserveEntriesFails, ReadEntry, ReleaseSlots, index
  <2>. QED BY <1>1, <2>1, QueueStays
<1>. QED BY <1>2, <1>3, <1>4

(* A producer calls, and is turned away.                                    *)
LEMMA CallPutStep ==
  ASSUME IInv, Contents, NEW p \in Producers, EnqueueCall(p)
  PROVE  Fifo!CallPut(p)
<1>1. TypeOK /\ p \in Threads /\ pc[p] = "idle" /\ OthersKeep(p)
  BY EnqueueOthers DEF IInv, Threads, EnqueueCall
<1>2. PICK k \in Requests, b \in Behaviors :
         /\ behavior' = [behavior EXCEPT ![p] = b]
         /\ obj_table' \in {[obj_table EXCEPT ![p] = s] : s \in [1 .. k -> Items]}
         /\ LoadProdHead(p, k)
  BY DEF EnqueueCall
<1>3. PICK s \in [1 .. k -> Items] : obj_table' = [obj_table EXCEPT ![p] = s]
  BY <1>2
<1>4. obj_table'[p] = s /\ behavior'[p] = b /\ pc'[p] = "tail"
  BY <1>1, <1>2, <1>3 DEF TypeOK, LoadProdHead
<1>5. PutCalls[p] = <<>> /\ PutCalls'[p] = [objs |-> s, bulk |-> b = "FIXED"]
  BY <1>1, <1>4 DEF PutCalls
<1>6. \A q \in Producers \ {p} : PutCalls'[q] = PutCalls[q]
  BY <1>1 DEF PutCalls, OthersKeep, Threads
<1>7. PutCalls' = [PutCalls EXCEPT ![p] = [objs |-> s, bulk |-> b = "FIXED"]]
  BY <1>5, <1>6 DEF PutCalls
<1>8. Queue' = Queue /\ GetCalls' = GetCalls /\ Taken' = Taken
  <2>1. ~PublishEntries(p)
    BY <1>1 DEF PublishEntries
  <2>. QED BY <2>1, EnqueueLeaves
<1>9. (b = "FIXED") \in BOOLEAN
  OBVIOUS
<1>. QED BY <1>5, <1>7, <1>8, <1>9 DEF Fifo!CallPut

(* A call in progress is not taken for no call.                             *)
LEMMA InPutCall ==
  ASSUME NEW p \in Producers, pc[p] # "idle"
  PROVE  /\ PutCalls[p] = [objs |-> obj_table[p], bulk |-> behavior[p] = "FIXED"]
         /\ PutCalls[p] # <<>>
<1>1. PutCalls[p] = [objs |-> obj_table[p], bulk |-> behavior[p] = "FIXED"]
  BY DEF PutCalls
<1>2. "objs" \in DOMAIN PutCalls[p] /\ "objs" \notin DOMAIN <<>>
  BY <1>1
<1>. QED BY <1>1, <1>2

LEMMA InGetCall ==
  ASSUME NEW c \in Consumers, pc[c] # "idle"
  PROVE  /\ GetCalls[c] = [count |-> max[c], bulk |-> behavior[c] = "FIXED"]
         /\ GetCalls[c] # <<>>
<1>1. GetCalls[c] = [count |-> max[c], bulk |-> behavior[c] = "FIXED"]
  BY DEF GetCalls
<1>2. "count" \in DOMAIN GetCalls[c] /\ "count" \notin DOMAIN <<>>
  BY <1>1
<1>. QED BY <1>1, <1>2

(* A call of enqueue returns.                                               *)
LEMMA PutReturns ==
  ASSUME IInv, NEW p \in Producers, EnqueueStep(p), pc'[p] = "idle"
  PROVE  PutCalls' = [PutCalls EXCEPT ![p] = <<>>]
<1>1. OthersKeep(p)
  BY EnqueueOthers DEF IInv
<1>2. PutCalls'[p] = <<>>
  BY DEF PutCalls
<1>3. \A q \in Producers \ {p} : PutCalls'[q] = PutCalls[q]
  BY <1>1 DEF PutCalls, OthersKeep, Threads
<1>. QED BY <1>2, <1>3 DEF PutCalls

LEMMA RefusePutStep ==
  ASSUME IInv, Contents, NEW p \in Producers, EnqueueRefused(p)
  PROVE  Fifo!RefusePut(p)
<1>1. TypeOK /\ p \in Threads /\ pc[p] = "tail" /\ EnqueueStep(p)
  BY DEF IInv, Threads, EnqueueRefused, EnqueueStep
<1>2. pc'[p] = "idle"
  BY <1>1 DEF EnqueueRefused, Finish, TypeOK
<1>3. Queue' = Queue /\ GetCalls' = GetCalls /\ Taken' = Taken
  <2>1. ~PublishEntries(p)
    BY <1>1 DEF PublishEntries
  <2>. QED BY <1>1, <2>1, EnqueueLeaves
<1>. QED BY <1>1, <1>2, <1>3, InPutCall, PutReturns DEF Fifo!RefusePut

(* Two sequences joined, entry by entry.                                    *)
LEMMA Joining ==
  ASSUME NEW S, NEW a \in Seq(S), NEW b \in Seq(S)
  PROVE  /\ a \o b \in Seq(S) /\ Len(a \o b) = Len(a) + Len(b)
         /\ \A k \in 1 .. Len(a) + Len(b) :
              (a \o b)[k] = IF k <= Len(a) THEN a[k] ELSE b[k - Len(a)]
  OBVIOUS

(* A sequence is given by its length and its entries.                       *)
LEMMA EntryByEntry ==
  ASSUME NEW S, NEW s \in Seq(S)
  PROVE  s = [k \in 1 .. Len(s) |-> s[k]]
  OBVIOUS

(* The range of a producer that publishes comes right after the queue, and  *)
(* holds what it copied.                                                    *)
LEMMA QueueGrows ==
  ASSUME IInv, Contents, NEW p \in Producers, PublishEntries(p)
  PROVE  /\ Queue' = Queue \o SubSeq(obj_table[p], 1, n[p])
         /\ n[p] \in 1 .. Len(obj_table[p]) /\ Len(Queue) + n[p] <= Mask
         /\ behavior[p] = "FIXED" => n[p] = Len(obj_table[p])
<1>1. /\ TypeOK /\ IndexOrder /\ Counters /\ RangesDisjoint /\ p \in Threads
      /\ pc[p] = "publish" /\ Holding(p)
      /\ prod_tail' = Plus(head[p], n[p]) /\ cons_head' = cons_head /\ slots' = slots
  BY DEF IInv, Threads, PublishEntries, Holding
<1>2. /\ cons_head \in Index /\ prod_tail \in Index /\ prod_head \in Index
      /\ n[p] \in Nat /\ max[p] \in Nat /\ obj_table[p] \in Seq(Items \cup {NoItem})
  BY <1>1 DEF TypeOK
<1>3. n[p] \in 1 .. Len(obj_table[p]) /\ (behavior[p] = "FIXED" => n[p] = Len(obj_table[p]))
  <2>1. n[p] \in 1 .. max[p] /\ Len(obj_table[p]) = max[p]
    BY <1>1 DEF Counters
  <2>2. behavior[p] = "FIXED" => n[p] = max[p]
    BY <1>1 DEF Contents, Progress
  <2>. QED BY <2>1, <2>2
<1>4. head[p] = prod_tail
  <2>1. CASE SpEnqueue
    BY Flags, <1>1, <2>1 DEF IInv, Alone, AloneOn
  <2>2. CASE ~SpEnqueue
    BY <2>2 DEF PublishEntries
  <2>. QED BY <2>1, <2>2
<1>. DEFINE d == Dist(cons_head, prod_tail)
<1>5. /\ d \in Nat /\ n[p] <= Dist(prod_tail, prod_head) /\ n[p] \in Index
      /\ d + n[p] <= Mask /\ Mask \in Nat /\ Mask < IndexMod /\ IndexMod \in Nat
  <2>1. Dist(prod_tail, head[p]) = 0
    BY <1>2, <1>4, DistZero
  <2>2. Dist(prod_tail, head[p]) + n[p] <= Dist(prod_tail, prod_head)
    BY <1>1 DEF RangesDisjoint, RangesOf
  <2>3. /\ Dist(cons_tail, cons_head) \in Nat /\ d \in Nat /\ Dist(prod_tail, prod_head) \in Nat
    BY <1>1, DistNat DEF TypeOK
  <2>4. Dist(cons_tail, cons_head) + d + Dist(prod_tail, prod_head) <= Mask
    BY <1>1 DEF IndexOrder
  <2>5. n[p] \in Index /\ Mask \in Nat /\ Mask < IndexMod /\ IndexMod \in Nat
    BY <1>1, CopyBounds, SizeAssumption DEF Mask
  <2>. HIDE DEF d
  <2>. QED BY <1>2, <2>1, <2>2, <2>3, <2>4, <2>5
<1>6. Dist(cons_head, prod_tail') = d + n[p]
  <2>1. d + n[p] < IndexMod
    BY <1>2, <1>5
  <2>. QED BY <1>1, <1>2, <1>4, <1>5, <2>1, Advance
<1>7. Dist(cons_head, prod_tail)' = d + n[p]
  BY <1>1, <1>6 DEF Dist, Minus
<1>8. \A k : Slot(Plus(cons_head, k - 1))' = Slot(Plus(cons_head, k - 1))
  BY <1>1 DEF Slot, Plus
<1>9. Queue' = [k \in 1 .. d + n[p] |-> slots[Slot(Plus(cons_head, k - 1))]]
  BY <1>1, <1>7, <1>8 DEF Queue
<1>10. Queue = [k \in 1 .. d |-> slots[Slot(Plus(cons_head, k - 1))]]
  BY DEF Queue
<1>. DEFINE f(k) == slots[Slot(Plus(cons_head, k - 1))]
<1>11. ASSUME NEW j \in 1 .. n[p]
       PROVE  f(d + j) = obj_table[p][j]
  <2>1. i[p] = n[p]
    BY <1>1 DEF Contents, Progress
  <2>2. j - 1 \in 0 .. i[p] - 1 /\ (j - 1) + 1 = j
    BY <1>2, <2>1
  <2>3. slots[Slot(Plus(head[p], j - 1))] = obj_table[p][(j - 1) + 1]
    BY <1>1, <2>2 DEF Contents, Written
  <2>4. Plus(cons_head, d + j - 1) = Plus(Plus(cons_head, d), j - 1)
    <3>1. j - 1 \in Nat /\ d + (j - 1) < IndexMod /\ d + j - 1 = d + (j - 1)
      <4>. HIDE DEF d
      <4>. QED BY <1>2, <1>5
    <3>. HIDE DEF d
    <3>. QED BY <1>2, <1>5, <3>1, TwoMoves
  <2>5. Plus(cons_head, d) = head[p]
    BY <1>2, <1>4, WholeWay
  <2>6. slots[Slot(Plus(cons_head, (d + j) - 1))] = slots[Slot(Plus(head[p], j - 1))]
    <3>1. (d + j) - 1 = d + j - 1
      <4>. HIDE DEF d
      <4>. QED BY <1>2, <1>5
    <3>. HIDE DEF d
    <3>. QED BY <2>4, <2>5, <3>1
  <2>7. obj_table[p][(j - 1) + 1] = obj_table[p][j]
    BY <2>2
  <2>. QED BY <2>3, <2>6, <2>7
<1>. HIDE DEF d
<1>12. Queue \o SubSeq(obj_table[p], 1, n[p]) = [k \in 1 .. d + n[p] |-> f(k)]
  <2>. DEFINE s == SubSeq(obj_table[p], 1, n[p])
  <2>1. /\ Len(s) = n[p] /\ \A j \in 1 .. n[p] : s[j] = obj_table[p][j]
    BY <1>2, <1>3
  <2>2. Len(Queue) = d /\ \A k \in 1 .. d : Queue[k] = f(k)
    BY <1>5, <1>10
  <2>3. \A j \in 1 .. n[p] : f(d + j) = s[j]
    <3>. HIDE DEF s, f
    <3>. QED BY <1>11, <2>1
  <2>. DEFINE S == Items \cup {NoItem}
  <2>4. Queue \in Seq(S) /\ s \in Seq(S)
    <3>1. ASSUME NEW k \in 1 .. d
          PROVE  f(k) \in S
      <4>1. Plus(cons_head, k - 1) \in Index
        BY QueuePlaces DEF d
      <4>. QED BY <1>1, <4>1, SlotType DEF TypeOK
    <3>2. Queue \in Seq(S)
      <4>. HIDE DEF f, S
      <4>. QED BY <1>5, <1>10, <3>1 DEF f
    <3>3. s \in Seq(S)
      BY <1>2, <1>3
    <3>. QED BY <3>2, <3>3
  <2>. HIDE DEF s, f, S
  <2>7. /\ Queue \o s \in Seq(S) /\ Len(Queue \o s) = d + n[p]
        /\ \A k \in 1 .. d + n[p] :
              (Queue \o s)[k] = IF k <= d THEN Queue[k] ELSE s[k - d]
    <3>1. /\ Queue \o s \in Seq(S) /\ Len(Queue \o s) = Len(Queue) + Len(s)
          /\ \A k \in 1 .. Len(Queue) + Len(s) :
              (Queue \o s)[k] = IF k <= Len(Queue) THEN Queue[k] ELSE s[k - Len(Queue)]
      BY <2>4, Joining
    <3>. QED BY <2>1, <2>2, <3>1
  <2>5. ASSUME NEW k \in 1 .. d + n[p]
        PROVE  (IF k <= d THEN Queue[k] ELSE s[k - d]) = f(k)
    <3>1. CASE k <= d
      BY <1>2, <1>5, <2>2, <3>1
    <3>2. CASE ~(k <= d)
      <4>1. k - d \in 1 .. n[p] /\ d + (k - d) = k
        BY <1>2, <1>5, <3>2
      <4>2. f(d + (k - d)) = s[k - d]
        BY <2>3, <4>1
      <4>. QED BY <3>2, <4>1, <4>2
    <3>. QED BY <3>1, <3>2
  <2>6. Queue \o s = [k \in 1 .. d + n[p] |-> f(k)]
    <3>1. \A k \in 1 .. d + n[p] : (Queue \o s)[k] = f(k)
      BY <2>5, <2>7
    <3>2. Queue \o s = [k \in 1 .. Len(Queue \o s) |-> (Queue \o s)[k]]
      BY <2>7, EntryByEntry
    <3>. QED BY <2>7, <3>1, <3>2
  <2>. QED BY <2>6 DEF s
<1>13. Len(Queue) = d
  BY <1>5, <1>10
<1>. QED BY <1>3, <1>5, <1>9, <1>12, <1>13

LEMMA PutStep ==
  ASSUME IInv, Contents, NEW p \in Producers, PublishEntries(p)
  PROVE  Fifo!Put(p)
<1>1. TypeOK /\ p \in Threads /\ pc[p] = "publish" /\ EnqueueStep(p)
  BY DEF IInv, Threads, PublishEntries, EnqueueStep
<1>2. pc'[p] = "idle"
  BY <1>1 DEF PublishEntries, Finish, TypeOK
<1>3. /\ PutCalls[p] # <<>> /\ PutCalls[p].objs = obj_table[p]
      /\ PutCalls[p].bulk = (behavior[p] = "FIXED")
  <2>1. /\ PutCalls[p] = [objs |-> obj_table[p], bulk |-> behavior[p] = "FIXED"]
        /\ PutCalls[p] # <<>>
    BY <1>1, InPutCall
  <2>2. PutCalls[p].bulk = [objs |-> obj_table[p], bulk |-> behavior[p] = "FIXED"].bulk
    BY <2>1, Zenon
  <2>3. [objs |-> obj_table[p], bulk |-> behavior[p] = "FIXED"].bulk = (behavior[p] = "FIXED")
    OBVIOUS
  <2>4. PutCalls[p].objs = obj_table[p]
    BY <2>1
  <2>. QED BY <2>1, <2>2, <2>3, <2>4
<1>4. PutCalls' = [PutCalls EXCEPT ![p] = <<>>] /\ GetCalls' = GetCalls /\ Taken' = Taken
  BY <1>1, <1>2, PutReturns, EnqueueLeaves
<1>5. /\ Queue' = Queue \o SubSeq(PutCalls[p].objs, 1, n[p])
      /\ n[p] \in 1 .. Len(PutCalls[p].objs) /\ Len(Queue) + n[p] <= Mask
      /\ PutCalls[p].bulk => n[p] = Len(PutCalls[p].objs)
  BY <1>3, QueueGrows
<1>. QED BY <1>3, <1>4, <1>5 DEF Fifo!Put

(* A producer's other steps are not seen from outside.                      *)
LEMMA EnqueueStutters ==
  ASSUME IInv, Contents, NEW p \in Producers, EnqueueStep(p),
         ~EnqueueRefused(p), ~PublishEntries(p)
  PROVE  UNCHANGED Fifo!vars
<1>1. TypeOK /\ p \in Threads /\ OthersKeep(p)
  BY EnqueueOthers DEF IInv, Threads
<1>2. /\ pc[p] # "idle" /\ pc'[p] # "idle"
      /\ obj_table'[p] = obj_table[p] /\ behavior'[p] = behavior[p]
  BY <1>1 DEF EnqueueStep, EnqueueAgain, LoadProdHead, EnqueueAdmitted, ReserveSlots, ReserveSlotsFails,
              WriteEntry, CheckWatermark, TypeOK, call
<1>3. PutCalls' = PutCalls
  <2>1. \A q \in Producers \ {p} : /\ pc'[q] = pc[q] /\ behavior'[q] = behavior[q]
                                  /\ obj_table'[q] = obj_table[q]
    BY <1>1 DEF OthersKeep, Threads
  <2>. QED BY <1>2, <2>1, PutCallsStay
<1>4. Queue' = Queue /\ GetCalls' = GetCalls /\ Taken' = Taken
  BY EnqueueLeaves
<1>. QED BY <1>3, <1>4 DEF Fifo!vars

(* A consumer calls ...                                                     *)
LEMMA CallGetStep ==
  ASSUME IInv, Contents, NEW c \in Consumers, DequeueCall(c)
  PROVE  Fifo!CallGet(c)
<1>1. TypeOK /\ c \in Threads /\ pc[c] = "idle"
  BY DEF IInv, Threads, DequeueCall
<1>2. PICK k \in Requests, b \in Behaviors :
         /\ max' = [max EXCEPT ![c] = k] /\ behavior' = [behavior EXCEPT ![c] = b]
         /\ LoadConsHead(c, k)
  BY DEF DequeueCall
<1>3. max'[c] = k /\ behavior'[c] = b /\ pc'[c] = "tail"
  BY <1>1, <1>2 DEF TypeOK, LoadConsHead
<1>4. GetCalls[c] = <<>> /\ GetCalls'[c] = [count |-> k, bulk |-> b = "FIXED"]
  BY <1>1, <1>3 DEF GetCalls
<1>5. PutCalls' = PutCalls /\ Queue' = Queue
      /\ \A d \in Consumers \ {c} : Taken'[d] = Taken[d] /\ GetCalls'[d] = GetCalls[d]
  <2>1. ~ReserveEntries(c)
    BY <1>1 DEF ReserveEntries
  <2>. QED BY <2>1, DequeueLeaves
<1>6. GetCalls' = [GetCalls EXCEPT ![c] = [count |-> k, bulk |-> b = "FIXED"]]
  BY <1>4, <1>5 DEF GetCalls
<1>7. Taken' = Taken
  <2>1. Taken'[c] = Taken[c]
    BY <1>1, <1>3 DEF Taken, Holding
  <2>. QED BY <1>5, <2>1, TakenFunction
<1>8. (b = "FIXED") \in BOOLEAN
  OBVIOUS
<1>. QED BY <1>4, <1>5, <1>6, <1>7, <1>8 DEF Fifo!CallGet

(* ... and returns, with what it has taken or with nothing.                 *)
LEMMA ReturnGetStep ==
  ASSUME IInv, Contents, NEW c \in Consumers, DequeueRefused(c) \/ ReleaseSlots(c)
  PROVE  Fifo!ReturnGet(c)
<1>1. TypeOK /\ c \in Threads /\ DequeueStep(c) /\ pc[c] # "idle" /\ pc'[c] = "idle"
  BY DEF IInv, TypeOK, Threads, DequeueRefused, ReleaseSlots, Finish, DequeueStep
<1>2. PutCalls' = PutCalls /\ Queue' = Queue
      /\ \A d \in Consumers \ {c} : Taken'[d] = Taken[d] /\ GetCalls'[d] = GetCalls[d]
  <2>1. ~ReserveEntries(c)
    BY DEF DequeueRefused, ReleaseSlots, ReserveEntries
  <2>. QED BY <1>1, <2>1, DequeueLeaves
<1>3. GetCalls' = [GetCalls EXCEPT ![c] = <<>>]
  <2>1. GetCalls'[c] = <<>>
    BY <1>1 DEF GetCalls
  <2>. QED BY <1>2, <2>1 DEF GetCalls
<1>4. Taken' = [Taken EXCEPT ![c] = <<>>]
  <2>1. Taken'[c] = <<>>
    BY <1>1 DEF Taken, Holding
  <2>. QED BY <1>2, <2>1 DEF Taken
<1>. QED BY <1>1, <1>2, <1>3, <1>4, InGetCall DEF Fifo!ReturnGet

(* A consumer that reserves entries takes the front of the queue.           *)
LEMMA QueueShrinks ==
  ASSUME IInv, Contents, NEW c \in Consumers, ReserveEntries(c)
  PROVE  /\ n[c] \in 1 .. Len(Queue) /\ n[c] <= max[c]
         /\ behavior[c] = "FIXED" => n[c] = max[c]
         /\ Taken[c] = <<>> /\ Taken'[c] = SubSeq(Queue, 1, n[c])
         /\ Queue' = SubSeq(Queue, n[c] + 1, Len(Queue))
<1>1. /\ TypeOK /\ IndexOrder /\ Counters /\ c \in Threads
      /\ pc[c] = "reserve" /\ pc'[c] = "copy" /\ ~Holding(c) /\ Holding(c)'
      /\ cons_head' = Plus(head[c], n[c]) /\ prod_tail' = prod_tail /\ slots' = slots
      /\ n' = n /\ head' = head /\ i' = i /\ obj_table' = obj_table
  BY DEF IInv, TypeOK, Threads, ReserveEntries, Holding, local
<1>2. /\ cons_head \in Index /\ prod_tail \in Index /\ head[c] \in Index
      /\ n[c] \in Nat /\ max[c] \in Nat /\ obj_table[c] \in Seq(Items \cup {NoItem})
  BY <1>1 DEF TypeOK
<1>3. n[c] \in 1 .. max[c] /\ n[c] \in Index /\ i[c] = 0 /\ Len(obj_table[c]) = 0
      /\ (behavior[c] = "FIXED" => n[c] = max[c])
  BY <1>1 DEF Counters, Contents, Progress
<1>4. drift[c] = 0
  <2>1. CASE ScDequeue
    BY Flags, <2>1 DEF IInv, Alone, AloneOn
  <2>2. CASE ~ScDequeue
    <3>1. cons_head = head[c]
      BY <2>2 DEF ReserveEntries
    <3>2. Dist(head[c], cons_head) = drift[c]
      BY <1>1 DEF IInv, Snapshots, Racing
    <3>. QED BY <1>2, <3>1, <3>2, DistZero
  <2>. QED BY <2>1, <2>2
<1>5. head[c] = cons_head
  <2>1. Dist(head[c], cons_head) = drift[c]
    BY <1>1 DEF IInv, Snapshots, Racing
  <2>. QED BY <1>2, <1>4, <2>1, DistZero
<1>. DEFINE d == Dist(cons_head, prod_tail)
            f(k) == slots[Slot(Plus(cons_head, k - 1))]
            m == n[c]
            S == Items \cup {NoItem}
<1>6. /\ d \in Nat /\ m <= d /\ m \in Nat /\ m >= 1 /\ d <= Mask /\ m \in Index
      /\ Mask < IndexMod /\ Mask \in Nat /\ IndexMod \in Nat
  <2>1. m <= d
    BY <1>1, <1>4 DEF IInv, StillAdmitted
  <2>2. d \in 0 .. Mask /\ Mask \in Nat /\ Mask < IndexMod /\ IndexMod \in Nat
    BY <1>1, Distances, SizeAssumption
  <2>. QED BY <1>2, <1>3, <2>1, <2>2
<1>7. Queue = [k \in 1 .. d |-> f(k)]
  BY DEF Queue
<1>8. \A k \in 1 .. d : f(k) \in S
  <2>. SUFFICES ASSUME NEW k \in 1 .. d PROVE f(k) \in S
    OBVIOUS
  <2>1. Plus(cons_head, k - 1) \in Index
    BY QueuePlaces
  <2>. QED BY <1>1, <2>1, SlotType DEF TypeOK
<1>9. Queue' = [k \in 1 .. d - m |-> f(m + k)]
  <2>1. Dist(cons_head, prod_tail)' = d - m
    <3>1. Dist(Plus(cons_head, m), prod_tail) = d - m
      BY <1>2, <1>6, Shorten
    <3>. QED BY <1>1, <1>5, <3>1 DEF Dist, Minus
  <2>2. ASSUME NEW k \in 1 .. d - m
        PROVE  slots'[Slot(Plus(cons_head', k - 1))] = f(m + k)
    <3>1. k - 1 \in Nat /\ m + (k - 1) < IndexMod /\ m + (k - 1) = (m + k) - 1
      <4>. HIDE DEF d, m
      <4>. QED BY <1>6, <2>2
    <3>2. Plus(Plus(cons_head, m), k - 1) = Plus(cons_head, m + (k - 1))
      <4>. HIDE DEF m
      <4>. QED BY <1>2, <1>6, <3>1, TwoMoves
    <3>3. cons_head' = Plus(cons_head, m)
      BY <1>1, <1>5
    <3>. HIDE DEF m
    <3>. QED BY <1>1, <3>1, <3>2, <3>3
  <2>3. Queue' = [k \in 1 .. Dist(cons_head, prod_tail)' |->
                    slots'[Slot(Plus(cons_head', k - 1))]]
    BY DEF Queue, Slot, Plus
  <2>. HIDE DEF d, m, f
  <2>. QED BY <2>1, <2>2, <2>3
<1>10. Taken'[c] = <<>> \o [k \in 1 .. m |-> f(k)]
  <2>1. obj_table[c] = <<>>
    BY <1>2, <1>3
  <2>2. Taken'[c] = obj_table'[c] \o StillToCopy(c)'
    BY <1>1 DEF Taken
  <2>3. StillToCopy(c)' = [k \in 1 .. n'[c] - i'[c] |->
                             slots'[Slot(Plus(head'[c], i'[c] + k - 1))]]
    BY DEF StillToCopy, Slot, Plus
  <2>4. n'[c] - i'[c] = m
    BY <1>1, <1>2, <1>3
  <2>5. ASSUME NEW k \in 1 .. m
        PROVE  slots'[Slot(Plus(head'[c], i'[c] + k - 1))] = f(k)
    <3>1. i'[c] + k - 1 = k - 1
      BY <1>1, <1>3
    <3>. QED BY <1>1, <1>5, <3>1
  <2>6. StillToCopy(c)' = [k \in 1 .. m |-> f(k)]
    <3>. HIDE DEF m, f
    <3>. QED BY <2>3, <2>4, <2>5
  <2>. HIDE DEF m, f
  <2>. QED BY <1>1, <2>1, <2>2, <2>6
<1>11. Taken[c] = <<>>
  BY <1>1 DEF Taken
<1>. HIDE DEF d, f, m, S
<1>12. Queue \in Seq(S) /\ Len(Queue) = d /\ \A k \in 1 .. d : Queue[k] = f(k)
  BY <1>6, <1>7, <1>8
<1>13. Taken'[c] = SubSeq(Queue, 1, m)
  <2>1. SubSeq(Queue, 1, m) = [k \in 1 .. m |-> f(k)]
    <3>1. /\ SubSeq(Queue, 1, m) \in Seq(S) /\ Len(SubSeq(Queue, 1, m)) = m
          /\ \A k \in 1 .. m : SubSeq(Queue, 1, m)[k] = Queue[k]
      BY <1>6, <1>12
    <3>2. SubSeq(Queue, 1, m) = [k \in 1 .. m |-> SubSeq(Queue, 1, m)[k]]
      BY <3>1, EntryByEntry
    <3>3. \A k \in 1 .. m : SubSeq(Queue, 1, m)[k] = f(k)
      BY <1>6, <1>12, <3>1
    <3>. QED BY <3>2, <3>3
  <2>2. <<>> \o SubSeq(Queue, 1, m) = SubSeq(Queue, 1, m)
    BY <1>6, <1>12
  <2>. QED BY <1>10, <2>1, <2>2
<1>14. Queue' = SubSeq(Queue, m + 1, Len(Queue))
  <2>. DEFINE s == SubSeq(Queue, m + 1, Len(Queue))
  <2>1. /\ s \in Seq(S) /\ Len(s) = d - m
        /\ \A k \in 1 .. d - m : s[k] = Queue[m + k]
    BY <1>6, <1>12
  <2>. HIDE DEF s
  <2>2. s = [k \in 1 .. d - m |-> s[k]]
    BY <2>1, EntryByEntry
  <2>3. \A k \in 1 .. d - m : s[k] = f(m + k)
    <3>1. \A k \in 1 .. d - m : m + k \in 1 .. d
      BY <1>6
    <3>. QED BY <1>12, <2>1, <3>1
  <2>4. s = Queue'
    BY <1>9, <2>2, <2>3
  <2>. QED BY <2>4 DEF s
<1>15. n[c] \in 1 .. Len(Queue) /\ n[c] <= max[c]
  BY <1>2, <1>3, <1>6, <1>12 DEF m
<1>. QED BY <1>3, <1>11, <1>13, <1>14, <1>15 DEF m

LEMMA GetStep ==
  ASSUME IInv, Contents, NEW c \in Consumers, ReserveEntries(c)
  PROVE  Fifo!Get(c)
<1>1. TypeOK /\ c \in Threads /\ DequeueStep(c) /\ pc[c] # "idle" /\ pc'[c] # "idle"
      /\ max' = max /\ behavior' = behavior
  BY DEF IInv, TypeOK, Threads, ReserveEntries, DequeueStep, call
<1>2. PutCalls' = PutCalls
      /\ \A d \in Consumers \ {c} : Taken'[d] = Taken[d] /\ GetCalls'[d] = GetCalls[d]
  BY <1>1, DequeueLeaves
<1>3. GetCalls' = GetCalls
  BY <1>1, <1>2 DEF GetCalls
<1>4. /\ GetCalls[c] = [count |-> max[c], bulk |-> behavior[c] = "FIXED"]
      /\ GetCalls[c] # <<>>
  BY <1>1, InGetCall
<1>5. GetCalls[c].count = max[c]
  BY <1>4
<1>6. GetCalls[c].bulk = (behavior[c] = "FIXED")
  <2>1. GetCalls[c].bulk = [count |-> max[c], bulk |-> behavior[c] = "FIXED"].bulk
    BY <1>4, Zenon
  <2>2. [count |-> max[c], bulk |-> behavior[c] = "FIXED"].bulk = (behavior[c] = "FIXED")
    OBVIOUS
  <2>. QED BY <2>1, <2>2
<1>7. /\ n[c] \in 1 .. Len(Queue) /\ n[c] <= max[c]
      /\ behavior[c] = "FIXED" => n[c] = max[c]
      /\ Taken[c] = <<>> /\ Taken'[c] = SubSeq(Queue, 1, n[c])
      /\ Queue' = SubSeq(Queue, n[c] + 1, Len(Queue))
  BY QueueShrinks
<1>8. Taken' = [Taken EXCEPT ![c] = SubSeq(Queue, 1, n[c])]
  BY <1>2, <1>7 DEF Taken
<1>9. n[c] <= GetCalls[c].count /\ (GetCalls[c].bulk => n[c] = GetCalls[c].count)
  BY <1>5, <1>6, <1>7
<1>. QED BY <1>2, <1>3, <1>4, <1>7, <1>8, <1>9 DEF Fifo!Get

(* An object that is copied was already taken: the slot still held it.      *)
LEMMA ReadEntryTaken ==
  ASSUME IInv, Contents, NEW c \in Consumers, ReadEntry(c)
  PROVE  Taken'[c] = Taken[c]
<1>1. /\ TypeOK /\ Counters /\ c \in Threads /\ Holding(c) /\ Holding(c)' /\ slots' = slots
      /\ n' = n /\ head' = head /\ i'[c] = i[c] + 1 /\ pc[c] = "copy"
      /\ obj_table'[c] = Append(obj_table[c], slots[Slot(Plus(head[c], i[c]))])
  BY DEF IInv, TypeOK, Threads, ReadEntry, Holding
<1>. DEFINE o == obj_table[c]
            f(k) == slots[Slot(Plus(head[c], i[c] + k - 1))]
            m == n[c] - i[c]
            S == Items \cup {NoItem}
<1>2. /\ o \in Seq(S) /\ n[c] \in Nat /\ i[c] \in Nat /\ m \in Nat /\ m >= 1
      /\ head[c] \in Index /\ n[c] \in Index
  <2>1. i[c] < n[c] /\ n[c] \in Index /\ n[c] \in Nat /\ i[c] \in Nat
    BY <1>1, CopyBounds DEF Counters, TypeOK
  <2>. QED BY <1>1, <2>1 DEF TypeOK
<1>3. ASSUME NEW k \in 1 .. m
      PROVE  f(k) \in S
  <2>1. i[c] + k - 1 \in Index
    BY <1>2, SizeAssumption DEF Index
  <2>2. Slot(Plus(head[c], i[c] + k - 1)) \in 0 .. Mask
    BY <1>2, <2>1, WrapType, SlotType
  <2>. QED BY <1>1, <2>2 DEF TypeOK
<1>4. f(1) = slots[Slot(Plus(head[c], i[c]))]
  <2>1. i[c] + 1 - 1 = i[c]
    BY <1>2
  <2>. QED BY <2>1
<1>5. Taken[c] = o \o [k \in 1 .. m |-> f(k)]
  BY <1>1 DEF Taken, StillToCopy
<1>6. Taken'[c] = Append(o, f(1)) \o [k \in 1 .. m - 1 |-> f(k + 1)]
  <2>1. Taken'[c] = obj_table'[c] \o StillToCopy(c)'
    BY <1>1 DEF Taken
  <2>2. StillToCopy(c)' = [k \in 1 .. n'[c] - i'[c] |->
                             slots'[Slot(Plus(head'[c], i'[c] + k - 1))]]
    BY DEF StillToCopy, Slot, Plus
  <2>3. n'[c] - i'[c] = m - 1
    BY <1>1, <1>2
  <2>4. ASSUME NEW k \in 1 .. m - 1
        PROVE  slots'[Slot(Plus(head'[c], i'[c] + k - 1))] = f(k + 1)
    <3>1. i'[c] + k - 1 = i[c] + (k + 1) - 1
      BY <1>1, <1>2
    <3>2. slots'[Slot(Plus(head'[c], i'[c] + k - 1))]
            = slots[Slot(Plus(head[c], i[c] + (k + 1) - 1))]
      BY <1>1, <3>1
    <3>. QED BY <3>2
  <2>5. StillToCopy(c)' = [k \in 1 .. m - 1 |-> f(k + 1)]
    <3>. HIDE DEF m, f
    <3>. QED BY <2>2, <2>3, <2>4
  <2>6. obj_table'[c] = Append(o, f(1))
    BY <1>1, <1>4
  <2>. HIDE DEF m, f, o
  <2>. QED BY <2>1, <2>5, <2>6
<1>. HIDE DEF o, f, m, S
<1>. DEFINE a == [k \in 1 .. m |-> f(k)]
            b == [k \in 1 .. m - 1 |-> f(k + 1)]
            e == Append(o, f(1))
<1>7. /\ a \in Seq(S) /\ Len(a) = m /\ \A k \in 1 .. m : a[k] = f(k)
  BY <1>2, <1>3
<1>8. /\ b \in Seq(S) /\ Len(b) = m - 1 /\ \A k \in 1 .. m - 1 : b[k] = f(k + 1)
  <2>1. m - 1 \in Nat /\ \A k \in 1 .. m - 1 : f(k + 1) \in S
    <3>1. \A k \in 1 .. m - 1 : k + 1 \in 1 .. m
      BY <1>2
    <3>. QED BY <1>2, <1>3, <3>1
  <2>. QED BY <2>1
<1>9. /\ e \in Seq(S) /\ Len(e) = Len(o) + 1 /\ e[Len(o) + 1] = f(1)
      /\ \A k \in 1 .. Len(o) : e[k] = o[k]
  <2>1. f(1) \in S
    BY <1>2, <1>3
  <2>. QED BY <1>2, <2>1
<1>. HIDE DEF a, b, e
<1>10. /\ o \o a \in Seq(S) /\ Len(o \o a) = Len(o) + m
       /\ \A k \in 1 .. Len(o) + m : (o \o a)[k] = IF k <= Len(o) THEN o[k] ELSE a[k - Len(o)]
  BY <1>2, <1>7, Joining
<1>11. /\ e \o b \in Seq(S) /\ Len(e \o b) = Len(e) + (m - 1)
       /\ \A k \in 1 .. Len(e) + (m - 1) :
             (e \o b)[k] = IF k <= Len(e) THEN e[k] ELSE b[k - Len(e)]
  <2>1. e \in Seq(S) /\ b \in Seq(S)
    BY <1>8, <1>9
  <2>2. /\ e \o b \in Seq(S) /\ Len(e \o b) = Len(e) + Len(b)
        /\ \A k \in 1 .. Len(e) + Len(b) :
              (e \o b)[k] = IF k <= Len(e) THEN e[k] ELSE b[k - Len(e)]
    BY <2>1, Joining
  <2>. QED BY <1>8, <2>2
<1>. DEFINE l == Len(o)
<1>12. l \in Nat
  BY <1>2
<1>13. ASSUME NEW k \in 1 .. l + m
       PROVE  (o \o a)[k] = (e \o b)[k]
  <2>1. k \in 1 .. Len(e) + (m - 1) /\ Len(e) = l + 1
    BY <1>2, <1>9, <1>12
  <2>. HIDE DEF l
  <2>2. CASE k <= l
    <3>1. k \in 1 .. l /\ k <= l + 1
      BY <1>2, <1>12, <2>2
    <3>. QED BY <1>9, <1>10, <1>11, <2>1, <2>2, <3>1 DEF l
  <2>3. CASE k = l + 1
    <3>1. ~(k <= l) /\ k - l = 1 /\ 1 \in 1 .. m
      BY <1>2, <1>12, <2>3
    <3>2. (o \o a)[k] = a[1]
      BY <1>10, <3>1 DEF l
    <3>3. (e \o b)[k] = e[k]
      BY <1>11, <2>1, <2>3
    <3>. QED BY <1>7, <1>9, <2>3, <3>1, <3>2, <3>3 DEF l
  <2>4. CASE k > l + 1
    <3>1. ~(k <= l) /\ ~(k <= l + 1) /\ k - l \in 1 .. m /\ k - (l + 1) \in 1 .. m - 1
          /\ (k - (l + 1)) + 1 = k - l
      BY <1>2, <1>12, <2>4
    <3>2. (o \o a)[k] = a[k - l]
      BY <1>10, <3>1 DEF l
    <3>3. (e \o b)[k] = b[k - (l + 1)]
      BY <1>11, <2>1, <3>1
    <3>4. b[k - (l + 1)] = f(k - l)
      BY <1>8, <3>1
    <3>. QED BY <1>7, <3>1, <3>2, <3>3, <3>4
  <2>5. k \in Int /\ (k <= l \/ k = l + 1 \/ k > l + 1)
    BY <1>2, <1>12
  <2>. QED BY <2>2, <2>3, <2>4, <2>5
<1>14. o \o a = e \o b
  <2>1. Len(e \o b) = l + m
    BY <1>2, <1>9, <1>11, <1>12
  <2>2. o \o a = [k \in 1 .. l + m |-> (o \o a)[k]]
    BY <1>10, EntryByEntry
  <2>3. e \o b = [k \in 1 .. l + m |-> (e \o b)[k]]
    BY <1>11, <2>1, EntryByEntry
  <2>. HIDE DEF l
  <2>. QED BY <1>13, <2>2, <2>3
<1>. QED BY <1>5, <1>6, <1>14 DEF a, b, e

(* A consumer's other steps are not seen from outside.                      *)
LEMMA DequeueStutters ==
  ASSUME IInv, Contents, NEW c \in Consumers, DequeueStep(c),
         ~DequeueRefused(c), ~ReleaseSlots(c), ~ReserveEntries(c)
  PROVE  UNCHANGED Fifo!vars
<1>1. TypeOK /\ c \in Threads
  BY DEF IInv, Threads
<1>2. /\ pc[c] # "idle" /\ pc'[c] # "idle" /\ max' = max /\ behavior' = behavior
  BY <1>1 DEF DequeueStep, DequeueAgain, LoadConsHead, DequeueAdmitted, ReserveEntriesFails,
              ReadEntry, TypeOK, call
<1>3. PutCalls' = PutCalls /\ Queue' = Queue
      /\ \A d \in Consumers \ {c} : Taken'[d] = Taken[d] /\ GetCalls'[d] = GetCalls[d]
  BY DequeueLeaves
<1>4. GetCalls' = GetCalls
  BY <1>2, <1>3 DEF GetCalls
<1>5. Taken'[c] = Taken[c]
  <2>1. CASE ReadEntry(c)
    BY <2>1, ReadEntryTaken
  <2>2. CASE ~ReadEntry(c)
    <3>1. ~Holding(c) /\ ~Holding(c)'
      BY <1>1, <2>2 DEF DequeueStep, DequeueAgain, LoadConsHead, DequeueAdmitted,
                        ReserveEntriesFails, Holding, TypeOK
    <3>. QED BY <3>1 DEF Taken
  <2>. QED BY <2>1, <2>2
<1>6. Taken' = Taken
  BY <1>3, <1>5, TakenFunction
<1>. QED BY <1>3, <1>4, <1>6 DEF Fifo!vars

(* A step of the FIFO changes the record of the call that takes it.         *)
LEMMA PutChanges ==
  ASSUME NEW p \in Producers, Fifo!CallPut(p) \/ Fifo!Put(p) \/ Fifo!RefusePut(p)
  PROVE  PutCalls' # PutCalls
<1>0. PutCalls = [q \in Producers |-> PutCalls[q]]
  BY DEF PutCalls
<1>1. CASE Fifo!CallPut(p)
  <2>1. PICK k \in Requests, b \in BOOLEAN : \E s \in [1 .. k -> Items] :
           PutCalls' = [PutCalls EXCEPT ![p] = [objs |-> s, bulk |-> b]]
    BY <1>1 DEF Fifo!CallPut
  <2>2. PICK s \in [1 .. k -> Items] :
           PutCalls' = [PutCalls EXCEPT ![p] = [objs |-> s, bulk |-> b]]
    BY <2>1
  <2>3. PutCalls[p] = <<>>
    BY <1>1 DEF Fifo!CallPut
  <2>4. [objs |-> s, bulk |-> b] # <<>>
    <3>1. "objs" \in DOMAIN [objs |-> s, bulk |-> b] /\ "objs" \notin DOMAIN <<>>
      OBVIOUS
    <3>. QED BY <3>1
  <2>5. PutCalls'[p] = [objs |-> s, bulk |-> b]
    BY <1>0, <2>2
  <2>. QED BY <2>3, <2>4, <2>5
<1>2. CASE Fifo!Put(p) \/ Fifo!RefusePut(p)
  <2>1. PutCalls[p] # <<>> /\ PutCalls' = [PutCalls EXCEPT ![p] = <<>>]
    BY <1>2 DEF Fifo!Put, Fifo!RefusePut
  <2>2. PutCalls'[p] = <<>>
    BY <1>0, <2>1
  <2>. QED BY <2>1, <2>2
<1>. QED BY <1>1, <1>2

LEMMA GetChanges ==
  ASSUME NEW c \in Consumers, Fifo!CallGet(c) \/ Fifo!ReturnGet(c)
  PROVE  GetCalls' # GetCalls
<1>0. GetCalls = [d \in Consumers |-> GetCalls[d]]
  BY DEF GetCalls
<1>1. CASE Fifo!CallGet(c)
  <2>1. PICK k \in Requests, b \in BOOLEAN :
           GetCalls' = [GetCalls EXCEPT ![c] = [count |-> k, bulk |-> b]]
    BY <1>1 DEF Fifo!CallGet
  <2>2. GetCalls[c] = <<>>
    BY <1>1 DEF Fifo!CallGet
  <2>3. [count |-> k, bulk |-> b] # <<>>
    <3>1. "count" \in DOMAIN [count |-> k, bulk |-> b] /\ "count" \notin DOMAIN <<>>
      OBVIOUS
    <3>. QED BY <3>1
  <2>4. GetCalls'[c] = [count |-> k, bulk |-> b]
    BY <1>0, <2>1
  <2>. QED BY <2>2, <2>3, <2>4
<1>2. CASE Fifo!ReturnGet(c)
  <2>1. GetCalls[c] # <<>> /\ GetCalls' = [GetCalls EXCEPT ![c] = <<>>]
    BY <1>2 DEF Fifo!ReturnGet
  <2>2. GetCalls'[c] = <<>>
    BY <1>0, <2>1
  <2>. QED BY <2>1, <2>2
<1>. QED BY <1>1, <1>2

LEMMA TakenChanges ==
  ASSUME NEW c \in Consumers, Fifo!Get(c)
  PROVE  Taken' # Taken
<1>1. PICK k \in 1 .. Len(Queue) : Taken' = [Taken EXCEPT ![c] = SubSeq(Queue, 1, k)]
  BY DEF Fifo!Get
<1>2. Taken[c] = <<>> /\ Taken = [d \in Consumers |-> Taken[d]]
  BY DEF Fifo!Get, Taken
<1>3. Taken'[c] = SubSeq(Queue, 1, k)
  BY <1>1, <1>2
<1>4. Len(SubSeq(Queue, 1, k)) = k /\ Len(<<>>) = 0 /\ k > 0
  OBVIOUS
<1>. QED BY <1>2, <1>3, <1>4

(* Every step of the ring is a step of the FIFO, or none.                   *)
LEMMA FifoStep == IInv /\ Contents /\ [Next]_vars => [Fifo!Next]_(Fifo!vars)
<1>. SUFFICES ASSUME IInv, Contents, [Next]_vars PROVE Fifo!Next \/ UNCHANGED Fifo!vars
  OBVIOUS
<1>1. ASSUME NEW p \in Producers, EnqueueCall(p) \/ EnqueueStep(p)
      PROVE  Fifo!CallPut(p) \/ Fifo!Put(p) \/ Fifo!RefusePut(p) \/ UNCHANGED Fifo!vars
  BY <1>1, CallPutStep, PutStep, RefusePutStep, EnqueueStutters
<1>2. ASSUME NEW c \in Consumers, DequeueCall(c) \/ DequeueStep(c)
      PROVE  Fifo!CallGet(c) \/ Fifo!Get(c) \/ Fifo!ReturnGet(c) \/ UNCHANGED Fifo!vars
  BY <1>2, CallGetStep, GetStep, ReturnGetStep, DequeueStutters
<1>3. ASSUME UNCHANGED <<index, slots, pc, call, obj_table, local>>
      PROVE  UNCHANGED Fifo!vars
  <2>1. Queue' = Queue
    BY <1>3, QueueStays DEF index
  <2>2. PutCalls' = PutCalls /\ GetCalls' = GetCalls
    BY <1>3 DEF PutCalls, GetCalls, call
  <2>3. \A c \in Consumers : Taken'[c] = Taken[c]
    BY <1>3, TakenStays DEF Holding, local
  <2>. QED BY <2>1, <2>2, <2>3, TakenFunction DEF Fifo!vars
<1>4. ASSUME NEW count \in WaterMarks, SetWaterMark(count)
      PROVE  UNCHANGED Fifo!vars
  BY <1>3, <1>4 DEF SetWaterMark
<1>5. CASE UNCHANGED vars
  BY <1>3, <1>5 DEF vars
<1>6. ASSUME NEW p \in Producers, Fifo!CallPut(p) \/ Fifo!Put(p) \/ Fifo!RefusePut(p)
      PROVE  Fifo!Next
  BY <1>6, PutChanges DEF Fifo!Next
<1>7. ASSUME NEW c \in Consumers, Fifo!CallGet(c) \/ Fifo!Get(c) \/ Fifo!ReturnGet(c)
      PROVE  Fifo!Next
  BY <1>7, GetChanges, TakenChanges DEF Fifo!Next
<1>. QED BY <1>1, <1>2, <1>4, <1>5, <1>6, <1>7 DEF Next

(* It begins as an empty FIFO.                                              *)
LEMMA FifoInit == Init => Fifo!Init
<1>. SUFFICES ASSUME Init PROVE Fifo!Init
  OBVIOUS
<1>1. Dist(cons_head, prod_tail) = 0
  BY StartAssumption, DistZero DEF Init, Index
<1>2. Queue = <<>>
  BY <1>1 DEF Queue
<1>3. \A t \in Threads : pc[t] = "idle"
  BY DEF Init
<1>4. /\ PutCalls = [p \in Producers |-> <<>>] /\ GetCalls = [c \in Consumers |-> <<>>]
      /\ Taken = [c \in Consumers |-> <<>>]
  BY <1>3 DEF PutCalls, GetCalls, Taken, Holding, Threads
<1>. QED BY <1>2, <1>4 DEF Fifo!Init

(* The lockless ring implements the bounded FIFO that the header comment of *)
(* rte_ring.h promises: every enqueue and every dequeue, of one object or   *)
(* of many, takes effect at one moment, whole when it is a bulk call, and   *)
(* no object is lost, duplicated, reordered or overwritten before it has    *)
(* been copied.                                                             *)
THEOREM RingIsFifo == Spec => ImplementsFifo
  BY FifoInit, FifoStep, SpecContents, PTL DEF Spec, ImplementsFifo, Fifo!Spec

-----------------------------------------------------------------------------
(* The queries.  An asker is alone on its side of the ring.                 *)
LoneAskers ==
  \A t \in Queriers : /\ t \in Producers => Lone(Producers)
                      /\ t \in Consumers => Lone(Consumers)

(* What an asker knows inside a query: its own side has not moved, and the  *)
(* other side has only helped it.                                           *)
Asked(t) ==
  seen_tail[t] # NoItem =>
    /\ pc[t] = "idle" /\ seen_tail[t] \in Index
    /\ t \in Producers => seen_tail[t] = prod_tail
    /\ t \in Consumers => Dist(cons_tail, seen_tail[t]) <= Dist(cons_tail, prod_tail)

(* Until it reserves, what it was promised is there.                        *)
Trusted(t) ==
  promised[t] # NoItem /\ ~Holding(t) =>
    /\ promised[t] \in Nat
    /\ t \in Producers => Dist(cons_tail, prod_head) + promised[t] <= Mask
    /\ t \in Consumers => promised[t] <= Dist(cons_head, prod_tail)

Promises == /\ seen_tail = [t \in Queriers |-> seen_tail[t]]
            /\ promised = [t \in Queriers |-> promised[t]]
            /\ \A t \in Queriers : Asked(t) /\ Trusted(t)

(* Remainders: of a number below the size, and of one lap short of some.    *)
LEMMA Remainder ==
  ASSUME NEW q \in Int, NEW e \in 0 .. Mask, Size * q + e \in Nat
  PROVE  (Size * q + e) % Size = e
<1>. DEFINE x == Size * q + e  r == x % Size  v == x \div Size
<1>1. Size \in Nat /\ Size >= 1 /\ e \in Nat /\ e < Size /\ x \in Nat
  BY SizeAssumption DEF Mask
<1>2. x = Size * v + r /\ v \in Int /\ r \in 0 .. Size - 1
  <2>. HIDE DEF x
  <2>. QED BY <1>1
<1>3. Size * q + e = Size * v + r
  BY <1>2
<1>. HIDE DEF x, r, v
<1>4. Size * (q - v) = r - e /\ Size * (v - q) = e - r
  BY <1>1, <1>2, <1>3
<1>5. q - v = 0
  <2>1. CASE r >= e
    <3>1. q - v \in Int /\ Size * (q - v) >= 0 /\ Size * (q - v) < Size
      BY <1>1, <1>2, <1>4, <2>1
    <3>. QED BY <3>1, SmallMultiple
  <2>2. CASE r < e
    <3>1. v - q \in Int /\ Size * (v - q) >= 0 /\ Size * (v - q) < Size
      BY <1>1, <1>2, <1>4, <2>2
    <3>2. v - q = 0
      BY <3>1, SmallMultiple
    <3>. QED BY <1>2, <3>2
  <2>. QED BY <1>1, <1>2, <2>1, <2>2
<1>6. r = e
  <2>1. Size * (q - v) = 0
    BY <1>1, <1>5
  <2>. QED BY <1>1, <1>2, <1>4, <2>1
<1>. QED BY <1>6 DEF r, x

(* What the queries answer, of tails that are in order.                     *)
LEMMA CountValue ==
  ASSUME NEW pt \in Index, NEW ct \in Index, Dist(ct, pt) <= Mask
  PROVE  RingCount(pt, ct) = Dist(ct, pt)
<1>1. Dist(ct, pt) \in 0 .. Mask
  BY DistNat
<1>2. Size * 0 + Dist(ct, pt) = Dist(ct, pt)
  BY <1>1, SizeAssumption
<1>3. Dist(ct, pt) % Size = Dist(ct, pt)
  <2>. DEFINE e == Dist(ct, pt)
  <2>1. e \in 0 .. Mask /\ Size * 0 + e = e /\ e \in Nat
    BY <1>1, <1>2
  <2>. HIDE DEF e
  <2>2. (Size * 0 + e) % Size = e
    BY <2>1, Remainder
  <2>3. e % Size = e
    BY <2>1, <2>2
  <2>. QED BY <2>3 DEF e
<1>. QED BY <1>3 DEF RingCount, Dist

LEMMA FreeCountValue ==
  ASSUME NEW pt \in Index, NEW ct \in Index, Dist(ct, pt) <= Mask
  PROVE  RingFreeCount(pt, ct) = Mask - Dist(ct, pt)
<1>1. PICK laps \in 1 .. IndexMod : IndexMod = laps * Size
  BY DivisionAssumption
<1>. DEFINE d == Dist(ct, pt)
<1>2. d \in Nat /\ d <= Mask /\ Mask = Size - 1 /\ Size \in Nat /\ Size >= 1 /\ IndexMod \in Nat
      /\ Size <= IndexMod
  BY DistNat, SizeAssumption DEF Mask
<1>3. Minus(Minus(ct, pt), 1) = IndexMod - 1 - d
  <2>1. Minus(ct, pt) = IF d = 0 THEN 0 ELSE IndexMod - d
    BY SizeAssumption DEF Index, Dist, Minus
  <2>. HIDE DEF d
  <2>. QED BY <1>2, <2>1 DEF Minus
<1>. HIDE DEF d
<1>4. IndexMod - 1 - d = Size * (laps - 1) + (Mask - d)
  <2>1. laps * Size = Size * (laps - 1) + Size
    BY <1>1, <1>2
  <2>. QED BY <1>1, <1>2, <2>1
<1>5. (Size * (laps - 1) + (Mask - d)) % Size = Mask - d
  <2>. DEFINE q == laps - 1  e == Mask - d
  <2>1. q \in Int /\ e \in 0 .. Mask
    BY <1>1, <1>2
  <2>2. Size * q + e \in Nat
    BY <1>2, <1>4
  <2>. HIDE DEF q, e
  <2>3. (Size * q + e) % Size = e
    BY <2>1, <2>2, Remainder
  <2>. QED BY <2>3 DEF q, e
<1>6. RingFreeCount(pt, ct) = Mask - d
  BY <1>3, <1>4, <1>5 DEF RingFreeCount
<1>. QED BY <1>6 DEF d

(* Who moves an index.                                                      *)
LEMMA WhoMoves ==
  ASSUME Next
  PROVE  /\ prod_tail' = prod_tail \/ \E p \in Producers : PublishEntries(p)
         /\ prod_head' = prod_head \/ \E p \in Producers : ReserveSlots(p)
         /\ cons_tail' = cons_tail \/ \E c \in Consumers : ReleaseSlots(c)
         /\ cons_head' = cons_head \/ \E c \in Consumers : ReserveEntries(c)
<1>. USE DEF index
<1>1. ASSUME NEW p \in Producers, EnqueueCall(p) \/ EnqueueStep(p)
      PROVE  /\ prod_tail' = prod_tail \/ PublishEntries(p)
             /\ prod_head' = prod_head \/ ReserveSlots(p)
             /\ cons_tail' = cons_tail /\ cons_head' = cons_head
  BY <1>1 DEF EnqueueStep, EnqueueCall, LoadProdHead, EnqueueAgain, EnqueueAdmitted, EnqueueRefused,
              ReserveSlots, ReserveSlotsFails, WriteEntry, CheckWatermark, PublishEntries
<1>2. ASSUME NEW c \in Consumers, DequeueCall(c) \/ DequeueStep(c)
      PROVE  /\ cons_tail' = cons_tail \/ ReleaseSlots(c)
             /\ cons_head' = cons_head \/ ReserveEntries(c)
             /\ prod_tail' = prod_tail /\ prod_head' = prod_head
  BY <1>2 DEF DequeueStep, DequeueCall, LoadConsHead, DequeueAgain, DequeueAdmitted, DequeueRefused,
              ReserveEntries, ReserveEntriesFails, ReadEntry, ReleaseSlots
<1>3. ASSUME NEW count \in WaterMarks, SetWaterMark(count)
      PROVE  UNCHANGED index
  BY <1>3 DEF SetWaterMark
<1>. QED BY <1>1, <1>2, <1>3 DEF Next

(* A range that is published adds entries, as seen from the consumers; one  *)
(* that is released adds room, as seen from the producers.                  *)
LEMMA EntriesGrow ==
  ASSUME IInv, NEW p \in Producers, PublishEntries(p)
  PROVE  /\ Dist(cons_head, prod_tail) <= Dist(cons_head, prod_tail')
         /\ Dist(cons_tail, prod_tail) <= Dist(cons_tail, prod_tail')
<1>1. /\ TypeOK /\ IndexOrder /\ Counters /\ RangesDisjoint /\ p \in Threads
      /\ pc[p] = "publish" /\ Holding(p) /\ prod_tail' = Plus(head[p], n[p])
  BY DEF IInv, Threads, PublishEntries, Holding
<1>2. /\ cons_tail \in Index /\ cons_head \in Index /\ prod_tail \in Index /\ prod_head \in Index
      /\ n[p] \in Nat
  BY <1>1 DEF TypeOK
<1>3. head[p] = prod_tail
  <2>1. CASE SpEnqueue
    BY Flags, <1>1, <2>1 DEF IInv, Alone, AloneOn
  <2>2. CASE ~SpEnqueue
    BY <2>2 DEF PublishEntries
  <2>. QED BY <2>1, <2>2
<1>4. n[p] <= Dist(prod_tail, prod_head) /\ n[p] \in Index
  <2>1. Dist(prod_tail, head[p]) = 0
    BY <1>2, <1>3, DistZero
  <2>2. Dist(prod_tail, head[p]) + n[p] <= Dist(prod_tail, prod_head)
    BY <1>1 DEF RangesDisjoint, RangesOf
  <2>. QED BY <1>1, <1>2, <2>1, <2>2, CopyBounds
<1>5. /\ Dist(cons_tail, cons_head) \in Nat /\ Dist(cons_head, prod_tail) \in Nat
      /\ Dist(prod_tail, prod_head) \in Nat
      /\ Dist(cons_tail, prod_tail) = Dist(cons_tail, cons_head) + Dist(cons_head, prod_tail)
      /\ Dist(cons_tail, cons_head) + Dist(cons_head, prod_tail)
           + Dist(prod_tail, prod_head) <= Mask
  BY <1>1, <1>2, DistNat, Distances DEF IndexOrder
<1>6. /\ Dist(cons_head, prod_tail) + n[p] < IndexMod
      /\ Dist(cons_tail, prod_tail) + n[p] < IndexMod
  <2>1. Mask \in Nat /\ IndexMod \in Nat /\ Mask < IndexMod
    BY SizeAssumption DEF Mask
  <2>. QED BY <1>2, <1>4, <1>5, <2>1
<1>7. /\ Dist(cons_head, prod_tail') = Dist(cons_head, prod_tail) + n[p]
      /\ Dist(cons_tail, prod_tail') = Dist(cons_tail, prod_tail) + n[p]
  BY <1>1, <1>2, <1>3, <1>4, <1>6, Advance
<1>. QED BY <1>2, <1>5, <1>7

LEMMA RoomGrows ==
  ASSUME IInv, NEW c \in Consumers, ReleaseSlots(c)
  PROVE  Dist(cons_tail', prod_head) <= Dist(cons_tail, prod_head)
<1>1. /\ TypeOK /\ IndexOrder /\ Counters /\ RangesDisjoint /\ c \in Threads
      /\ pc[c] = "publish" /\ Holding(c) /\ cons_tail' = Plus(head[c], n[c])
  BY DEF IInv, Threads, ReleaseSlots, Holding
<1>2. /\ cons_tail \in Index /\ cons_head \in Index /\ prod_tail \in Index /\ prod_head \in Index
      /\ n[c] \in Nat
  BY <1>1 DEF TypeOK
<1>3. head[c] = cons_tail
  <2>1. CASE ScDequeue
    BY Flags, <1>1, <2>1 DEF IInv, Alone, AloneOn
  <2>2. CASE ~ScDequeue
    BY <2>2 DEF ReleaseSlots
  <2>. QED BY <2>1, <2>2
<1>4. n[c] <= Dist(cons_tail, cons_head) /\ n[c] \in Index
  <2>1. Dist(cons_tail, head[c]) = 0
    BY <1>2, <1>3, DistZero
  <2>2. Dist(cons_tail, head[c]) + n[c] <= Dist(cons_tail, cons_head)
    BY <1>1 DEF RangesDisjoint, RangesOf
  <2>. QED BY <1>1, <1>2, <2>1, <2>2, CopyBounds
<1>5. /\ Dist(cons_tail, cons_head) \in Nat /\ Dist(cons_head, prod_tail) \in Nat
      /\ Dist(prod_tail, prod_head) \in Nat
      /\ Dist(cons_tail, prod_head) = Dist(cons_tail, cons_head)
           + Dist(cons_head, prod_tail) + Dist(prod_tail, prod_head)
  BY <1>1, <1>2, DistNat, Distances
<1>6. n[c] <= Dist(cons_tail, prod_head)
  BY <1>2, <1>4, <1>5
<1>7. Dist(cons_tail', prod_head) = Dist(cons_tail, prod_head) - n[c]
  BY <1>1, <1>2, <1>3, <1>4, <1>6, Shorten
<1>. QED BY <1>2, <1>5, <1>7

(* Every step of the ring with queries is a step of the ring.               *)
LEMMA QueryRefines == NextQuery => [Next]_vars
  BY DEF NextQuery, RingStep, QueryBegin, QueryEnd

LEMMA SpecQueryIInv == SpecQuery => []IInv
<1>1. InitQuery => IInv
  BY InitIInv DEF InitQuery
<1>2. IInv /\ [NextQuery]_<<vars, query>> => IInv'
  BY QueryRefines, NextIInv
<1>. QED BY <1>1, <1>2, PTL DEF SpecQuery

LEMMA InitPromises == InitQuery => Promises
  BY DEF InitQuery, Promises, Asked, Trusted

(* An asker outside a call finds its side at rest; while it does not hold a *)
(* range nobody moves its side's indices.                                   *)
LEMMA AskerAlone ==
  ASSUME IInv, LoneAskers, NEW t \in Queriers
  PROVE  /\ t \in Threads
         /\ t \in Producers => /\ drift[t] = 0
                               /\ ~Holding(t) => prod_tail = prod_head
         /\ t \in Consumers => /\ drift[t] = 0
                               /\ ~Holding(t) => cons_tail = cons_head
  BY QueriersAssumption DEF LoneAskers, IInv, Alone, AloneOn

(* The indices are in order, told of the ends a query looks at.             *)
LEMMA WaysToTail ==
  ASSUME IInv
  PROVE  /\ Dist(cons_tail, prod_tail) \in 0 .. Mask /\ Dist(cons_tail, prod_head) \in 0 .. Mask
         /\ Dist(cons_head, prod_tail) \in 0 .. Mask /\ Mask \in Nat
<1>1. TypeOK /\ IndexOrder
  BY DEF IInv
<1>2. /\ Dist(cons_tail, cons_head) \in 0 .. Mask /\ Dist(cons_head, prod_tail) \in 0 .. Mask
      /\ Dist(prod_tail, prod_head) \in 0 .. Mask
      /\ Dist(cons_tail, prod_head) = Dist(cons_tail, cons_head)
           + Dist(cons_head, prod_tail) + Dist(prod_tail, prod_head)
      /\ Dist(cons_tail, prod_tail) = Dist(cons_tail, cons_head) + Dist(cons_head, prod_tail)
  BY <1>1, Distances
<1>3. Dist(cons_tail, cons_head) + Dist(cons_head, prod_tail) + Dist(prod_tail, prod_head) <= Mask
  BY <1>1 DEF IndexOrder
<1>4. Mask \in Nat
  BY SizeAssumption DEF Mask
<1>. QED BY <1>2, <1>3, <1>4

(* A query reads prod.tail.                                                 *)
LEMMA BeginKeepsPromises ==
  ASSUME IInv, Promises, LoneAskers, NEW u \in Queriers, QueryBegin(u)
  PROVE  Promises'
<1>1. /\ pc[u] = "idle" /\ pc' = pc /\ prod_tail' = prod_tail /\ prod_head' = prod_head
      /\ cons_tail' = cons_tail /\ cons_head' = cons_head
      /\ seen_tail' = [t \in Queriers |-> IF t = u THEN prod_tail ELSE seen_tail[t]]
      /\ promised' = [t \in Queriers |-> IF t = u THEN NoItem ELSE promised[t]]
  BY DEF QueryBegin, Promises, vars, index
<1>2. ASSUME NEW t \in Queriers
      PROVE  Asked(t)' /\ Trusted(t)'
  <2>1. CASE t = u
    <3>1. seen_tail'[t] = prod_tail /\ promised'[t] = NoItem
      BY <1>1, <2>1
    <3>2. prod_tail \in Index /\ Dist(cons_tail, prod_tail) <= Dist(cons_tail, prod_tail)
      BY WaysToTail DEF IInv, TypeOK
    <3>. QED BY <1>1, <2>1, <3>1, <3>2 DEF Asked, Trusted, Dist, Minus
  <2>2. CASE t # u
    <3>1. seen_tail'[t] = seen_tail[t] /\ promised'[t] = promised[t]
      BY <1>1, <2>2
    <3>2. Asked(t) /\ Trusted(t)
      BY DEF Promises
    <3>. QED BY <1>1, <3>1, <3>2 DEF Asked, Trusted, Dist, Minus, Holding
  <2>. QED BY <2>1, <2>2
<1>3. seen_tail' = [t \in Queriers |-> seen_tail'[t]] /\ promised' = [t \in Queriers |-> promised'[t]]
  BY <1>1
<1>. QED BY <1>2, <1>3 DEF Promises

(* A query reads cons.tail and answers: the answer is true now.             *)
LEMMA EndKeepsPromises ==
  ASSUME IInv, Promises, LoneAskers, NEW u \in Queriers, QueryEnd(u)
  PROVE  Promises'
<1>. DEFINE seen == seen_tail[u]
            answers == IF u \in Producers THEN RoomAnswers(seen, cons_tail)
                                          ELSE EntryAnswers(seen, cons_tail)
<1>1. PICK answer \in answers : promised' = [promised EXCEPT ![u] = answer]
  BY DEF QueryEnd
<1>2. /\ pc' = pc /\ prod_tail' = prod_tail /\ prod_head' = prod_head
      /\ cons_tail' = cons_tail /\ cons_head' = cons_head
      /\ seen # NoItem
      /\ seen_tail' = [t \in Queriers |-> IF t = u THEN NoItem ELSE seen_tail[t]]
      /\ promised' = [t \in Queriers |-> IF t = u THEN answer ELSE promised[t]]
  BY <1>1 DEF QueryEnd, Promises, vars, index
<1>3. /\ pc[u] = "idle" /\ seen \in Index /\ cons_tail \in Index /\ ~Holding(u) /\ u \in Threads
      /\ u \in Producers => seen = prod_tail
      /\ u \in Consumers => Dist(cons_tail, seen) <= Dist(cons_tail, prod_tail)
  BY <1>2, QueriersAssumption DEF Promises, Asked, IInv, TypeOK, Holding
<1>4. ASSUME u \in Producers
      PROVE  answer \in Nat /\ Dist(cons_tail, prod_head) + answer <= Mask
  <2>1. prod_tail = prod_head
    BY <1>3, <1>4, AskerAlone
  <2>2. RingFreeCount(seen, cons_tail) = Mask - Dist(cons_tail, prod_head)
    BY <1>3, <1>4, <2>1, FreeCountValue, WaysToTail
  <2>3. answer \in Nat /\ Dist(cons_tail, prod_head) + answer <= Mask
    <3>1. answer \in {RingFreeCount(seen, cons_tail),
                      IF RingFreeCount(seen, cons_tail) = 0 THEN 0 ELSE 1}
      BY <1>1, <1>4 DEF RoomAnswers, RingFull
    <3>. HIDE DEF seen, answers
    <3>. QED BY <2>2, <3>1, WaysToTail
  <2>. QED BY <1>4, <2>3
<1>5. ASSUME u \in Consumers
      PROVE  answer \in Nat /\ answer <= Dist(cons_head, prod_tail)
  <2>1. cons_tail = cons_head /\ u \notin Producers
    BY <1>3, <1>5, AskerAlone, ThreadsAssumption
  <2>2. /\ Dist(cons_tail, seen) <= Dist(cons_tail, prod_tail) /\ Dist(cons_tail, seen) \in Nat
        /\ Dist(cons_tail, seen) <= Mask
    BY <1>3, <1>5, WaysToTail, DistNat
  <2>3. RingCount(seen, cons_tail) = Dist(cons_tail, seen)
    BY <1>3, <2>2, CountValue
  <2>4. cons_tail # seen => Dist(cons_tail, seen) # 0
    BY <1>3, DistZero
  <2>5. answer \in {RingCount(seen, cons_tail), IF cons_tail = seen THEN 0 ELSE 1}
    BY <1>1, <2>1 DEF EntryAnswers, RingEmpty
  <2>6. answer \in Nat /\ answer <= Dist(cons_tail, seen)
    <3>. HIDE DEF seen, answers
    <3>. QED BY <2>2, <2>3, <2>4, <2>5
  <2>. HIDE DEF seen, answers
  <2>. QED BY <2>1, <2>2, <2>6, WaysToTail
<1>6. ASSUME NEW t \in Queriers
      PROVE  Asked(t)' /\ Trusted(t)'
  <2>1. CASE t = u
    <3>1. seen_tail'[t] = NoItem /\ promised'[t] = answer
      BY <1>2, <2>1
    <3>2. /\ answer \in Nat
          /\ t \in Producers => Dist(cons_tail, prod_head) + answer <= Mask
          /\ t \in Consumers => answer <= Dist(cons_head, prod_tail)
      BY <1>3, <1>4, <1>5, <2>1, ThreadsAssumption DEF Threads
    <3>. QED BY <1>2, <3>1, <3>2 DEF Asked, Trusted, Dist, Minus
  <2>2. CASE t # u
    <3>1. seen_tail'[t] = seen_tail[t] /\ promised'[t] = promised[t]
      BY <1>2, <2>2
    <3>2. Asked(t) /\ Trusted(t)
      BY DEF Promises
    <3>. QED BY <1>2, <3>1, <3>2 DEF Asked, Trusted, Dist, Minus, Holding
  <2>. QED BY <2>1, <2>2
<1>7. seen_tail' = [t \in Queriers |-> seen_tail'[t]] /\ promised' = [t \in Queriers |-> promised'[t]]
  BY <1>2
<1>. QED BY <1>6, <1>7 DEF Promises

(* A call lets go of its range only by returning.                           *)
LEMMA LetGo ==
  ASSUME TypeOK, Next, NEW t \in Threads, Holding(t), ~Holding(t)'
  PROVE  pc'[t] = "idle"
<1>. USE DEF Holding, TypeOK
<1>1. ASSUME NEW p \in Producers, EnqueueCall(p) \/ EnqueueStep(p)
      PROVE  pc'[t] = "idle"
  BY <1>1 DEF EnqueueStep, EnqueueCall, LoadProdHead, EnqueueAgain, EnqueueAdmitted, EnqueueRefused,
              ReserveSlots, ReserveSlotsFails, WriteEntry, CheckWatermark, PublishEntries, Finish
<1>2. ASSUME NEW c \in Consumers, DequeueCall(c) \/ DequeueStep(c)
      PROVE  pc'[t] = "idle"
  BY <1>2 DEF DequeueStep, DequeueCall, LoadConsHead, DequeueAgain, DequeueAdmitted, DequeueRefused,
              ReserveEntries, ReserveEntriesFails, ReadEntry, ReleaseSlots, Finish
<1>3. ASSUME NEW count \in WaterMarks, SetWaterMark(count)
      PROVE  FALSE
  BY <1>3 DEF SetWaterMark
<1>. QED BY <1>1, <1>2, <1>3 DEF Next

(* The other side only adds to what an asker was told; its own side does    *)
(* not move without it.                                                     *)
LEMMA RingKeepsPromises ==
  ASSUME IInv, Promises, LoneAskers, RingStep
  PROVE  Promises'
<1>1. /\ Next /\ seen_tail' = seen_tail /\ TypeOK
      /\ \A t \in Queriers : seen_tail[t] # NoItem => pc'[t] = "idle"
      /\ promised' = [t \in Queriers |->
                        IF pc[t] # "idle" /\ pc'[t] = "idle" THEN NoItem ELSE promised[t]]
  BY DEF RingStep, IInv
<1>2. ASSUME NEW t \in Queriers, seen_tail[t] # NoItem
      PROVE  /\ pc'[t] = "idle" /\ seen_tail[t] \in Index
             /\ t \in Producers => seen_tail[t] = prod_tail'
             /\ t \in Consumers => Dist(cons_tail', seen_tail[t]) <= Dist(cons_tail', prod_tail')
  <2>1. /\ pc[t] = "idle" /\ pc'[t] = "idle" /\ seen_tail[t] \in Index
        /\ t \in Producers => seen_tail[t] = prod_tail
        /\ t \in Consumers => Dist(cons_tail, seen_tail[t]) <= Dist(cons_tail, prod_tail)
    BY <1>1, <1>2 DEF Promises, Asked
  <2>2. ASSUME t \in Producers
        PROVE  prod_tail' = prod_tail
    <3>1. \A p \in Producers : p = t
      BY <2>2 DEF LoneAskers, Lone
    <3>. QED BY <1>1, <2>1, <3>1, WhoMoves DEF PublishEntries
  <2>3. ASSUME t \in Consumers
        PROVE  Dist(cons_tail', seen_tail[t]) <= Dist(cons_tail', prod_tail')
    <3>1. \A c \in Consumers : c = t
      BY <2>3 DEF LoneAskers, Lone
    <3>2. cons_tail' = cons_tail
      BY <1>1, <2>1, <3>1, WhoMoves DEF ReleaseSlots
    <3>3. Dist(cons_tail, prod_tail) <= Dist(cons_tail, prod_tail')
      <4>1. CASE prod_tail' = prod_tail
        BY <4>1, WaysToTail
      <4>2. CASE \E p \in Producers : PublishEntries(p)
        BY <4>2, EntriesGrow
      <4>. QED BY <1>1, <4>1, <4>2, WhoMoves
    <3>4. /\ Dist(cons_tail, seen_tail[t]) \in Nat /\ Dist(cons_tail, prod_tail) \in Nat
          /\ Dist(cons_tail, prod_tail') \in Nat
      <4>1. prod_tail' \in Index /\ prod_tail \in Index /\ cons_tail \in Index
        BY <1>1, TypeStep DEF TypeOK
      <4>. QED BY <2>1, <4>1, DistNat
    <3>5. Dist(cons_tail, seen_tail[t]) <= Dist(cons_tail, prod_tail')
      BY <2>1, <2>3, <3>3, <3>4
    <3>. QED BY <3>2, <3>5
  <2>. QED BY <2>1, <2>2, <2>3
<1>3. ASSUME NEW t \in Queriers, promised'[t] # NoItem, ~Holding(t)'
      PROVE  /\ promised'[t] = promised[t] /\ promised[t] \in Nat
             /\ t \in Producers => Dist(cons_tail', prod_head') + promised[t] <= Mask
             /\ t \in Consumers => promised[t] <= Dist(cons_head', prod_tail')
  <2>1. promised'[t] = promised[t] /\ ~Holding(t) /\ t \in Threads
    BY <1>1, <1>3, LetGo, QueriersAssumption DEF Holding
  <2>2. /\ promised[t] \in Nat
        /\ t \in Producers => Dist(cons_tail, prod_head) + promised[t] <= Mask
        /\ t \in Consumers => promised[t] <= Dist(cons_head, prod_tail)
    BY <1>3, <2>1 DEF Promises, Trusted
  <2>0. prod_tail' \in Index /\ cons_tail' \in Index /\ prod_head' \in Index /\ cons_head' \in Index
    BY <1>1, TypeStep DEF TypeOK
  <2>3. ASSUME t \in Producers
        PROVE  Dist(cons_tail', prod_head') + promised[t] <= Mask
    <3>1. \A p \in Producers : p = t
      BY <2>3 DEF LoneAskers, Lone
    <3>2. prod_head' = prod_head
      <4>1. ReserveSlots(t) => Holding(t)'
        BY <1>1, <2>1 DEF ReserveSlots, Holding, TypeOK
      <4>. QED BY <1>1, <1>3, <3>1, <4>1, WhoMoves
    <3>3. Dist(cons_tail', prod_head) <= Dist(cons_tail, prod_head)
      <4>1. CASE cons_tail' = cons_tail
        BY <4>1, WaysToTail
      <4>2. CASE \E c \in Consumers : ReleaseSlots(c)
        BY <4>2, RoomGrows
      <4>. QED BY <1>1, <4>1, <4>2, WhoMoves
    <3>4. Dist(cons_tail', prod_head) \in Nat
      BY <2>0, <3>2, DistNat
    <3>5. Dist(cons_tail', prod_head) + promised[t] <= Mask
      BY <2>2, <2>3, <3>3, <3>4, WaysToTail
    <3>. QED BY <3>2, <3>5
  <2>4. ASSUME t \in Consumers
        PROVE  promised[t] <= Dist(cons_head', prod_tail')
    <3>1. \A c \in Consumers : c = t
      BY <2>4 DEF LoneAskers, Lone
    <3>2. cons_head' = cons_head
      <4>1. ReserveEntries(t) => Holding(t)'
        BY <1>1, <2>1 DEF ReserveEntries, Holding, TypeOK
      <4>. QED BY <1>1, <1>3, <3>1, <4>1, WhoMoves
    <3>3. Dist(cons_head, prod_tail) <= Dist(cons_head, prod_tail')
      <4>1. CASE prod_tail' = prod_tail
        BY <4>1, WaysToTail
      <4>2. CASE \E p \in Producers : PublishEntries(p)
        BY <4>2, EntriesGrow
      <4>. QED BY <1>1, <4>1, <4>2, WhoMoves
    <3>4. Dist(cons_head, prod_tail') \in Nat
      BY <2>0, <3>2, DistNat
    <3>5. promised[t] <= Dist(cons_head, prod_tail')
      BY <2>2, <2>4, <3>3, <3>4, WaysToTail
    <3>. QED BY <3>2, <3>5
  <2>. QED BY <2>1, <2>2, <2>3, <2>4
<1>4. \A t \in Queriers : Asked(t)'
  BY <1>1, <1>2 DEF Asked, Dist, Minus
<1>5. \A t \in Queriers : Trusted(t)'
  BY <1>3 DEF Trusted, Dist, Minus
<1>6. seen_tail' = [t \in Queriers |-> seen_tail'[t]] /\ promised' = [t \in Queriers |-> promised'[t]]
  BY <1>1 DEF Promises
<1>. QED BY <1>4, <1>5, <1>6 DEF Promises

LEMMA NextPromises ==
  ASSUME LoneAskers, IInv, Promises, [NextQuery]_<<vars, query>>
  PROVE  Promises'
<1>1. CASE UNCHANGED <<vars, query>>
  BY <1>1 DEF vars, index, query, Promises, Asked, Trusted, Dist, Minus, Holding
<1>. QED BY <1>1, BeginKeepsPromises, EndKeepsPromises, RingKeepsPromises DEF NextQuery

(* A call that is refused after all asked for more than it was promised.    *)
LEMMA RefusalBreaksNoPromise ==
  ASSUME LoneAskers, IInv, Promises, [NextQuery]_<<vars, query>>,
         NEW t \in Queriers, pc[t] = "tail", pc'[t] = "idle", promised[t] # NoItem
  PROVE  max[t] > promised[t]
<1>1. TypeOK /\ [Next]_vars /\ t \in Threads /\ ~Holding(t) /\ n[t] = max[t] /\ n[t] \in Nat
  BY QueryRefines, QueriersAssumption DEF IInv, TypeOK, Holding, Counters, query
<1>2. /\ promised[t] \in Nat
      /\ t \in Producers => Dist(cons_tail, prod_head) + promised[t] <= Mask
      /\ t \in Consumers => promised[t] <= Dist(cons_head, prod_tail)
  BY <1>1 DEF Promises, Trusted
<1>3. CASE t \in Producers /\ EnqueueRefused(t)
  <2>1. FreeEntries(head[t]) = Mask - Dist(cons_tail, prod_head) + drift[t] /\ drift[t] = 0
    BY <1>3, FreeEntriesValue, AskerAlone
  <2>2. n[t] > FreeEntries(head[t])
    BY <1>3 DEF EnqueueRefused
  <2>. QED BY <1>1, <1>2, <1>3, <2>1, <2>2, WaysToTail
<1>4. CASE t \in Consumers /\ DequeueRefused(t)
  <2>1. Entries(head[t]) = Dist(cons_head, prod_tail) + drift[t] /\ drift[t] = 0
    BY <1>4, EntriesValue, AskerAlone
  <2>2. n[t] > Entries(head[t])
    BY <1>4 DEF DequeueRefused
  <2>. QED BY <1>1, <1>2, <1>4, <2>1, <2>2, WaysToTail
<1>. QED BY <1>1, <1>3, <1>4, OnlyOwnCall

(* What a lcore alone on its side learns from a query it can rely on,       *)
(* whatever the other side does between the two reads of the query and      *)
(* until its next call.                                                     *)
THEOREM PromisesKept ==
  ASSUME LoneAskers
  PROVE  SpecQuery => PromiseKept
<1>1. IInv /\ Promises /\ [NextQuery]_<<vars, query>> => Promises'
  BY NextPromises
<1>2. IInv /\ Promises /\ [NextQuery]_<<vars, query>> =>
        [\A t \in Queriers :
           pc[t] = "tail" /\ pc'[t] = "idle" /\ promised[t] # NoItem
             => max[t] > promised[t]]_<<vars, query>>
  BY RefusalBreaksNoPromise
<1>. QED BY <1>1, <1>2, InitPromises, SpecQueryIInv, PTL DEF SpecQuery, PromiseKept
=============================================================================
