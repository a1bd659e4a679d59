------------------------------ MODULE RteRing ------------------------------
(***************************************************************************)
(* The lockless ring of lib/librte_ring/rte_ring.h: the mempools that hold *)
(* the switch's packet buffers are built on it.  Threads (lcores) enqueue  *)
(* and dequeue several objects at a time; one action below is one access   *)
(* to memory that other lcores read or write.                              *)
(*                                                                         *)
(* A thread first reserves a range of the table by moving a head index,    *)
(* copies its objects one by one, and then publishes the range by moving   *)
(* the tail index, after every thread that reserved before it has done so. *)
(* The indices are unsigned 32-bit integers in the code; IndexMod stands   *)
(* for 2^32.                                                               *)
(***************************************************************************)
EXTENDS Integers, Sequences

CONSTANTS
  Producers,     \* the lcores that enqueue
  Consumers,     \* the lcores that dequeue
  Items,         \* the objects (void * in the code)
  Size,          \* r->prod.size: number of slots, a power of two in the code
  IndexMod,      \* number of values of an index, 2^32 in the code
  StartIndexes,  \* values the four indices have when the model starts
  Requests,      \* the numbers of objects asked for in one call
  Behaviors,     \* subset of {"FIXED", "VARIABLE"}: rte_ring_queue_behavior
  SpEnqueue,     \* r->prod.sp_enqueue: the flag RING_F_SP_ENQ was given
  ScDequeue,     \* r->cons.sc_dequeue: the flag RING_F_SC_DEQ was given
  WaterMarks,    \* the counts rte_ring_set_water_mark is called with
  NoItem         \* content of a slot never written

ASSUME ThreadsAssumption == Producers \cap Consumers = {}
ASSUME SizeAssumption == /\ Size \in Nat \ {0}
                         /\ IndexMod \in Nat
                         /\ Size <= IndexMod
(* rte_ring_create refuses a size that is no power of two, and so divides   *)
(* the 2^32 values of an index.                                             *)
ASSUME DivisionAssumption == \E laps \in 1 .. IndexMod : IndexMod = laps * Size
ASSUME StartAssumption == StartIndexes \subseteq 0 .. IndexMod - 1
ASSUME RequestsAssumption == Requests \subseteq Nat \ {0}
ASSUME BehaviorsAssumption == Behaviors \subseteq {"FIXED", "VARIABLE"}
ASSUME FlagsAssumption == SpEnqueue \in BOOLEAN /\ ScDequeue \in BOOLEAN
ASSUME WaterMarksAssumption == WaterMarks \subseteq Nat
(* The single-producer and single-consumer variants are documented as "NOT  *)
(* multi-producers safe": with the flag, one thread only may call them.     *)
ASSUME SingleProducer == SpEnqueue => \A p, q \in Producers : p = q
ASSUME SingleConsumer == ScDequeue => \A c, d \in Consumers : c = d
ASSUME NoItemAssumption == NoItem \notin Items

VARIABLES
  prod_head, prod_tail,  \* r->prod.head, r->prod.tail
  cons_head, cons_tail,  \* r->cons.head, r->cons.tail
  slots,                 \* r->ring[]
  watermark,             \* r->prod.watermark
  pc,                    \* the access each thread makes next
  behavior,              \* parameter behavior of the call in progress
  max,                   \* number of objects the caller asked for
  obj_table,             \* the caller's table: objects to add, or removed so far
  head,                  \* local prod_head or cons_head
  room,                  \* local free_entries or entries
  n,                     \* local n: objects this call transfers
  i,                     \* loop counter of the copy
  quota,                 \* local ret says the watermark is exceeded
  drift                  \* entries others reserved since the thread read its
                         \* head index (not in the code: bounds preemption)

index == <<prod_head, prod_tail, cons_head, cons_tail>>
call == <<behavior, max>>
local == <<head, room, n, i, quota>>
vars == <<index, slots, watermark, pc, call, obj_table, local, drift>>

Threads == Producers \cup Consumers
Mask == Size - 1
PCs == {"idle", "again", "tail", "reserve", "copy", "mark", "publish"}
Index == 0 .. IndexMod - 1

(* Definitions named Mutant... are mistakes the properties must catch: each *)
(* stands where the definition after it does, in a run of its own.          *)

(* Unsigned arithmetic on indices: sums and differences wrap at IndexMod.   *)
Plus(a, b) == IF a + b >= IndexMod THEN a + b - IndexMod ELSE a + b
Minus(a, b) == IF a >= b THEN a - b ELSE a - b + IndexMod
Slot(a) == a % Size

-----------------------------------------------------------------------------
(* An empty ring no thread is using.  rte_ring_create sets the indices to   *)
(* 0; after enough traffic they may have any value when the ring is empty.  *)
Init ==
  /\ \E s \in StartIndexes : /\ prod_head = s /\ prod_tail = s
                             /\ cons_head = s /\ cons_tail = s
  /\ slots = [k \in 0 .. Mask |-> NoItem]
  /\ watermark = Size
  /\ pc = [t \in Threads |-> "idle"]
  /\ behavior = [t \in Threads |-> "FIXED"]
  /\ max = [t \in Threads |-> 0]
  /\ obj_table = [t \in Threads |-> <<>>]
  /\ head = [t \in Threads |-> 0]
  /\ room = [t \in Threads |-> 0]
  /\ n = [t \in Threads |-> 0]
  /\ i = [t \in Threads |-> 0]
  /\ quota = [t \in Threads |-> FALSE]
  /\ drift = [t \in Threads |-> 0]

(* The call returns; its local variables are dead. *)
Finish(t) ==
  /\ pc' = [pc EXCEPT ![t] = "idle"]
  /\ behavior' = [behavior EXCEPT ![t] = "FIXED"]
  /\ max' = [max EXCEPT ![t] = 0]
  /\ obj_table' = [obj_table EXCEPT ![t] = <<>>]
  /\ head' = [head EXCEPT ![t] = 0]
  /\ room' = [room EXCEPT ![t] = 0]
  /\ n' = [n EXCEPT ![t] = 0]
  /\ i' = [i EXCEPT ![t] = 0]
  /\ quota' = [quota EXCEPT ![t] = FALSE]

(* The compare-and-set has failed: what the thread has read is dead. *)
ForgetSnapshot(t) ==
  /\ head' = [head EXCEPT ![t] = 0]
  /\ room' = [room EXCEPT ![t] = 0]
  /\ n' = [n EXCEPT ![t] = 0]

(* The other threads of a side see k more entries reserved since they read  *)
(* the head index.  MaxDrift is the one bound of the model: a thread is not *)
(* held between that read and its compare-and-set while the others reserve  *)
(* more than IndexMod - Size entries (2^32 - Size), so that neither the     *)
(* compare-and-set nor the free-entry count sees an index come full circle. *)
MaxDrift == IndexMod - Size
Racing(t) == pc[t] \in {"tail", "reserve"}
Overtake(side, t, k) ==
  /\ \A u \in side \ {t} : Racing(u) => drift[u] + k <= MaxDrift
  /\ drift' = [u \in Threads |->
                 IF u \in side \ {t} /\ Racing(u) THEN drift[u] + k
                 ELSE IF u = t THEN 0 ELSE drift[u]]

-----------------------------------------------------------------------------
(* Enqueue: __rte_ring_mp_do_enqueue, and __rte_ring_sp_do_enqueue when     *)
(* SpEnqueue is set.                                                        *)

(* n = max; prod_head = r->prod.head *)
LoadProdHead(p, k) ==
  /\ head' = [head EXCEPT ![p] = prod_head]
  /\ n' = [n EXCEPT ![p] = k]
  /\ drift' = [drift EXCEPT ![p] = 0]
  /\ pc' = [pc EXCEPT ![p] = "tail"]
  /\ UNCHANGED <<index, slots, watermark, room, i, quota>>

EnqueueCall(p) ==
  /\ pc[p] = "idle"
  /\ \E k \in Requests, b \in Behaviors :
        /\ max' = [max EXCEPT ![p] = k]
        /\ behavior' = [behavior EXCEPT ![p] = b]
        /\ obj_table' \in {[obj_table EXCEPT ![p] = s] : s \in [1 .. k -> Items]}
        /\ LoadProdHead(p, k)

(* the compare-and-set has failed: another turn of the loop *)
EnqueueAgain(p) ==
  /\ pc[p] = "again"
  /\ LoadProdHead(p, max[p])
  /\ UNCHANGED <<call, obj_table>>

(* the table taken to hold Size entries instead of Mask *)
MutantFreeEntriesSize(h) == Minus(Plus(Size, cons_tail), h)
(* slots taken for free as soon as a dequeue has reserved them *)
MutantFreeEntriesHead(h) == Minus(Plus(Mask, cons_head), h)
(* free_entries = mask + cons_tail - prod_head *)
FreeEntries(h) == Minus(Plus(Mask, cons_tail), h)

(* cons_tail is read and the whole table, or a part of it, fits *)
EnqueueAdmitted(p) ==
  /\ pc[p] = "tail"
  /\ \/ n[p] <= FreeEntries(head[p]) /\ n' = n
     \/ /\ n[p] > FreeEntries(head[p])
        /\ behavior[p] = "VARIABLE"
        /\ FreeEntries(head[p]) # 0
        /\ n' = [n EXCEPT ![p] = FreeEntries(head[p])]
  /\ room' = [room EXCEPT ![p] = FreeEntries(head[p])]
  /\ pc' = [pc EXCEPT ![p] = "reserve"]
  /\ UNCHANGED <<index, slots, watermark, call, obj_table, head, i, quota, drift>>

(* refuses although exactly enough room is left *)
MutantEnqueueRefused(p) ==
  /\ pc[p] = "tail"
  /\ n[p] >= FreeEntries(head[p])
  /\ behavior[p] = "FIXED" \/ FreeEntries(head[p]) = 0
  /\ Finish(p)
  /\ drift' = [drift EXCEPT ![p] = 0]
  /\ UNCHANGED <<index, slots, watermark>>

(* cons_tail is read and there is not enough room: -ENOBUFS, or 0 *)
EnqueueRefused(p) ==
  /\ pc[p] = "tail"
  /\ n[p] > FreeEntries(head[p])
  /\ behavior[p] = "FIXED" \/ FreeEntries(head[p]) = 0
  /\ Finish(p)
  /\ drift' = [drift EXCEPT ![p] = 0]
  /\ UNCHANGED <<index, slots, watermark>>

(* the head stored without comparing *)
MutantReserveSlots(p) ==
  /\ pc[p] = "reserve"
  /\ prod_head' = Plus(head[p], n[p])
  /\ pc' = [pc EXCEPT ![p] = "copy"]
  /\ Overtake(Producers, p, n[p])
  /\ UNCHANGED <<prod_tail, cons_head, cons_tail, slots, watermark, call,
                 obj_table, local>>

(* rte_atomic32_cmpset succeeds, or the single producer stores the head *)
ReserveSlots(p) ==
  /\ pc[p] = "reserve"
  /\ SpEnqueue \/ prod_head = head[p]
  /\ prod_head' = Plus(head[p], n[p])
  /\ pc' = [pc EXCEPT ![p] = "copy"]
  /\ Overtake(Producers, p, n[p])
  /\ UNCHANGED <<prod_tail, cons_head, cons_tail, slots, watermark, call,
                 obj_table, local>>

(* rte_atomic32_cmpset fails: the loop starts again *)
ReserveSlotsFails(p) ==
  /\ pc[p] = "reserve"
  /\ ~SpEnqueue /\ prod_head # head[p]
  /\ pc' = [pc EXCEPT ![p] = "again"]
  /\ drift' = [drift EXCEPT ![p] = 0]
  /\ ForgetSnapshot(p)
  /\ UNCHANGED <<index, slots, watermark, call, obj_table, i, quota>>

(* r->ring[(prod_head + i) & mask] = obj_table[i] *)
WriteEntry(p) ==
  /\ pc[p] = "copy"
  /\ slots' = [slots EXCEPT ![Slot(Plus(head[p], i[p]))] = obj_table[p][i[p] + 1]]
  /\ i' = [i EXCEPT ![p] = i[p] + 1]
  /\ pc' = [pc EXCEPT ![p] = IF i[p] + 1 = n[p] THEN "mark" ELSE "copy"]
  /\ UNCHANGED <<index, watermark, call, obj_table, head, room, n, quota, drift>>

(* the call's own objects left out of the count *)
MutantCheckWatermark(p) ==
  /\ pc[p] = "mark"
  /\ quota' = [quota EXCEPT ![p] = (Mask + 1) - room[p] > watermark]
  /\ pc' = [pc EXCEPT ![p] = "publish"]
  /\ room' = [room EXCEPT ![p] = 0]  \* dead from here on
  /\ UNCHANGED <<index, slots, watermark, call, obj_table, head, n, i, drift>>

(* ((mask + 1) - free_entries + n) > r->prod.watermark: EDQUOT *)
CheckWatermark(p) ==
  /\ pc[p] = "mark"
  /\ quota' = [quota EXCEPT ![p] = (Mask + 1) - room[p] + n[p] > watermark]
  /\ pc' = [pc EXCEPT ![p] = "publish"]
  /\ room' = [room EXCEPT ![p] = 0]  \* dead from here on
  /\ UNCHANGED <<index, slots, watermark, call, obj_table, head, n, i, drift>>

(* no wait for the producers that reserved before *)
MutantPublishUnordered(p) ==
  /\ pc[p] = "publish"
  /\ prod_tail' = Plus(head[p], n[p])
  /\ Finish(p)
  /\ UNCHANGED <<prod_head, cons_head, cons_tail, slots, watermark, drift>>

(* wait until prod.tail is the range's start, then move it to its end *)
PublishEntries(p) ==
  /\ pc[p] = "publish"
  /\ SpEnqueue \/ prod_tail = head[p]
  /\ prod_tail' = Plus(head[p], n[p])
  /\ Finish(p)
  /\ UNCHANGED <<prod_head, cons_head, cons_tail, slots, watermark, drift>>

-----------------------------------------------------------------------------
(* Dequeue: __rte_ring_mc_do_dequeue, and __rte_ring_sc_do_dequeue when     *)
(* ScDequeue is set.                                                        *)

(* n = max; cons_head = r->cons.head *)
LoadConsHead(c, k) ==
  /\ head' = [head EXCEPT ![c] = cons_head]
  /\ n' = [n EXCEPT ![c] = k]
  /\ drift' = [drift EXCEPT ![c] = 0]
  /\ pc' = [pc EXCEPT ![c] = "tail"]
  /\ UNCHANGED <<index, slots, watermark, obj_table, room, i, quota>>

DequeueCall(c) ==
  /\ pc[c] = "idle"
  /\ \E k \in Requests, b \in Behaviors :
        /\ max' = [max EXCEPT ![c] = k]
        /\ behavior' = [behavior EXCEPT ![c] = b]
        /\ LoadConsHead(c, k)

DequeueAgain(c) ==
  /\ pc[c] = "again"
  /\ LoadConsHead(c, max[c])
  /\ UNCHANGED call

(* entries = prod_tail - cons_head *)
Entries(h) == Minus(prod_tail, h)

DequeueAdmitted(c) ==
  /\ pc[c] = "tail"
  /\ \/ n[c] <= Entries(head[c]) /\ n' = n
     \/ /\ n[c] > Entries(head[c])
        /\ behavior[c] = "VARIABLE"
        /\ Entries(head[c]) # 0
        /\ n' = [n EXCEPT ![c] = Entries(head[c])]
  /\ pc' = [pc EXCEPT ![c] = "reserve"]
  /\ UNCHANGED <<index, slots, watermark, call, obj_table, head, room, i, quota, drift>>

(* too few entries: -ENOENT, or 0 *)
DequeueRefused(c) ==
  /\ pc[c] = "tail"
  /\ n[c] > Entries(head[c])
  /\ behavior[c] = "FIXED" \/ Entries(head[c]) = 0
  /\ Finish(c)
  /\ drift' = [drift EXCEPT ![c] = 0]
  /\ UNCHANGED <<index, slots, watermark>>

ReserveEntries(c) ==
  /\ pc[c] = "reserve"
  /\ ScDequeue \/ cons_head = head[c]
  /\ cons_head' = Plus(head[c], n[c])
  /\ pc' = [pc EXCEPT ![c] = "copy"]
  /\ Overtake(Consumers, c, n[c])
  /\ UNCHANGED <<prod_head, prod_tail, cons_tail, slots, watermark, call,
                 obj_table, local>>

ReserveEntriesFails(c) ==
  /\ pc[c] = "reserve"
  /\ ~ScDequeue /\ cons_head # head[c]
  /\ pc' = [pc EXCEPT ![c] = "again"]
  /\ drift' = [drift EXCEPT ![c] = 0]
  /\ ForgetSnapshot(c)
  /\ UNCHANGED <<index, slots, watermark, call, obj_table, i, quota>>

(* obj_table[i] = r->ring[(cons_head + i) & mask] *)
ReadEntry(c) ==
  /\ pc[c] = "copy"
  /\ obj_table' = [obj_table EXCEPT ![c] = Append(@, slots[Slot(Plus(head[c], i[c]))])]
  /\ i' = [i EXCEPT ![c] = i[c] + 1]
  /\ pc' = [pc EXCEPT ![c] = IF i[c] + 1 = n[c] THEN "publish" ELSE "copy"]
  /\ UNCHANGED <<index, slots, watermark, call, head, room, n, quota, drift>>

(* the wait is for the end of the range instead of its start *)
MutantReleaseLate(c) ==
  /\ pc[c] = "publish"
  /\ ScDequeue \/ cons_tail = Plus(head[c], n[c])
  /\ cons_tail' = Plus(head[c], n[c])
  /\ Finish(c)
  /\ UNCHANGED <<prod_head, prod_tail, cons_head, slots, watermark, drift>>

(* wait until cons.tail is the range's start, then move it to its end *)
ReleaseSlots(c) ==
  /\ pc[c] = "publish"
  /\ ScDequeue \/ cons_tail = head[c]
  /\ cons_tail' = Plus(head[c], n[c])
  /\ Finish(c)
  /\ UNCHANGED <<prod_head, prod_tail, cons_head, slots, watermark, drift>>

-----------------------------------------------------------------------------
(* rte_ring_set_water_mark, which may be called at any time *)
SetWaterMark(count) ==
  /\ count < Size
  /\ watermark' = IF count = 0 THEN Size ELSE count
  /\ UNCHANGED <<index, slots, pc, call, obj_table, local, drift>>

EnqueueStep(p) ==
  \/ EnqueueAgain(p) \/ EnqueueAdmitted(p) \/ EnqueueRefused(p)
  \/ ReserveSlots(p) \/ ReserveSlotsFails(p)
  \/ WriteEntry(p) \/ CheckWatermark(p) \/ PublishEntries(p)

DequeueStep(c) ==
  \/ DequeueAgain(c) \/ DequeueAdmitted(c) \/ DequeueRefused(c)
  \/ ReserveEntries(c) \/ ReserveEntriesFails(c)
  \/ ReadEntry(c) \/ ReleaseSlots(c)

Next == \/ \E p \in Producers : EnqueueCall(p) \/ EnqueueStep(p)
        \/ \E c \in Consumers : DequeueCall(c) \/ DequeueStep(c)
        \/ \E count \in WaterMarks : SetWaterMark(count)

Spec == Init /\ [][Next]_vars

(* A lcore that is inside a call keeps running (the ring "is not            *)
(* preemptable"); nobody is obliged to make another call.                   *)
FairSpec == /\ Spec
            /\ \A p \in Producers : WF_vars(EnqueueStep(p))
            /\ \A c \in Consumers : WF_vars(DequeueStep(c))

-----------------------------------------------------------------------------
(* Distance from index a forward to index b. *)
Dist(a, b) == Minus(b, a)

(* A thread that owns a range of the table: reserved and not yet published. *)
Holding(t) == pc[t] \in {"copy", "mark", "publish"}

(* Types of the ring and of the local variables of its users. *)
TypeOK ==
  /\ prod_head \in Index /\ prod_tail \in Index
  /\ cons_head \in Index /\ cons_tail \in Index
  /\ slots \in [0 .. Mask -> Items \cup {NoItem}]
  /\ watermark \in Nat
  /\ pc \in [Threads -> PCs]
  /\ behavior \in [Threads -> {"FIXED", "VARIABLE"}]
  /\ max \in [Threads -> Nat]
  /\ obj_table \in [Threads -> Seq(Items \cup {NoItem})]
  /\ head \in [Threads -> Index]
  /\ room \in [Threads -> Index]
  /\ n \in [Threads -> Nat]
  /\ i \in [Threads -> Nat]
  /\ quota \in [Threads -> BOOLEAN]
  /\ drift \in [Threads -> 0 .. MaxDrift]

(* Going round the index space from cons.tail one meets cons.head, then     *)
(* prod.tail, then prod.head, and never more than mask entries: wrapping    *)
(* indices stay ordered whatever the interleaving, so a full ring is never  *)
(* taken for an empty one.                                                  *)
IndexOrder ==
  Dist(cons_tail, cons_head) + Dist(cons_head, prod_tail)
     + Dist(prod_tail, prod_head) <= Mask

(* The ranges two lcores of one side hold do not overlap, and lie between   *)
(* that side's tail and its head.                                           *)
RangesOf(side, tail, hd) ==
  /\ \A t \in side : Holding(t) =>
        Dist(tail, head[t]) + n[t] <= Dist(tail, hd)
  /\ \A t, u \in side : t # u /\ Holding(t) /\ Holding(u) =>
        \/ Dist(tail, head[t]) + n[t] <= Dist(tail, head[u])
        \/ Dist(tail, head[u]) + n[u] <= Dist(tail, head[t])
RangesDisjoint == /\ RangesOf(Producers, prod_tail, prod_head)
                  /\ RangesOf(Consumers, cons_tail, cons_head)

(* No slot of the table is written by one lcore while another lcore, on     *)
(* either side, still has to read or to write it.                           *)
SlotsHeld(t) == {Slot(Plus(head[t], k)) : k \in i[t] .. n[t] - 1}
NoSharedSlot ==
  \A p \in Producers, t \in Threads :
     p # t /\ pc[p] = "copy" /\ pc[t] = "copy" => SlotsHeld(p) \cap SlotsHeld(t) = {}

(* Enqueue returns -ENOBUFS (or 0) only if, when it read cons.tail, there   *)
(* really was less room than it needed, although the head it compares with  *)
(* may be out of date; dequeue returns -ENOENT (or 0) only if, when it read *)
(* prod.tail, fewer published entries than it needed were still unreserved. *)
RefusalIsHonest ==
  \A p \in Producers :
    pc[p] = "tail" /\ pc'[p] = "idle"
      => Dist(cons_tail, prod_head) + (IF behavior[p] = "FIXED" THEN max[p] ELSE 1) > Mask
EmptinessIsHonest ==
  \A c \in Consumers :
    pc[c] = "tail" /\ pc'[c] = "idle"
      => Dist(cons_head, prod_tail) < (IF behavior[c] = "FIXED" THEN max[c] ELSE 1)
AnswersHonest == [][RefusalIsHonest /\ EmptinessIsHonest]_vars

(* When enqueue decides not to report EDQUOT, the entries up to its own do  *)
(* not exceed the watermark, whatever consumers did since it read cons.tail.*)
SilenceBelowWatermark ==
  [][\A p \in Producers :
       pc[p] = "mark" /\ pc'[p] = "publish" /\ ~quota'[p]
         => Dist(cons_tail, head[p]) + n[p] <= watermark]_vars

(* A reserved range is always published: a lcore never waits for ever for   *)
(* the lcores that reserved before it.                                      *)
ReservationsComplete ==
  \A t \in Threads : pc[t] = "copy" ~> pc[t] = "idle"

(* What the safety proof needs besides the above.  A thread that has read   *)
(* a head index knows exactly how far that index has moved since; if it has *)
(* not moved, the room or the entries it counted are still there.           *)
Counters ==
  /\ \A t \in Threads :
       /\ pc[t] # "idle" => max[t] >= 1
       /\ pc[t] = "tail" => n[t] = max[t]
       /\ pc[t] = "reserve" \/ Holding(t) => n[t] \in 1 .. max[t] /\ n[t] \in Index
       /\ pc[t] = "copy" => i[t] < n[t]
       /\ ~Holding(t) => i[t] = 0
  /\ \A p \in Producers : pc[p] # "idle" => Len(obj_table[p]) = max[p]
Snapshots ==
  /\ \A p \in Producers : Racing(p) => Dist(head[p], prod_head) = drift[p]
  /\ \A c \in Consumers : Racing(c) => Dist(head[c], cons_head) = drift[c]
StillAdmitted ==
  /\ \A p \in Producers : pc[p] = "reserve" /\ drift[p] = 0
        => Dist(cons_tail, prod_head) + n[p] <= Mask
  /\ \A c \in Consumers : pc[c] = "reserve" /\ drift[c] = 0
        => n[c] <= Dist(cons_head, prod_tail)

(* With one thread on a side nobody moves the indices behind its back: that *)
(* is why, with the flag, it may store them without a compare-and-set and   *)
(* without waiting.                                                         *)
Lone(side) == \A t, u \in side : t = u
AloneOn(side, tail, hd) ==
  \A t \in side : /\ drift[t] = 0
                  /\ IF Holding(t) THEN head[t] = tail /\ Plus(head[t], n[t]) = hd
                                   ELSE tail = hd
Alone == /\ Lone(Producers) => AloneOn(Producers, prod_tail, prod_head)
         /\ Lone(Consumers) => AloneOn(Consumers, cons_tail, cons_head)

(* The inductive invariant. *)
IInv == /\ TypeOK /\ Counters /\ IndexOrder /\ RangesDisjoint
        /\ Snapshots /\ StillAdmitted /\ Alone

(* The ring implements a bounded FIFO: an enqueue takes effect when         *)
(* prod.tail passes its range, a dequeue when cons.head does.  The objects  *)
(* a dequeue still has to copy are read from the table, so the refinement   *)
(* fails if a slot changes between its reservation and its copy.            *)
Queue == [k \in 1 .. Dist(cons_head, prod_tail) |-> slots[Slot(Plus(cons_head, k - 1))]]
StillToCopy(c) == [k \in 1 .. n[c] - i[c] |-> slots[Slot(Plus(head[c], i[c] + k - 1))]]
PutCalls == [p \in Producers |->
  IF pc[p] = "idle" THEN <<>> ELSE [objs |-> obj_table[p], bulk |-> behavior[p] = "FIXED"]]
GetCalls == [c \in Consumers |->
  IF pc[c] = "idle" THEN <<>> ELSE [count |-> max[c], bulk |-> behavior[c] = "FIXED"]]
Taken == [c \in Consumers |->
  IF Holding(c) THEN obj_table[c] \o StillToCopy(c) ELSE <<>>]
Fifo == INSTANCE BoundedFifo WITH
  Capacity <- Mask,
  NoCall <- <<>>,
  queue <- Queue,
  put <- PutCalls,
  get <- GetCalls,
  taken <- Taken
ImplementsFifo == Fifo!Spec
=============================================================================
