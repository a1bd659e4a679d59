----------------------------- MODULE RingQuery -----------------------------
(***************************************************************************)
(* The queries of lib/librte_ring/rte_ring.h (rte_ring_full,               *)
(* rte_ring_empty, rte_ring_count, rte_ring_free_count) made while other   *)
(* lcores use the ring.  A query reads prod.tail and then cons.tail, in    *)
(* two steps between which the ring may change, and computes its answer    *)
(* from the two values.                                                    *)
(***************************************************************************)
EXTENDS RteRing

CONSTANT Queriers  \* the lcores that ask before they enqueue or dequeue

ASSUME QueriersAssumption == Queriers \subseteq Threads

VARIABLES
  seen_tail,   \* the prod.tail a query in progress has read, or NoItem
  promised     \* what the last answer promised: a producer the number of free
               \* slots, a consumer the number of entries

query == <<seen_tail, promised>>

(* The four answers, from the values of the two tails that were read.      *)
(* "& mask" is a remainder because the size is a power of two.             *)
MutantRingCount(pt, ct) == Minus(pt, ct) + 1  \* one entry too many
RingCount(pt, ct) == Minus(pt, ct) % Size
MutantFreeCount(pt, ct) == Minus(ct, pt) % Size  \* one slot too many
RingFreeCount(pt, ct) == Minus(Minus(ct, pt), 1) % Size
RingFull(pt, ct) == RingFreeCount(pt, ct) = 0
RingEmpty(pt, ct) == ct = pt

(* Not full is a promise of one slot, not empty of one entry. *)
RoomAnswers(pt, ct) == {RingFreeCount(pt, ct), IF RingFull(pt, ct) THEN 0 ELSE 1}
EntryAnswers(pt, ct) == {RingCount(pt, ct), IF RingEmpty(pt, ct) THEN 0 ELSE 1}

InitQuery == /\ Init
             /\ seen_tail = [t \in Queriers |-> NoItem]
             /\ promised = [t \in Queriers |-> NoItem]

(* prod_tail = r->prod.tail *)
QueryBegin(t) ==
  /\ seen_tail[t] = NoItem
  /\ pc[t] = "idle"
  /\ seen_tail' = [seen_tail EXCEPT ![t] = prod_tail]
  /\ promised' = [promised EXCEPT ![t] = NoItem]
  /\ UNCHANGED vars

(* cons_tail = r->cons.tail, and the answer *)
QueryEnd(t) ==
  /\ seen_tail[t] # NoItem
  /\ seen_tail' = [seen_tail EXCEPT ![t] = NoItem]
  /\ \E answer \in IF t \in Producers THEN RoomAnswers(seen_tail[t], cons_tail)
                                      ELSE EntryAnswers(seen_tail[t], cons_tail) :
        promised' = [promised EXCEPT ![t] = answer]
  /\ UNCHANGED vars

(* A step of the ring.  A lcore inside a query makes no other call, and     *)
(* forgets the answer when its next call returns.                           *)
RingStep ==
  /\ Next
  /\ \A t \in Queriers : seen_tail[t] # NoItem => pc'[t] = "idle"
  /\ promised' = [t \in Queriers |->
                    IF pc[t] # "idle" /\ pc'[t] = "idle" THEN NoItem
                    ELSE promised[t]]
  /\ UNCHANGED seen_tail

NextQuery == RingStep \/ \E t \in Queriers : QueryBegin(t) \/ QueryEnd(t)

SpecQuery == InitQuery /\ [][NextQuery]_<<vars, query>>

(* The fairness of RteRing: a call in progress goes on.                     *)
FairSpecQuery == /\ SpecQuery
                 /\ \A p \in Producers : WF_vars(EnqueueStep(p))
                 /\ \A c \in Consumers : WF_vars(DequeueStep(c))

-----------------------------------------------------------------------------
(* What the only producer learns from rte_ring_free_count or rte_ring_full  *)
(* it can rely on: its next enqueue of at most that many objects is not     *)
(* refused, whatever the consumer does in between; and likewise the only    *)
(* consumer with rte_ring_count and rte_ring_empty.                         *)
PromiseKept ==
  [][\A t \in Queriers :
       pc[t] = "tail" /\ pc'[t] = "idle" /\ promised[t] # NoItem
         => max[t] > promised[t]]_<<vars, query>>

=============================================================================
