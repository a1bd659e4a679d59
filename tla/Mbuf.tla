-------------------------------- MODULE Mbuf --------------------------------
(***************************************************************************)
(* Reference-counted packet buffers: lib/librte_mbuf/rte_mbuf.h, and the    *)
(* mempools they come from seen as bags.  The state of all buffers is one   *)
(* record, heap, and each function of the header is an operator from heap   *)
(* to heap.                                                                 *)
(*                                                                         *)
(* heap.free[m] is the number of times m lies in its pool.  heap.refcnt[m]  *)
(* is a signed 16-bit counter in the code (rte_atomic16_t): the model never *)
(* comes near its ends.                                                     *)
(* heap.next[m] is the following segment, or Null.                          *)
(***************************************************************************)
EXTENDS Integers, Sequences

CONSTANTS Mbufs, Null

ASSUME NullAssumption == Null \notin Mbufs

HeapType == [refcnt : [Mbufs -> Int], free : [Mbufs -> Nat],
             next : [Mbufs -> Mbufs \cup {Null}]]

(* What the pools of mbufs in set ms can give. *)
Available(heap, ms) == {m \in ms : heap.free[m] > 0}

(* __rte_mbuf_raw_alloc returns m: out of its pool, with one reference.    *)
RawAlloc(heap, m) == [heap EXCEPT !.free[m] = @ - 1, !.refcnt[m] = 1]

(* rte_pktmbuf_alloc: the mbuf is also reset to a single segment.          *)
AllocMbuf(heap, m) == [RawAlloc(heap, m) EXCEPT !.next[m] = Null]

(* rte_pktmbuf_free_seg: the last reference puts m back into its pool.     *)
FreeSeg(heap, m) ==
  IF heap.refcnt[m] = 1 \/ heap.refcnt[m] - 1 = 0
    THEN [heap EXCEPT !.refcnt[m] = 0, !.free[m] = @ + 1]
    ELSE [heap EXCEPT !.refcnt[m] = @ - 1]

(* The same where there may be none. *)
FreeEntry(heap, m) == IF m = Null THEN heap ELSE FreeSeg(heap, m)

(* The number of segments of a packet.  The switch builds chains of two at  *)
(* most: a header and the frame.                                            *)
NbSegs(heap, m) == IF heap.next[m] = Null THEN 1 ELSE 2

(* rte_pktmbuf_free: every segment of the packet. *)
FreePacket(heap, m) == FreeEntry(FreeSeg(heap, m), heap.next[m])
=============================================================================
