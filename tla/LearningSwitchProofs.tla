------------------------ MODULE LearningSwitchProofs ------------------------
(***************************************************************************)
(* Proofs about LearningSwitch, for any number of lcores, ports, hosts,     *)
(* buffers and frames.  Types, bounds of the transmit buffers and the       *)
(* learned ports hold whatever the lcores share without a lock and however  *)
(* often a buffer is freed; the state of a transmit ring where one lcore    *)
(* polls all the ports.                                                     *)
(***************************************************************************)
EXTENDS LearningSwitch, TLAPS

(* Where a lcore is while it has a packet in the pipeline, ...              *)
Pipeline == {"learn", "insert", "classify", "enforce", "route", "output", "flood", "flooded"}
(* ... and where it may be when it is not in send_burst.                    *)
Labels == PCs \ {"tx", "unsent"}
InDriver(l) == pc[l] \in {"tx", "unsent"}

FrameSet == {FrameOf(f, k) : f \in Frames, k \in 1 .. MaxFrames}
Headers == {ALLOW, FORBID, FLOOD_PORT} \cup Ports
Descs == 0 .. NbTxDesc - 1
TxQueues == [sw_ring : [Descs -> Mbufs \cup {Null}], tx_tail : Descs, nb_tx_free : Nat,
             last_desc_cleaned : Descs, head : Descs]

(* The types of what the lcores share, ...                                  *)
BufferTypes ==
  /\ heap \in HeapType
  /\ frame \in [PacketMbufs -> FrameSet \cup {Null}]
  /\ hdrs \in [PacketMbufs -> Seq(Headers)]
  /\ received \in 0 .. MaxFrames
RingTypes ==
  /\ rxq \in [Ports -> Seq(PacketMbufs)]
  /\ \A p \in Ports : Len(rxq[p]) = 1
  /\ txq \in [Ports -> TxQueues]
MapTypes == l2_addr_map_ \in [nodes : SUBSET (Keys \X Ports), damaged : BOOLEAN]

(* ... of what each has for itself, ...                                     *)
LcoreTypes ==
  /\ tx_mbufs \in [Lcores -> [Ports -> Seq(Mbufs)]]
  /\ pc \in [Lcores -> PCs]
  /\ rxIndex \in [Lcores -> Nat]
  /\ pkts_burst \in [Lcores -> Seq(PacketMbufs)]
  /\ entry \in [Lcores -> (Keys \X Ports) \cup {Null}]
  /\ portid \in [Lcores -> Nat]
  /\ tx_id \in [Lcores -> Descs]
  /\ after \in [Lcores -> Labels]
  /\ elapsed \in [Lcores -> BOOLEAN]
  /\ crashed \in BOOLEAN
Types == conf \in Configurations /\ BufferTypes /\ RingTypes /\ MapTypes /\ LcoreTypes

(* ... and what a lcore relies on where it is: there is a packet to work on, *)
(* also while the driver is called for it; the port exists; only the buffer *)
(* being sent may be full.                                                  *)
Full(l, p) == Len(tx_mbufs[l][p]) = MAX_PKT_BURST
Ready(l) ==
  /\ \A k \in DOMAIN pkts_burst[l] : frame[pkts_burst[l][k]] \in FrameSet
  /\ pc[l] \in Pipeline => pkts_burst[l] # <<>>
  /\ pc[l] = "insert" => entry[l] \in Keys \X Ports
  /\ pc[l] \in {"flood", "flooded"} => portid[l] \in {0, 1}
  /\ InDriver(l) => /\ portid[l] \in Ports
                    /\ after[l] \in Pipeline => pkts_burst[l] # <<>>
                    /\ after[l] # "insert"
                    /\ after[l] \in {"flood", "flooded"} => portid[l] \in {0, 1}
  /\ pc[l] = "unsent" => tx_mbufs[l][portid[l]] # <<>>
Bounded(l) ==
  \A p \in Ports : /\ Len(tx_mbufs[l][p]) <= MAX_PKT_BURST
                   /\ Full(l, p) => InDriver(l) /\ portid[l] = p

IInv == Types /\ \A l \in Lcores : Ready(l) /\ Bounded(l)

-----------------------------------------------------------------------------
(* The configuration a behaviour has. *)
LEMMA Configured ==
  ASSUME conf \in Configurations
  PROVE  /\ MaxFrames \in Nat
         /\ rx_queue_list \in [Lcores -> Seq(Ports)]
         /\ \A f \in Frames : f.port \in Ports /\ {f.src, f.dst} \subseteq Hosts \cup {Broadcast}
BY ConfigurationsAssumption DEF ConfigurationType, MaxFrames, rx_queue_list, Frames

(* Frames, keys and headers depend on the configuration alone.              *)
LEMMA SameConfiguration ==
  ASSUME UNCHANGED conf
  PROVE  /\ FrameSet' = FrameSet /\ Keys' = Keys /\ MaxFrames' = MaxFrames
         /\ Frames' = Frames /\ rx_queue_list' = rx_queue_list /\ UpperBytes' = UpperBytes
BY DEF FrameSet, Frames, MaxFrames, Keys, UpperBytes, rx_queue_list

(* A frame that was received has a port that exists, and addresses.         *)
LEMMA FrameFields ==
  ASSUME conf \in Configurations, NEW x \in FrameSet
  PROVE  /\ x.port \in Ports /\ x.id \in 1 .. MaxFrames
         /\ x.src \in Hosts \cup {Broadcast} /\ x.dst \in Hosts \cup {Broadcast}
         /\ \E f \in Frames : x.dst = f.dst
<1>1. PICK f \in Frames, k \in 1 .. MaxFrames : x = FrameOf(f, k)
  BY DEF FrameSet
<1>. QED BY <1>1, Configured DEF FrameOf

(* Sequences: the first entry and the others, one more entry.               *)
LEMMA HeadTail ==
  ASSUME NEW S, NEW s \in Seq(S), s # <<>>
  PROVE  /\ Len(s) \in Nat \ {0} /\ DOMAIN s = 1 .. Len(s)
         /\ Head(s) \in S /\ Head(s) = s[1]
         /\ Tail(s) \in Seq(S) /\ Len(Tail(s)) = Len(s) - 1 /\ DOMAIN Tail(s) = 1 .. Len(s) - 1
         /\ \A k \in 1 .. Len(s) - 1 : Tail(s)[k] = s[k + 1]
         /\ Tail(s) = <<>> <=> Len(s) = 1
<1>1. /\ Len(s) \in Nat \ {0} /\ DOMAIN s = 1 .. Len(s)
      /\ Head(s) \in S /\ Head(s) = s[1]
      /\ Tail(s) \in Seq(S) /\ Len(Tail(s)) = Len(s) - 1
      /\ \A k \in 1 .. Len(s) - 1 : Tail(s)[k] = s[k + 1]
  <2>1. Len(s) \in Nat /\ Len(s) # 0 /\ DOMAIN s = 1 .. Len(s)
    OBVIOUS
  <2>. QED BY <2>1
<1>2. DOMAIN Tail(s) = 1 .. Len(s) - 1
  BY <1>1
<1>3. Tail(s) = <<>> <=> Len(s) = 1
  <2>1. ASSUME NEW t \in Seq(S) PROVE t = <<>> <=> Len(t) = 0
    OBVIOUS
  <2>2. Tail(s) = <<>> <=> Len(Tail(s)) = 0
    BY <1>1, <2>1
  <2>. QED BY <1>1, <2>2
<1>. QED BY <1>1, <1>2, <1>3

LEMMA Appended ==
  ASSUME NEW S, NEW s \in Seq(S), NEW x \in S
  PROVE  /\ Append(s, x) \in Seq(S) /\ Len(Append(s, x)) = Len(s) + 1
         /\ DOMAIN Append(s, x) = 1 .. Len(s) + 1 /\ DOMAIN s = 1 .. Len(s) /\ Len(s) \in Nat
         /\ \A k \in 1 .. Len(s) : Append(s, x)[k] = s[k]
         /\ Append(s, x)[Len(s) + 1] = x
         /\ Append(s, x) # <<>>
OBVIOUS

(* What rte_pktmbuf_free_seg and the allocation do to each field of the     *)
(* heap.                                                                    *)
LEMMA FreeSegIs ==
  ASSUME NEW h \in HeapType, NEW m \in Mbufs
  PROVE  FreeSeg(h, m) =
           [refcnt |-> [h.refcnt EXCEPT ![m] = @ - 1],
            free |-> IF h.refcnt[m] = 1 THEN [h.free EXCEPT ![m] = @ + 1] ELSE h.free,
            next |-> h.next]
<1>1. /\ h = [refcnt |-> h.refcnt, free |-> h.free, next |-> h.next]
      /\ h.refcnt[m] \in Int
  BY DEF HeapType
<1>2. CASE h.refcnt[m] = 1
  <2>1. h.refcnt[m] - 1 = 0
    BY <1>2
  <2>2. FreeSeg(h, m) = [h EXCEPT !.refcnt[m] = 0, !.free[m] = @ + 1]
    BY <1>2 DEF FreeSeg
  <2>3. FreeSeg(h, m) = [refcnt |-> [h.refcnt EXCEPT ![m] = 0],
                         free |-> [h.free EXCEPT ![m] = @ + 1], next |-> h.next]
    BY <1>1, <2>2
  <2>4. [h.refcnt EXCEPT ![m] = @ - 1] = [h.refcnt EXCEPT ![m] = 0]
    BY <2>1
  <2>. QED BY <1>2, <2>3, <2>4
<1>3. CASE h.refcnt[m] # 1
  <2>1. h.refcnt[m] - 1 # 0
    BY <1>1, <1>3
  <2>2. FreeSeg(h, m) = [h EXCEPT !.refcnt[m] = @ - 1]
    BY <1>3, <2>1 DEF FreeSeg
  <2>. QED BY <1>1, <1>3, <2>2
<1>. QED BY <1>2, <1>3

LEMMA Heap ==
  ASSUME NEW r \in [Mbufs -> Int], NEW f \in [Mbufs -> Nat],
         NEW n \in [Mbufs -> Mbufs \cup {Null}]
  PROVE  /\ [refcnt |-> r, free |-> f, next |-> n] \in HeapType
         /\ [refcnt |-> r, free |-> f, next |-> n].next = n
BY DEF HeapType

LEMMA AllocIs ==
  ASSUME NEW h \in HeapType, NEW m \in Mbufs, NEW x \in Mbufs, NEW y
  PROVE  /\ RawAlloc(h, m) = [refcnt |-> [h.refcnt EXCEPT ![m] = 1],
                              free |-> [h.free EXCEPT ![m] = @ - 1], next |-> h.next]
         /\ [RawAlloc(h, m) EXCEPT !.next[x] = y] =
              [refcnt |-> [h.refcnt EXCEPT ![m] = 1], free |-> [h.free EXCEPT ![m] = @ - 1],
               next |-> [h.next EXCEPT ![x] = y]]
         /\ [AllocMbuf(h, m) EXCEPT !.next[m] = y] =
              [refcnt |-> [h.refcnt EXCEPT ![m] = 1], free |-> [h.free EXCEPT ![m] = @ - 1],
               next |-> [h.next EXCEPT ![m] = y]]
<1>1. h = [refcnt |-> h.refcnt, free |-> h.free, next |-> h.next]
  BY DEF HeapType
<1>2. RawAlloc(h, m) = [refcnt |-> [h.refcnt EXCEPT ![m] = 1],
                        free |-> [h.free EXCEPT ![m] = @ - 1], next |-> h.next]
  <2>1. [h EXCEPT !.free[m] = @ - 1] =
          [refcnt |-> h.refcnt, free |-> [h.free EXCEPT ![m] = @ - 1], next |-> h.next]
    BY <1>1
  <2>2. RawAlloc(h, m) = [[h EXCEPT !.free[m] = @ - 1] EXCEPT !.refcnt[m] = 1]
    BY DEF RawAlloc
  <2>. QED BY <2>1, <2>2
<1>3. AllocMbuf(h, m) = [refcnt |-> [h.refcnt EXCEPT ![m] = 1],
                         free |-> [h.free EXCEPT ![m] = @ - 1],
                         next |-> [h.next EXCEPT ![m] = Null]]
  BY <1>2 DEF AllocMbuf
<1>4. [[h.next EXCEPT ![m] = Null] EXCEPT ![m] = y] = [h.next EXCEPT ![m] = y]
  BY DEF HeapType
<1>. QED BY <1>2, <1>3, <1>4

(* What is freed stays a heap, and no chain changes.                        *)
LEMMA FreeTypes ==
  ASSUME NEW h \in HeapType, NEW m \in Mbufs
  PROVE  /\ FreeSeg(h, m) \in HeapType /\ FreeSeg(h, m).next = h.next
         /\ FreePacket(h, m) \in HeapType /\ FreePacket(h, m).next = h.next
<1>1. ASSUME NEW g \in HeapType, NEW x \in Mbufs
      PROVE  FreeSeg(g, x) \in HeapType /\ FreeSeg(g, x).next = g.next
  <2>. DEFINE r == [g.refcnt EXCEPT ![x] = @ - 1]
              f == IF g.refcnt[x] = 1 THEN [g.free EXCEPT ![x] = @ + 1] ELSE g.free
              n == g.next
  <2>1. r \in [Mbufs -> Int] /\ f \in [Mbufs -> Nat] /\ n \in [Mbufs -> Mbufs \cup {Null}]
    BY DEF HeapType
  <2>2. FreeSeg(g, x) = [refcnt |-> r, free |-> f, next |-> n]
    BY FreeSegIs
  <2>3. g.next = n
    OBVIOUS
  <2>. HIDE DEF r, f, n
  <2>. QED BY <2>1, <2>2, <2>3, Heap
<1>2. h.next[m] \in Mbufs \cup {Null}
  BY DEF HeapType
<1>. QED BY <1>1, <1>2 DEF FreePacket, FreeEntry

LEMMA EntryTypes ==
  ASSUME NEW h \in HeapType, NEW m \in Mbufs \cup {Null}
  PROVE  FreeEntry(h, m) \in HeapType /\ FreeEntry(h, m).next = h.next
BY FreeTypes DEF FreeEntry

LEMMA AllocTypes ==
  ASSUME NEW h \in HeapType, NEW m \in Mbufs, h.free[m] > 0, NEW x \in Mbufs,
         NEW y \in Mbufs \cup {Null}
  PROVE  /\ [RawAlloc(h, m) EXCEPT !.next[x] = y] \in HeapType
         /\ [AllocMbuf(h, m) EXCEPT !.next[m] = y] \in HeapType
<1>1. RawAlloc(h, m) \in HeapType
  <2>. DEFINE r == [h.refcnt EXCEPT ![m] = 1]
              f == [h.free EXCEPT ![m] = @ - 1]
              n == h.next
  <2>1. /\ r \in [Mbufs -> Int] /\ f \in [Mbufs -> Nat] /\ n \in [Mbufs -> Mbufs \cup {Null}]
    BY DEF HeapType
  <2>2. RawAlloc(h, m) = [refcnt |-> r, free |-> f, next |-> n]
    BY AllocIs
  <2>. HIDE DEF r, f, n
  <2>. QED BY <2>1, <2>2, Heap
<1>2. ASSUME NEW g \in HeapType, NEW z \in Mbufs, NEW v \in Mbufs \cup {Null}
      PROVE  [g EXCEPT !.next[z] = v] \in HeapType
  BY DEF HeapType
<1>3. AllocMbuf(h, m) \in HeapType
  BY <1>1, <1>2 DEF AllocMbuf
<1>. QED BY <1>1, <1>2, <1>3

-----------------------------------------------------------------------------
(* A step of lcore l that leaves the others' own state alone.               *)
LEMMA OneLcore ==
  ASSUME IInv, NEW l \in Lcores, UNCHANGED conf, Types', Ready(l)', Bounded(l)',
         \A k \in Lcores \ {l} :
           /\ pc'[k] = pc[k] /\ pkts_burst'[k] = pkts_burst[k] /\ entry'[k] = entry[k]
           /\ portid'[k] = portid[k] /\ after'[k] = after[k] /\ tx_mbufs'[k] = tx_mbufs[k],
         \A m \in PacketMbufs : frame[m] \in FrameSet => frame'[m] \in FrameSet
  PROVE  IInv'
<1>1. FrameSet' = FrameSet /\ Keys' = Keys
  BY SameConfiguration
<1>2. ASSUME NEW k \in Lcores \ {l} PROVE Ready(k)' /\ Bounded(k)'
  <2>1. Ready(k) /\ Bounded(k)
    BY DEF IInv
  <2>2. /\ pc'[k] = pc[k] /\ pkts_burst'[k] = pkts_burst[k] /\ entry'[k] = entry[k]
        /\ portid'[k] = portid[k] /\ after'[k] = after[k] /\ tx_mbufs'[k] = tx_mbufs[k]
    BY <1>2
  <2>3. \A j \in DOMAIN pkts_burst[k] : pkts_burst[k][j] \in PacketMbufs
    BY DEF IInv, Types, LcoreTypes
  <2>4. \A j \in DOMAIN pkts_burst'[k] : frame'[pkts_burst'[k][j]] \in FrameSet'
    BY <1>1, <2>1, <2>2, <2>3 DEF Ready
  <2>5. Ready(k)'
    BY <1>1, <2>1, <2>2, <2>4 DEF Ready, InDriver
  <2>6. Bounded(k)'
    BY <2>1, <2>2 DEF Bounded, Full, InDriver
  <2>. QED BY <2>5, <2>6
<1>3. \A k \in Lcores : Ready(k)' /\ Bounded(k)'
  BY <1>2
<1>. QED BY <1>3 DEF IInv

(* A lcore has no full buffer outside the driver. *)
LEMMA NoneFull ==
  ASSUME IInv, NEW l \in Lcores, ~InDriver(l), NEW p \in Ports
  PROVE  Len(tx_mbufs[l][p]) \in Nat /\ Len(tx_mbufs[l][p]) < MAX_PKT_BURST
<1>1. tx_mbufs[l][p] \in Seq(Mbufs)
  BY DEF IInv, Types, LcoreTypes
<1>2. Len(tx_mbufs[l][p]) \in Nat
  BY <1>1
<1>. QED BY <1>2, SizesAssumption DEF IInv, Bounded, Full

(* A step of lcore l outside the driver, which leaves receive rings and     *)
(* transmit buffers alone.                                                  *)
LEMMA PlainStep ==
  ASSUME IInv, NEW l \in Lcores, NEW label \in Labels, ~InDriver(l), Goto(l, label),
         UNCHANGED <<conf, frame, rxq, txq, received, tx_mbufs, after, tx_id, crashed>>,
         heap' \in HeapType, hdrs' \in [PacketMbufs -> Seq(Headers)], MapTypes',
         entry' \in [Lcores -> (Keys \X Ports) \cup {Null}], \A k \in Lcores \ {l} : entry'[k] = entry[k],
         portid' \in [Lcores -> Nat], \A k \in Lcores \ {l} : portid'[k] = portid[k],
         pkts_burst' \in [Lcores -> Seq(PacketMbufs)],
         \A k \in Lcores \ {l} : pkts_burst'[k] = pkts_burst[k],
         \A k \in DOMAIN pkts_burst'[l] : frame[pkts_burst'[l][k]] \in FrameSet,
         elapsed' \in [Lcores -> BOOLEAN], rxIndex' \in [Lcores -> Nat],
         label \in Pipeline => pkts_burst'[l] # <<>>,
         label = "insert" => entry'[l] \in Keys \X Ports,
         label \in {"flood", "flooded"} => portid'[l] \in {0, 1}
  PROVE  IInv'
<1>1. FrameSet' = FrameSet /\ Keys' = Keys /\ MaxFrames' = MaxFrames
  BY SameConfiguration
<1>2. pc' \in [Lcores -> PCs] /\ pc'[l] = label /\ \A k \in Lcores \ {l} : pc'[k] = pc[k]
  BY DEF Goto, IInv, Types, LcoreTypes, Labels
<1>3. BufferTypes'
  BY <1>1 DEF IInv, Types, BufferTypes
<1>4. RingTypes'
  BY DEF IInv, Types, RingTypes
<1>5. LcoreTypes'
  BY <1>1, <1>2 DEF IInv, Types, LcoreTypes
<1>6. Types'
  BY <1>3, <1>4, <1>5 DEF IInv, Types
<1>7. Ready(l)'
  BY <1>1, <1>2 DEF Ready, InDriver, Labels
<1>8. Bounded(l)'
  <2>1. \A p \in Ports : /\ tx_mbufs'[l][p] = tx_mbufs[l][p] /\ Len(tx_mbufs[l][p]) \in Nat
                          /\ Len(tx_mbufs[l][p]) < MAX_PKT_BURST
    BY NoneFull
  <2>. QED BY <2>1, SizesAssumption DEF Bounded, Full
<1>9. \A k \in Lcores \ {l} : after'[k] = after[k] /\ tx_mbufs'[k] = tx_mbufs[k]
  OBVIOUS
<1>. QED BY <1>2, <1>6, <1>7, <1>8, <1>9, OneLcore

(* What the driver reclaims is a queue again. *)
LEMMA ReclaimTypes ==
  ASSUME NEW q \in TxQueues
  PROVE  /\ Reclaim(q) \in TxQueues
         /\ Reclaim(q).sw_ring = q.sw_ring /\ Reclaim(q).tx_tail = q.tx_tail
         /\ Reclaim(q).head = q.head
<1>. DEFINE free == q.nb_tx_free + Between(NextDesc(q.last_desc_cleaned), q.head)
            cleaned == (q.head + NbTxDesc - 1) % NbTxDesc
<1>1. NbTxDesc \in Nat \ {0} /\ q.head \in Int /\ q.last_desc_cleaned \in Int /\ q.nb_tx_free \in Nat
  BY SizesAssumption DEF TxQueues, Descs
<1>2. \A x \in Int : x % NbTxDesc \in Descs
  BY <1>1 DEF Descs
<1>3. cleaned \in Descs
  BY <1>1, <1>2
<1>4. NextDesc(q.last_desc_cleaned) \in Int
  BY <1>1, <1>2 DEF NextDesc, Descs
<1>5. Between(NextDesc(q.last_desc_cleaned), q.head) \in Nat
  BY <1>1, <1>2, <1>4 DEF Between, Descs
<1>6. free \in Nat
  BY <1>1, <1>5
<1>7. Reclaim(q) = [q EXCEPT !.nb_tx_free = free, !.last_desc_cleaned = cleaned]
  BY DEF Reclaim
<1>. HIDE DEF free, cleaned
<1>. QED BY <1>3, <1>6, <1>7 DEF TxQueues

(* A step of lcore l that goes to the driver with the buffer of port p,     *)
(* which it may have filled.                                                *)
LEMMA DriverStep ==
  ASSUME IInv, NEW l \in Lcores, NEW p \in Ports, NEW return \in Labels, ~InDriver(l),
         TxBegin(l, p, return),
         UNCHANGED <<conf, frame, rxq, received, l2_addr_map_, entry, elapsed, rxIndex, crashed>>,
         heap' \in HeapType, hdrs' \in [PacketMbufs -> Seq(Headers)],
         tx_mbufs' \in [Lcores -> [Ports -> Seq(Mbufs)]],
         \A k \in Lcores, q \in Ports : k # l \/ q # p => tx_mbufs'[k][q] = tx_mbufs[k][q],
         \A k \in Lcores \ {l} : tx_mbufs'[k] = tx_mbufs[k],
         Len(tx_mbufs'[l][p]) <= MAX_PKT_BURST,
         pkts_burst' \in [Lcores -> Seq(PacketMbufs)],
         \A k \in Lcores \ {l} : pkts_burst'[k] = pkts_burst[k],
         \A k \in DOMAIN pkts_burst'[l] : frame[pkts_burst'[l][k]] \in FrameSet,
         return \in Pipeline => pkts_burst'[l] # <<>>,
         return # "insert",
         return \in {"flood", "flooded"} => p \in {0, 1}
  PROVE  IInv'
<1>1. FrameSet' = FrameSet /\ Keys' = Keys /\ MaxFrames' = MaxFrames
  BY SameConfiguration
<1>2. /\ pc' \in [Lcores -> PCs] /\ pc'[l] = "tx" /\ after' \in [Lcores -> Labels] /\ after'[l] = return
      /\ portid'[l] = p
      /\ \A k \in Lcores \ {l} : pc'[k] = pc[k] /\ after'[k] = after[k] /\ portid'[k] = portid[k]
  BY DEF TxBegin, Goto, IInv, Types, LcoreTypes, PCs
<1>3. txq' \in [Ports -> TxQueues]
  <2>1. txq[p] \in TxQueues /\ Reclaim(txq[p]) \in TxQueues
    BY ReclaimTypes DEF IInv, Types, RingTypes
  <2>2. PICK q \in {txq[p], Reclaim(txq[p])} : txq' = [txq EXCEPT ![p] = q]
    BY DEF TxBegin
  <2>. QED BY <2>1, <2>2 DEF IInv, Types, RingTypes
<1>4. portid' \in [Lcores -> Nat] /\ tx_id' \in [Lcores -> Descs]
  <2>1. p \in Nat /\ txq[p].tx_tail \in Descs
    BY PortsAssumption DEF IInv, Types, RingTypes, TxQueues
  <2>. QED BY <2>1 DEF TxBegin, IInv, Types, LcoreTypes
<1>5. BufferTypes'
  BY <1>1 DEF IInv, Types, BufferTypes
<1>6. RingTypes' /\ MapTypes'
  BY <1>1, <1>3 DEF IInv, Types, RingTypes, MapTypes
<1>7. LcoreTypes'
  BY <1>1, <1>2, <1>4 DEF IInv, Types, LcoreTypes
<1>8. Types'
  BY <1>5, <1>6, <1>7 DEF IInv, Types
<1>9. Ready(l)'
  BY <1>1, <1>2 DEF Ready, InDriver, Pipeline
<1>10. Bounded(l)'
  <2>1. ASSUME NEW q \in Ports
        PROVE  /\ Len(tx_mbufs'[l][q]) <= MAX_PKT_BURST
               /\ Len(tx_mbufs'[l][q]) = MAX_PKT_BURST => q = p
    <3>1. CASE q = p
      BY <3>1
    <3>2. CASE q # p
      <4>1. tx_mbufs'[l][q] = tx_mbufs[l][q]
        BY <3>2
      <4>2. Len(tx_mbufs[l][q]) \in Nat /\ Len(tx_mbufs[l][q]) < MAX_PKT_BURST
        BY NoneFull
      <4>. QED BY <4>1, <4>2, SizesAssumption
    <3>. QED BY <3>1, <3>2
  <2>. QED BY <1>2, <2>1 DEF Bounded, Full, InDriver
<1>. QED BY <1>2, <1>8, <1>9, <1>10, OneLcore

(* One transmit buffer of one lcore changes.                                *)
LEMMA BufferAt ==
  ASSUME NEW l \in Lcores, NEW p \in Ports, NEW s \in Seq(Mbufs),
         tx_mbufs \in [Lcores -> [Ports -> Seq(Mbufs)]],
         tx_mbufs' = [tx_mbufs EXCEPT ![l][p] = s]
  PROVE  /\ tx_mbufs' \in [Lcores -> [Ports -> Seq(Mbufs)]]
         /\ \A k \in Lcores, q \in Ports : k # l \/ q # p => tx_mbufs'[k][q] = tx_mbufs[k][q]
         /\ \A k \in Lcores \ {l} : tx_mbufs'[k] = tx_mbufs[k]
         /\ tx_mbufs'[l][p] = s
<1>1. tx_mbufs' = [tx_mbufs EXCEPT ![l] = [tx_mbufs[l] EXCEPT ![p] = s]]
  OBVIOUS
<1>2. /\ tx_mbufs'[l] = [tx_mbufs[l] EXCEPT ![p] = s]
      /\ \A k \in Lcores \ {l} : tx_mbufs'[k] = tx_mbufs[k]
  BY <1>1
<1>3. tx_mbufs[l] \in [Ports -> Seq(Mbufs)]
  OBVIOUS
<1>4. [tx_mbufs[l] EXCEPT ![p] = s] \in [Ports -> Seq(Mbufs)]
  BY <1>3
<1>5. tx_mbufs' \in [Lcores -> [Ports -> Seq(Mbufs)]]
  BY <1>1, <1>4
<1>. QED BY <1>2, <1>3, <1>5

(* pkt_send_single: no buffer is full when a lcore that is not in the       *)
(* driver appends to it.                                                    *)
LEMMA SendStep ==
  ASSUME IInv, NEW l \in Lcores, NEW m \in Mbufs, NEW p \in Ports, NEW return \in Labels,
         ~InDriver(l), SendSingle(l, m, p, return),
         UNCHANGED <<conf, frame, rxq, received, l2_addr_map_, entry, elapsed, rxIndex, crashed>>,
         heap' \in HeapType, hdrs' \in [PacketMbufs -> Seq(Headers)],
         pkts_burst' \in [Lcores -> Seq(PacketMbufs)],
         \A k \in Lcores \ {l} : pkts_burst'[k] = pkts_burst[k],
         \A k \in DOMAIN pkts_burst'[l] : frame[pkts_burst'[l][k]] \in FrameSet,
         return \in Pipeline => pkts_burst'[l] # <<>>,
         return # "insert",
         return \in {"flood", "flooded"} => p \in {0, 1} /\ portid[l] = p
  PROVE  IInv'
<1>1. /\ tx_mbufs \in [Lcores -> [Ports -> Seq(Mbufs)]] /\ tx_mbufs[l][p] \in Seq(Mbufs)
      /\ \A q \in Ports : Len(tx_mbufs[l][q]) \in Nat /\ Len(tx_mbufs[l][q]) < MAX_PKT_BURST
  BY NoneFull DEF IInv, Types, LcoreTypes
<1>2. /\ Append(tx_mbufs[l][p], m) \in Seq(Mbufs)
      /\ Len(Append(tx_mbufs[l][p], m)) = Len(tx_mbufs[l][p]) + 1
  BY <1>1, Appended
<1>3. tx_mbufs' = [tx_mbufs EXCEPT ![l][p] = Append(tx_mbufs[l][p], m)]
  BY <1>1 DEF SendSingle
<1>4. /\ tx_mbufs' \in [Lcores -> [Ports -> Seq(Mbufs)]]
      /\ \A k \in Lcores, q \in Ports : k # l \/ q # p => tx_mbufs'[k][q] = tx_mbufs[k][q]
      /\ \A k \in Lcores \ {l} : tx_mbufs'[k] = tx_mbufs[k]
      /\ Len(tx_mbufs'[l][p]) = Len(tx_mbufs[l][p]) + 1
  BY <1>1, <1>2, <1>3, BufferAt
<1>5. CASE Len(tx_mbufs[l][p]) + 1 = MAX_PKT_BURST
  <2>1. TxBegin(l, p, return)
    BY <1>5 DEF SendSingle
  <2>2. Len(tx_mbufs'[l][p]) <= MAX_PKT_BURST
    BY <1>4, <1>5, SizesAssumption
  <2>. QED BY <1>4, <2>1, <2>2, DriverStep
<1>6. CASE Len(tx_mbufs[l][p]) + 1 # MAX_PKT_BURST
  <2>1. Goto(l, return) /\ UNCHANGED <<txq, portid, tx_id, after>>
    BY <1>6 DEF SendSingle
  <2>2. /\ pc' \in [Lcores -> PCs] /\ pc'[l] = return
        /\ \A k \in Lcores \ {l} : pc'[k] = pc[k]
    BY <2>1 DEF Goto, IInv, Types, LcoreTypes, Labels
  <2>3. FrameSet' = FrameSet /\ Keys' = Keys /\ MaxFrames' = MaxFrames
    BY SameConfiguration
  <2>4. BufferTypes'
    BY <2>3 DEF IInv, Types, BufferTypes
  <2>5. RingTypes' /\ MapTypes'
    BY <2>1, <2>3 DEF IInv, Types, RingTypes, MapTypes
  <2>6. LcoreTypes'
    BY <1>4, <2>1, <2>2, <2>3 DEF IInv, Types, LcoreTypes
  <2>7. Types'
    BY <2>4, <2>5, <2>6 DEF IInv, Types
  <2>8. Ready(l)'
    BY <2>1, <2>2, <2>3 DEF Ready, InDriver, Labels
  <2>9. ASSUME NEW q \in Ports
        PROVE  Len(tx_mbufs'[l][q]) <= MAX_PKT_BURST /\ Len(tx_mbufs'[l][q]) # MAX_PKT_BURST
    <3>1. CASE q = p
      BY <1>1, <1>4, <1>6, <3>1, SizesAssumption
    <3>2. CASE q # p
      <4>1. tx_mbufs'[l][q] = tx_mbufs[l][q]
        BY <1>4, <3>2
      <4>. QED BY <1>1, <4>1, SizesAssumption
    <3>. QED BY <3>1, <3>2
  <2>10. Bounded(l)'
    BY <2>9 DEF Bounded, Full
  <2>. QED BY <1>4, <2>1, <2>2, <2>7, <2>8, <2>10, OneLcore
<1>. QED BY <1>5, <1>6

(* A finished packet leaves the burst; the lcore goes on if there are more. *)
LEMMA NextPacket ==
  ASSUME IInv, NEW l \in Lcores, pkts_burst[l] # <<>>, DoneWithPacket(l)
  PROVE  /\ pkts_burst' \in [Lcores -> Seq(PacketMbufs)]
         /\ \A k \in Lcores \ {l} : pkts_burst'[k] = pkts_burst[k]
         /\ pkts_burst'[l] = Tail(pkts_burst[l])
         /\ \A k \in DOMAIN pkts_burst'[l] : frame[pkts_burst'[l][k]] \in FrameSet
         /\ Resume(l) \in Labels \cap {"rx", "learn"}
         /\ Resume(l) \in Pipeline => pkts_burst'[l] # <<>>
<1>1. pkts_burst \in [Lcores -> Seq(PacketMbufs)] /\ pkts_burst[l] \in Seq(PacketMbufs)
  BY DEF IInv, Types, LcoreTypes
<1>2. /\ Tail(pkts_burst[l]) \in Seq(PacketMbufs)
      /\ Tail(pkts_burst[l]) = <<>> <=> Len(pkts_burst[l]) = 1
      /\ DOMAIN Tail(pkts_burst[l]) = 1 .. Len(pkts_burst[l]) - 1
      /\ \A k \in 1 .. Len(pkts_burst[l]) - 1 : Tail(pkts_burst[l])[k] = pkts_burst[l][k + 1]
      /\ Len(pkts_burst[l]) \in Nat \ {0} /\ DOMAIN pkts_burst[l] = 1 .. Len(pkts_burst[l])
  BY <1>1, HeadTail
<1>3. /\ pkts_burst' \in [Lcores -> Seq(PacketMbufs)]
      /\ \A k \in Lcores \ {l} : pkts_burst'[k] = pkts_burst[k]
      /\ pkts_burst'[l] = Tail(pkts_burst[l])
  BY <1>1, <1>2 DEF DoneWithPacket
<1>4. \A k \in DOMAIN pkts_burst'[l] : frame[pkts_burst'[l][k]] \in FrameSet
  <2>1. \A k \in 1 .. Len(pkts_burst[l]) : frame[pkts_burst[l][k]] \in FrameSet
    BY <1>2 DEF IInv, Ready
  <2>2. ASSUME NEW k \in 1 .. Len(pkts_burst[l]) - 1
        PROVE  frame[Tail(pkts_burst[l])[k]] \in FrameSet
    <3>1. k + 1 \in 1 .. Len(pkts_burst[l]) /\ Tail(pkts_burst[l])[k] = pkts_burst[l][k + 1]
      BY <1>2
    <3>. QED BY <2>1, <3>1
  <2>. QED BY <1>2, <1>3, <2>2
<1>5. Resume(l) \in Labels \cap {"rx", "learn"} /\ (Resume(l) = "rx" <=> Len(pkts_burst[l]) = 1)
  BY DEF Resume, Labels, PCs
<1>6. Resume(l) \in Pipeline => pkts_burst'[l] # <<>>
  BY <1>2, <1>3, <1>5 DEF Pipeline
<1>. QED BY <1>3, <1>4, <1>5, <1>6

(* The packet the lcore is working on. *)
LEMMA CurrentPacket ==
  ASSUME IInv, NEW l \in Lcores, pkts_burst[l] # <<>>
  PROVE  /\ Current(l) \in PacketMbufs /\ Current(l) \in Mbufs
         /\ frame[Current(l)] \in FrameSet
         /\ Current(l) = pkts_burst[l][1] /\ 1 \in DOMAIN pkts_burst[l]
<1>1. pkts_burst[l] \in Seq(PacketMbufs)
  BY DEF IInv, Types, LcoreTypes
<1>2. /\ Len(pkts_burst[l]) \in Nat \ {0} /\ DOMAIN pkts_burst[l] = 1 .. Len(pkts_burst[l])
      /\ Current(l) \in PacketMbufs /\ Current(l) = pkts_burst[l][1]
  BY <1>1, HeadTail DEF Current
<1>3. 1 \in DOMAIN pkts_burst[l]
  BY <1>2
<1>. QED BY <1>2, <1>3, MbufsAssumption DEF IInv, Ready

(* rte_pktmbuf_prepend and rte_pktmbuf_adj keep the types.                  *)
LEMMA HeaderTypes ==
  ASSUME IInv, NEW m \in PacketMbufs
  PROVE  /\ \A h \in Headers : Prepend(m, h) => hdrs' \in [PacketMbufs -> Seq(Headers)]
         /\ Adjust(m) => hdrs' \in [PacketMbufs -> Seq(Headers)]
<1>1. hdrs \in [PacketMbufs -> Seq(Headers)] /\ hdrs[m] \in Seq(Headers)
  BY DEF IInv, Types, BufferTypes
<1>2. \A h \in Headers : <<h>> \o hdrs[m] \in Seq(Headers)
  BY <1>1
<1>3. (IF hdrs[m] = <<>> THEN hdrs[m] ELSE Tail(hdrs[m])) \in Seq(Headers)
  BY <1>1
<1>. QED BY <1>1, <1>2, <1>3 DEF Prepend, Adjust

LEMMA Empty ==
  ASSUME NEW S, NEW s \in Seq(S)
  PROVE  s = <<>> <=> Len(s) = 0
OBVIOUS

(* The driver returns the posted mbuf and posts another.                    *)
LEMMA Received ==
  ASSUME IInv, NEW l \in Lcores, RxPacket(l)
  PROVE  \E p \in Ports, f \in Frames, nmb \in PacketMbufs :
           /\ rxq[p][1] \in PacketMbufs
           /\ f.port = p /\ heap.free[nmb] > 0
           /\ heap' = [RawAlloc(heap, nmb) EXCEPT !.next[rxq[p][1]] = Null]
           /\ frame' = [frame EXCEPT ![rxq[p][1]] = FrameOf(f, received + 1)]
           /\ FrameOf(f, received + 1) \in FrameSet
           /\ hdrs' = [hdrs EXCEPT ![rxq[p][1]] = <<>>]
           /\ pkts_burst' = [pkts_burst EXCEPT ![l] = Append(@, rxq[p][1])]
           /\ rxq' = [rxq EXCEPT ![p] = <<nmb>>]
           /\ received' = received + 1 /\ received + 1 \in 1 .. MaxFrames
           /\ pc[l] = "rx"
           /\ UNCHANGED <<txq, l2_addr_map_, tx_mbufs, pc, rxIndex, entry, portid, tx_id, after,
                          elapsed, crashed>>
<1>. DEFINE p == rx_queue_list[l][rxIndex[l]]
            rxm == Head(rxq[p])
<1>1. PICK f \in Frames, nmb \in Available(heap, PacketMbufs) :
        /\ f.port = p
        /\ heap' = [RawAlloc(heap, nmb) EXCEPT !.next[rxm] = Null]
        /\ frame' = [frame EXCEPT ![rxm] = FrameOf(f, received + 1)]
        /\ hdrs' = [hdrs EXCEPT ![rxm] = <<>>]
        /\ pkts_burst' = [pkts_burst EXCEPT ![l] = Append(@, rxm)]
        /\ rxq' = [rxq EXCEPT ![p] = Append(Tail(@), nmb)]
  BY DEF RxPacket
<1>2. /\ received < MaxFrames /\ received' = received + 1 /\ pc[l] = "rx"
      /\ rxIndex[l] <= Len(rx_queue_list[l])
      /\ UNCHANGED <<txq, l2_addr_map_, tx_mbufs, pc, rxIndex, entry, portid, tx_id, after,
                     elapsed, crashed>>
  BY DEF RxPacket, At
<1>3. p \in Ports /\ nmb \in PacketMbufs /\ heap.free[nmb] > 0
  BY <1>1, Configured DEF Available, IInv, Types
<1>. HIDE DEF p
<1>4. rxq[p] \in Seq(PacketMbufs) /\ Len(rxq[p]) = 1
  BY <1>3 DEF IInv, Types, RingTypes
<1>5. rxm \in PacketMbufs /\ rxm = rxq[p][1] /\ Append(Tail(rxq[p]), nmb) = <<nmb>>
  <2>1. rxq[p] # <<>>
    <3>1. Len(<<>>) = 0
      OBVIOUS
    <3>2. 0 # 1
      OBVIOUS
    <3>. QED BY <1>4, <3>1, <3>2
  <2>2. /\ rxm \in PacketMbufs /\ rxm = rxq[p][1]
        /\ Tail(rxq[p]) = <<>>
    BY <1>4, <2>1, HeadTail
  <2>3. Append(<<>>, nmb) = <<nmb>>
    OBVIOUS
  <2>. QED BY <2>2, <2>3
<1>6. rxq' = [rxq EXCEPT ![p] = <<nmb>>]
  BY <1>1, <1>5
<1>7. received + 1 \in 1 .. MaxFrames
  BY <1>2, Configured DEF IInv, Types, BufferTypes
<1>8. FrameOf(f, received + 1) \in FrameSet
  BY <1>7 DEF FrameSet
<1>9. /\ rxq[p][1] \in PacketMbufs
      /\ heap' = [RawAlloc(heap, nmb) EXCEPT !.next[rxq[p][1]] = Null]
      /\ frame' = [frame EXCEPT ![rxq[p][1]] = FrameOf(f, received + 1)]
      /\ hdrs' = [hdrs EXCEPT ![rxq[p][1]] = <<>>]
      /\ pkts_burst' = [pkts_burst EXCEPT ![l] = Append(@, rxq[p][1])]
  BY <1>1, <1>5
<1>. HIDE DEF rxm
<1>. QED BY <1>1, <1>2, <1>3, <1>6, <1>7, <1>8, <1>9

LEMMA RxPacketStep ==
  ASSUME IInv, NEW l \in Lcores, UNCHANGED conf, RxPacket(l)
  PROVE  IInv'
<1>1. PICK p \in Ports, f \in Frames, nmb \in PacketMbufs :
        /\ rxq[p][1] \in PacketMbufs
        /\ f.port = p /\ heap.free[nmb] > 0
        /\ heap' = [RawAlloc(heap, nmb) EXCEPT !.next[rxq[p][1]] = Null]
        /\ frame' = [frame EXCEPT ![rxq[p][1]] = FrameOf(f, received + 1)]
        /\ FrameOf(f, received + 1) \in FrameSet
        /\ hdrs' = [hdrs EXCEPT ![rxq[p][1]] = <<>>]
        /\ pkts_burst' = [pkts_burst EXCEPT ![l] = Append(@, rxq[p][1])]
        /\ rxq' = [rxq EXCEPT ![p] = <<nmb>>]
        /\ received' = received + 1 /\ received + 1 \in 1 .. MaxFrames
        /\ pc[l] = "rx"
        /\ UNCHANGED <<txq, l2_addr_map_, tx_mbufs, pc, rxIndex, entry, portid, tx_id, after,
                       elapsed, crashed>>
  BY Received
<1>. DEFINE rxm == rxq[p][1]
<1>2. rxm \in PacketMbufs /\ rxm \in Mbufs /\ nmb \in Mbufs
  BY <1>1, MbufsAssumption
<1>3. FrameSet' = FrameSet /\ Keys' = Keys /\ MaxFrames' = MaxFrames
  BY SameConfiguration
<1>4. heap' \in HeapType
  BY <1>1, <1>2, AllocTypes DEF IInv, Types, BufferTypes
<1>5. /\ frame' \in [PacketMbufs -> FrameSet \cup {Null}]
      /\ \A m \in PacketMbufs : frame[m] \in FrameSet => frame'[m] \in FrameSet
      /\ frame'[rxm] \in FrameSet
  BY <1>1, <1>2 DEF IInv, Types, BufferTypes
<1>6. hdrs' \in [PacketMbufs -> Seq(Headers)]
  <2>1. <<>> \in Seq(Headers)
    OBVIOUS
  <2>. QED BY <1>1, <2>1 DEF IInv, Types, BufferTypes
<1>7. received' \in 0 .. MaxFrames
  BY <1>1
<1>8. BufferTypes'
  BY <1>3, <1>4, <1>5, <1>6, <1>7 DEF BufferTypes, Headers
<1>9. RingTypes'
  <2>1. <<nmb>> \in Seq(PacketMbufs) /\ Len(<<nmb>>) = 1
    OBVIOUS
  <2>2. rxq' \in [Ports -> Seq(PacketMbufs)] /\ \A q \in Ports : Len(rxq'[q]) = 1
    BY <1>1, <2>1 DEF IInv, Types, RingTypes
  <2>3. txq' = txq
    BY <1>1
  <2>. QED BY <2>2, <2>3 DEF IInv, Types, RingTypes
<1>. HIDE DEF rxm
<1>10. /\ Append(pkts_burst[l], rxm) \in Seq(PacketMbufs)
       /\ DOMAIN Append(pkts_burst[l], rxm) = 1 .. Len(pkts_burst[l]) + 1
       /\ DOMAIN pkts_burst[l] = 1 .. Len(pkts_burst[l]) /\ Len(pkts_burst[l]) \in Nat
       /\ \A k \in 1 .. Len(pkts_burst[l]) : Append(pkts_burst[l], rxm)[k] = pkts_burst[l][k]
       /\ Append(pkts_burst[l], rxm)[Len(pkts_burst[l]) + 1] = rxm
       /\ Append(pkts_burst[l], rxm) # <<>>
  <2>1. pkts_burst[l] \in Seq(PacketMbufs)
    BY DEF IInv, Types, LcoreTypes
  <2>. QED BY <1>2, <2>1, Appended
<1>11. /\ pkts_burst' \in [Lcores -> Seq(PacketMbufs)]
       /\ pkts_burst'[l] = Append(pkts_burst[l], rxm)
       /\ \A k \in Lcores \ {l} : pkts_burst'[k] = pkts_burst[k]
  BY <1>1, <1>10 DEF IInv, Types, LcoreTypes, rxm
<1>12. LcoreTypes'
  BY <1>1, <1>3, <1>11 DEF IInv, Types, LcoreTypes
<1>13. Types'
  BY <1>1, <1>3, <1>8, <1>9, <1>12 DEF IInv, Types, MapTypes
<1>14. Ready(l)'
  <2>1. ASSUME NEW k \in DOMAIN pkts_burst'[l] PROVE frame'[pkts_burst'[l][k]] \in FrameSet
    <3>1. CASE k = Len(pkts_burst[l]) + 1
      BY <1>5, <1>10, <1>11, <3>1
    <3>2. CASE k # Len(pkts_burst[l]) + 1
      <4>1. k \in 1 .. Len(pkts_burst[l])
        BY <1>10, <1>11, <3>2
      <4>2. pkts_burst'[l][k] = pkts_burst[l][k]
        BY <1>10, <1>11, <4>1
      <4>3. frame[pkts_burst[l][k]] \in FrameSet /\ pkts_burst[l][k] \in PacketMbufs
        BY <1>10, <4>1 DEF IInv, Types, LcoreTypes, Ready
      <4>. QED BY <1>5, <4>2, <4>3
    <3>. QED BY <3>1, <3>2
  <2>. QED BY <1>1, <1>3, <2>1 DEF Ready, InDriver, Pipeline
<1>15. Bounded(l)'
  BY <1>1 DEF IInv, Bounded, Full, InDriver
<1>. QED BY <1>1, <1>5, <1>11, <1>13, <1>14, <1>15, OneLcore

(* A descriptor's number, and the next ones.                                *)
LEMMA DescTypes ==
  ASSUME NEW d \in Descs
  PROVE  /\ NextDesc(d) \in Descs
         /\ \A k \in Int : (d + k) % NbTxDesc \in Descs
<1>1. NbTxDesc \in Nat \ {0} /\ d \in Int
  BY SizesAssumption DEF Descs
<1>2. \A x \in Int : x % NbTxDesc \in Descs
  BY <1>1 DEF Descs
<1>. QED BY <1>1, <1>2 DEF NextDesc

(* What the driver puts in a queue. *)
Put(f, d, v) == [f EXCEPT ![d] = v]
LEMMA FillIs ==
  ASSUME heap \in HeapType, NEW q \in TxQueues, NEW d \in Descs, NEW m \in Mbufs,
         NbSegs(heap, m) <= q.nb_tx_free
  PROVE  /\ Fill(q, d, m) \in TxQueues
         /\ Fill(q, d, m).tx_tail = q.tx_tail /\ Fill(q, d, m).head = q.head
         /\ Fill(q, d, m).last_desc_cleaned = q.last_desc_cleaned
         /\ Fill(q, d, m).nb_tx_free = q.nb_tx_free - NbSegs(heap, m)
         /\ Fill(q, d, m).sw_ring =
              IF heap.next[m] = Null THEN Put(q.sw_ring, d, m)
                ELSE Put(Put(q.sw_ring, d, m), NextDesc(d), heap.next[m])
<1>. DEFINE ring == IF heap.next[m] = Null THEN [q.sw_ring EXCEPT ![d] = m]
                      ELSE [[q.sw_ring EXCEPT ![d] = m] EXCEPT ![NextDesc(d)] = heap.next[m]]
            free == q.nb_tx_free - NbSegs(heap, m)
<1>1. heap.next[m] \in Mbufs \cup {Null} /\ q.sw_ring \in [Descs -> Mbufs \cup {Null}]
  BY DEF HeapType, TxQueues
<1>2. NextDesc(d) \in Descs
  BY DescTypes
<1>3. ring \in [Descs -> Mbufs \cup {Null}]
  BY <1>1, <1>2
<1>4. q.nb_tx_free \in Nat /\ NbSegs(heap, m) \in {1, 2}
  BY DEF NbSegs, TxQueues
<1>5. free \in Nat
  BY <1>4
<1>6. Fill(q, d, m) = [q EXCEPT !.sw_ring = ring, !.nb_tx_free = free]
  BY DEF Fill
<1>. HIDE DEF ring, free
<1>7. /\ Fill(q, d, m) \in TxQueues
      /\ Fill(q, d, m).tx_tail = q.tx_tail /\ Fill(q, d, m).head = q.head
      /\ Fill(q, d, m).last_desc_cleaned = q.last_desc_cleaned
      /\ Fill(q, d, m).nb_tx_free = free
      /\ Fill(q, d, m).sw_ring = ring
  BY <1>3, <1>5, <1>6 DEF TxQueues
<1>. QED BY <1>7 DEF ring, free, Put

LEMMA FillTypes ==
  ASSUME heap \in HeapType, NEW q \in TxQueues, NEW d \in Descs, NEW m \in Mbufs,
         NbSegs(heap, m) <= q.nb_tx_free
  PROVE  /\ Fill(q, d, m) \in TxQueues
         /\ Fill(q, d, m).tx_tail = q.tx_tail /\ Fill(q, d, m).head = q.head
         /\ Fill(q, d, m).last_desc_cleaned = q.last_desc_cleaned
         /\ Fill(q, d, m).nb_tx_free = q.nb_tx_free - NbSegs(heap, m)
BY FillIs

(* A lcore in the driver: its port, and the buffer being sent.              *)
LEMMA DriverAt ==
  ASSUME IInv, NEW l \in Lcores, InDriver(l)
  PROVE  /\ portid[l] \in Ports /\ portid[l] \in Nat
         /\ Sending(l) = tx_mbufs[l][portid[l]] /\ Sending(l) \in Seq(Mbufs)
         /\ txq[portid[l]] \in TxQueues /\ tx_id[l] \in Descs
         /\ after[l] \in Labels
         /\ \A p \in Ports \ {portid[l]} :
              Len(tx_mbufs[l][p]) <= MAX_PKT_BURST /\ Len(tx_mbufs[l][p]) # MAX_PKT_BURST
BY DEF IInv, Types, RingTypes, LcoreTypes, Ready, Bounded, Full, Sending

(* The first packet of the buffer being sent leaves it. *)
LEMMA SendingStep ==
  ASSUME IInv, NEW l \in Lcores, InDriver(l), Sending(l) # <<>>,
         Remaining(l, Tail(Sending(l))),
         NEW label \in {"tx", "unsent", after[l]}, pc' = [pc EXCEPT ![l] = label],
         label = "unsent" => Tail(Sending(l)) # <<>>,
         UNCHANGED <<conf, frame, hdrs, rxq, l2_addr_map_, rxIndex, pkts_burst, entry, portid,
                     after, elapsed, crashed, received>>,
         heap' \in HeapType, txq' \in [Ports -> TxQueues], tx_id' \in [Lcores -> Descs]
  PROVE  IInv'
<1>. DEFINE p == portid[l]
            s == Sending(l)
<1>1. /\ p \in Ports /\ s \in Seq(Mbufs) /\ after[l] \in Labels
      /\ tx_mbufs \in [Lcores -> [Ports -> Seq(Mbufs)]] /\ s = tx_mbufs[l][p]
  BY DriverAt DEF IInv, Types, LcoreTypes
<1>2. /\ Tail(s) \in Seq(Mbufs) /\ Len(Tail(s)) = Len(s) - 1 /\ Len(s) \in Nat \ {0}
  BY <1>1, HeadTail
<1>3. tx_mbufs' = [tx_mbufs EXCEPT ![l][p] = Tail(s)]
  BY DEF Remaining
<1>4. /\ tx_mbufs' \in [Lcores -> [Ports -> Seq(Mbufs)]]
      /\ \A k \in Lcores, q \in Ports : k # l \/ q # p => tx_mbufs'[k][q] = tx_mbufs[k][q]
      /\ \A k \in Lcores \ {l} : tx_mbufs'[k] = tx_mbufs[k]
      /\ tx_mbufs'[l][p] = Tail(s)
  <2>. HIDE DEF s, p
  <2>. QED BY <1>1, <1>2, <1>3, BufferAt
<1>5. /\ pc' \in [Lcores -> PCs] /\ pc'[l] = label
      /\ \A k \in Lcores \ {l} : pc'[k] = pc[k]
  BY <1>1 DEF IInv, Types, LcoreTypes, Labels, PCs
<1>6. FrameSet' = FrameSet /\ Keys' = Keys /\ MaxFrames' = MaxFrames
  BY SameConfiguration
<1>7. BufferTypes'
  BY <1>6 DEF IInv, Types, BufferTypes, Headers
<1>8. RingTypes' /\ MapTypes'
  BY <1>6 DEF IInv, Types, RingTypes, MapTypes
<1>9. LcoreTypes'
  BY <1>4, <1>5, <1>6 DEF IInv, Types, LcoreTypes
<1>10. Types'
  BY <1>7, <1>8, <1>9 DEF IInv, Types
<1>11. Ready(l)'
  <2>1. Ready(l)
    BY DEF IInv
  <2>2. CASE label \in {"tx", "unsent"}
    BY <1>4, <1>5, <1>6, <2>1, <2>2 DEF Ready, InDriver, Pipeline
  <2>3. CASE label = after[l]
    BY <1>1, <1>5, <1>6, <2>1, <2>3 DEF Ready, InDriver, Labels
  <2>. QED BY <2>2, <2>3
<1>12. Bounded(l)'
  <2>1. Len(s) <= MAX_PKT_BURST
    BY <1>1 DEF IInv, Bounded
  <2>2. \A q \in Ports \ {p} : /\ tx_mbufs'[l][q] = tx_mbufs[l][q]
                              /\ Len(tx_mbufs[l][q]) <= MAX_PKT_BURST
                              /\ Len(tx_mbufs[l][q]) # MAX_PKT_BURST
    BY <1>4, DriverAt
  <2>3. Len(tx_mbufs'[l][p]) <= MAX_PKT_BURST /\ Len(tx_mbufs'[l][p]) # MAX_PKT_BURST
    <3>. HIDE DEF s, p
    <3>1. Len(tx_mbufs'[l][p]) = Len(s) - 1
      BY <1>2, <1>4
    <3>2. Len(s) \in Nat /\ MAX_PKT_BURST \in Nat
      BY <1>2, SizesAssumption
    <3>. QED BY <2>1, <3>1, <3>2
  <2>. QED BY <2>2, <2>3 DEF Bounded, Full
<1>. QED BY <1>4, <1>5, <1>10, <1>11, <1>12, OneLcore

LEMMA TxPacketStep ==
  ASSUME IInv, NEW l \in Lcores, UNCHANGED conf, TxPacket(l)
  PROVE  IInv'
<1>. DEFINE p == portid[l]
            d == tx_id[l]
            m == Head(Sending(l))
<1>1. pc[l] = "tx" /\ InDriver(l) /\ Sending(l) # <<>> /\ Remaining(l, Tail(Sending(l)))
      /\ UNCHANGED <<frame, hdrs, rxq, l2_addr_map_, pc, rxIndex, pkts_burst, entry, portid,
                     after, elapsed, crashed, received>>
  BY DEF TxPacket, At, InDriver
<1>2. p \in Ports /\ txq[p] \in TxQueues /\ d \in Descs /\ m \in Mbufs /\ heap \in HeapType
  <2>1. Sending(l) \in Seq(Mbufs)
    BY <1>1, DriverAt
  <2>. QED BY <1>1, <2>1, DriverAt, HeadTail DEF IInv, Types, BufferTypes
<1>3. /\ NbSegs(heap, m) <= txq[p].nb_tx_free
      /\ txq' = [txq EXCEPT ![p] = Fill(txq[p], d, m)]
      /\ heap' = IF heap.next[m] = Null THEN FreeEntry(heap, txq[p].sw_ring[d])
                   ELSE FreeEntry(FreeEntry(heap, txq[p].sw_ring[d]), txq[p].sw_ring[NextDesc(d)])
      /\ tx_id' = [tx_id EXCEPT ![l] = (d + NbSegs(heap, m)) % NbTxDesc]
  BY DEF TxPacket
<1>. HIDE DEF p, d, m
<1>4. heap' \in HeapType
  <2>1. txq[p].sw_ring[d] \in Mbufs \cup {Null} /\ txq[p].sw_ring[NextDesc(d)] \in Mbufs \cup {Null}
    BY <1>2, DescTypes DEF TxQueues
  <2>. QED BY <1>2, <1>3, <2>1, EntryTypes
<1>5. txq' \in [Ports -> TxQueues]
  BY <1>2, <1>3, FillTypes DEF IInv, Types, RingTypes
<1>6. tx_id' \in [Lcores -> Descs]
  <2>1. (d + NbSegs(heap, m)) % NbTxDesc \in Descs
    BY <1>2, DescTypes DEF NbSegs
  <2>. QED BY <1>3, <2>1 DEF IInv, Types, LcoreTypes
<1>7. pc' = [pc EXCEPT ![l] = "tx"]
  BY <1>1 DEF IInv, Types, LcoreTypes
<1>. QED BY <1>1, <1>4, <1>5, <1>6, <1>7, SendingStep

LEMMA FreeUnsentStep ==
  ASSUME IInv, NEW l \in Lcores, UNCHANGED conf, FreeUnsent(l)
  PROVE  IInv'
<1>1. pc[l] = "unsent" /\ InDriver(l) /\ Remaining(l, Tail(Sending(l)))
      /\ heap' = FreePacket(heap, Head(Sending(l)))
      /\ Goto(l, IF Len(Sending(l)) = 1 THEN after[l] ELSE "unsent")
      /\ UNCHANGED <<frame, hdrs, rxq, txq, l2_addr_map_, rxIndex, pkts_burst, entry, portid,
                     tx_id, after, elapsed, crashed, received>>
  BY DEF FreeUnsent, At, InDriver
<1>2. Sending(l) # <<>> /\ Sending(l) \in Seq(Mbufs)
  BY <1>1, DriverAt DEF IInv, Ready
<1>3. Head(Sending(l)) \in Mbufs /\ (Tail(Sending(l)) = <<>> <=> Len(Sending(l)) = 1)
  BY <1>2, HeadTail
<1>4. /\ heap' \in HeapType /\ txq' \in [Ports -> TxQueues] /\ tx_id' \in [Lcores -> Descs]
  BY <1>1, <1>3, FreeTypes DEF IInv, Types, BufferTypes, RingTypes, LcoreTypes
<1>5. PICK label \in {"tx", "unsent", after[l]} :
        /\ pc' = [pc EXCEPT ![l] = label]
        /\ label = "unsent" => Tail(Sending(l)) # <<>>
  <2>1. CASE Len(Sending(l)) = 1
    <3>1. after[l] # "unsent"
      BY <1>1, DriverAt DEF Labels
    <3>. QED BY <1>1, <2>1, <3>1 DEF Goto
  <2>2. CASE Len(Sending(l)) # 1
    BY <1>1, <1>3, <2>2 DEF Goto
  <2>. QED BY <2>1, <2>2
<1>. QED BY <1>1, <1>2, <1>4, <1>5, SendingStep

LEMMA TxEndStep ==
  ASSUME IInv, NEW l \in Lcores, UNCHANGED conf, TxEnd(l)
  PROVE  IInv'
<1>. DEFINE p == portid[l]
            label == IF Sending(l) = <<>> THEN after[l] ELSE "unsent"
<1>1. pc[l] = "tx" /\ InDriver(l) /\ pc' = [pc EXCEPT ![l] = label]
      /\ txq' = [txq EXCEPT ![p].tx_tail = tx_id[l]]
      /\ UNCHANGED <<buffers, rxq, l2_addr_map_, tx_mbufs, rxIndex, pkts_burst, entry, portid,
                     tx_id, after, elapsed, crashed, received>>
  BY DEF TxEnd, At, InDriver, Goto
<1>2. /\ p \in Ports /\ txq[p] \in TxQueues /\ tx_id[l] \in Descs /\ after[l] \in Labels
      /\ Sending(l) \in Seq(Mbufs) /\ Sending(l) = tx_mbufs[l][p]
      /\ \A q \in Ports \ {p} :
           Len(tx_mbufs[l][q]) <= MAX_PKT_BURST /\ Len(tx_mbufs[l][q]) # MAX_PKT_BURST
  BY <1>1, DriverAt
<1>3. txq' \in [Ports -> TxQueues]
  <2>1. [txq[p] EXCEPT !.tx_tail = tx_id[l]] \in TxQueues
    BY <1>2 DEF TxQueues
  <2>2. txq' = [txq EXCEPT ![p] = [txq[p] EXCEPT !.tx_tail = tx_id[l]]]
    BY <1>1
  <2>. HIDE DEF p
  <2>. QED BY <2>1, <2>2 DEF IInv, Types, RingTypes
<1>4. pc' \in [Lcores -> PCs] /\ pc'[l] = label /\ label \in PCs
      /\ \A k \in Lcores \ {l} : pc'[k] = pc[k]
  BY <1>1, <1>2 DEF IInv, Types, LcoreTypes, Labels, PCs
<1>5. FrameSet' = FrameSet /\ Keys' = Keys /\ MaxFrames' = MaxFrames
  BY SameConfiguration
<1>6. BufferTypes'
  BY <1>1, <1>5 DEF IInv, Types, BufferTypes, buffers, Headers
<1>7. RingTypes' /\ MapTypes'
  BY <1>1, <1>3, <1>5 DEF IInv, Types, RingTypes, MapTypes
<1>8. LcoreTypes'
  BY <1>1, <1>4, <1>5 DEF IInv, Types, LcoreTypes
<1>9. Types'
  BY <1>6, <1>7, <1>8 DEF IInv, Types
<1>10. Ready(l)'
  <2>1. Ready(l)
    BY DEF IInv
  <2>2. CASE Sending(l) = <<>>
    BY <1>1, <1>2, <1>4, <1>5, <2>1, <2>2 DEF Ready, InDriver, Labels, buffers
  <2>3. CASE Sending(l) # <<>>
    BY <1>1, <1>2, <1>4, <1>5, <2>1, <2>3 DEF Ready, InDriver, Pipeline, buffers
  <2>. QED BY <2>2, <2>3
<1>11. Bounded(l)'
  <2>1. CASE Sending(l) = <<>>
    <3>1. Len(tx_mbufs[l][p]) = 0
      BY <1>2, <2>1, Empty
    <3>2. \A q \in Ports : Len(tx_mbufs'[l][q]) <= MAX_PKT_BURST /\ Len(tx_mbufs'[l][q]) # MAX_PKT_BURST
      BY <1>1, <1>2, <3>1, SizesAssumption
    <3>. QED BY <3>2 DEF Bounded, Full
  <2>2. CASE Sending(l) # <<>>
    BY <1>1, <1>4, <2>2 DEF IInv, Bounded, Full, InDriver
  <2>. QED BY <2>1, <2>2
<1>. QED BY <1>1, <1>4, <1>9, <1>10, <1>11, OneLcore DEF buffers

(* The steps of the loop that neither receive nor send.                     *)
LEMMA LoopSteps ==
  ASSUME IInv, NEW l \in Lcores, UNCHANGED conf,
         LoopTop(l) \/ DrainDone(l) \/ RxDone(l) \/ LoopEnd(l)
  PROVE  IInv'
<1>1. PICK label \in {"drain", "rx", "learn", "loop"} :
        /\ pc[l] \in {"loop", "drain", "rx"} /\ Goto(l, label)
        /\ UNCHANGED <<conf, buffers, rxq, txq, received, tx_mbufs, after, tx_id, crashed, entry,
                       l2_addr_map_, pkts_burst>>
        /\ portid' \in {portid, [portid EXCEPT ![l] = 0]}
        /\ elapsed' \in {elapsed, [elapsed EXCEPT ![l] = FALSE]}
        /\ rxIndex' \in {rxIndex, [rxIndex EXCEPT ![l] = 1], [rxIndex EXCEPT ![l] = @ + 1]}
        /\ label = "learn" => pkts_burst[l] # <<>>
  BY DEF LoopTop, DrainDone, RxDone, LoopEnd, At
<1>2. /\ label \in Labels /\ ~InDriver(l)
      /\ label \in Pipeline => label = "learn"
  BY <1>1 DEF Labels, PCs, Pipeline, InDriver
<1>3. /\ heap' \in HeapType /\ hdrs' \in [PacketMbufs -> Seq(Headers)] /\ MapTypes'
      /\ entry' \in [Lcores -> (Keys \X Ports) \cup {Null}] /\ pkts_burst' \in [Lcores -> Seq(PacketMbufs)]
      /\ \A k \in DOMAIN pkts_burst'[l] : frame[pkts_burst'[l][k]] \in FrameSet
  BY <1>1, SameConfiguration
     DEF IInv, Types, BufferTypes, MapTypes, LcoreTypes, Ready, buffers
<1>4. /\ portid' \in [Lcores -> Nat] /\ \A k \in Lcores \ {l} : portid'[k] = portid[k]
      /\ elapsed' \in [Lcores -> BOOLEAN] /\ rxIndex' \in [Lcores -> Nat]
  <2>1. /\ portid \in [Lcores -> Nat] /\ elapsed \in [Lcores -> BOOLEAN]
        /\ rxIndex \in [Lcores -> Nat]
    BY DEF IInv, Types, LcoreTypes
  <2>2. portid' \in [Lcores -> Nat] /\ \A k \in Lcores \ {l} : portid'[k] = portid[k]
    BY <1>1, <2>1
  <2>3. elapsed' \in [Lcores -> BOOLEAN]
    BY <1>1, <2>1
  <2>4. rxIndex' \in [Lcores -> Nat]
    <3>1. rxIndex[l] \in Nat /\ rxIndex[l] + 1 \in Nat /\ 1 \in Nat
      BY <2>1
    <3>. QED BY <1>1, <2>1, <3>1
  <2>. QED BY <2>2, <2>3, <2>4
<1>. QED BY <1>1, <1>2, <1>3, <1>4, PlainStep DEF buffers

(* Once the process has died only crashed has changed. *)
LEMMA CrashStep ==
  ASSUME IInv, UNCHANGED conf, Crash
  PROVE  IInv'
<1>1. FrameSet' = FrameSet /\ Keys' = Keys /\ MaxFrames' = MaxFrames
  BY SameConfiguration
<1>2. Types'
  BY <1>1 DEF Crash, IInv, Types, BufferTypes, RingTypes, MapTypes, LcoreTypes, buffers, lcore
<1>3. ASSUME NEW l \in Lcores PROVE Ready(l)' /\ Bounded(l)'
  BY <1>1, <1>3 DEF Crash, IInv, Ready, Bounded, Full, InDriver, buffers, lcore
<1>. QED BY <1>2, <1>3 DEF IInv

(* What the address table answers. *)
LEMMA LookupTypes ==
  ASSUME IInv, NEW l \in Lcores, NEW k \in Keys
  PROVE  Lookup(l, k) \subseteq Ports \cup {Absent}
BY DEF Lookup, Known

(* What an insertion leaves in the table: with no other lcore in insert it  *)
(* adds its node if its key has none; otherwise nodes may be missing, and   *)
(* the table is damaged.                                                    *)
LEMMA InsertNodes ==
  ASSUME NEW l \in Lcores, Insert(l), MapTypes
  PROVE  /\ l2_addr_map_' \in [nodes : SUBSET (l2_addr_map_.nodes \cup {entry[l]}),
                               damaged : BOOLEAN]
         /\ l2_addr_map_.damaged => l2_addr_map_'.damaged
         /\ ~l2_addr_map_'.damaged \/ ~Unsafe(l) =>
              /\ l2_addr_map_'.damaged = l2_addr_map_.damaged
              /\ l2_addr_map_'.nodes = IF Known(entry[l][1]) = {}
                                         THEN l2_addr_map_.nodes \cup {entry[l]}
                                         ELSE l2_addr_map_.nodes
<1>. DEFINE linked == l2_addr_map_.nodes \cup {entry[l]}
<1>1. \/ l2_addr_map_' = IF Known(entry[l][1]) = {}
                            THEN [l2_addr_map_ EXCEPT !.nodes = linked]
                            ELSE l2_addr_map_
      \/ Unsafe(l) /\ \E nodes \in SUBSET linked :
                          l2_addr_map_' = [nodes |-> nodes, damaged |-> TRUE]
  BY DEF Insert
<1>2. CASE l2_addr_map_' = IF Known(entry[l][1]) = {}
                            THEN [l2_addr_map_ EXCEPT !.nodes = linked]
                            ELSE l2_addr_map_
  BY <1>2 DEF MapTypes
<1>3. CASE Unsafe(l) /\ \E nodes \in SUBSET linked :
                           l2_addr_map_' = [nodes |-> nodes, damaged |-> TRUE]
  BY <1>3
<1>. QED BY <1>1, <1>2, <1>3

(* component_learn and component_classify, and what passes component_enforce *)
(* and component_route.                                                     *)
LEMMA PipelineSteps ==
  ASSUME IInv, NEW l \in Lcores, UNCHANGED conf,
         Learn(l) \/ Insert(l) \/ Classify(l) \/ EnforceAllow(l)
  PROVE  IInv'
<1>. DEFINE m == Current(l)
<1>1. pc[l] \in Pipeline /\ pkts_burst[l] # <<>> /\ ~InDriver(l)
  BY DEF Learn, Insert, Classify, EnforceAllow, At, Pipeline, InDriver, IInv, Ready
<1>2. m \in PacketMbufs /\ frame[m] \in FrameSet /\ conf \in Configurations
  BY <1>1, CurrentPacket DEF IInv, Types
<1>3. frame[m].port \in Ports /\ frame[m].src \in Hosts \cup {Broadcast}
  BY <1>2, FrameFields
<1>4. /\ UNCHANGED <<conf, heap, frame, rxq, txq, received, tx_mbufs, after, tx_id, crashed,
                     portid, pkts_burst, elapsed, rxIndex>>
      /\ \A k \in Lcores \ {l} : entry'[k] = entry[k]
  BY DEF Learn, Insert, Classify, EnforceAllow, buffers, IInv, Types, LcoreTypes
<1>5. /\ heap' \in HeapType /\ pkts_burst' \in [Lcores -> Seq(PacketMbufs)]
      /\ \A k \in DOMAIN pkts_burst'[l] : frame[pkts_burst'[l][k]] \in FrameSet
      /\ portid' \in [Lcores -> Nat] /\ \A k \in Lcores \ {l} : portid'[k] = portid[k]
      /\ elapsed' \in [Lcores -> BOOLEAN] /\ rxIndex' \in [Lcores -> Nat]
      /\ pkts_burst'[l] # <<>>
  BY <1>1, <1>4 DEF IInv, Types, BufferTypes, LcoreTypes, Ready
<1>6. /\ MapTypes /\ hdrs \in [PacketMbufs -> Seq(Headers)]
      /\ entry \in [Lcores -> (Keys \X Ports) \cup {Null}] /\ Keys' = Keys
  BY SameConfiguration DEF IInv, Types, BufferTypes, MapTypes, LcoreTypes
<1>7. {"insert", "classify", "enforce", "route"} \subseteq Labels
  BY DEF Labels, PCs
<1>. HIDE DEF m
<1>8. CASE Learn(l)
  <2>1. PICK u \in UpperBytes :
          \/ Goto(l, "classify") /\ UNCHANGED entry
          \/ \E port \in Lookup(l, <<frame[m].src, u>>) :
               /\ Goto(l, IF port = Absent THEN "insert" ELSE "classify")
               /\ entry' = [entry EXCEPT ![l] = IF port = Absent
                                                 THEN <<<<frame[m].src, u>>, frame[m].port>>
                                                 ELSE Null]
    BY <1>8 DEF Learn, m
  <2>2. <<frame[m].src, u>> \in Keys
    BY <1>3 DEF Keys
  <2>3. PICK label \in {"insert", "classify"} :
          /\ Goto(l, label) /\ entry' \in [Lcores -> (Keys \X Ports) \cup {Null}]
          /\ label = "insert" => entry'[l] \in Keys \X Ports
    BY <1>3, <1>6, <2>1, <2>2
  <2>4. UNCHANGED <<hdrs, l2_addr_map_>>
    BY <1>8 DEF Learn, buffers
  <2>5. label \in Labels /\ label \notin {"flood", "flooded"} /\ MapTypes'
        /\ hdrs' \in [PacketMbufs -> Seq(Headers)]
    BY <1>6, <1>7, <2>4 DEF MapTypes
  <2>. QED BY <1>1, <1>4, <1>5, <1>6, <2>3, <2>5, PlainStep
<1>9. CASE Insert(l)
  <2>1. entry[l] \in Keys \X Ports
    BY <1>9 DEF Insert, At, IInv, Ready
  <2>2. entry' = [entry EXCEPT ![l] = Null] /\ Goto(l, "classify") /\ UNCHANGED hdrs
    BY <1>9 DEF Insert, buffers
  <2>3. MapTypes'
    BY <1>6, <1>9, <2>1, InsertNodes DEF MapTypes
  <2>4. entry' \in [Lcores -> (Keys \X Ports) \cup {Null}] /\ hdrs' \in [PacketMbufs -> Seq(Headers)]
    BY <1>6, <2>2
  <2>. QED BY <1>1, <1>4, <1>5, <1>6, <1>7, <2>2, <2>3, <2>4, PlainStep
<1>10. CASE Classify(l)
  <2>1. \E h \in Headers : Prepend(m, h)
    BY <1>10 DEF Classify, m, Headers
  <2>2. hdrs' \in [PacketMbufs -> Seq(Headers)] /\ Goto(l, "enforce") /\ UNCHANGED <<entry, l2_addr_map_>>
    BY <1>2, <1>10, <2>1, HeaderTypes DEF Classify
  <2>3. MapTypes' /\ entry' \in [Lcores -> (Keys \X Ports) \cup {Null}]
    BY <1>6, <2>2 DEF MapTypes
  <2>. QED BY <1>1, <1>4, <1>5, <1>6, <1>7, <2>2, <2>3, PlainStep
<1>11. CASE EnforceAllow(l)
  <2>1. hdrs' \in [PacketMbufs -> Seq(Headers)] /\ Goto(l, "route") /\ UNCHANGED <<entry, l2_addr_map_>>
    BY <1>2, <1>11, HeaderTypes DEF EnforceAllow, m
  <2>2. MapTypes' /\ entry' \in [Lcores -> (Keys \X Ports) \cup {Null}]
    BY <1>6, <2>1 DEF MapTypes
  <2>. QED BY <1>1, <1>4, <1>5, <1>6, <1>7, <2>1, <2>2, PlainStep
<1>. QED BY <1>8, <1>9, <1>10, <1>11

LEMMA EnforceDropStep ==
  ASSUME IInv, NEW l \in Lcores, UNCHANGED conf, EnforceDrop(l)
  PROVE  IInv'
<1>1. pkts_burst[l] # <<>> /\ ~InDriver(l)
  BY DEF EnforceDrop, At, Pipeline, InDriver, IInv, Ready
<1>2. /\ heap' = FreePacket(heap, Current(l)) /\ DoneWithPacket(l) /\ Goto(l, Resume(l))
      /\ UNCHANGED <<conf, frame, hdrs, rxq, txq, l2_addr_map_, tx_mbufs, rxIndex, entry, portid,
                     tx_id, after, elapsed, crashed, received>>
  BY DEF EnforceDrop
<1>3. heap' \in HeapType
  BY <1>1, <1>2, CurrentPacket, FreeTypes DEF IInv, Types, BufferTypes
<1>4. /\ hdrs' \in [PacketMbufs -> Seq(Headers)] /\ MapTypes'
      /\ entry' \in [Lcores -> (Keys \X Ports) \cup {Null}] /\ portid' \in [Lcores -> Nat]
      /\ elapsed' \in [Lcores -> BOOLEAN] /\ rxIndex' \in [Lcores -> Nat]
  BY <1>2, SameConfiguration DEF IInv, Types, BufferTypes, MapTypes, LcoreTypes
<1>5. Resume(l) \notin {"insert", "flood", "flooded"}
  BY DEF Resume
<1>. QED BY <1>1, <1>2, <1>3, <1>4, <1>5, NextPacket, PlainStep

LEMMA RouteStep ==
  ASSUME IInv, NEW l \in Lcores, UNCHANGED conf, Route(l)
  PROVE  IInv'
<1>1. pkts_burst[l] # <<>> /\ ~InDriver(l)
  BY DEF Route, At, Pipeline, InDriver, IInv, Ready
<1>2. /\ Current(l) \in PacketMbufs /\ frame[Current(l)] \in FrameSet /\ conf \in Configurations
  BY <1>1, CurrentPacket DEF IInv, Types
<1>3. frame[Current(l)].dst \in Hosts \cup {Broadcast}
  BY <1>2, FrameFields
<1>4. \/ Crash
      \/ \E h \in Headers : RouteTo(l, h)
  <2>1. ASSUME NEW u \in UpperBytes
        PROVE  Lookup(l, <<frame[Current(l)].dst, u>>) \subseteq Ports \cup {Absent}
    <3>1. <<frame[Current(l)].dst, u>> \in Keys
      BY <1>3 DEF Keys
    <3>. QED BY <3>1, LookupTypes
  <2>. QED BY <2>1 DEF Route, Headers
<1>5. CASE Crash
  BY <1>5, CrashStep
<1>6. ASSUME NEW h \in Headers, RouteTo(l, h) PROVE IInv'
  <2>1. /\ hdrs' \in [PacketMbufs -> Seq(Headers)] /\ Goto(l, "output")
        /\ UNCHANGED <<conf, heap, frame, rxq, txq, l2_addr_map_, tx_mbufs, rxIndex, pkts_burst,
                       entry, portid, tx_id, after, elapsed, crashed, received>>
    BY <1>2, <1>6, HeaderTypes DEF RouteTo
  <2>2. /\ heap' \in HeapType /\ MapTypes' /\ pkts_burst' \in [Lcores -> Seq(PacketMbufs)]
        /\ \A k \in DOMAIN pkts_burst'[l] : frame[pkts_burst'[l][k]] \in FrameSet
        /\ entry' \in [Lcores -> (Keys \X Ports) \cup {Null}] /\ portid' \in [Lcores -> Nat]
        /\ elapsed' \in [Lcores -> BOOLEAN] /\ rxIndex' \in [Lcores -> Nat]
        /\ "output" \in Labels
    BY <2>1, SameConfiguration DEF IInv, Types, BufferTypes, MapTypes, LcoreTypes, Ready, Labels, PCs
  <2>. QED BY <1>1, <2>1, <2>2, PlainStep
<1>. QED BY <1>4, <1>5, <1>6

(* component_output. *)
LEMMA OutputStep ==
  ASSUME IInv, NEW l \in Lcores, UNCHANGED conf, Output(l)
  PROVE  IInv'
<1>. DEFINE m == Current(l)
<1>1. /\ pkts_burst[l] # <<>> /\ ~InDriver(l) /\ Adjust(m)
      /\ UNCHANGED <<conf, frame, rxq, l2_addr_map_, rxIndex, entry, elapsed, received>>
  BY DEF Output, At, Pipeline, InDriver, IInv, Ready
<1>2. m \in PacketMbufs /\ m \in Mbufs /\ hdrs' \in [PacketMbufs -> Seq(Headers)]
  BY <1>1, CurrentPacket, HeaderTypes
<1>3. /\ heap \in HeapType /\ MapTypes' /\ pkts_burst \in [Lcores -> Seq(PacketMbufs)]
      /\ \A k \in DOMAIN pkts_burst[l] : frame[pkts_burst[l][k]] \in FrameSet
      /\ entry' \in [Lcores -> (Keys \X Ports) \cup {Null}] /\ portid \in [Lcores -> Nat]
      /\ elapsed' \in [Lcores -> BOOLEAN] /\ rxIndex' \in [Lcores -> Nat]
      /\ "flood" \in Labels
  BY <1>1, SameConfiguration DEF IInv, Types, BufferTypes, MapTypes, LcoreTypes, Ready, Labels, PCs
<1>4. Resume(l) \notin {"insert", "flood", "flooded"}
  BY DEF Resume
<1>5. CASE /\ Goto(l, "flood") /\ portid' = [portid EXCEPT ![l] = 0]
           /\ UNCHANGED <<heap, txq, tx_mbufs, pkts_burst, tx_id, after, crashed>>
  <2>1. portid' \in [Lcores -> Nat] /\ portid'[l] = 0 /\ \A k \in Lcores \ {l} : portid'[k] = portid[k]
    BY <1>3, <1>5
  <2>. QED BY <1>1, <1>2, <1>3, <1>5, <2>1, PlainStep
<1>6. CASE /\ heap' = FreePacket(heap, m) /\ DoneWithPacket(l) /\ Goto(l, Resume(l))
           /\ UNCHANGED <<txq, tx_mbufs, portid, tx_id, after, crashed>>
  <2>1. heap' \in HeapType
    BY <1>2, <1>3, <1>6, FreeTypes
  <2>. QED BY <1>1, <1>2, <1>3, <1>4, <1>6, <2>1, NextPacket, PlainStep
<1>7. CASE /\ crashed' = TRUE
           /\ UNCHANGED <<heap, txq, tx_mbufs, pkts_burst, pc, portid, tx_id, after>>
  <2>1. FrameSet' = FrameSet /\ Keys' = Keys /\ MaxFrames' = MaxFrames
    BY SameConfiguration
  <2>2. Types'
    BY <1>1, <1>2, <1>7, <2>1 DEF IInv, Types, BufferTypes, RingTypes, MapTypes, LcoreTypes
  <2>3. ASSUME NEW k \in Lcores PROVE Ready(k)' /\ Bounded(k)'
    BY <1>1, <1>7, <2>1, <2>3 DEF IInv, Ready, Bounded, Full, InDriver
  <2>. QED BY <2>2, <2>3 DEF IInv
<1>8. ASSUME NEW port \in Ports, SendSingle(l, m, port, Resume(l)), DoneWithPacket(l),
             UNCHANGED <<heap, crashed>>
      PROVE  IInv'
  BY <1>1, <1>2, <1>3, <1>4, <1>8, NextPacket, SendStep
<1>9. OutputPorts(m) \subseteq Ports \cup {FLOOD_PORT, DROP_PACKET, Absent}
  BY DEF OutputPorts, Outputs
<1>10. PICK port \in OutputPorts(m) :
         CASE port = FLOOD_PORT ->
                /\ Goto(l, "flood")
                /\ portid' = [portid EXCEPT ![l] = 0]
                /\ UNCHANGED <<heap, txq, tx_mbufs, pkts_burst, tx_id, after, crashed>>
           [] port = DROP_PACKET ->
                /\ heap' = FreePacket(heap, m)
                /\ DoneWithPacket(l)
                /\ Goto(l, Resume(l))
                /\ UNCHANGED <<txq, tx_mbufs, portid, tx_id, after, crashed>>
           [] port = Absent ->
                /\ crashed' = TRUE
                /\ UNCHANGED <<heap, txq, tx_mbufs, pkts_burst, pc, portid, tx_id, after>>
           [] OTHER ->
                /\ SendSingle(l, m, port, Resume(l))
                /\ DoneWithPacket(l)
                /\ UNCHANGED <<heap, crashed>>
  BY DEF Output
<1>. HIDE DEF m
<1>11. CASE port = FLOOD_PORT
  BY <1>5, <1>10, <1>11, ValuesAssumption
<1>12. CASE port = DROP_PACKET
  BY <1>6, <1>10, <1>12, ValuesAssumption
<1>13. CASE port = Absent
  BY <1>7, <1>10, <1>13, ValuesAssumption
<1>14. CASE port \notin {FLOOD_PORT, DROP_PACKET, Absent}
  <2>1. port \in Ports
    BY <1>9, <1>14
  <2>. QED BY <1>8, <1>10, <1>14, <2>1
<1>. QED BY <1>11, <1>12, <1>13, <1>14

(* pkt_flood. *)
LEMMA FloodSteps ==
  ASSUME IInv, NEW l \in Lcores, UNCHANGED conf, FloodPort(l) \/ FloodNext(l)
  PROVE  IInv'
<1>1. /\ pkts_burst[l] # <<>> /\ ~InDriver(l) /\ portid[l] \in {0, 1} /\ portid[l] \in Ports
      /\ UNCHANGED <<conf, frame, hdrs, rxq, l2_addr_map_, rxIndex, entry, elapsed, crashed, received>>
  BY PortsAssumption DEF FloodPort, FloodNext, buffers, At, Pipeline, InDriver, IInv, Ready
<1>2. Current(l) \in PacketMbufs /\ Current(l) \in Mbufs
  BY <1>1, CurrentPacket
<1>3. /\ heap \in HeapType /\ MapTypes' /\ pkts_burst \in [Lcores -> Seq(PacketMbufs)]
      /\ \A k \in DOMAIN pkts_burst[l] : frame[pkts_burst[l][k]] \in FrameSet
      /\ hdrs' \in [PacketMbufs -> Seq(Headers)]
      /\ entry' \in [Lcores -> (Keys \X Ports) \cup {Null}] /\ portid \in [Lcores -> Nat]
      /\ elapsed' \in [Lcores -> BOOLEAN] /\ rxIndex' \in [Lcores -> Nat]
      /\ "flood" \in Labels /\ "flooded" \in Labels
  BY <1>1, SameConfiguration DEF IInv, Types, BufferTypes, MapTypes, LcoreTypes, Ready, Labels, PCs
<1>4. CASE FloodPort(l)
  <2>1. pkts_burst' = pkts_burst
    BY <1>4 DEF FloodPort
  <2>2. CASE \E h \in Available(heap, HeaderMbufs) :
               /\ heap' = [AllocMbuf(heap, h) EXCEPT !.next[h] = Current(l)]
               /\ SendSingle(l, h, portid[l], "flooded")
    <3>1. PICK h \in HeaderMbufs : /\ heap.free[h] > 0
                                   /\ heap' = [AllocMbuf(heap, h) EXCEPT !.next[h] = Current(l)]
                                   /\ SendSingle(l, h, portid[l], "flooded")
      BY <2>2 DEF Available
    <3>2. h \in Mbufs
      BY MbufsAssumption
    <3>3. heap' \in HeapType
      BY <1>2, <1>3, <3>1, <3>2, AllocTypes
    <3>. QED BY <1>1, <1>3, <2>1, <3>1, <3>2, <3>3, SendStep
  <2>3. CASE /\ heap' = FreePacket(heap, Current(l)) /\ Goto(l, "flooded")
             /\ UNCHANGED <<txq, tx_mbufs, portid, tx_id, after>>
    <3>1. heap' \in HeapType
      BY <1>2, <1>3, <2>3, FreeTypes
    <3>. QED BY <1>1, <1>3, <2>1, <2>3, <3>1, PlainStep
  <2>. QED BY <1>4, <2>2, <2>3 DEF FloodPort
<1>5. CASE FloodNext(l)
  <2>1. /\ portid' = [portid EXCEPT ![l] = @ + 1]
        /\ UNCHANGED <<heap, txq, tx_mbufs, tx_id, after>>
    BY <1>5 DEF FloodNext, buffers
  <2>2. /\ portid' \in [Lcores -> Nat] /\ portid'[l] = portid[l] + 1
        /\ \A k \in Lcores \ {l} : portid'[k] = portid[k]
    <3>1. portid[l] + 1 \in Nat
      BY <1>1
    <3>. QED BY <1>3, <2>1, <3>1
  <2>3. CASE portid[l] + 1 < 2
    <3>1. Goto(l, "flood") /\ UNCHANGED pkts_burst /\ portid'[l] \in {0, 1}
      BY <1>1, <1>5, <2>2, <2>3 DEF FloodNext
    <3>. QED BY <1>1, <1>3, <2>1, <2>2, <3>1, PlainStep
  <2>4. CASE ~(portid[l] + 1 < 2)
    <3>1. Goto(l, Resume(l)) /\ DoneWithPacket(l) /\ Resume(l) \notin {"insert", "flood", "flooded"}
      BY <1>5, <2>4 DEF FloodNext, Resume
    <3>. QED BY <1>1, <1>3, <2>1, <2>2, <3>1, NextPacket, PlainStep
  <2>. QED BY <2>3, <2>4
<1>. QED BY <1>4, <1>5

(* The drain loop sends the buffer of a port.                               *)
LEMMA DrainStep ==
  ASSUME IInv, NEW l \in Lcores, UNCHANGED conf, DrainPort(l)
  PROVE  IInv'
<1>1. PICK p \in Ports : TxBegin(l, p, "drain")
  BY DEF DrainPort, NonEmpty
<1>2. /\ ~InDriver(l) /\ "drain" \in Labels /\ "drain" \notin Pipeline
      /\ UNCHANGED <<conf, buffers, rxq, received, l2_addr_map_, entry, elapsed, rxIndex, crashed,
                     tx_mbufs, pkts_burst>>
  BY DEF DrainPort, At, InDriver, Labels, PCs, Pipeline
<1>3. /\ heap' \in HeapType /\ hdrs' \in [PacketMbufs -> Seq(Headers)] /\ UNCHANGED frame
      /\ tx_mbufs' \in [Lcores -> [Ports -> Seq(Mbufs)]]
      /\ pkts_burst' \in [Lcores -> Seq(PacketMbufs)]
      /\ \A k \in DOMAIN pkts_burst'[l] : frame[pkts_burst'[l][k]] \in FrameSet
      /\ Len(tx_mbufs'[l][p]) <= MAX_PKT_BURST
  BY <1>2 DEF IInv, Types, BufferTypes, LcoreTypes, Bounded, Ready, buffers
<1>. QED BY <1>1, <1>2, <1>3, DriverStep

(* The hardware, and the clock. *)
LEMMA QuietSteps ==
  ASSUME IInv,
         \/ \E p \in Ports : HwSend(p)
         \/ \E l \in Lcores : Tick(l)
         \/ \E l \in Lcores : TxReclaim(l) /\ UNCHANGED conf
         \/ UNCHANGED vars
  PROVE  IInv'
<1>1. UNCHANGED <<conf, buffers, rxq, l2_addr_map_, tx_mbufs, lcore, crashed, received>>
  BY DEF HwSend, Tick, TxReclaim, vars
<1>2. txq' \in [Ports -> TxQueues]
  <2>1. txq \in [Ports -> TxQueues]
    BY DEF IInv, Types, RingTypes
  <2>2. ASSUME NEW p \in Ports, HwSend(p) PROVE txq' \in [Ports -> TxQueues]
    <3>1. NextDesc(txq[p].head) \in Descs
      BY <2>1, DescTypes DEF TxQueues
    <3>2. [txq[p] EXCEPT !.head = NextDesc(txq[p].head)] \in TxQueues
      BY <2>1, <3>1 DEF TxQueues
    <3>3. txq' = [txq EXCEPT ![p] = [txq[p] EXCEPT !.head = NextDesc(txq[p].head)]]
      BY <2>1, <2>2 DEF HwSend
    <3>. QED BY <2>1, <3>2, <3>3
  <2>3. ASSUME NEW l \in Lcores, TxReclaim(l) PROVE txq' \in [Ports -> TxQueues]
    <3>1. portid[l] \in Ports /\ txq' = [txq EXCEPT ![portid[l]] = Reclaim(txq[portid[l]])]
      BY <2>3, DriverAt DEF TxReclaim, At, InDriver
    <3>2. Reclaim(txq[portid[l]]) \in TxQueues
      BY <2>1, <3>1, ReclaimTypes
    <3>. QED BY <2>1, <3>1, <3>2
  <2>. QED BY <2>1, <2>2, <2>3 DEF Tick, vars
<1>3. elapsed' \in [Lcores -> BOOLEAN]
  BY DEF HwSend, Tick, TxReclaim, vars, IInv, Types, LcoreTypes
<1>4. FrameSet' = FrameSet /\ Keys' = Keys /\ MaxFrames' = MaxFrames
  BY <1>1, SameConfiguration
<1>5. Types'
  BY <1>1, <1>2, <1>3, <1>4
     DEF IInv, Types, BufferTypes, RingTypes, MapTypes, LcoreTypes, buffers, lcore
<1>6. ASSUME NEW k \in Lcores PROVE Ready(k)' /\ Bounded(k)'
  BY <1>1, <1>4, <1>6 DEF IInv, Ready, Bounded, Full, InDriver, buffers, lcore
<1>. QED BY <1>5, <1>6 DEF IInv

LEMMA NextIInv == IInv /\ [Next]_vars => IInv'
<1>. SUFFICES ASSUME IInv, [Next]_vars PROVE IInv'
  OBVIOUS
<1>1. ASSUME NEW l \in Lcores, LcoreStep(l) PROVE IInv'
  BY <1>1, LoopSteps, DrainStep, RxPacketStep, PipelineSteps, EnforceDropStep, RouteStep,
     OutputStep, FloodSteps, TxPacketStep, TxEndStep, FreeUnsentStep, QuietSteps DEF LcoreStep
<1>2. ASSUME NEW l \in Lcores, MapCrash(l) PROVE IInv'
  BY <1>2, CrashStep DEF MapCrash
<1>. QED BY <1>1, <1>2, QuietSteps DEF Next

LEMMA InitIInv == Init => IInv
<1>. SUFFICES ASSUME Init PROVE IInv
  OBVIOUS
<1>1. PICK post \in [Ports -> PacketMbufs] : Posting(post)
  BY DEF Init
<1>2. NbTxDesc \in Nat \ {0, 1} /\ 0 \in Descs /\ NbTxDesc - 1 \in Descs /\ NbTxDesc - 1 \in Nat
  BY SizesAssumption DEF Descs
<1>3. EmptyTxQueue \in TxQueues
  BY <1>2 DEF EmptyTxQueue, TxQueues, Descs
<1>4. RingTypes
  <2>1. \A p \in Ports : <<post[p]>> \in Seq(PacketMbufs) /\ Len(<<post[p]>>) = 1
    OBVIOUS
  <2>. QED BY <1>1, <1>3, <2>1 DEF Init, RingTypes, Posting
<1>5. heap \in HeapType
  BY <1>1 DEF Posting, HeapType
<1>6. conf \in Configurations /\ MaxFrames \in Nat
  BY Configured DEF Init
<1>7. BufferTypes
  <2>1. <<>> \in Seq(Headers)
    OBVIOUS
  <2>. QED BY <1>5, <1>6, <2>1 DEF Init, BufferTypes
<1>8. LcoreTypes
  <2>1. <<>> \in Seq(Mbufs) /\ <<>> \in Seq(PacketMbufs)
    OBVIOUS
  <2>. QED BY <1>2, <2>1 DEF Init, LcoreTypes, PCs, Labels
<1>9. Types
  BY <1>4, <1>6, <1>7, <1>8 DEF Types, MapTypes, Init
<1>10. ASSUME NEW l \in Lcores PROVE Ready(l) /\ Bounded(l)
  <2>1. Len(<<>>) = 0 /\ DOMAIN <<>> = {}
    OBVIOUS
  <2>2. Ready(l)
    BY <2>1 DEF Init, Ready, InDriver, Pipeline
  <2>3. Bounded(l)
    BY <2>1, SizesAssumption DEF Init, Bounded, Full
  <2>. QED BY <2>2, <2>3
<1>. QED BY <1>9, <1>10 DEF IInv

(* The invariant holds throughout. *)
THEOREM SpecIInv == Spec => []IInv
  BY InitIInv, NextIInv, PTL DEF Spec

(* No lcore writes past the end of a transmit buffer, and only the lcore in *)
(* the driver for it has a full one: for any number of lcores and ports,    *)
(* whatever buffers are freed twice and whatever a race does to the headers *)
(* the components read.                                                     *)
THEOREM BuffersStayBounded == Spec => []BuffersBounded
<1>1. IInv => BuffersBounded
  BY DEF IInv, Bounded, Full, InDriver, BuffersBounded
<1>. QED BY <1>1, SpecIInv, PTL

(* As long as no two lcores have inserted at once, a key has one port, and  *)
(* no node is ever unlinked.                                                *)
OnePort ==
  ~l2_addr_map_.damaged =>
    \A n, o \in l2_addr_map_.nodes : n[1] = o[1] => n[2] = o[2]

(* Only insert changes the table. *)
LEMMA MapSteps ==
  ASSUME [Next]_vars
  PROVE  UNCHANGED l2_addr_map_ \/ \E l \in Lcores : Insert(l)
<1>1. ASSUME NEW l \in Lcores, LcoreStep(l), ~Insert(l) PROVE UNCHANGED l2_addr_map_
  BY <1>1 DEF LcoreStep, LoopTop, DrainPort, DrainDone, RxPacket, RxDone, LoopEnd, Learn,
              Classify, EnforceAllow, EnforceDrop, Route, RouteTo, Crash, Output, FloodPort,
              FloodNext, TxPacket, TxReclaim, TxEnd, FreeUnsent
<1>. QED BY <1>1 DEF Next, Tick, MapCrash, Crash, HwSend, vars

LEMMA OnePortStep == IInv /\ OnePort /\ [Next]_vars => OnePort'
<1>. SUFFICES ASSUME IInv, OnePort, [Next]_vars PROVE OnePort'
  OBVIOUS
<1>1. CASE UNCHANGED l2_addr_map_
  BY <1>1 DEF OnePort
<1>2. ASSUME NEW l \in Lcores, Insert(l), ~l2_addr_map_'.damaged,
             NEW n \in l2_addr_map_'.nodes, NEW o \in l2_addr_map_'.nodes, n[1] = o[1]
      PROVE  n[2] = o[2]
  <2>1. /\ l2_addr_map_.nodes \in SUBSET (Keys \X Ports) /\ entry[l] \in Keys \X Ports
        /\ MapTypes
    BY <1>2 DEF IInv, Types, MapTypes, Ready, Insert, At
  <2>2. /\ ~l2_addr_map_.damaged
        /\ l2_addr_map_'.nodes = IF Known(entry[l][1]) = {}
                                   THEN l2_addr_map_.nodes \cup {entry[l]}
                                   ELSE l2_addr_map_.nodes
    BY <1>2, <2>1, InsertNodes
  <2>3. ASSUME NEW x \in l2_addr_map_.nodes, Known(entry[l][1]) = {} PROVE x[1] # entry[l][1]
    <3>1. x = <<x[1], x[2]>> /\ x[2] \in Ports
      BY <2>1
    <3>. QED BY <2>3, <3>1 DEF Known
  <2>4. CASE Known(entry[l][1]) # {} \/ (n \in l2_addr_map_.nodes /\ o \in l2_addr_map_.nodes)
    BY <1>2, <2>2, <2>4 DEF OnePort
  <2>5. CASE Known(entry[l][1]) = {} /\ (n = entry[l] \/ o = entry[l])
    BY <1>2, <2>2, <2>3, <2>5
  <2>. QED BY <1>2, <2>2, <2>4, <2>5
<1>. QED BY <1>1, <1>2, MapSteps DEF OnePort

LEMMA NodeKept ==
  ASSUME IInv, [Next]_vars, ~l2_addr_map_'.damaged
  PROVE  l2_addr_map_.nodes \subseteq l2_addr_map_'.nodes
<1>1. ASSUME NEW l \in Lcores, Insert(l)
      PROVE  l2_addr_map_.nodes \subseteq l2_addr_map_'.nodes
  BY <1>1, InsertNodes DEF IInv, Types
<1>. QED BY <1>1, MapSteps

(* As long as no two lcores are in insert at once, no step replaces a       *)
(* learned port, adds another, or unlinks it: for any number of lcores and  *)
(* ports, whatever the unwritten bytes hold, and although each lcore        *)
(* inserts because of a lookup that others may have overtaken.              *)
THEOREM LearnedPortsStay == Spec => FirstPortKept
<1>. DEFINE Kept == ~l2_addr_map_'.damaged =>
                      \A n \in l2_addr_map_.nodes :
                        {p \in Ports : <<n[1], p>> \in l2_addr_map_'.nodes} = {n[2]}
<1>1. Init => OnePort
  BY DEF Init, OnePort
<1>2. IInv /\ OnePort /\ OnePort' /\ [Next]_vars => [Kept]_vars
  <2>. SUFFICES ASSUME IInv, OnePort', [Next]_vars, ~l2_addr_map_'.damaged,
                       NEW n \in l2_addr_map_.nodes
                PROVE  {p \in Ports : <<n[1], p>> \in l2_addr_map_'.nodes} = {n[2]}
    OBVIOUS
  <2>1. n = <<n[1], n[2]>> /\ n[2] \in Ports
    BY DEF IInv, Types, MapTypes
  <2>2. n \in l2_addr_map_'.nodes
    BY NodeKept
  <2>3. ASSUME NEW p \in Ports, <<n[1], p>> \in l2_addr_map_'.nodes PROVE p = n[2]
    BY <2>2, <2>3 DEF OnePort
  <2>. QED BY <2>1, <2>2, <2>3
<1>. QED BY <1>1, <1>2, SpecIInv, OnePortStep, PTL DEF Spec, FirstPortKept

-----------------------------------------------------------------------------
(* One lcore that polls all the ports.  The others have nothing to do.      *)
Idle ==
  \A l \in Lcores : rx_queue_list[l] = <<>> =>
    pc[l] = "loop" /\ pkts_burst[l] = <<>> /\ \A p \in Ports : tx_mbufs[l][p] = <<>>

(* Every descriptor but one is free, or waits to be reclaimed, or to be     *)
(* transmitted, or is being filled: t is the next one to fill.              *)
RingSum(q, t) ==
  Between(NextDesc(q.last_desc_cleaned), q.head) + Between(q.head, q.tx_tail)
    + Between(q.tx_tail, t) + q.nb_tx_free = NbTxDesc - 1
Filling(l, p) == pc[l] = "tx" /\ portid[l] = p
Rings ==
  LonePath => \A p \in Ports :
    /\ \A l \in Lcores : Filling(l, p) => RingSum(txq[p], tx_id[l])
    /\ (\A l \in Lcores : ~Filling(l, p)) => RingSum(txq[p], txq[p].tx_tail)


-----------------------------------------------------------------------------
(* What a lcore does is its own. *)
SameLcore(k) ==
  /\ pc'[k] = pc[k] /\ pkts_burst'[k] = pkts_burst[k] /\ tx_mbufs'[k] = tx_mbufs[k]
  /\ portid'[k] = portid[k] /\ tx_id'[k] = tx_id[k] /\ after'[k] = after[k] /\ entry'[k] = entry[k]

LEMMA Local ==
  ASSUME IInv, NEW l \in Lcores, LcoreStep(l), NEW k \in Lcores \ {l}
  PROVE  SameLcore(k)
<1>. DEFINE T == /\ pc \in [Lcores -> PCs] /\ pkts_burst \in [Lcores -> Seq(PacketMbufs)]
                 /\ tx_mbufs \in [Lcores -> [Ports -> Seq(Mbufs)]]
                 /\ portid \in [Lcores -> Nat] /\ tx_id \in [Lcores -> Descs]
                 /\ after \in [Lcores -> Labels] /\ entry \in [Lcores -> (Keys \X Ports) \cup {Null}]
<1>1. T
  BY DEF IInv, Types, LcoreTypes
<1>2. CASE LoopTop(l) \/ DrainDone(l) \/ RxPacket(l) \/ RxDone(l) \/ LoopEnd(l)
  BY <1>1, <1>2 DEF LoopTop, DrainDone, RxPacket, RxDone, LoopEnd, Goto, SameLcore
<1>3. CASE DrainPort(l)
  BY <1>1, <1>3 DEF DrainPort, TxBegin, Goto, SameLcore
<1>4. CASE Learn(l)
  <2>1. /\ UNCHANGED <<pkts_burst, tx_mbufs, portid, tx_id, after>>
        /\ \E x : pc' = [pc EXCEPT ![l] = x]
        /\ \/ UNCHANGED entry
           \/ \E y : entry' = [entry EXCEPT ![l] = y]
    BY <1>4 DEF Learn, Goto
  <2>. QED BY <1>1, <2>1 DEF SameLcore
<1>5. CASE Insert(l) \/ Classify(l) \/ EnforceAllow(l)
  BY <1>1, <1>5 DEF Insert, Classify, EnforceAllow, Goto, SameLcore
<1>6. CASE EnforceDrop(l)
  BY <1>1, <1>6 DEF EnforceDrop, DoneWithPacket, Goto, SameLcore
<1>7. CASE Route(l)
  <2>1. /\ UNCHANGED <<pkts_burst, tx_mbufs, portid, tx_id, after, entry>>
        /\ \/ UNCHANGED pc
           \/ pc' = [pc EXCEPT ![l] = "output"]
    BY <1>7 DEF Route, RouteTo, Crash, lcore, Goto
  <2>. QED BY <1>1, <2>1 DEF SameLcore
<1>8. ASSUME NEW m, NEW p, NEW return, SendSingle(l, m, p, return)
      PROVE  /\ pc'[k] = pc[k] /\ tx_mbufs'[k] = tx_mbufs[k] /\ portid'[k] = portid[k]
             /\ tx_id'[k] = tx_id[k] /\ after'[k] = after[k]
  BY <1>1, <1>8 DEF SendSingle, TxBegin, Goto
<1>9. CASE Output(l)
  <2>1. UNCHANGED entry
    BY <1>9 DEF Output
  <2>2. PICK port \in OutputPorts(Current(l)) :
         CASE port = FLOOD_PORT ->
                /\ Goto(l, "flood")
                /\ portid' = [portid EXCEPT ![l] = 0]
                /\ UNCHANGED <<heap, txq, tx_mbufs, pkts_burst, tx_id, after, crashed>>
           [] port = DROP_PACKET ->
                /\ heap' = FreePacket(heap, Current(l))
                /\ DoneWithPacket(l)
                /\ Goto(l, Resume(l))
                /\ UNCHANGED <<txq, tx_mbufs, portid, tx_id, after, crashed>>
           [] port = Absent ->
                /\ crashed' = TRUE
                /\ UNCHANGED <<heap, txq, tx_mbufs, pkts_burst, pc, portid, tx_id, after>>
           [] OTHER ->
                /\ SendSingle(l, Current(l), port, Resume(l))
                /\ DoneWithPacket(l)
                /\ UNCHANGED <<heap, crashed>>
    BY <1>9 DEF Output
  <2>3. CASE port = FLOOD_PORT
    BY <1>1, <2>1, <2>2, <2>3, ValuesAssumption DEF SameLcore, Goto
  <2>4. CASE port = DROP_PACKET
    BY <1>1, <2>1, <2>2, <2>4, ValuesAssumption DEF SameLcore, Goto, DoneWithPacket
  <2>5. CASE port = Absent
    BY <1>1, <2>1, <2>2, <2>5, ValuesAssumption DEF SameLcore
  <2>6. CASE port \notin {FLOOD_PORT, DROP_PACKET, Absent}
    <3>1. SendSingle(l, Current(l), port, Resume(l)) /\ DoneWithPacket(l)
      BY <2>2, <2>6
    <3>. QED BY <1>1, <1>8, <2>1, <3>1 DEF SameLcore, DoneWithPacket
  <2>. QED BY <2>3, <2>4, <2>5, <2>6
<1>10. CASE FloodPort(l)
  <2>1. UNCHANGED <<entry, pkts_burst>>
    BY <1>10 DEF FloodPort
  <2>2. CASE \E h : SendSingle(l, h, portid[l], "flooded")
    BY <1>8, <2>1, <2>2 DEF SameLcore
  <2>3. CASE Goto(l, "flooded") /\ UNCHANGED <<txq, tx_mbufs, portid, tx_id, after>>
    BY <1>1, <2>1, <2>3 DEF SameLcore, Goto
  <2>. QED BY <1>10, <2>2, <2>3 DEF FloodPort
<1>11. CASE FloodNext(l)
  BY <1>1, <1>11 DEF FloodNext, DoneWithPacket, Goto, SameLcore
<1>12. CASE TxPacket(l) \/ TxReclaim(l) \/ TxEnd(l) \/ FreeUnsent(l)
  BY <1>1, <1>12 DEF TxPacket, TxReclaim, TxEnd, FreeUnsent, Remaining, Goto, SameLcore, lcore
<1>. QED BY <1>2, <1>3, <1>4, <1>5, <1>6, <1>7, <1>9, <1>10, <1>11, <1>12 DEF LcoreStep

(* A lcore without ports takes no step. *)
LEMMA Awake ==
  ASSUME Idle, NEW l \in Lcores, LcoreStep(l)
  PROVE  rx_queue_list[l] # <<>> /\ UNCHANGED conf
<1>1. CASE rx_queue_list[l] = <<>>
  <2>1. pc[l] = "loop"
    BY <1>1 DEF Idle
  <2>. QED BY <1>1, <2>1 DEF LcoreStep, LoopTop, DrainPort, DrainDone, RxPacket, RxDone, LoopEnd,
             Learn, Insert, Classify, EnforceAllow, EnforceDrop, Route, Output, FloodPort,
             FloodNext, TxPacket, TxReclaim, TxEnd, FreeUnsent, At
<1>. QED BY <1>1 DEF LcoreStep

(* So no two lcores insert at once. *)
Undamaged == LonePath => ~l2_addr_map_.damaged

(* One lcore among those without ports is alone in insert. *)
LEMMA LoneInsert ==
  ASSUME Idle, Undamaged, LonePath, NEW l \in Lcores, rx_queue_list[l] # <<>>
  PROVE  ~Unsafe(l)
BY DEF Idle, Undamaged, LonePath, Racing, Unsafe

LEMMA UndamagedStep == IInv /\ Idle /\ Undamaged /\ [Next]_vars => Undamaged'
<1>. SUFFICES ASSUME IInv, Idle, Undamaged, [Next]_vars, LonePath' PROVE ~l2_addr_map_'.damaged
  BY DEF Undamaged
<1>1. UNCHANGED conf
  BY DEF Next, LcoreStep, Tick, MapCrash, HwSend, vars
<1>2. LonePath
  BY <1>1 DEF LonePath, rx_queue_list
<1>3. ASSUME NEW l \in Lcores, Insert(l) PROVE ~l2_addr_map_'.damaged
  <2>1. rx_queue_list[l] # <<>>
    BY <1>3 DEF Idle, Insert, At
  <2>. QED BY <1>2, <1>3, <2>1, LoneInsert, InsertNodes DEF Undamaged, IInv, Types
<1>. QED BY <1>2, <1>3, MapSteps DEF Undamaged

(* The steps of no lcore. *)
Quiet == \/ \E l \in Lcores : Tick(l) \/ MapCrash(l)
         \/ \E p \in Ports : HwSend(p)
         \/ UNCHANGED vars
LEMMA QuietIs ==
  ASSUME Quiet
  PROVE  /\ UNCHANGED <<conf, buffers, rxq, l2_addr_map_, tx_mbufs, lcore, received>>
         /\ \/ UNCHANGED txq
            \/ \E p \in Ports : /\ txq[p].head # txq[p].tx_tail
                                /\ txq' = [txq EXCEPT ![p].head = NextDesc(@)]
BY DEF Quiet, Tick, MapCrash, Crash, HwSend, vars

LEMMA Steps ==
  ASSUME [Next]_vars
  PROVE  Quiet \/ \E l \in Lcores : LcoreStep(l)
BY DEF Next, Quiet

LEMMA SamePath ==
  ASSUME UNCHANGED conf
  PROVE  LonePath' = LonePath /\ Floods' = Floods /\ Clean' = Clean
BY SameConfiguration DEF LonePath, Floods, Clean

LEMMA IdleStep == IInv /\ Idle /\ [Next]_vars => Idle'
<1>. SUFFICES ASSUME IInv, Idle, [Next]_vars PROVE Idle'
  OBVIOUS
<1>1. CASE Quiet
  BY <1>1, QuietIs, SameConfiguration DEF Idle, lcore
<1>2. ASSUME NEW l \in Lcores, LcoreStep(l) PROVE Idle'
  <2>1. rx_queue_list[l] # <<>> /\ UNCHANGED conf
    BY <1>2, Awake
  <2>2. rx_queue_list' = rx_queue_list
    BY <2>1, SameConfiguration
  <2>3. ASSUME NEW k \in Lcores, rx_queue_list[k] = <<>>
        PROVE  pc'[k] = "loop" /\ pkts_burst'[k] = <<>> /\ \A p \in Ports : tx_mbufs'[k][p] = <<>>
    <3>1. k # l
      BY <2>1, <2>3
    <3>2. SameLcore(k)
      BY <1>2, <3>1, Local
    <3>. QED BY <2>3, <3>2 DEF SameLcore, Idle
  <2>. QED BY <2>2, <2>3 DEF Idle
<1>. QED BY <1>1, <1>2, Steps

LEMMA InitIdle == Init => Idle
<1>. SUFFICES ASSUME Init PROVE Idle
  OBVIOUS
<1>. QED BY DEF Init, Idle

(* With one lcore that polls all the ports, the one that moves is alone.    *)
LEMMA Alone ==
  ASSUME Idle, LonePath, NEW l \in Lcores, LcoreStep(l), NEW k \in Lcores \ {l}
  PROVE  /\ rx_queue_list[k] = <<>> /\ pc[k] = "loop" /\ pkts_burst[k] = <<>>
         /\ \A p \in Ports : tx_mbufs[k][p] = <<>>
<1>1. rx_queue_list[k] = <<>>
  BY Awake DEF LonePath
<1>. QED BY <1>1 DEF Idle

-----------------------------------------------------------------------------
(* Distances around the ring. *)
LEMMA BetweenIs ==
  ASSUME NEW d \in Descs, NEW e \in Descs
  PROVE  /\ Between(d, e) = IF d <= e THEN e - d ELSE e - d + NbTxDesc
         /\ Between(d, e) \in Descs
         /\ Between(d, e) = 0 <=> d = e
<1>1. NbTxDesc \in Nat \ {0} /\ d \in Int /\ e \in Int /\ 0 <= d /\ d < NbTxDesc /\ 0 <= e /\ e < NbTxDesc
  BY SizesAssumption DEF Descs
<1>2. ASSUME NEW n \in Nat \ {0}, NEW x \in Int, 0 <= x, x < n
      PROVE  x % n = x
  BY <1>2
<1>3. ASSUME NEW n \in Nat \ {0}, NEW x \in Int, 0 <= x + n, x < 0
      PROVE  x % n = x + n
  BY <1>3
<1>4. CASE d <= e
  <2>1. e - d \in Int /\ 0 <= e - d /\ e - d < NbTxDesc
    BY <1>1, <1>4
  <2>2. (e - d) % NbTxDesc = e - d
    BY <1>1, <1>2, <2>1
  <2>. QED BY <1>1, <1>4, <2>1, <2>2 DEF Between, Descs
<1>5. CASE ~(d <= e)
  <2>1. e - d \in Int /\ 0 <= (e - d) + NbTxDesc /\ e - d < 0
    BY <1>1, <1>5
  <2>2. (e - d) % NbTxDesc = (e - d) + NbTxDesc
    BY <1>1, <1>3, <2>1
  <2>. QED BY <1>1, <1>5, <2>1, <2>2 DEF Between, Descs
<1>. QED BY <1>4, <1>5

LEMMA Forward ==
  ASSUME NEW d \in Descs, NEW k \in 0 .. NbTxDesc
  PROVE  /\ (d + k) % NbTxDesc = IF d + k < NbTxDesc THEN d + k ELSE (d + k) - NbTxDesc
         /\ (d + k) % NbTxDesc \in Descs
<1>1. NbTxDesc \in Nat \ {0} /\ d \in Int /\ 0 <= d /\ d < NbTxDesc /\ k \in Int /\ 0 <= k /\ k <= NbTxDesc
  BY SizesAssumption DEF Descs
<1>2. ASSUME NEW n \in Nat \ {0}, NEW x \in Int, 0 <= x, x < n
      PROVE  x % n = x
  BY <1>2
<1>3. ASSUME NEW n \in Nat \ {0}, NEW x \in Int, 0 <= x - n, x - n < n
      PROVE  x % n = x - n
  BY <1>3
<1>4. CASE d + k < NbTxDesc
  <2>1. d + k \in Int /\ 0 <= d + k
    BY <1>1
  <2>2. (d + k) % NbTxDesc = d + k
    BY <1>1, <1>2, <1>4, <2>1
  <2>. QED BY <1>1, <1>4, <2>1, <2>2 DEF Descs
<1>5. CASE ~(d + k < NbTxDesc)
  <2>1. d + k \in Int /\ 0 <= (d + k) - NbTxDesc /\ (d + k) - NbTxDesc < NbTxDesc
    BY <1>1, <1>5
  <2>2. (d + k) % NbTxDesc = (d + k) - NbTxDesc
    BY <1>1, <1>3, <2>1
  <2>. QED BY <1>1, <1>5, <2>1, <2>2 DEF Descs
<1>. QED BY <1>4, <1>5

(* From d to k descriptors further than e, and from the one after d.        *)
LEMMA Distances ==
  ASSUME NEW d \in Descs, NEW e \in Descs
  PROVE  /\ \A k \in 0 .. NbTxDesc - 1 : Between(d, e) + k < NbTxDesc =>
              Between(d, (e + k) % NbTxDesc) = Between(d, e) + k
         /\ d # e => Between(NextDesc(d), e) = Between(d, e) - 1
         /\ Between(d, e) + 1 < NbTxDesc => Between(d, NextDesc(e)) = Between(d, e) + 1
         /\ (d + Between(d, e)) % NbTxDesc = e
<1>. DEFINE N == NbTxDesc
<1>1. N \in Nat /\ N >= 2 /\ d \in 0 .. N - 1 /\ e \in 0 .. N - 1
  BY SizesAssumption DEF Descs
<1>2. ASSUME NEW k \in 0 .. N - 1, Between(d, e) + k < N
      PROVE  Between(d, (e + k) % N) = Between(d, e) + k
  <2>. DEFINE f == (e + k) % N
  <2>1. k \in 0 .. N
    BY <1>1
  <2>2. f = (IF e + k < N THEN e + k ELSE (e + k) - N) /\ f \in Descs
    BY <2>1, Forward
  <2>3. Between(d, e) = (IF d <= e THEN e - d ELSE e - d + N)
    BY BetweenIs
  <2>. HIDE DEF f
  <2>4. Between(d, f) = (IF d <= f THEN f - d ELSE f - d + N)
    BY <2>2, BetweenIs
  <2>. HIDE DEF N
  <2>5. Between(d, f) = Between(d, e) + k
    BY <1>1, <1>2, <2>2, <2>3, <2>4
  <2>. QED BY <2>5 DEF f, N
<1>3. d # e => Between(NextDesc(d), e) = Between(d, e) - 1
  <2>. DEFINE c == NextDesc(d)
  <2>1. 1 \in 0 .. N
    BY <1>1
  <2>2. c = (IF d + 1 < N THEN d + 1 ELSE (d + 1) - N) /\ c \in Descs
    BY <2>1, Forward DEF NextDesc
  <2>3. Between(d, e) = (IF d <= e THEN e - d ELSE e - d + N)
    BY BetweenIs
  <2>. HIDE DEF c
  <2>4. Between(c, e) = (IF c <= e THEN e - c ELSE e - c + N)
    BY <2>2, BetweenIs
  <2>. HIDE DEF N
  <2>5. d # e => Between(c, e) = Between(d, e) - 1
    BY <1>1, <2>2, <2>3, <2>4
  <2>. QED BY <2>5 DEF c
<1>4. Between(d, e) + 1 < N => Between(d, NextDesc(e)) = Between(d, e) + 1
  <2>1. 1 \in 0 .. N - 1
    BY <1>1
  <2>. QED BY <1>2, <2>1 DEF NextDesc
<1>5. (d + Between(d, e)) % N = e
  <2>. DEFINE b == Between(d, e)
  <2>1. b = (IF d <= e THEN e - d ELSE e - d + N) /\ b \in Descs
    BY BetweenIs
  <2>. HIDE DEF b
  <2>2. b \in 0 .. N
    BY <1>1, <2>1 DEF Descs
  <2>3. (d + b) % N = (IF d + b < N THEN d + b ELSE (d + b) - N)
    BY <2>2, Forward
  <2>. HIDE DEF N
  <2>4. (d + b) % N = e
    BY <1>1, <2>1, <2>3
  <2>. QED BY <2>4 DEF b
<1>. QED BY <1>2, <1>3, <1>4, <1>5

(* The driver's and the hardware's steps keep the sum of a ring.            *)
LEMMA RingParts ==
  ASSUME NEW q \in TxQueues, NEW t \in Descs, RingSum(q, t)
  PROVE  /\ q.nb_tx_free \in Nat /\ q.nb_tx_free < NbTxDesc
         /\ Between(q.head, t) = Between(q.head, q.tx_tail) + Between(q.tx_tail, t)
         /\ Between(q.head, q.tx_tail) \in Nat /\ Between(q.tx_tail, t) \in Nat
         /\ Between(q.head, t) + q.nb_tx_free < NbTxDesc
         /\ Between(NextDesc(q.last_desc_cleaned), q.head) \in Nat
         /\ Between(NextDesc(q.last_desc_cleaned), q.head) + Between(q.head, q.tx_tail) < NbTxDesc
<1>. DEFINE a == Between(NextDesc(q.last_desc_cleaned), q.head)
            b == Between(q.head, q.tx_tail)
            c == Between(q.tx_tail, t)
<1>1. /\ q.head \in Descs /\ q.tx_tail \in Descs /\ q.last_desc_cleaned \in Descs
      /\ NextDesc(q.last_desc_cleaned) \in Descs /\ q.nb_tx_free \in Nat
  BY DescTypes DEF TxQueues
<1>2. a \in Descs /\ b \in Descs /\ c \in Descs /\ (q.tx_tail + c) % NbTxDesc = t
  BY <1>1, BetweenIs, Distances
<1>3. a + b + c + q.nb_tx_free = NbTxDesc - 1
  BY DEF RingSum
<1>4. b + c < NbTxDesc => Between(q.head, (q.tx_tail + c) % NbTxDesc) = b + c
  BY <1>1, <1>2, Distances DEF Descs
<1>. HIDE DEF a, b, c
<1>5. NbTxDesc \in Nat /\ a \in Nat /\ b \in Nat /\ c \in Nat
  BY <1>2, SizesAssumption DEF Descs
<1>6. b + c < NbTxDesc /\ q.nb_tx_free < NbTxDesc /\ (b + c) + q.nb_tx_free < NbTxDesc
      /\ a + b < NbTxDesc
  BY <1>1, <1>3, <1>5
<1>7. Between(q.head, t) = b + c
  BY <1>2, <1>4, <1>6
<1>. QED BY <1>1, <1>5, <1>6, <1>7 DEF a, b, c

LEMMA RingReclaim ==
  ASSUME NEW q \in TxQueues, NEW t \in Descs, RingSum(q, t)
  PROVE  RingSum(Reclaim(q), t)
<1>. DEFINE a == Between(NextDesc(q.last_desc_cleaned), q.head)
            b == Between(q.head, q.tx_tail)
            c == Between(q.tx_tail, t)
            e == (q.head + NbTxDesc - 1) % NbTxDesc
            r == Reclaim(q)
<1>1. q.head \in Descs /\ q.nb_tx_free \in Nat /\ r \in TxQueues
  BY ReclaimTypes DEF TxQueues
<1>2. NbTxDesc \in Nat /\ NbTxDesc >= 2 /\ q.head \in 0 .. NbTxDesc - 1
  BY <1>1, SizesAssumption DEF Descs
<1>3. NextDesc(e) = q.head
  <2>. DEFINE N == NbTxDesc
  <2>1. N - 1 \in 0 .. N /\ 1 \in 0 .. N /\ q.head + N - 1 = q.head + (N - 1)
    BY <1>2
  <2>2. e = (IF q.head + (N - 1) < N THEN q.head + (N - 1) ELSE (q.head + (N - 1)) - N)
        /\ e \in Descs
    BY <1>1, <2>1, Forward
  <2>. HIDE DEF e
  <2>3. NextDesc(e) = (IF e + 1 < N THEN e + 1 ELSE (e + 1) - N)
    BY <2>1, <2>2, Forward DEF NextDesc
  <2>. HIDE DEF N
  <2>. QED BY <1>2, <2>2, <2>3 DEF N
<1>4. /\ r.head = q.head /\ r.tx_tail = q.tx_tail /\ r.last_desc_cleaned = e
      /\ r.nb_tx_free = q.nb_tx_free + a
  <2>1. r = [q EXCEPT !.nb_tx_free = q.nb_tx_free + a, !.last_desc_cleaned = e]
    BY DEF Reclaim
  <2>. HIDE DEF r, a, e
  <2>. QED BY <2>1 DEF TxQueues
<1>5. Between(NextDesc(e), q.head) = 0
  BY <1>1, <1>3, BetweenIs
<1>6. a \in Nat /\ b \in Nat /\ c \in Nat /\ a + b + c + q.nb_tx_free = NbTxDesc - 1
  BY RingParts DEF RingSum
<1>. HIDE DEF a, b, c, e, r
<1>7. 0 + b + c + (q.nb_tx_free + a) = NbTxDesc - 1
  BY <1>1, <1>2, <1>6
<1>8. RingSum(r, t)
  BY <1>4, <1>5, <1>7 DEF RingSum, b, c
<1>. QED BY <1>8 DEF r

LEMMA RingTail ==
  ASSUME NEW q \in TxQueues, NEW t \in Descs, RingSum(q, t)
  PROVE  RingSum([q EXCEPT !.tx_tail = t], t)
<1>. DEFINE a == Between(NextDesc(q.last_desc_cleaned), q.head)
            b == Between(q.head, q.tx_tail)
            c == Between(q.tx_tail, t)
            r == [q EXCEPT !.tx_tail = t]
<1>1. /\ r.head = q.head /\ r.tx_tail = t /\ r.last_desc_cleaned = q.last_desc_cleaned
      /\ r.nb_tx_free = q.nb_tx_free
  BY DEF TxQueues
<1>2. /\ a \in Nat /\ b \in Nat /\ c \in Nat /\ a + b + c + q.nb_tx_free = NbTxDesc - 1
      /\ Between(q.head, t) = b + c /\ q.nb_tx_free \in Nat /\ NbTxDesc \in Nat
  BY RingParts, SizesAssumption DEF RingSum
<1>3. Between(t, t) = 0
  BY BetweenIs
<1>. HIDE DEF a, b, c, r
<1>4. a + (b + c) + 0 + q.nb_tx_free = NbTxDesc - 1
  BY <1>2
<1>5. RingSum(r, t)
  BY <1>1, <1>2, <1>3, <1>4 DEF RingSum, a
<1>. QED BY <1>5 DEF r

LEMMA RingHead ==
  ASSUME NEW q \in TxQueues, NEW t \in Descs, RingSum(q, t), q.head # q.tx_tail
  PROVE  /\ RingSum([q EXCEPT !.head = NextDesc(@)], t)
         /\ Between(NextDesc(q.head), t) = Between(q.head, t) - 1
         /\ Between(q.head, t) > 0
<1>. DEFINE a == Between(NextDesc(q.last_desc_cleaned), q.head)
            b == Between(q.head, q.tx_tail)
            c == Between(q.tx_tail, t)
            h == NextDesc(q.head)
            r == [q EXCEPT !.head = h]
<1>1. /\ q.head \in Descs /\ q.tx_tail \in Descs /\ NextDesc(q.last_desc_cleaned) \in Descs
      /\ h \in Descs
  BY DescTypes DEF TxQueues
<1>2. /\ r.head = h /\ r.tx_tail = q.tx_tail /\ r.last_desc_cleaned = q.last_desc_cleaned
      /\ r.nb_tx_free = q.nb_tx_free
  BY DEF TxQueues
<1>3. /\ a \in Nat /\ b \in Nat /\ c \in Nat /\ a + b + c + q.nb_tx_free = NbTxDesc - 1
      /\ Between(q.head, t) = b + c /\ a + b < NbTxDesc /\ q.nb_tx_free \in Nat
      /\ NbTxDesc \in Nat
  BY RingParts, SizesAssumption DEF RingSum
<1>4. b # 0 /\ Between(h, q.tx_tail) = b - 1
  BY <1>1, BetweenIs, Distances
<1>5. a + 1 < NbTxDesc => Between(NextDesc(q.last_desc_cleaned), h) = a + 1
  BY <1>1, Distances
<1>6. Between(q.head, t) # 0 /\ q.head # t
  <2>1. Between(q.head, t) # 0
    <3>. HIDE DEF b, c
    <3>. QED BY <1>3, <1>4
  <2>. QED BY <1>1, <2>1, BetweenIs
<1>7. Between(h, t) = Between(q.head, t) - 1
  BY <1>1, <1>6, Distances
<1>. HIDE DEF a, b, c, r, h
<1>8. a + 1 < NbTxDesc /\ (a + 1) + (b - 1) + c + q.nb_tx_free = NbTxDesc - 1
  BY <1>3, <1>4
<1>9. RingSum(r, t)
  BY <1>2, <1>4, <1>5, <1>8 DEF RingSum, c
<1>10. Between(q.head, t) > 0
  BY <1>3, <1>4
<1>. QED BY <1>7, <1>9, <1>10 DEF r, h

LEMMA RingFill ==
  ASSUME NEW q \in TxQueues, NEW t \in Descs, RingSum(q, t), NEW n \in {1, 2},
         n <= q.nb_tx_free, NEW r \in TxQueues,
         r.head = q.head, r.tx_tail = q.tx_tail, r.last_desc_cleaned = q.last_desc_cleaned,
         r.nb_tx_free = q.nb_tx_free - n
  PROVE  /\ RingSum(r, (t + n) % NbTxDesc)
         /\ Between(q.head, (t + n) % NbTxDesc) = Between(q.head, t) + n
<1>. DEFINE a == Between(NextDesc(q.last_desc_cleaned), q.head)
            b == Between(q.head, q.tx_tail)
            c == Between(q.tx_tail, t)
            u == (t + n) % NbTxDesc
<1>1. /\ a \in Nat /\ b \in Nat /\ c \in Nat /\ a + b + c + q.nb_tx_free = NbTxDesc - 1
      /\ Between(q.head, t) = b + c /\ q.nb_tx_free \in Nat /\ NbTxDesc \in Nat
  BY RingParts, SizesAssumption DEF RingSum
<1>2. n \in 0 .. NbTxDesc - 1 /\ c + n < NbTxDesc /\ (b + c) + n < NbTxDesc
  <2>. HIDE DEF a, b, c
  <2>. QED BY <1>1
<1>3. q.head \in Descs /\ q.tx_tail \in Descs
  BY DEF TxQueues
<1>4. Between(q.tx_tail, u) = c + n /\ Between(q.head, u) = Between(q.head, t) + n
  BY <1>1, <1>2, <1>3, Distances
<1>. HIDE DEF a, b, c, u
<1>5. a + b + (c + n) + (q.nb_tx_free - n) = NbTxDesc - 1
  BY <1>1
<1>6. RingSum(r, u)
  BY <1>4, <1>5 DEF RingSum, a, b
<1>. QED BY <1>4, <1>6 DEF u

(* What a step does to the transmit queues. *)
Elsewhere(l) == UNCHANGED <<txq, tx_id>> /\ pc[l] # "tx" /\ pc'[l] # "tx"
LEMMA QueueSteps ==
  ASSUME IInv, NEW l \in Lcores, LcoreStep(l)
  PROVE  \/ Elsewhere(l)
         \/ pc[l] # "tx" /\ \E p \in Ports, return \in Labels : TxBegin(l, p, return)
         \/ TxPacket(l)
         \/ TxReclaim(l)
         \/ TxEnd(l)
<1>. DEFINE goes == pc[l] # "tx" /\ \E p \in Ports, return \in Labels : TxBegin(l, p, return)
<1>1. pc \in [Lcores -> PCs] /\ after \in [Lcores -> Labels] /\ Resume(l) \in Labels
      /\ "drain" \in Labels /\ "flooded" \in Labels
  BY DEF IInv, Types, LcoreTypes, Resume, Labels, PCs
<1>2. CASE LoopTop(l) \/ DrainDone(l) \/ RxPacket(l) \/ RxDone(l) \/ LoopEnd(l)
  BY <1>1, <1>2 DEF LoopTop, DrainDone, RxPacket, RxDone, LoopEnd, Goto, Elsewhere, At
<1>3. CASE DrainPort(l)
  BY <1>1, <1>3 DEF DrainPort, At, NonEmpty
<1>4. CASE Learn(l)
  <2>1. /\ UNCHANGED <<txq, tx_id>> /\ pc[l] = "learn"
        /\ pc' = [pc EXCEPT ![l] = "insert"] \/ pc' = [pc EXCEPT ![l] = "classify"]
    BY <1>4 DEF Learn, Goto, At
  <2>. QED BY <1>1, <2>1 DEF Elsewhere
<1>5. CASE Insert(l) \/ Classify(l) \/ EnforceAllow(l)
  BY <1>1, <1>5 DEF Insert, Classify, EnforceAllow, Goto, Elsewhere, At
<1>6. CASE EnforceDrop(l)
  BY <1>1, <1>6 DEF EnforceDrop, Resume, Goto, Elsewhere, At
<1>7. CASE Route(l)
  <2>1. /\ UNCHANGED <<txq, tx_id>> /\ pc[l] = "route"
        /\ \/ UNCHANGED pc
           \/ pc' = [pc EXCEPT ![l] = "output"]
    BY <1>7 DEF Route, RouteTo, Crash, lcore, Goto, At
  <2>. QED BY <1>1, <2>1 DEF Elsewhere
<1>8. ASSUME NEW m, NEW p \in Ports, NEW return \in Labels, SendSingle(l, m, p, return), pc[l] # "tx"
      PROVE  Elsewhere(l) \/ goes
  <2>1. CASE Len(tx_mbufs[l][p]) + 1 = MAX_PKT_BURST
    BY <1>8, <2>1 DEF SendSingle
  <2>2. CASE Len(tx_mbufs[l][p]) + 1 # MAX_PKT_BURST
    BY <1>1, <1>8, <2>2 DEF SendSingle, Goto, Elsewhere, Labels
  <2>. QED BY <2>1, <2>2
<1>9. CASE Output(l)
  <2>1. pc[l] = "output"
    BY <1>9 DEF Output, At
  <2>2. PICK port \in OutputPorts(Current(l)) :
         CASE port = FLOOD_PORT ->
                /\ Goto(l, "flood")
                /\ portid' = [portid EXCEPT ![l] = 0]
                /\ UNCHANGED <<heap, txq, tx_mbufs, pkts_burst, tx_id, after, crashed>>
           [] port = DROP_PACKET ->
                /\ heap' = FreePacket(heap, Current(l))
                /\ DoneWithPacket(l)
                /\ Goto(l, Resume(l))
                /\ UNCHANGED <<txq, tx_mbufs, portid, tx_id, after, crashed>>
           [] port = Absent ->
                /\ crashed' = TRUE
                /\ UNCHANGED <<heap, txq, tx_mbufs, pkts_burst, pc, portid, tx_id, after>>
           [] OTHER ->
                /\ SendSingle(l, Current(l), port, Resume(l))
                /\ DoneWithPacket(l)
                /\ UNCHANGED <<heap, crashed>>
    BY <1>9 DEF Output
  <2>3. CASE port = FLOOD_PORT
    BY <1>1, <2>1, <2>2, <2>3, ValuesAssumption DEF Elsewhere, Goto
  <2>4. CASE port = DROP_PACKET
    BY <1>1, <2>1, <2>2, <2>4, ValuesAssumption DEF Elsewhere, Goto, Resume
  <2>5. CASE port = Absent
    BY <1>1, <2>1, <2>2, <2>5, ValuesAssumption DEF Elsewhere
  <2>6. CASE port \notin {FLOOD_PORT, DROP_PACKET, Absent}
    <3>1. SendSingle(l, Current(l), port, Resume(l)) /\ port \in Ports
      BY <2>2, <2>6 DEF OutputPorts, Outputs
    <3>. QED BY <1>1, <1>8, <2>1, <3>1
  <2>. QED BY <2>3, <2>4, <2>5, <2>6
<1>10. CASE FloodPort(l)
  <2>1. pc[l] = "flood" /\ portid[l] \in Ports
    BY <1>10, PortsAssumption DEF FloodPort, At, IInv, Ready
  <2>2. CASE \E h : SendSingle(l, h, portid[l], "flooded")
    BY <1>1, <1>8, <2>1, <2>2
  <2>3. CASE Goto(l, "flooded") /\ UNCHANGED <<txq, tx_mbufs, portid, tx_id, after>>
    BY <1>1, <2>1, <2>3 DEF Elsewhere, Goto
  <2>. QED BY <1>10, <2>2, <2>3 DEF FloodPort
<1>11. CASE FloodNext(l)
  BY <1>1, <1>11 DEF FloodNext, Resume, Goto, Elsewhere, At
<1>12. CASE FreeUnsent(l)
  BY <1>1, <1>12 DEF FreeUnsent, Goto, Elsewhere, At, Labels
<1>. QED BY <1>2, <1>3, <1>4, <1>5, <1>6, <1>7, <1>9, <1>10, <1>11, <1>12 DEF LcoreStep

(* The next descriptor to fill in the queue of port p, or the tail.         *)
LEMMA RingAt ==
  ASSUME IInv, Rings, LonePath, NEW l \in Lcores, \A k \in Lcores \ {l} : pc[k] # "tx",
         NEW p \in Ports
  PROVE  /\ RingSum(txq[p], TailSeen(l, p))
         /\ TailSeen(l, p) \in Descs /\ txq[p] \in TxQueues
<1>1. TailSeen(l, p) \in Descs /\ txq[p] \in TxQueues
  BY DEF IInv, Types, RingTypes, LcoreTypes, TailSeen, TxQueues
<1>2. RingSum(txq[p], TailSeen(l, p))
  <2>1. CASE Filling(l, p)
    BY <2>1 DEF Rings, Filling, TailSeen
  <2>2. CASE ~Filling(l, p)
    <3>1. \A k \in Lcores : ~Filling(k, p)
      BY <2>2 DEF Filling
    <3>. QED BY <2>2, <3>1 DEF Rings, Filling, TailSeen
  <2>. QED BY <2>1, <2>2
<1>. QED BY <1>1, <1>2

(* A lcore's step as seen in the queue of port p: nothing; the driver is    *)
(* entered or left; n descriptors are filled.                               *)
LEMMA QueueStep ==
  ASSUME IInv, Rings, Idle, LonePath, NEW l \in Lcores, LcoreStep(l), NEW p \in Ports
  PROVE  /\ \A k \in Lcores \ {l} : pc[k] # "tx" /\ pc'[k] # "tx"
         /\ txq'[p] \in TxQueues /\ TailSeen(l, p) \in Descs
         /\ RingSum(txq'[p], TailSeen(l, p)')
         /\ txq'[p].head = txq[p].head
         /\ \/ TailSeen(l, p)' = TailSeen(l, p) /\ txq'[p].sw_ring = txq[p].sw_ring
            \/ TxPacket(l) /\ portid[l] = p
<1>1. \A k \in Lcores \ {l} : pc[k] = "loop" /\ pc'[k] = "loop"
  <2>1. ASSUME NEW k \in Lcores \ {l} PROVE pc[k] = "loop" /\ pc'[k] = "loop"
    BY <2>1, Alone, Local DEF SameLcore
  <2>. QED BY <2>1
<1>2. /\ RingSum(txq[p], TailSeen(l, p)) /\ TailSeen(l, p) \in Descs
      /\ txq[p] \in TxQueues /\ txq \in [Ports -> TxQueues]
  BY <1>1, RingAt DEF IInv, Types, RingTypes
<1>3. /\ pc \in [Lcores -> PCs] /\ portid \in [Lcores -> Nat] /\ tx_id \in [Lcores -> Descs]
  BY DEF IInv, Types, LcoreTypes
<1>4. CASE Elsewhere(l)
  <2>1. TailSeen(l, p) = txq[p].tx_tail /\ TailSeen(l, p)' = txq[p].tx_tail /\ txq' = txq
    BY <1>4 DEF Elsewhere, TailSeen
  <2>. QED BY <1>1, <1>2, <2>1
<1>5. CASE pc[l] # "tx" /\ \E q \in Ports, return \in Labels : TxBegin(l, q, return)
  <2>1. PICK q \in Ports, return \in Labels : TxBegin(l, q, return)
    BY <1>5
  <2>2. pc'[l] = "tx" /\ portid'[l] = q /\ tx_id'[l] = txq[q].tx_tail
    BY <1>3, <2>1 DEF TxBegin, Goto
  <2>3. PICK r \in {txq[q], Reclaim(txq[q])} : txq' = [txq EXCEPT ![q] = r]
    BY <2>1 DEF TxBegin
  <2>4. TailSeen(l, p) = txq[p].tx_tail
    BY <1>5 DEF TailSeen
  <2>5. CASE q # p
    <3>1. txq'[p] = txq[p] /\ TailSeen(l, p)' = txq[p].tx_tail
      BY <1>2, <2>2, <2>3, <2>5 DEF TailSeen
    <3>. QED BY <1>1, <1>2, <2>4, <3>1
  <2>6. CASE q = p
    <3>1. txq'[p] = r /\ TailSeen(l, p)' = txq[p].tx_tail
      BY <1>2, <2>2, <2>3, <2>6 DEF TailSeen
    <3>2. r \in TxQueues /\ r.sw_ring = txq[p].sw_ring /\ r.head = txq[p].head
      BY <1>2, <2>3, <2>6, ReclaimTypes
    <3>3. RingSum(r, TailSeen(l, p))
      BY <1>2, <2>3, <2>6, RingReclaim
    <3>. QED BY <1>1, <1>2, <2>4, <3>1, <3>2, <3>3
  <2>. QED BY <2>5, <2>6
<1>6. CASE TxEnd(l)
  <2>1. /\ pc[l] = "tx" /\ portid' = portid /\ tx_id' = tx_id /\ after[l] # "tx"
        /\ pc' = [pc EXCEPT ![l] = IF Sending(l) = <<>> THEN after[l] ELSE "unsent"]
        /\ txq' = [txq EXCEPT ![portid[l]] = [txq[portid[l]] EXCEPT !.tx_tail = tx_id[l]]]
    BY <1>6 DEF TxEnd, At, Goto, IInv, Types, LcoreTypes, Labels
  <2>2. pc'[l] # "tx"
    BY <1>3, <2>1
  <2>3. CASE portid[l] # p
    <3>1. txq'[p] = txq[p] /\ TailSeen(l, p)' = txq[p].tx_tail /\ TailSeen(l, p) = txq[p].tx_tail
      BY <1>2, <2>1, <2>2, <2>3 DEF TailSeen
    <3>. QED BY <1>1, <1>2, <3>1
  <2>4. CASE portid[l] = p
    <3>. DEFINE r == [txq[p] EXCEPT !.tx_tail = tx_id[l]]
    <3>1. txq'[p] = r /\ TailSeen(l, p) = tx_id[l]
      BY <1>2, <2>1, <2>4 DEF TailSeen
    <3>2. r \in TxQueues /\ r.sw_ring = txq[p].sw_ring /\ r.head = txq[p].head
          /\ r.tx_tail = tx_id[l]
      BY <1>2, <1>3 DEF TxQueues
    <3>3. RingSum(r, TailSeen(l, p))
      BY <1>2, <3>1, RingTail
    <3>. HIDE DEF r
    <3>4. TailSeen(l, p)' = tx_id[l]
      BY <2>2, <3>1, <3>2 DEF TailSeen
    <3>. QED BY <1>1, <1>2, <3>1, <3>2, <3>3, <3>4
  <2>. QED BY <2>3, <2>4
<1>7. CASE TxPacket(l)
  <2>. DEFINE m == Head(Sending(l))
              n == NbSegs(heap, m)
  <2>1. /\ pc[l] = "tx" /\ InDriver(l) /\ pc' = pc /\ portid' = portid /\ Sending(l) # <<>>
        /\ txq' = [txq EXCEPT ![portid[l]] = Fill(txq[portid[l]], tx_id[l], m)]
        /\ tx_id' = [tx_id EXCEPT ![l] = (tx_id[l] + n) % NbTxDesc]
        /\ n <= txq[portid[l]].nb_tx_free
    BY <1>7 DEF TxPacket, At, InDriver
  <2>2. tx_id'[l] = (tx_id[l] + n) % NbTxDesc
    BY <1>3, <2>1
  <2>3. m \in Mbufs /\ heap \in HeapType /\ n \in {1, 2} /\ tx_id[l] \in Descs
    <3>1. Sending(l) \in Seq(Mbufs)
      BY <2>1, DriverAt
    <3>. QED BY <1>3, <2>1, <3>1, HeadTail DEF IInv, Types, BufferTypes, NbSegs
  <2>. HIDE DEF m
  <2>4. CASE portid[l] # p
    <3>1. txq'[p] = txq[p] /\ TailSeen(l, p)' = txq[p].tx_tail /\ TailSeen(l, p) = txq[p].tx_tail
      BY <1>2, <2>1, <2>4 DEF TailSeen
    <3>. QED BY <1>1, <1>2, <3>1
  <2>5. CASE portid[l] = p
    <3>. DEFINE r == Fill(txq[p], tx_id[l], m)
    <3>1. txq'[p] = r /\ TailSeen(l, p) = tx_id[l] /\ TailSeen(l, p)' = (tx_id[l] + n) % NbTxDesc
      BY <1>2, <2>1, <2>2, <2>5 DEF TailSeen
    <3>3. n <= txq[p].nb_tx_free
      BY <2>1, <2>5
    <3>2. /\ r \in TxQueues /\ r.head = txq[p].head /\ r.tx_tail = txq[p].tx_tail
          /\ r.last_desc_cleaned = txq[p].last_desc_cleaned
          /\ r.nb_tx_free = txq[p].nb_tx_free - n
      BY <1>2, <2>3, <3>3, FillTypes
    <3>. HIDE DEF r, n
    <3>4. RingSum(r, (tx_id[l] + n) % NbTxDesc)
      BY <1>2, <2>3, <3>1, <3>2, <3>3, RingFill
    <3>. QED BY <1>1, <1>2, <1>7, <2>5, <3>1, <3>2, <3>4
  <2>. QED BY <2>4, <2>5
<1>8. CASE TxReclaim(l)
  <2>1. /\ portid[l] \in Ports /\ UNCHANGED <<pc, portid, tx_id>>
        /\ txq' = [txq EXCEPT ![portid[l]] = Reclaim(txq[portid[l]])]
    BY <1>8, DriverAt DEF TxReclaim, At, InDriver, lcore
  <2>2. Reclaim(txq[portid[l]]).tx_tail = txq[portid[l]].tx_tail
    BY <1>2, <2>1, ReclaimTypes
  <2>3. TailSeen(l, p)' = TailSeen(l, p)
    BY <1>2, <2>1, <2>2 DEF TailSeen
  <2>4. CASE portid[l] # p
    <3>1. txq'[p] = txq[p]
      BY <1>2, <2>1, <2>4
    <3>. QED BY <1>1, <1>2, <2>3, <3>1
  <2>5. CASE portid[l] = p
    <3>1. txq'[p] = Reclaim(txq[p])
      BY <1>2, <2>1, <2>5
    <3>2. Reclaim(txq[p]) \in TxQueues /\ Reclaim(txq[p]).sw_ring = txq[p].sw_ring
          /\ Reclaim(txq[p]).head = txq[p].head /\ RingSum(Reclaim(txq[p]), TailSeen(l, p))
      BY <1>2, ReclaimTypes, RingReclaim
    <3>. QED BY <1>1, <1>2, <2>3, <3>1, <3>2
  <2>. QED BY <2>4, <2>5
<1>. QED BY <1>4, <1>5, <1>6, <1>7, <1>8, QueueSteps

LEMMA RingsStep == IInv /\ Idle /\ Rings /\ [Next]_vars => Rings'
<1>. SUFFICES ASSUME IInv, Idle, Rings, [Next]_vars PROVE Rings'
  OBVIOUS
<1>0. UNCHANGED conf
  BY Awake, Steps, QuietIs
<1>. SUFFICES ASSUME LonePath, NEW p \in Ports
              PROVE  /\ \A l \in Lcores : Filling(l, p)' => RingSum(txq'[p], tx_id'[l])
                     /\ (\A l \in Lcores : ~Filling(l, p)') => RingSum(txq'[p], txq'[p].tx_tail)
  BY <1>0, SamePath DEF Rings, Filling, RingSum, Between, NextDesc
<1>1. CASE Quiet
  <2>1. UNCHANGED lcore
    BY <1>1, QuietIs
  <2>2. txq \in [Ports -> TxQueues] /\ tx_id \in [Lcores -> Descs]
    BY DEF IInv, Types, RingTypes, LcoreTypes
  <2>3. ASSUME NEW t \in Descs, RingSum(txq[p], t)
        PROVE  RingSum(txq'[p], t) /\ txq'[p].tx_tail = txq[p].tx_tail
    <3>1. CASE txq'[p] = txq[p]
      BY <2>3, <3>1
    <3>2. CASE txq[p].head # txq[p].tx_tail /\ txq'[p] = [txq[p] EXCEPT !.head = NextDesc(@)]
      <4>1. txq[p] \in TxQueues
        BY <2>2
      <4>2. [txq[p] EXCEPT !.head = NextDesc(@)].tx_tail = txq[p].tx_tail
        BY <4>1 DEF TxQueues
      <4>. QED BY <2>3, <3>2, <4>1, <4>2, RingHead
    <3>. QED BY <1>1, <2>2, <3>1, <3>2, QuietIs
  <2>4. txq[p].tx_tail \in Descs
    BY <2>2 DEF TxQueues
  <2>5. ASSUME NEW l \in Lcores, Filling(l, p)' PROVE RingSum(txq'[p], tx_id'[l])
    <3>1. Filling(l, p) /\ tx_id'[l] = tx_id[l]
      BY <2>1, <2>5 DEF Filling, lcore
    <3>. QED BY <2>2, <2>3, <3>1 DEF Rings
  <2>6. ASSUME \A l \in Lcores : ~Filling(l, p)' PROVE RingSum(txq'[p], txq'[p].tx_tail)
    <3>1. \A l \in Lcores : ~Filling(l, p)
      BY <2>1, <2>6 DEF Filling, lcore
    <3>2. RingSum(txq[p], txq[p].tx_tail)
      BY <3>1 DEF Rings
    <3>. QED BY <2>3, <2>4, <3>2
  <2>. QED BY <2>5, <2>6
<1>2. ASSUME NEW l \in Lcores, LcoreStep(l)
      PROVE  /\ \A k \in Lcores : Filling(k, p)' => RingSum(txq'[p], tx_id'[k])
             /\ (\A k \in Lcores : ~Filling(k, p)') => RingSum(txq'[p], txq'[p].tx_tail)
  <2>1. /\ \A k \in Lcores \ {l} : pc'[k] # "tx"
        /\ RingSum(txq'[p], TailSeen(l, p)')
    BY <1>2, QueueStep
  <2>2. CASE Filling(l, p)'
    BY <2>1, <2>2 DEF Filling, TailSeen
  <2>3. CASE ~Filling(l, p)'
    BY <2>1, <2>3 DEF Filling, TailSeen
  <2>. QED BY <2>2, <2>3
<1>. QED BY <1>1, <1>2, Steps

LEMMA InitRings == Init => Rings
<1>. SUFFICES ASSUME Init, NEW p \in Ports PROVE RingSum(txq[p], txq[p].tx_tail)
  BY DEF Init, Rings, Filling
<1>1. txq[p] = EmptyTxQueue
  BY DEF Init
<1>2. NbTxDesc \in Nat /\ NbTxDesc >= 2 /\ 0 \in Descs /\ NbTxDesc - 1 \in Descs /\ 1 \in 0 .. NbTxDesc
  BY SizesAssumption DEF Descs
<1>3. NextDesc(NbTxDesc - 1) = 0
  <2>1. NextDesc(NbTxDesc - 1) = (NbTxDesc - 1 + 1) - NbTxDesc
    BY <1>2, Forward DEF NextDesc
  <2>. QED BY <1>2, <2>1
<1>4. Between(0, 0) = 0
  BY <1>2, BetweenIs
<1>5. 0 + 0 + 0 + (NbTxDesc - 1) = NbTxDesc - 1
  BY <1>2
<1>. QED BY <1>1, <1>3, <1>4, <1>5 DEF RingSum, EmptyTxQueue

(* Types, the bounds of the transmit buffers, and of the driver's ring as   *)
(* long as no two lcores share a transmit queue.                            *)
THEOREM TypeSafe == Spec => []TypeOK
<1>1. IInv /\ Rings => TypeOK
  <2>. SUFFICES ASSUME IInv, Rings PROVE TypeOK
    OBVIOUS
  <2>1. BuffersBounded
    BY DEF IInv, Bounded, Full, InDriver, BuffersBounded
  <2>2. ASSUME NEW m \in PacketMbufs
        PROVE  /\ frame[m] = Null
                  \/ frame[m] \in {FrameOf(f, k) : f \in Frames, k \in 1 .. MaxFrames}
               /\ hdrs[m] \in Seq({ALLOW, FORBID, FLOOD_PORT} \cup Ports)
    BY DEF IInv, Types, BufferTypes, FrameSet, Headers
  <2>3. ASSUME NEW p \in Ports
        PROVE  /\ txq[p].sw_ring \in [0 .. NbTxDesc - 1 -> Mbufs \cup {Null}]
               /\ txq[p].tx_tail \in 0 .. NbTxDesc - 1
               /\ txq[p].nb_tx_free \in Nat
               /\ LonePath => txq[p].nb_tx_free < NbTxDesc
               /\ txq[p].last_desc_cleaned \in 0 .. NbTxDesc - 1
               /\ txq[p].head \in 0 .. NbTxDesc - 1
    <3>1. txq[p] \in TxQueues /\ txq[p].tx_tail \in Descs /\ \A l \in Lcores : tx_id[l] \in Descs
      BY DEF IInv, Types, RingTypes, LcoreTypes, TxQueues
    <3>2. LonePath => \E t \in Descs : RingSum(txq[p], t)
      BY <3>1 DEF Rings
    <3>3. LonePath => txq[p].nb_tx_free < NbTxDesc
      BY <3>1, <3>2, RingParts
    <3>. QED BY <3>1, <3>3 DEF TxQueues, Descs
  <2>4. after \in [Lcores -> PCs]
    BY DEF IInv, Types, LcoreTypes, Labels
  <2>. QED BY <2>1, <2>2, <2>3, <2>4
           DEF TypeOK, IInv, Types, BufferTypes, RingTypes, MapTypes, LcoreTypes, Descs
<1>2. Init => IInv /\ Idle /\ Rings
  BY InitIInv, InitIdle, InitRings
<1>3. (IInv /\ Idle /\ Rings) /\ [Next]_vars => (IInv /\ Idle /\ Rings)'
  BY NextIInv, IdleStep, RingsStep
<1>. QED BY <1>1, <1>2, <1>3, PTL DEF Spec
=============================================================================
