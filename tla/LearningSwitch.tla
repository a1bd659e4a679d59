--------------------------- MODULE LearningSwitch ---------------------------
(***************************************************************************)
(* The packet path of the learning switch (sdn-v2): every lcore runs        *)
(* main_loop, polls its ports and pushes each frame through the pipeline    *)
(*   learn -> classify -> enforce -> route -> output                        *)
(* into its own transmit buffers, which it hands to the driver when they    *)
(* are full or when the drain timer has expired.  The lcores share the      *)
(* address table, the buffer pools and the transmit queue of each port.     *)
(*                                                                         *)
(* The model starts when pipeline_init has returned on every lcore.  The    *)
(* driver is the ixgbe one; what the hardware does is HwSend.               *)
(***************************************************************************)
EXTENDS Mbuf, Functions

CONSTANTS
  Lcores,         \* the lcores that have a receive queue
  Ports,          \* the enabled ports
  Hosts,          \* unicast Ethernet addresses
  Broadcast,      \* L2_BROADCAST
  Configurations, \* the configurations to consider: a behaviour has one of them
  Forbidden,      \* the flow the classifier's rule matches
  PacketMbufs,    \* packet_pool
  HeaderMbufs,    \* header_pool
  MAX_PKT_BURST,
  ALLOW, FORBID,  \* CLASS
  FLOOD_PORT, DROP_PACKET,
  Absent,         \* the end() of l2_addr_map_
  NbTxDesc        \* descriptors of a transmit ring

(* A configuration: the ports init_ports has given each lcore, in the order *)
(* it polls them; the frames [port, src, dst, flow] the network may send;   *)
(* what the two bytes of ether_addr_union that are never written may hold   *)
(* (0 is the value L2_BROADCAST has there); and a bound on the number of    *)
(* frames received in a behaviour.                                          *)
ConfigurationType(c) ==
  /\ c.rx_queue_list \in [Lcores -> Seq(Ports)]
  /\ \A f \in c.frames : f.port \in Ports /\ {f.src, f.dst} \subseteq Hosts \cup {Broadcast}
  /\ c.upper_bytes \subseteq Nat
  /\ c.max_frames \in Nat

ASSUME PortsAssumption == /\ {0, 1} \subseteq Ports  \* pkt_flood names ports 0 and 1
                          /\ Ports \subseteq Nat
ASSUME ValuesAssumption ==
  /\ ALLOW # FORBID
  /\ FLOOD_PORT # DROP_PACKET
  /\ {FLOOD_PORT, DROP_PACKET, Absent} \cap Ports = {}
  /\ Absent \notin {FLOOD_PORT, DROP_PACKET}
ASSUME MbufsAssumption == /\ Mbufs = PacketMbufs \cup HeaderMbufs
                          /\ PacketMbufs \cap HeaderMbufs = {}
ASSUME ConfigurationsAssumption == \A c \in Configurations : ConfigurationType(c)
ASSUME SizesAssumption == /\ MAX_PKT_BURST \in Nat \ {0}
                          /\ NbTxDesc \in Nat \ {0, 1}

VARIABLES
  conf,          \* the configuration, which never changes
  heap,          \* state of all mbufs
  frame,         \* the frame in each packet mbuf, numbered by arrival
  hdrs,          \* headers prepended to the frame, outermost first
  rxq,           \* mbufs posted to the receive ring of each port
  txq,           \* transmit queue 0 of each port: sw_ring, tx_tail, nb_tx_free,
                 \* last_desc_cleaned, and the hardware's head
  l2_addr_map_,  \* the switch's address table: its nodes <<key, port>>, and whether two
                 \* lcores have inserted at once, after which anything may be missing
  tx_mbufs,      \* lcore_queue_conf[].tx_mbufs
  pc,            \* what each lcore does next
  rxIndex,       \* next entry of rx_queue_list to poll
  pkts_burst,    \* packets received and not yet through the pipeline
  entry,         \* the node to be inserted in the table
  portid,        \* port being drained, flooded or sent on
  tx_id,         \* local tx_id of the driver: the next descriptor to fill
  after,         \* where the lcore returns after send_burst
  elapsed,       \* more than BURST_TX_DRAIN cycles since the last drain
  crashed,       \* the process has died
  received       \* number of frames received

buffers == <<heap, frame, hdrs>>
lcore == <<pc, rxIndex, pkts_burst, entry, portid, tx_id, after>>
vars == <<conf, buffers, rxq, txq, l2_addr_map_, tx_mbufs, lcore, elapsed, crashed, received>>

PCs == {"loop", "drain", "rx", "learn", "insert", "classify", "enforce", "route",
        "output", "flood", "flooded", "tx", "unsent"}
FrameOf(f, k) == [port |-> f.port, src |-> f.src, dst |-> f.dst, flow |-> f.flow, id |-> k]
rx_queue_list == conf.rx_queue_list
Frames == conf.frames
UpperBytes == conf.upper_bytes
MaxFrames == conf.max_frames
Keys == (Hosts \cup {Broadcast}) \X UpperBytes
BroadcastKey == <<Broadcast, 0>>

(* The packet the lcore is working on. *)
Current(l) == Head(pkts_burst[l])

(* Once the process has died nothing happens. *)
At(l, label) == ~crashed /\ pc[l] = label
Goto(l, label) == pc' = [pc EXCEPT ![l] = label]

-----------------------------------------------------------------------------
(* The receive ring of each port has a packet mbuf posted, post[p].          *)
Posting(post) ==
  /\ \A p, q \in Ports : p # q => post[p] # post[q]
  /\ rxq = [p \in Ports |-> <<post[p]>>]
  /\ LET posted == {post[p] : p \in Ports}
     IN heap = [refcnt |-> [m \in Mbufs |-> IF m \in posted THEN 1 ELSE 0],
                free |-> [m \in Mbufs |-> IF m \in posted THEN 0 ELSE 1],
                next |-> [m \in Mbufs |-> Null]]
EmptyTxQueue == [sw_ring |-> [d \in 0 .. NbTxDesc - 1 |-> Null],
                 tx_tail |-> 0, nb_tx_free |-> NbTxDesc - 1,
                 last_desc_cleaned |-> NbTxDesc - 1, head |-> 0]

(* The tables and the transmit buffers are empty. *)
Init ==
  /\ conf \in Configurations
  /\ \E post \in [Ports -> PacketMbufs] : Posting(post)
  /\ frame = [m \in PacketMbufs |-> Null]
  /\ hdrs = [m \in PacketMbufs |-> <<>>]
  /\ txq = [p \in Ports |-> EmptyTxQueue]
  /\ l2_addr_map_ = [nodes |-> {}, damaged |-> FALSE]
  /\ tx_mbufs = [l \in Lcores |-> [p \in Ports |-> <<>>]]
  /\ pc = [l \in Lcores |-> "loop"]
  /\ rxIndex = [l \in Lcores |-> 1]
  /\ pkts_burst = [l \in Lcores |-> <<>>]
  /\ entry = [l \in Lcores |-> Null]
  /\ portid = [l \in Lcores |-> 0]
  /\ tx_id = [l \in Lcores |-> 0]
  /\ after = [l \in Lcores |-> "loop"]
  /\ elapsed = [l \in Lcores |-> TRUE]  \* prev_tsc = 0
  /\ crashed = FALSE
  /\ received = 0

-----------------------------------------------------------------------------
(* send_burst: the whole transmit buffer of a port goes to the driver.      *)

NextDesc(d) == (d + 1) % NbTxDesc
(* How many descriptors there are from d up to, but without, e.             *)
Between(d, e) == (e - d) % NbTxDesc

(* The driver reads the queue's tail and may reclaim the descriptors the    *)
(* hardware has done since the last time.                                   *)
Reclaim(q) == [q EXCEPT !.nb_tx_free = @ + Between(NextDesc(q.last_desc_cleaned), q.head),
                        !.last_desc_cleaned = (q.head + NbTxDesc - 1) % NbTxDesc]
TxBegin(l, p, return) ==
  /\ Goto(l, "tx")
  /\ portid' = [portid EXCEPT ![l] = p]
  /\ after' = [after EXCEPT ![l] = return]
  /\ tx_id' = [tx_id EXCEPT ![l] = txq[p].tx_tail]
  /\ \E q \in {txq[p], Reclaim(txq[p])} : txq' = [txq EXCEPT ![p] = q]

(* The buffer the lcore is sending, and its first packet. *)
Sending(l) == tx_mbufs[l][portid[l]]
Remaining(l, ms) == tx_mbufs' = [tx_mbufs EXCEPT ![l][portid[l]] = ms]

(* The next packet's segments are put in the next descriptors if there are  *)
(* enough, and the segment each descriptor held before is freed.            *)
Fill(q, d, m) ==
  LET ring == [q.sw_ring EXCEPT ![d] = m]
  IN [q EXCEPT !.sw_ring = IF heap.next[m] = Null THEN ring
                             ELSE [ring EXCEPT ![NextDesc(d)] = heap.next[m]],
               !.nb_tx_free = @ - NbSegs(heap, m)]
TxPacket(l) ==
  LET p == portid[l]
      q == txq[p]
      d == tx_id[l]
      m == Head(Sending(l))
      freed == FreeEntry(heap, q.sw_ring[d])
  IN /\ At(l, "tx")
     /\ Sending(l) # <<>>
     /\ NbSegs(heap, m) <= q.nb_tx_free
     /\ txq' = [txq EXCEPT ![p] = Fill(q, d, m)]
     /\ heap' = IF heap.next[m] = Null THEN freed
                  ELSE FreeEntry(freed, q.sw_ring[NextDesc(d)])
     /\ tx_id' = [tx_id EXCEPT ![l] = (d + NbSegs(heap, m)) % NbTxDesc]
     /\ Remaining(l, Tail(Sending(l)))
     /\ UNCHANGED <<frame, hdrs, rxq, l2_addr_map_, pc, rxIndex, pkts_burst, entry, portid,
                    after, elapsed, crashed, received>>

(* Short of descriptors, it reclaims what the hardware has done meanwhile,   *)
(* ...                                                                       *)
TxReclaim(l) ==
  LET p == portid[l]
  IN /\ At(l, "tx")
     /\ Sending(l) # <<>>
     /\ NbSegs(heap, Head(Sending(l))) > txq[p].nb_tx_free
     /\ Reclaim(txq[p]) # txq[p]
     /\ txq' = [txq EXCEPT ![p] = Reclaim(txq[p])]
     /\ UNCHANGED <<buffers, rxq, l2_addr_map_, tx_mbufs, lcore, elapsed, crashed, received>>

(* ... or tells the hardware the new tail and returns, as it does after the  *)
(* last packet.                                                              *)
TxEnd(l) ==
  /\ At(l, "tx")
  /\ Sending(l) # <<>> => NbSegs(heap, Head(Sending(l))) > txq[portid[l]].nb_tx_free
  /\ txq' = [txq EXCEPT ![portid[l]].tx_tail = tx_id[l]]
  /\ Goto(l, IF Sending(l) = <<>> THEN after[l] ELSE "unsent")
  /\ UNCHANGED <<buffers, rxq, l2_addr_map_, tx_mbufs, rxIndex, pkts_burst, entry, portid,
                 tx_id, after, elapsed, crashed, received>>

(* send_burst frees what the driver did not take. *)
FreeUnsent(l) ==
  /\ At(l, "unsent")
  /\ heap' = FreePacket(heap, Head(Sending(l)))
  /\ Remaining(l, Tail(Sending(l)))
  /\ Goto(l, IF Len(Sending(l)) = 1 THEN after[l] ELSE "unsent")
  /\ UNCHANGED <<frame, hdrs, rxq, txq, l2_addr_map_, rxIndex, pkts_burst, entry, portid,
                 tx_id, after, elapsed, crashed, received>>

(* The hardware transmits the next descriptor of a port. *)
HwSend(p) ==
  /\ ~crashed
  /\ txq[p].head # txq[p].tx_tail
  /\ txq' = [txq EXCEPT ![p].head = NextDesc(@)]
  /\ UNCHANGED <<conf, buffers, rxq, l2_addr_map_, tx_mbufs, lcore, elapsed, crashed,
                 received>>

-----------------------------------------------------------------------------
(* main_loop *)

Tick(l) ==
  /\ ~crashed
  /\ ~elapsed[l]
  /\ elapsed' = [elapsed EXCEPT ![l] = TRUE]
  /\ UNCHANGED <<conf, buffers, rxq, txq, l2_addr_map_, tx_mbufs, lcore, crashed, received>>

(* A lcore without ports has nothing to do, and spins for ever.              *)
LoopTop(l) ==
  /\ At(l, "loop")
  /\ rx_queue_list[l] # <<>>
  /\ Goto(l, IF elapsed[l] THEN "drain" ELSE "rx")
  /\ elapsed' = [elapsed EXCEPT ![l] = FALSE]
  /\ portid' = [portid EXCEPT ![l] = 0]
  /\ rxIndex' = [rxIndex EXCEPT ![l] = 1]
  /\ UNCHANGED <<buffers, rxq, txq, l2_addr_map_, tx_mbufs, pkts_burst, entry, tx_id,
                 after, crashed, received>>

(* for portid from 0: send what is buffered *)
MutantNonEmpty(l) ==  \* mutant: starts after the first port
  {p \in Ports : p > portid[l] /\ tx_mbufs[l][p] # <<>>}
NonEmpty(l) == {p \in Ports : p >= portid[l] /\ tx_mbufs[l][p] # <<>>}
DrainPort(l) ==
  /\ At(l, "drain")
  /\ \E p \in NonEmpty(l) : /\ \A q \in NonEmpty(l) : p <= q
                            /\ TxBegin(l, p, "drain")
  /\ UNCHANGED <<buffers, rxq, l2_addr_map_, tx_mbufs, rxIndex, pkts_burst, entry, elapsed,
                 crashed, received>>
DrainDone(l) ==
  /\ At(l, "drain")
  /\ NonEmpty(l) = {}
  /\ Goto(l, "rx")
  /\ UNCHANGED <<buffers, rxq, txq, l2_addr_map_, tx_mbufs, rxIndex, pkts_burst, entry,
                 portid, tx_id, after, elapsed, crashed, received>>

(* rte_eth_rx_burst: the driver returns the mbufs the hardware has filled,  *)
(* and posts a new one in the place of each, as long as the pool has any.   *)
RxPacket(l) ==
  /\ At(l, "rx")
  /\ rxIndex[l] <= Len(rx_queue_list[l])
  /\ Len(pkts_burst[l]) < MAX_PKT_BURST
  /\ received < MaxFrames
  /\ LET p == rx_queue_list[l][rxIndex[l]]
         rxm == Head(rxq[p])
     IN \E f \in Frames, nmb \in Available(heap, PacketMbufs) :
          /\ f.port = p
          /\ heap' = [RawAlloc(heap, nmb) EXCEPT !.next[rxm] = Null]
          /\ frame' = [frame EXCEPT ![rxm] = FrameOf(f, received + 1)]
          /\ hdrs' = [hdrs EXCEPT ![rxm] = <<>>]
          /\ pkts_burst' = [pkts_burst EXCEPT ![l] = Append(@, rxm)]
          /\ rxq' = [rxq EXCEPT ![p] = Append(Tail(@), nmb)]
  /\ received' = received + 1
  /\ UNCHANGED <<txq, l2_addr_map_, tx_mbufs, pc, rxIndex, entry, portid, tx_id, after,
                 elapsed, crashed>>

(* the burst is complete: its packets go through the pipeline in turn *)
RxDone(l) ==
  /\ At(l, "rx")
  /\ rxIndex[l] <= Len(rx_queue_list[l])
  /\ rxIndex' = [rxIndex EXCEPT ![l] = @ + 1]
  /\ Goto(l, IF pkts_burst[l] = <<>> THEN "rx" ELSE "learn")
  /\ UNCHANGED <<buffers, rxq, txq, l2_addr_map_, tx_mbufs, pkts_burst, entry, portid,
                 tx_id, after, elapsed, crashed, received>>

LoopEnd(l) ==
  /\ At(l, "rx")
  /\ rxIndex[l] > Len(rx_queue_list[l])
  /\ Goto(l, "loop")
  /\ UNCHANGED <<buffers, rxq, txq, l2_addr_map_, tx_mbufs, rxIndex, pkts_burst, entry,
                 portid, tx_id, after, elapsed, crashed, received>>

-----------------------------------------------------------------------------
(* The address table is an unordered_map all lcores use without a lock.  A  *)
(* lookup while another lcore inserts may miss an entry, and may walk freed *)
(* memory.                                                                  *)
Racing(l) == \E k \in Lcores \ {l} : pc[k] = "insert"
Unsafe(l) == Racing(l) \/ l2_addr_map_.damaged
Known(k) == {p \in Ports : <<k, p>> \in l2_addr_map_.nodes}
MutantLookup(l, k) == IF Known(k) = {} THEN {0} ELSE Known(k)  \* mutant: operator[]
Lookup(l, k) == Known(k) \cup (IF Known(k) = {} \/ Unsafe(l) THEN {Absent} ELSE {})

Crash == /\ crashed' = TRUE
         /\ UNCHANGED <<buffers, rxq, txq, l2_addr_map_, tx_mbufs, lcore, elapsed, received>>
MapCrash(l) == /\ ~crashed
               /\ pc[l] \in {"learn", "insert", "route"}
               /\ Unsafe(l)
               /\ Crash
               /\ UNCHANGED conf

(* component_learn looks the source address up ... *)
Learn(l) ==
  /\ At(l, "learn")
  /\ \E u \in UpperBytes :
       LET src == <<frame[Current(l)].src, u>>
       IN IF src = BroadcastKey
            THEN Goto(l, "classify") /\ UNCHANGED entry
            ELSE \E port \in Lookup(l, src) :
                   /\ Goto(l, IF port = Absent THEN "insert" ELSE "classify")
                   /\ entry' = [entry EXCEPT ![l] = IF port = Absent
                                                     THEN <<src, frame[Current(l)].port>>
                                                     ELSE Null]
  /\ UNCHANGED <<buffers, rxq, txq, l2_addr_map_, tx_mbufs, rxIndex, pkts_burst, portid,
                 tx_id, after, elapsed, crashed, received>>

(* mutant: assigns through operator[] *)
MutantInsert(l) ==
  /\ At(l, "insert")
  /\ l2_addr_map_' = [l2_addr_map_ EXCEPT !.nodes =
                        {n \in @ : n[1] # entry[l][1]} \cup {entry[l]}]
  /\ entry' = [entry EXCEPT ![l] = Null]
  /\ Goto(l, "classify")
  /\ UNCHANGED <<buffers, rxq, txq, tx_mbufs, rxIndex, pkts_burst, portid, tx_id, after,
                 elapsed, crashed, received>>

(* ... and inserts it.  One call of insert after the other: it looks again, *)
(* and never replaces an entry.  Two calls at once: both may find nothing   *)
(* and link a node for the same key, one's rehash may unlink any nodes, the *)
(* new one included, and from then on the table is damaged.                 *)
Insert(l) ==
  /\ At(l, "insert")
  /\ LET linked == l2_addr_map_.nodes \cup {entry[l]}
     IN \/ l2_addr_map_' = IF Known(entry[l][1]) = {}
                              THEN [l2_addr_map_ EXCEPT !.nodes = linked]
                              ELSE l2_addr_map_
        \/ /\ Unsafe(l)
           /\ \E nodes \in SUBSET linked :
                l2_addr_map_' = [nodes |-> nodes, damaged |-> TRUE]
  /\ entry' = [entry EXCEPT ![l] = Null]
  /\ Goto(l, "classify")
  /\ UNCHANGED <<buffers, rxq, txq, tx_mbufs, rxIndex, pkts_burst, portid, tx_id, after,
                 elapsed, crashed, received>>

(* rte_pktmbuf_prepend and the store to the new header; rte_pktmbuf_adj     *)
Prepend(m, h) == hdrs' = [hdrs EXCEPT ![m] = <<h>> \o @]
Adjust(m) == hdrs' = [hdrs EXCEPT ![m] = IF @ = <<>> THEN @ ELSE Tail(@)]

(* What the first bytes of the packet are read as: an inner header, or the  *)
(* frame itself.                                                            *)
Outermost(m) == IF hdrs[m] = <<>> THEN Null ELSE Head(hdrs[m])

(* Classify::component: the matched rule's action, or ALLOW *)
Classify(l) ==
  /\ At(l, "classify")
  /\ Prepend(Current(l), IF frame[Current(l)].flow = Forbidden THEN FORBID ELSE ALLOW)
  /\ Goto(l, "enforce")
  /\ UNCHANGED <<heap, frame, rxq, txq, l2_addr_map_, tx_mbufs, rxIndex, pkts_burst, entry,
                 portid, tx_id, after, elapsed, crashed, received>>

(* start_pipeline returns: on to the next packet of the burst. *)
Resume(l) == IF Len(pkts_burst[l]) = 1 THEN "rx" ELSE "learn"
DoneWithPacket(l) == pkts_burst' = [pkts_burst EXCEPT ![l] = Tail(@)]

(* mutant: whatever has a classification is let through *)
MutantEnforceAny(l) ==
  /\ At(l, "enforce")
  /\ Outermost(Current(l)) # Null
  /\ Adjust(Current(l))
  /\ Goto(l, "route")
  /\ UNCHANGED <<heap, frame, rxq, txq, l2_addr_map_, tx_mbufs, rxIndex, pkts_burst, entry,
                 portid, tx_id, after, elapsed, crashed, received>>

(* mutant: the classification is not stripped *)
MutantEnforceKeep(l) ==
  /\ At(l, "enforce")
  /\ Outermost(Current(l)) = ALLOW
  /\ Goto(l, "route")
  /\ UNCHANGED <<buffers, rxq, txq, l2_addr_map_, tx_mbufs, rxIndex, pkts_burst, entry,
                 portid, tx_id, after, elapsed, crashed, received>>

(* Enforce::component strips the classification of an allowed packet ...    *)
EnforceAllow(l) ==
  /\ At(l, "enforce")
  /\ Outermost(Current(l)) = ALLOW
  /\ Adjust(Current(l))
  /\ Goto(l, "route")
  /\ UNCHANGED <<heap, frame, rxq, txq, l2_addr_map_, tx_mbufs, rxIndex, pkts_burst, entry,
                 portid, tx_id, after, elapsed, crashed, received>>

(* mutant: the pipeline stops and the packet is forgotten *)
MutantEnforceDrop(l) ==
  /\ At(l, "enforce")
  /\ Outermost(Current(l)) # ALLOW
  /\ DoneWithPacket(l)
  /\ Goto(l, Resume(l))
  /\ UNCHANGED <<buffers, rxq, txq, l2_addr_map_, tx_mbufs, rxIndex, entry, portid,
                 tx_id, after, elapsed, crashed, received>>

(* ... and frees any other *)
EnforceDrop(l) ==
  /\ At(l, "enforce")
  /\ Outermost(Current(l)) # ALLOW
  /\ heap' = FreePacket(heap, Current(l))
  /\ DoneWithPacket(l)
  /\ Goto(l, Resume(l))
  /\ UNCHANGED <<frame, hdrs, rxq, txq, l2_addr_map_, tx_mbufs, rxIndex, entry, portid,
                 tx_id, after, elapsed, crashed, received>>

(* component_route prepends the output port find() returns *)
RouteTo(l, port) ==
  /\ Prepend(Current(l), port)
  /\ Goto(l, "output")
  /\ UNCHANGED <<heap, frame, rxq, txq, l2_addr_map_, tx_mbufs, rxIndex, pkts_burst, entry,
                 portid, tx_id, after, elapsed, crashed, received>>

Route(l) ==
  /\ At(l, "route")
  /\ \E u \in UpperBytes :
       LET dst == <<frame[Current(l)].dst, u>>
       IN IF dst = BroadcastKey
            THEN RouteTo(l, FLOOD_PORT)
            ELSE \E port \in Lookup(l, dst) :
                   IF port = Absent THEN Crash  \* find() dereferences end()
                                    ELSE RouteTo(l, port)

-----------------------------------------------------------------------------
(* component_output *)

(* What is read as the output port: what route wrote, unless what is there  *)
(* is the work of another lcore on a frame that was freed too early; Absent *)
(* is any number that is no port, an index past the end of tx_mbufs.        *)
Outputs == Ports \cup {FLOOD_PORT, DROP_PACKET}
OutputPorts(m) == IF Outermost(m) \in Outputs THEN {Outermost(m)} ELSE Outputs \cup {Absent}

(* mutant: the new packet goes before those that wait *)
MutantSendSingleFront(l, m, p, return) ==
  /\ tx_mbufs' = [tx_mbufs EXCEPT ![l][p] = <<m>> \o @]
  /\ IF Len(tx_mbufs[l][p]) + 1 = MAX_PKT_BURST
       THEN TxBegin(l, p, return)
       ELSE Goto(l, return) /\ UNCHANGED <<txq, portid, tx_id, after>>

(* mutant: the length is tested before it is incremented *)
MutantSendSingleLate(l, m, p, return) ==
  /\ tx_mbufs' = [tx_mbufs EXCEPT ![l][p] = Append(@, m)]
  /\ IF Len(tx_mbufs[l][p]) = MAX_PKT_BURST
       THEN TxBegin(l, p, return)
       ELSE Goto(l, return) /\ UNCHANGED <<txq, portid, tx_id, after>>

(* pkt_send_single: append m to the transmit buffer of port p, and send the *)
(* buffer if it is full now.  The lcore goes on at return.                  *)
SendSingle(l, m, p, return) ==
  /\ tx_mbufs' = [tx_mbufs EXCEPT ![l][p] = Append(@, m)]
  /\ IF Len(tx_mbufs[l][p]) + 1 = MAX_PKT_BURST
       THEN TxBegin(l, p, return)
       ELSE Goto(l, return) /\ UNCHANGED <<txq, portid, tx_id, after>>

Output(l) ==
  LET m == Current(l)
  IN /\ At(l, "output")
     /\ Adjust(m)
     /\ \E port \in OutputPorts(m) :
          CASE port = FLOOD_PORT ->
                 /\ Goto(l, "flood")
                 /\ portid' = [portid EXCEPT ![l] = 0]
                 /\ UNCHANGED <<heap, txq, tx_mbufs, pkts_burst, tx_id, after,
                                crashed>>
            [] port = DROP_PACKET ->
                 /\ heap' = FreePacket(heap, m)
                 /\ DoneWithPacket(l)
                 /\ Goto(l, Resume(l))
                 /\ UNCHANGED <<txq, tx_mbufs, portid, tx_id, after, crashed>>
            [] port = Absent ->
                 /\ crashed' = TRUE
                 /\ UNCHANGED <<heap, txq, tx_mbufs, pkts_burst, pc, portid, tx_id, after>>
            [] OTHER ->
                 /\ SendSingle(l, m, port, Resume(l))
                 /\ DoneWithPacket(l)
                 /\ UNCHANGED <<heap, crashed>>
     /\ UNCHANGED <<frame, rxq, l2_addr_map_, rxIndex, entry, elapsed, received>>

(* pkt_flood, one port: a header mbuf that leads the chain to the frame     *)
(* (pkt_duplicate without cloning) is sent; without one the frame is freed. *)
FloodPort(l) ==
  /\ At(l, "flood")
  /\ \/ /\ \E h \in Available(heap, HeaderMbufs) :
             /\ heap' = [AllocMbuf(heap, h) EXCEPT !.next[h] = Current(l)]
             /\ SendSingle(l, h, portid[l], "flooded")
     \/ /\ Available(heap, HeaderMbufs) = {}
        /\ heap' = FreePacket(heap, Current(l))
        /\ Goto(l, "flooded")
        /\ UNCHANGED <<txq, tx_mbufs, portid, tx_id, after>>
  /\ UNCHANGED <<frame, hdrs, rxq, l2_addr_map_, rxIndex, pkts_burst, entry, elapsed,
                 crashed, received>>

FloodNext(l) ==
  /\ At(l, "flooded")
  /\ portid' = [portid EXCEPT ![l] = @ + 1]
  /\ IF portid[l] + 1 < 2
       THEN Goto(l, "flood") /\ UNCHANGED pkts_burst
       ELSE Goto(l, Resume(l)) /\ DoneWithPacket(l)
  /\ UNCHANGED <<buffers, rxq, txq, l2_addr_map_, tx_mbufs, rxIndex, entry, tx_id, after,
                 elapsed, crashed, received>>

-----------------------------------------------------------------------------
LcoreStep(l) ==
  /\ UNCHANGED conf
  /\ \/ LoopTop(l) \/ DrainPort(l) \/ DrainDone(l)
     \/ RxPacket(l) \/ RxDone(l) \/ LoopEnd(l)
     \/ Learn(l) \/ Insert(l) \/ Classify(l) \/ EnforceAllow(l) \/ EnforceDrop(l)
     \/ Route(l) \/ Output(l) \/ FloodPort(l) \/ FloodNext(l)
     \/ TxPacket(l) \/ TxReclaim(l) \/ TxEnd(l) \/ FreeUnsent(l)

Next ==
  \/ \E l \in Lcores : LcoreStep(l) \/ Tick(l) \/ MapCrash(l)
  \/ \E p \in Ports : HwSend(p)

Spec == Init /\ [][Next]_vars

(* A lcore is a thread pinned to a core of its own and never blocks, and    *)
(* its time stamp counter keeps counting.                                   *)
FairSpec == /\ Spec
            /\ \A l \in Lcores : /\ WF_vars(LcoreStep(l))
                                 /\ WF_vars(Tick(l))
-----------------------------------------------------------------------------
(* m_table is never written past its end: a full buffer is always on its    *)
(* way to the driver.                                                       *)
BuffersBounded ==
  \A l \in Lcores, p \in Ports :
    /\ Len(tx_mbufs[l][p]) <= MAX_PKT_BURST
    /\ Len(tx_mbufs[l][p]) = MAX_PKT_BURST => pc[l] \in {"tx", "unsent"} /\ portid[l] = p

(* One lcore polls all the ports, so that no two share a transmit queue; and *)
(* whether the network sends broadcasts at all.                             *)
LonePath == \A l, k \in Lcores : rx_queue_list[l] # <<>> /\ rx_queue_list[k] # <<>> => l = k
Floods == \E f \in Frames : f.dst = Broadcast
Clean == LonePath /\ ~Floods

(* Types; the transmit buffers stay within their arrays, and the driver,    *)
(* unless two lcores are in it, within its ring.                            *)
TypeOK ==
  /\ conf \in Configurations
  /\ heap \in HeapType
  /\ \A m \in PacketMbufs :
       /\ frame[m] = Null
          \/ frame[m] \in {FrameOf(f, k) : f \in Frames, k \in 1 .. MaxFrames}
       /\ hdrs[m] \in Seq({ALLOW, FORBID, FLOOD_PORT} \cup Ports)
  /\ rxq \in [Ports -> Seq(PacketMbufs)]
  /\ \A p \in Ports : /\ txq[p].sw_ring \in [0 .. NbTxDesc - 1 -> Mbufs \cup {Null}]
                      /\ txq[p].tx_tail \in 0 .. NbTxDesc - 1
                      /\ txq[p].nb_tx_free \in Nat
                      /\ LonePath => txq[p].nb_tx_free < NbTxDesc
                      /\ txq[p].last_desc_cleaned \in 0 .. NbTxDesc - 1
                      /\ txq[p].head \in 0 .. NbTxDesc - 1
  /\ l2_addr_map_ \in [nodes : SUBSET (Keys \X Ports), damaged : BOOLEAN]
  /\ tx_mbufs \in [Lcores -> [Ports -> Seq(Mbufs)]]
  /\ pc \in [Lcores -> PCs]
  /\ rxIndex \in [Lcores -> Nat]
  /\ pkts_burst \in [Lcores -> Seq(PacketMbufs)]
  /\ entry \in [Lcores -> (Keys \X Ports) \cup {Null}]
  /\ portid \in [Lcores -> Nat]
  /\ tx_id \in [Lcores -> 0 .. NbTxDesc - 1]
  /\ after \in [Lcores -> PCs]
  /\ elapsed \in [Lcores -> BOOLEAN]
  /\ crashed \in BOOLEAN
  /\ received \in 0 .. MaxFrames
  /\ BuffersBounded

(* The places that hold mbufs: a receive ring, the descriptors of a         *)
(* transmit ring, a burst being processed, a transmit buffer.               *)
Places == ({"rxq", "sw_ring"} \X Ports) \cup ({"pkts_burst"} \X Lcores)
          \cup ({"tx_mbufs"} \X (Lcores \X Ports))
Contents(x) == CASE x[1] = "rxq" -> rxq[x[2]]
                 [] x[1] = "sw_ring" -> txq[x[2]].sw_ring
                 [] x[1] = "pkts_burst" -> pkts_burst[x[2]]
                 [] x[1] = "tx_mbufs" -> tx_mbufs[x[2][1]][x[2][2]]

(* Each mbuf is in its pool, without a reference, or in one place, once,    *)
(* with one reference.                                                      *)
Nowhere(m) == \A x \in Places : \A k \in DOMAIN Contents(x) : Contents(x)[k] # m
OnlyIn(x, j, m) == \A y \in Places : \A k \in DOMAIN Contents(y) :
                     Contents(y)[k] = m <=> y = x /\ k = j
OwnedOnce(ms) ==
  \A m \in ms :
    \/ heap.free[m] = 1 /\ heap.refcnt[m] = 0 /\ Nowhere(m)
    \/ /\ heap.free[m] = 0 /\ heap.refcnt[m] = 1
       /\ \E x \in Places : \E j \in DOMAIN Contents(x) : OnlyIn(x, j, m)

(* Without flooding no packet buffer is leaked or freed twice: each is in   *)
(* one place, and counts a reference exactly when it is not in its pool.    *)
PacketsOwnedOnce == Clean => OwnedOnce(PacketMbufs)

(* The same of the header buffers, flooding included.                       *)
HeadersOwnedOnce == LonePath => OwnedOnce(HeaderMbufs)

(* Every buffer comes back to its pool, once, from wherever the driver, the *)
(* pipeline or a failed transmission gives it up.                           *)
MbufsOwnedOnce == PacketsOwnedOnce /\ HeadersOwnedOnce

(* __rte_mbuf_raw_alloc asserts rte_mbuf_refcnt_read(m) == 0: a buffer that *)
(* leaves its pool has no reference left.                                   *)
AllocatedUnreferenced ==
  [][\A m \in Mbufs : heap'.free[m] < heap.free[m] => heap.refcnt[m] = 0]_vars

(* The packets in the descriptors of port p that the hardware has still to  *)
(* transmit, oldest first, those the driver is adding included, and those a *)
(* lcore has buffered for it.                                               *)
TailSeen(l, p) == IF pc[l] = "tx" /\ portid[l] = p THEN tx_id[l] ELSE txq[p].tx_tail
InFlight(l, p) ==
  [k \in 1 .. Between(txq[p].head, TailSeen(l, p)) |->
     txq[p].sw_ring[(txq[p].head + k - 1) % NbTxDesc]]
OnTheWay(l, p) == InFlight(l, p) \o tx_mbufs[l][p]

(* Frames that come in on one port and leave on one port stay in order.     *)
InOrder ==
  Clean => \A l \in Lcores, p \in Ports :
    LET s == OnTheWay(l, p) \o pkts_burst[l]
    IN \A j, k \in DOMAIN s :
         j < k /\ frame[s[j]].port = frame[s[k]].port => frame[s[j]].id < frame[s[k]].id

(* No frame of a forbidden flow reaches a transmit buffer or the wire, as   *)
(* long as no broadcast is flooded: a flooded frame is freed twice, and its *)
(* buffer may receive a forbidden frame while it still waits to be sent.    *)
(* So may a buffer that two lcores in one transmit queue both free.         *)
ForbiddenStays ==
  Clean => \A l \in Lcores, p \in Ports :
    \A m \in Range(OnTheWay(l, p)) : m \in PacketMbufs => frame[m].flow # Forbidden

(* What leaves is the frame as it came, without the headers the components  *)
(* of the pipeline put before it for one another; under the same condition. *)
BareOnTheWire ==
  Clean => \A l \in Lcores, p \in Ports :
    \A m \in Range(OnTheWay(l, p)) : m \in PacketMbufs => hdrs[m] = <<>>

(* A frame is sent to the port at which its destination was learned, and    *)
(* its source has been learned: an answer finds its way back.               *)
RoutedToLearned ==
  Clean => \A l \in Lcores, p \in Ports :
    \A m \in Range(OnTheWay(l, p)) : m \in PacketMbufs =>
      /\ \E u \in UpperBytes : p \in Known(<<frame[m].dst, u>>)
      /\ frame[m].src # Broadcast =>
           \E u \in UpperBytes : Known(<<frame[m].src, u>>) # {}

(* Once learned, the port of a host does not change, as long as no two      *)
(* lcores are in insert at once: whoever inserts does so because of a       *)
(* lookup that others may have overtaken, or that missed an entry while     *)
(* another lcore was inserting it.                                          *)
FirstPortKept ==
  [][~l2_addr_map_'.damaged =>
       \A n \in l2_addr_map_.nodes : {p \in Ports : <<n[1], p>> \in l2_addr_map_'.nodes} = {n[2]}]_vars

(* setup.c: "Each logical core is assigned a dedicated TX queue on each     *)
(* port."  So no two lcores are ever in the driver for the same queue.      *)
DedicatedTxQueue ==
  \A l, k \in Lcores :
    l # k /\ pc[l] = "tx" /\ pc[k] = "tx" => portid[l] # portid[k]

(* A buffered packet does not stay: it goes to the driver, or is freed.     *)
BufferedDrains ==
  \A l \in Lcores, p \in Ports : tx_mbufs[l][p] # <<>> ~> (tx_mbufs[l][p] = <<>> \/ crashed)
=============================================================================
