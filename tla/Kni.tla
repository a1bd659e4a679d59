-------------------------------- MODULE Kni --------------------------------
(***************************************************************************)
(* The kernel NIC interface: an application and a network interface of the  *)
(* kernel exchange packets through four fifos in shared memory, and the     *)
(* kernel's requests go through two more (librte_kni/rte_kni.c in the       *)
(* application, linuxapp/kni/kni_net.c in the kernel).                      *)
(*                                                                         *)
(* rx_q takes packets to the kernel, free_q brings their mbufs back; the    *)
(* application fills alloc_q with empty mbufs, which come back in tx_q with *)
(* a packet of the kernel.  No fifo has a lock: each has one thread that    *)
(* writes and one that reads.  A put or a get looks at the index of the     *)
(* other side once, and what it does then is based on it: two steps.        *)
(*                                                                         *)
(* The threads: ingress, which calls rte_kni_tx_burst, and egress, which    *)
(* calls rte_kni_rx_burst, in the application (examples/kni); kthread, xmit *)
(* (the kernel calls kni_net_tx under the lock of the device's queue) and   *)
(* the callers of kni_net_process_request in the kernel.  The fifos' size   *)
(* and the burst are the same on both sides.                                *)
(***************************************************************************)
EXTENDS Integers, Sequences, FiniteSets

CONSTANTS
  Mbufs,
  None,
  sync_va,              \* the address of the shared request
  MAX_MBUF_BURST_NUM,   \* also MBUF_BURST_SZ
  Callers,              \* threads that make a request of the kernel
  Bounds                \* bound: [polls, slots, mbufs, requests, timeouts] of a
                        \* behaviour; polls: the application's threads that run

ASSUME BurstAssumption == MAX_MBUF_BURST_NUM \in Nat \ {0}
ASSUME BoundsAssumption ==
  \A b \in Bounds : /\ b.slots \in Nat \ {0, 1} /\ b.timeouts \in Nat
                    /\ b.mbufs \subseteq Mbufs /\ IsFiniteSet(b.mbufs)
ASSUME ValuesAssumption ==  \* an address, a number and no address are not mbufs
  /\ None \notin Mbufs \cup Callers
  /\ sync_va \notin Mbufs \cup {None}
  /\ \A m \in Mbufs : m \notin Nat
ASSUME CallersAssumption == Callers \cap {"ingress", "egress", "kthread", "xmit"} = {}

VARIABLES
  fifo,      \* of each queue: [buffer, write, read]
  pool,      \* the free mbufs
  pc,        \* what each thread does next
  seen,      \* the other side's index, when it was looked at
  hand,      \* the mbufs or requests a thread has in local variables
  num,       \* the packets kthread is to take
  sync,      \* the request in the shared memory at sync_addr
  sync_lock, \* the caller that holds it, or None
  asked,     \* what each caller asks for; each request is a number
  told,      \* what each caller was told last
  timeouts,  \* requests that were given up
  bound      \* the element of Bounds that limits this behaviour

vars == <<fifo, pool, pc, seen, hand, num, sync, sync_lock, asked, told, timeouts, bound>>
requests == <<sync, sync_lock, asked, told, timeouts>>

Queues == {"rx_q", "tx_q", "alloc_q", "free_q", "req_q", "resp_q"}
Threads == {"ingress", "egress", "kthread", "xmit"} \cup Callers

At(p, label) == pc[p] = label
Goto(p, label) == pc' = [pc EXCEPT ![p] = label]
Elements(s) == {s[k] : k \in DOMAIN s}
Smaller(a, b) == IF a < b THEN a ELSE b

-----------------------------------------------------------------------------
(* The fifos: kni_fifo_put, kni_fifo_get and the two counts.                *)
KNI_FIFO_COUNT_MAX == bound.slots
Slots == 0 .. KNI_FIFO_COUNT_MAX - 1
Wrap(k) == k % KNI_FIFO_COUNT_MAX
Between(read, write) == Wrap(KNI_FIFO_COUNT_MAX + write - read)

kni_fifo_count(q) == Between(fifo[q].read, fifo[q].write)
kni_fifo_free_count(q) == Wrap(KNI_FIFO_COUNT_MAX + fifo[q].read - fifo[q].write - 1)

(* A slot that has been read is emptied here, so that a state says what is  *)
(* in a fifo; the code leaves the old pointer.                              *)
Room(q, read) == KNI_FIFO_COUNT_MAX - 1 - Between(read, fifo[q].write)

Accepted(p, q) == Smaller(Len(hand[p]), Room(q, seen[p]))
Put(p, q) ==
  LET w == fifo[q].write
      k == Accepted(p, q)
  IN fifo' = [fifo EXCEPT ![q].buffer = [j \in Slots |-> IF Between(w, j) < k
                                                          THEN hand[p][Between(w, j) + 1]
                                                          ELSE @[j]],
                          ![q].write = Wrap(w + k)]

Got(p, q, n) ==
  LET r == fifo[q].read
      k == Smaller(n, Between(r, seen[p]))
  IN [j \in 1 .. k |-> fifo[q].buffer[Wrap(r + j - 1)]]
Get(p, q, n) ==
  LET r == fifo[q].read
      k == Len(Got(p, q, n))
  IN fifo' = [fifo EXCEPT ![q].buffer = [j \in Slots |-> IF Between(r, j) < k THEN None ELSE @[j]],
                          ![q].read = Wrap(r + k)]

(* Looking at the index of the other side.                                  *)
Look(p, index, label) ==
  /\ seen' = [seen EXCEPT ![p] = index]
  /\ Goto(p, label)
  /\ UNCHANGED <<fifo, pool, hand, requests, bound>>

(* rte_kni_create *)
Init ==
  /\ bound \in Bounds
  /\ fifo = [q \in Queues |-> [buffer |-> [j \in Slots |-> None], write |-> 0, read |-> 0]]
  /\ pool = bound.mbufs
  /\ pc = [p \in Threads |-> "idle"]
  /\ seen = [p \in Threads |-> 0]
  /\ hand = [p \in Threads |-> <<>>]
  /\ num = 0
  /\ sync = [id |-> 0, result |-> 0]
  /\ sync_lock = None
  /\ asked = [c \in Callers |-> 0]
  /\ told = [c \in Callers |-> [ret |-> "none", result |-> 0]]
  /\ timeouts = 0

-----------------------------------------------------------------------------
(* rte_kni_tx_burst: packets for the kernel, with mbufs of the pool.        *)
TxBurst ==
  /\ At("ingress", "idle")
  /\ "ingress" \in bound.polls
  /\ \E k \in 0 .. MAX_MBUF_BURST_NUM : \E mbufs \in [1 .. k -> pool] :
       /\ Cardinality(Elements(mbufs)) = k
       /\ pool' = pool \ Elements(mbufs)
       /\ hand' = [hand EXCEPT !["ingress"] = mbufs]
  /\ seen' = [seen EXCEPT !["ingress"] = fifo["rx_q"].read]
  /\ Goto("ingress", "put")
  /\ UNCHANGED <<fifo, requests, bound>>

(* The caller frees those that were not taken.                              *)
MutantTxPut ==  \* mutant: kni_free_mbufs is forgotten
  LET p == "ingress"
  IN /\ At(p, "put")
     /\ Put(p, "rx_q")
     /\ pool' = pool \cup Elements(SubSeq(hand[p], Accepted(p, "rx_q") + 1, Len(hand[p])))
     /\ hand' = [hand EXCEPT ![p] = <<>>]
     /\ Goto(p, "request")
     /\ UNCHANGED <<seen, requests, bound>>
TxPut ==
  LET p == "ingress"
  IN /\ At(p, "put")
     /\ Put(p, "rx_q")
     /\ pool' = pool \cup Elements(SubSeq(hand[p], Accepted(p, "rx_q") + 1, Len(hand[p])))
     /\ hand' = [hand EXCEPT ![p] = <<>>]
     /\ Goto(p, "free")
     /\ UNCHANGED <<seen, requests, bound>>

(* kni_free_mbufs *)
TxFreeLook == At("ingress", "free") /\ Look("ingress", fifo["free_q"].write, "freeing")
TxFree ==
  LET p == "ingress"
  IN /\ At(p, "freeing")
     /\ Get(p, "free_q", MAX_MBUF_BURST_NUM)
     /\ pool' = pool \cup Elements(Got(p, "free_q", MAX_MBUF_BURST_NUM))
     /\ Goto(p, "request")
     /\ UNCHANGED <<seen, hand, requests, bound>>

(* kni_request_handler: the request is carried out, which takes a while;    *)
(* the result goes where the request is by then.                            *)
HandlerLook == At("ingress", "request") /\ Look("ingress", fifo["req_q"].write, "handle")
HandlerGet ==
  LET p == "ingress"
  IN /\ At(p, "handle")
     /\ Get(p, "req_q", 1)
     /\ hand' = [hand EXCEPT ![p] = IF Got(p, "req_q", 1) = <<>> THEN <<>> ELSE <<sync.id>>]
     /\ Goto(p, IF Got(p, "req_q", 1) = <<>> THEN "idle" ELSE "answer")
     /\ UNCHANGED <<pool, seen, requests, bound>>
MutantHandlerAnswer ==  \* mutant: the result is not stored
  LET p == "ingress"
  IN /\ At(p, "answer")
     /\ hand' = [hand EXCEPT ![p] = <<sync_va>>]
     /\ seen' = [seen EXCEPT ![p] = fifo["resp_q"].read]
     /\ Goto(p, "respond")
     /\ UNCHANGED <<fifo, pool, requests, bound>>
HandlerAnswer ==
  LET p == "ingress"
  IN /\ At(p, "answer")
     /\ sync' = [sync EXCEPT !.result = hand[p][1]]
     /\ hand' = [hand EXCEPT ![p] = <<sync_va>>]
     /\ seen' = [seen EXCEPT ![p] = fifo["resp_q"].read]
     /\ Goto(p, "respond")
     /\ UNCHANGED <<fifo, pool, sync_lock, asked, told, timeouts, bound>>
MutantHandlerRespond ==  \* mutant: no response
  LET p == "ingress"
  IN /\ At(p, "respond")
     /\ hand' = [hand EXCEPT ![p] = <<>>]
     /\ Goto(p, "idle")
     /\ UNCHANGED <<fifo, pool, seen, requests, bound>>
HandlerRespond ==
  LET p == "ingress"
  IN /\ At(p, "respond")
     /\ Put(p, "resp_q")
     /\ hand' = [hand EXCEPT ![p] = <<>>]
     /\ Goto(p, "idle")
     /\ UNCHANGED <<pool, seen, requests, bound>>

Ingress == \/ TxBurst \/ TxPut \/ TxFreeLook \/ TxFree
           \/ HandlerLook \/ HandlerGet \/ HandlerAnswer \/ HandlerRespond

-----------------------------------------------------------------------------
(* rte_kni_rx_burst: packets from the kernel; the application sends them    *)
(* and their mbufs come back to the pool.                                   *)
RxBurst == /\ At("egress", "idle")
           /\ "egress" \in bound.polls
           /\ Look("egress", fifo["tx_q"].write, "get")
RxGet ==
  LET p == "egress"
  IN /\ At(p, "get")
     /\ Get(p, "tx_q", MAX_MBUF_BURST_NUM)
     /\ pool' = pool \cup Elements(Got(p, "tx_q", MAX_MBUF_BURST_NUM))
     /\ Goto(p, "alloc")
     /\ UNCHANGED <<seen, hand, requests, bound>>

(* kni_allocate_mbufs: as many as the pool has and a burst may be ...       *)
RxAlloc ==
  LET p == "egress"
      k == Smaller(MAX_MBUF_BURST_NUM, Cardinality(pool))
  IN /\ At(p, "alloc")
     /\ \E mbufs \in [1 .. k -> pool] :
          /\ Cardinality(Elements(mbufs)) = k
          /\ pool' = pool \ Elements(mbufs)
          /\ hand' = [hand EXCEPT ![p] = mbufs]
     /\ seen' = [seen EXCEPT ![p] = fifo["alloc_q"].read]
     /\ Goto(p, IF k = 0 THEN "idle" ELSE "fill")
     /\ UNCHANGED <<fifo, requests, bound>>

(* ... of which those that do not fit are freed again.                      *)
MutantRxFill ==  \* mutant: one of them is not
  LET p == "egress"
  IN /\ At(p, "fill")
     /\ Put(p, "alloc_q")
     /\ pool' = pool \cup Elements(SubSeq(hand[p], Accepted(p, "alloc_q") + 2, Len(hand[p])))
     /\ hand' = [hand EXCEPT ![p] = <<>>]
     /\ Goto(p, "idle")
     /\ UNCHANGED <<seen, requests, bound>>
RxFill ==
  LET p == "egress"
  IN /\ At(p, "fill")
     /\ Put(p, "alloc_q")
     /\ pool' = pool \cup Elements(SubSeq(hand[p], Accepted(p, "alloc_q") + 1, Len(hand[p])))
     /\ hand' = [hand EXCEPT ![p] = <<>>]
     /\ Goto(p, "idle")
     /\ UNCHANGED <<seen, requests, bound>>

Egress == RxBurst \/ RxGet \/ RxAlloc \/ RxFill

-----------------------------------------------------------------------------
(* kni_net_rx_normal: no more packets than free_q has room for.  Their      *)
(* content is copied for the network stack.                                 *)
Least3(a, b, c) == Smaller(a, Smaller(b, c))
MutantRxCount == Smaller(kni_fifo_count("rx_q"), MAX_MBUF_BURST_NUM)  \* mutant: forgets free_q
RxCount == Least3(kni_fifo_count("rx_q"), kni_fifo_free_count("free_q"), MAX_MBUF_BURST_NUM)

KernelRx ==
  /\ At("kthread", "idle")
  /\ num' = RxCount
  /\ Goto("kthread", IF RxCount = 0 THEN "poll" ELSE "rx")
  /\ UNCHANGED <<fifo, pool, seen, hand, requests, bound>>
KernelLook == /\ At("kthread", "rx")
              /\ Look("kthread", fifo["rx_q"].write, "get")
              /\ UNCHANGED num
KernelGet ==
  LET p == "kthread"
  IN /\ At(p, "get")
     /\ Get(p, "rx_q", num)
     /\ hand' = [hand EXCEPT ![p] = Got(p, "rx_q", num)]
     /\ Goto(p, "copied")
     /\ UNCHANGED <<pool, seen, num, requests, bound>>
KernelFreeLook == /\ At("kthread", "copied")
                  /\ Look("kthread", fifo["free_q"].read, "put")
                  /\ UNCHANGED num
KernelFree ==
  LET p == "kthread"
  IN /\ At(p, "put")
     /\ Put(p, "free_q")
     /\ hand' = [hand EXCEPT ![p] = <<>>]
     /\ Goto(p, "poll")
     /\ UNCHANGED <<pool, seen, num, requests, bound>>

(* kni_net_poll_resp wakes who waits for a response.                        *)
Asleep == {c \in Callers : At(c, "asleep")}
MutantKernelPoll ==  \* mutant: nobody is woken
  /\ At("kthread", "poll")
  /\ Goto("kthread", "idle")
  /\ UNCHANGED <<fifo, pool, seen, hand, num, requests, bound>>
KernelPoll ==
  /\ At("kthread", "poll")
  /\ pc' = [p \in Threads |-> IF p = "kthread" THEN "idle"
                              ELSE IF p \in Asleep /\ kni_fifo_count("resp_q") > 0 THEN "awake"
                              ELSE pc[p]]
  /\ UNCHANGED <<fifo, pool, seen, hand, num, requests, bound>>

Kthread == KernelRx \/ KernelLook \/ KernelGet \/ KernelFreeLook \/ KernelFree \/ KernelPoll

-----------------------------------------------------------------------------
(* kni_net_tx: a packet of the kernel is copied to an mbuf of alloc_q, or   *)
(* dropped if there is none or tx_q is full.                                *)
Xmit ==
  /\ At("xmit", "idle")
  /\ kni_fifo_free_count("tx_q") > 0
  /\ kni_fifo_count("alloc_q") > 0
  /\ Look("xmit", fifo["alloc_q"].write, "get")
  /\ UNCHANGED num
XmitGet ==
  LET p == "xmit"
  IN /\ At(p, "get")
     /\ Get(p, "alloc_q", 1)
     /\ hand' = [hand EXCEPT ![p] = Got(p, "alloc_q", 1)]
     /\ seen' = [seen EXCEPT ![p] = fifo["tx_q"].read]
     /\ Goto(p, "put")
     /\ UNCHANGED <<pool, num, requests, bound>>
XmitPut ==
  LET p == "xmit"
  IN /\ At(p, "put")
     /\ Put(p, "tx_q")
     /\ hand' = [hand EXCEPT ![p] = <<>>]
     /\ Goto(p, "idle")
     /\ UNCHANGED <<pool, seen, num, requests, bound>>

-----------------------------------------------------------------------------
(* kni_net_process_request: the request goes to the shared memory and its   *)
(* address to req_q.  Its result is 0 until the application writes another. *)
Told(c, ret, result) == told' = [told EXCEPT ![c] = [ret |-> ret, result |-> result]]
Issued == CHOOSE k \in {asked[c] : c \in Callers} : \A c \in Callers : asked[c] <= k

Request(c) ==
  /\ At(c, "idle")
  /\ sync_lock = None
  /\ Issued < bound.requests
  /\ sync_lock' = c
  /\ asked' = [asked EXCEPT ![c] = Issued + 1]
  /\ Told(c, "none", 0)
  /\ sync' = [id |-> Issued + 1, result |-> 0]
  /\ hand' = [hand EXCEPT ![c] = <<sync_va>>]
  /\ seen' = [seen EXCEPT ![c] = fifo["req_q"].read]
  /\ Goto(c, "send")
  /\ UNCHANGED <<fifo, pool, num, timeouts, bound>>
RequestSent(c) ==
  /\ At(c, "send")
  /\ Put(c, "req_q")
  /\ hand' = [hand EXCEPT ![c] = <<>>]
  /\ IF Accepted(c, "req_q") = 1
       THEN Goto(c, "wait") /\ UNCHANGED <<told, sync_lock>>
       ELSE Goto(c, "idle") /\ Told(c, "EBUSY", 0) /\ sync_lock' = None
  /\ UNCHANGED <<pool, seen, num, sync, asked, timeouts, bound>>

(* The wait ends when there is a response, found at once or when woken, ... *)
ResponseThere(c) ==
  /\ At(c, "wait")
  /\ Goto(c, IF kni_fifo_count("resp_q") > 0 THEN "awake" ELSE "asleep")
  /\ UNCHANGED <<fifo, pool, seen, hand, num, requests, bound>>

(* ... or after three seconds, or with a signal, whether there is or not.   *)
(* The request stays in req_q, or its response in resp_q.                   *)
TimedOut(c) ==
  /\ pc[c] \in {"asleep", "awake"}
  /\ timeouts < bound.timeouts
  /\ timeouts' = timeouts + 1
  /\ Told(c, "ETIME", 0)
  /\ sync_lock' = None
  /\ Goto(c, "idle")
  /\ UNCHANGED <<fifo, pool, seen, hand, num, sync, asked, bound>>

ResponseLook(c) == /\ At(c, "awake")
                   /\ Look(c, fifo["resp_q"].write, "take")
                   /\ UNCHANGED num
MutantResponseTaken(c) ==  \* mutant: does not unlock
  /\ At(c, "take")
  /\ Get(c, "resp_q", 1)
  /\ IF Got(c, "resp_q", 1) = <<sync_va>> THEN Told(c, "ok", sync.result)
                                          ELSE Told(c, "ENODATA", 0)
  /\ Goto(c, "idle")
  /\ UNCHANGED <<pool, seen, hand, num, sync, sync_lock, asked, timeouts, bound>>
ResponseTaken(c) ==
  /\ At(c, "take")
  /\ Get(c, "resp_q", 1)
  /\ IF Got(c, "resp_q", 1) = <<sync_va>> THEN Told(c, "ok", sync.result)
                                          ELSE Told(c, "ENODATA", 0)
  /\ sync_lock' = None
  /\ Goto(c, "idle")
  /\ UNCHANGED <<pool, seen, hand, num, sync, asked, timeouts, bound>>

Caller(c) == \/ RequestSent(c) \/ ResponseThere(c) \/ ResponseLook(c) \/ ResponseTaken(c)

Next == \/ Ingress /\ UNCHANGED num
        \/ Egress /\ UNCHANGED num
        \/ Kthread
        \/ Xmit \/ XmitGet \/ XmitPut
        \/ \E c \in Callers : Request(c) \/ Caller(c) \/ TimedOut(c)

Spec == Init /\ [][Next]_vars

(* The application polls both directions for ever, and kni_thread runs.     *)
FairSpec == /\ Spec
            /\ WF_vars(Ingress /\ UNCHANGED num) /\ WF_vars(Egress /\ UNCHANGED num)
            /\ WF_vars(Kthread) /\ WF_vars(XmitGet \/ XmitPut)
            /\ \A c \in Callers : WF_vars(Caller(c))

-----------------------------------------------------------------------------
Entries == Mbufs \cup {None, sync_va}
TypeOK ==
  /\ fifo \in [Queues -> [buffer : [Slots -> Entries], write : Slots, read : Slots]]
  /\ pool \subseteq Mbufs
  /\ \A p \in Threads : hand[p] \in Seq(Entries \cup Nat)
  /\ seen \in [Threads -> Slots]
  /\ num \in 0 .. MAX_MBUF_BURST_NUM
  /\ sync_lock \in Callers \cup {None}
  /\ \A c \in Callers : pc[c] # "idle" <=> sync_lock = c
  /\ timeouts \in 0 .. bound.timeouts

(* No mbuf is lost and none is in two places, whatever the two sides of a   *)
(* fifo do at the same time: each is free, in one slot of one fifo, or in   *)
(* the hands of one thread.                                                 *)
MbufsConserved ==
  \A m \in bound.mbufs :
    Cardinality({m} \cap pool)
    + Cardinality({qj \in Queues \X Slots : fifo[qj[1]].buffer[qj[2]] = m})
    + Cardinality({pk \in {"ingress", "egress", "kthread", "xmit"} \X (1 .. MAX_MBUF_BURST_NUM) :
                     pk[2] \in DOMAIN hand[pk[1]] /\ hand[pk[1]][pk[2]] = m}) = 1

(* What the kernel's comments say should not happen does not: having looked *)
(* at the counts once, it always gets as many mbufs as it counted and can   *)
(* put all of them; a woken caller finds a response.                        *)
ChecksSuffice ==
  /\ At("kthread", "get") => Len(Got("kthread", "rx_q", num)) = num
  /\ At("kthread", "put") => Accepted("kthread", "free_q") = Len(hand["kthread"])
  /\ At("xmit", "get") => Len(Got("xmit", "alloc_q", 1)) = 1
  /\ At("xmit", "put") => Accepted("xmit", "tx_q") = 1
  /\ \A c \in Callers : told[c].ret # "ENODATA"

(* As long as no request has timed out, a request that succeeds was carried *)
(* out and has its own result, although all share one memory and one        *)
(* address.                                                                 *)
OwnAnswer ==
  timeouts = 0 => \A c \in Callers : told[c].ret = "ok" => told[c].result = asked[c]

(* Each request that times out leaves one request or response behind for    *)
(* good, so that from then on a caller is told of an earlier response.      *)
(* Once that fills resp_q, responses are dropped.                           *)
InFlight == kni_fifo_count("req_q") + kni_fifo_count("resp_q")
            + Cardinality({p \in {"ingress"} : pc[p] \in {"answer", "respond"}})
Backlog ==
  timeouts + 1 < KNI_FIFO_COUNT_MAX =>
    InFlight = timeouts + Cardinality({c \in Callers : pc[c] \in {"wait", "asleep", "awake", "take"}})

(* The mbufs of the packets for the kernel come back.                       *)
In(m, q) == \E j \in Slots : fifo[q].buffer[j] = m
MbufsReturn == \A m \in Mbufs : (In(m, "rx_q") \/ In(m, "free_q")) ~> m \in pool

(* A request ends even if it never times out.                               *)
RequestsEnd == \A c \in Callers : At(c, "wait") ~> At(c, "idle")
=============================================================================
