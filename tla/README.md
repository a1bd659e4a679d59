# SDNv2: a verification project in TLA+

SDNv2 is a software Ethernet switch with flow rules, built on an early DPDK. The
switch is in `DPDK/sdn-v2`; the parts of DPDK it stands on are in `DPDK/lib`. This
directory holds TLA+ models of both, TLC configurations that check them on small
instances, and proofs that TLAPS checks for every instance. Paths below are relative to
`DPDK/`; `ring.h` is `lib/librte_ring/rte_ring.h`, and likewise `mbuf.h`, `mempool.h`,
`timer.c`.

    tlasany M.tla                                   parse a module
    tlc -workers 2 -config RingIndex.cfg MCRteRing   one run (section 3)
    tlapm RteRingProofs.tla                         the proofs of a module

## 1. Inventory

| component | state | operations | interaction |
|---|---|---|---|
| options (`lib_parse/parse.c`) | port mask, queues per lcore, timer period | `parse_args` | before everything |
| set-up (`lib_setup/setup.c`) | `rx_queue_list` of each lcore, ports | `init_ports`, `check_all_ports_link_status` | master lcore alone; constant afterwards |
| EAL (`librte_eal`) | `lcore_config[]`: state, function, two pipes | create, remote launch, wait | master and slaves, byte by byte, no lock |
| main loop (`learning-switch/main.c`) | `tx_mbufs`, time stamps | drain, receive, pipeline | one instance per lcore, no lock anywhere |
| pipeline (`lib_pipeline`) | none | learn, classify, enforce, route, output | direct calls; a component passes its result to the next one as a header put before the frame |
| address table (`lib_l2`) | `l2_addr_map_` | learn, find | shared by all lcores, unlocked |
| Ethane (`lib_ethane`) | one rule | classify, enforce | every lcore adds the rule when it starts |
| classifier (`lib_classifier`) | field maps, `rule_counter_`, `action_table_` | `add_rule`, `find` | shared, unlocked |
| output (`lib_io`) | transmit buffers | flood, send one, send burst | calls the driver, allocates headers |
| ixgbe driver (`librte_pmd_ixgbe`) | software rings, tails, free descriptors | transmit, receive | shares descriptor rings with the hardware |
| mbufs (`librte_mbuf`) | reference counts, chains | allocate, free | used by driver and pipeline |
| mempools (`librte_mempool`) | per-lcore caches over a ring | get, put | every allocation and free |
| ring (`librte_ring`) | four indices, table, watermark | enqueue, dequeue, queries | lock-free, all lcores |
| timers (`librte_timer`) | status words, three lists per lcore, a spinlock per list | reset, stop, manage | any lcore on any lcore's lists; callbacks |
| KNI (`librte_kni`, kernel module) | six fifos in shared memory, one request buffer | bursts, requests, responses | application threads, a kernel thread, the kernel's network stack |

Hard behaviours, and what is correct there:

* **Ring.** Threads race on the heads, finish their copies out of order and must
  publish in order, on indices that wrap. Correct: no object lost, duplicated or
  reordered; no slot shared; nobody refused without cause; nobody waits for ever.
* **Buffers and pools.** Every buffer is in exactly one place and is freed exactly once,
  when the driver takes only a part of a burst, when pools run dry, when descriptors are
  reused, when caches are flushed and refilled. A pool of the right size never refuses.
* **Packet path.** Frames of a conversation stay in order, a forbidden flow never
  leaves, the internal headers never reach the wire, and a buffer that never fills is
  still sent.
* **Sharing between lcores.** Address table, rule table and transmit queues have no
  lock. What survives the races, and what does not, is stated below.
* **Start-up.** Each enabled port is polled by exactly one lcore; limits of arrays and
  loops hold for every mask, every set of lcores and every option; no lcore is given a
  function before it is ready, and every one comes to its loop.
* **Timers.** A timer is configured from another lcore while its owner runs it. Lists and
  statuses agree, a callback runs once at a time and not early, what is due is served.
* **KNI.** Both sides look at an index once and act on it later; a request may time out
  while its answer is under way.

`PROJECT.json` lists the hazards line by line with the properties that cover them.

## 2. Modules

| module | models | code |
|---|---|---|
| `BoundedFifo` | abstract specification: a FIFO with atomic bulk and burst calls | header comment of `ring.h` |
| `RteRing` | enqueue and dequeue, one action per shared access; watermark | `ring.h:289-601`, wrappers, `rte_ring.c` |
| `RingQuery` | `RteRing` with full, empty, count, free_count in two steps each | `ring.h:890-945` |
| `Mempool` | put and get with per-lcore caches; the ring's calls are atomic | `mempool.h:460-780`, `rte_mempool.c` |
| `Mbuf` | reference counts, chains and pools as operators on one record | `mbuf.h:389-717` |
| `LearningSwitch` | EXTENDS `Mbuf`: main loop, pipeline, output, driver | `sdn-v2`, `ixgbe_rxtx.c:609-942, 1254-1435` |
| `Classifier` | the rule table under concurrent `pipeline_init` | `lib_classifier`, `lib_ethane` |
| `Startup` | options, assignment of ports, link check | `lib_parse`, `lib_setup` |
| `Launch` | the hand-shake of master and slaves | `eal_common_launch.c`, `eal_thread.c` |
| `Main` | EXTENDS `Startup`, INSTANCE `Launch`: the program up to the loops | `main.c:152-181`, `eal.c:779-806` |
| `Timer` | reset, stop, manage, callbacks | `timer.c:112-505` |
| `Kni` | fifos, bursts, kernel thread, requests | `rte_kni.c`, `rte_kni_fifo.h`, `kni_net.c` |
| `MC...` | values for TLC, symmetry sets | |
| `RteRingProofs`, `MempoolProofs`, `LearningSwitchProofs`, `SwitchPathProofs`, `ClassifierProofs`, `MainProofs`, `TimerProofs`, `KniProofs` | theorems (section 5) | |

The modules are layered as the code is: `RteRing` is shown to implement `BoundedFifo`,
`Mempool` uses the ring by that promise, `LearningSwitch` uses pools by what
`ObjectsConserved` says of them (a bag of buffers), and starts in a configuration that
`Startup` produces, after the launch that `Main` follows.

**State and names.** Variables have the names of the code's fields (`prod_head`,
`tx_mbufs`, `l2_addr_map_`, `rule_counter_`); local variables that survive a step are
functions of the thread; `pc` is the thread's place in the code. An action is one
function or the part of one between two accesses another thread can observe; its
comment names it.

**Definitions named `Mutant...`** are plausible mistakes, each beside the definition
it would replace (`PROJECT.json`, "mutants"). They are used by no specification; each
property has one that makes it fail.

### RteRing

`EnqueueCall` reads `prod.head`; `EnqueueAdmitted` or `EnqueueRefused` reads
`cons.tail` and decides; `ReserveSlots` or `ReserveSlotsFails` is the compare-and-set;
`WriteEntry` copies one object; `CheckWatermark` reads the watermark; `PublishEntries`
waits and moves `prod.tail`. Dequeue mirrors this. With `SpEnqueue` (`ScDequeue`) the
compare-and-set and the wait disappear, as in the `sp_` and `sc_` variants, and an
assumption allows one thread on that side, as their documentation demands.

*Memory model.* The steps are sequentially consistent. The target is x86, whose only
reordering is a store that becomes visible after a later load of another address. The
compare-and-set is a locked instruction, and the copies and the tail that publishes them are
stored, or loaded and then stored, in program order. What remains is the tail stored at the
end of a call and the opposite tail loaded in the next one: a producer and a consumer may
each miss the other's last tail, which no interleaving allows. Each then sees less room, or
fewer entries, than there are, and acts as if the other had not finished; `AnswersHonest`
holds of the tails as they are in memory. In the single-thread variants the head is a plain
store, but only its own side reads it.

*MaxDrift*, the model's one bound, and a condition of the proofs: a thread is not held
between its read of a head and its compare-and-set while the others reserve more than
`IndexMod - Size` entries (2^32 minus the size). Without it the compare-and-set could
succeed on an index that has come full circle, as the code's comment on preemption
admits. `drift` counts this; it is a history variable the code does not have.

### LearningSwitch

A burst goes to the driver packet by packet: `TxBegin` (it reads `tx_tail` and may
reclaim), `TxPacket` (one packet into the next descriptors, the segments they held before
freed), `TxReclaim` (short of descriptors, it reclaims once more), `TxEnd` (it stores
`tx_tail`) and `FreeUnsent` (`send_burst` frees what was not taken), because two lcores may
be in one queue at once. The transmit ring is `sw_ring` with `tx_tail`, `nb_tx_free`,
`last_desc_cleaned` and the hardware's own index, `head`, which `HwSend` moves. Reclaiming
takes none or all finished descriptors: the hardware reports completion in groups (RS bit).
The race of two lcores on the fields of one descriptor is not split further; and when no
packet fits at all, the code returns without storing the tail it read, which `TxEnd`
stores: the same for a lcore alone in the queue. `Tick` lets `BURST_TX_DRAIN` cycles pass
at any moment.

`component_output` reads its port from the packet. If another lcore has received a frame
in the same buffer meanwhile (finding 2), what it reads is arbitrary (`OutputPorts`); a
number past the end of `tx_mbufs` ends the process in the model.

The address table is a `std::unordered_map` used without a lock: a set of nodes, since a
race may link two for one key. One `Insert` after another looks again and keeps what is
there. While another lcore inserts, a lookup may miss; two lcores in `Insert` at once may
both find nothing and link a node each, one's rehash may unlink any nodes, and the table is
`damaged` from then on, so that every later use may do the same; and the process may die
(`MapCrash`). The undefined behaviour is a choice among these. An unknown destination
dereferences `end()`; the model ends the process there. `UpperBytes` are the two bytes
of `ether_addr_union` no assignment writes: each read may find a different value.

### Mempool

`PutCall` adds to the cache or goes to the ring; a full cache is flushed in two steps
(`Flush` enqueues the excess, `Trim` resets the length), because another lcore may get
those objects between the two. `GetCall` decides between `Pop`, `Backfill` and
`GetFromRing`. Enqueue's answer is ignored, as in the code: an object the ring does not
take is gone, and `ObjectsConserved` says that this never happens. `SizedPoolServes` is
the rule for sizing a pool: an allocation of one object fails only when all objects but
those in use fit in the caches of the *other* lcores.

### Classifier

Each statement of `add_rule` that touches the shared tables is an action, the load and
the store of `rule_counter_++` separately. Two lcores that change one container at once (the
hash map of a field, the `std::set` of one value, `action_table_`; `Changing`) may unlink any
of its nodes, entries or numbers, those of earlier rules included, and everything is
`damaged` from then on; `TornTable` is the process dying of any use of a container under
change or damaged. `added` and
`disturbed` are history variables: the rules in the order of the calls, and the calls
that overlapped another. `Classify` takes the result of `find` in one step: besides
missing an entry, a torn read can only do what `TornTable` does.

### Startup, Launch and Main

An argument is the number it denotes, or `Malformed`. The three parsers keep the
code's failure values (-1 for a mask, which then means all ports; 0 for queues; -1 for
the period). The assignment loop is one action per turn. A link check round is one
step, in which the links may be up or down as they please.

In `Launch` a pipe is the number of bytes in it. `Send` writes the function and then the
byte, `ReadCommand` takes the byte and sets RUNNING, `SendAck` answers, and only then does
`CallFunction` read the function, when the master may already have gone on. `WaitLcore`
takes both WAIT and FINISHED for an answer. `Main` puts the two together: the threads are
created one by one while earlier ones already run, the dummy launch of `rte_eal_init`
synchronises them, and the launch of `main_loop` ignores -EBUSY, as `MAIN` does.

### Timer

A status word changes by compare-and-set (`Config`, `Reload`) or by a plain store of the
lcore that has it in CONFIG (`Publish`). Every critical section under a `list_lock` is a
step; `rte_timer_manage` holds its lock over several, with other lcores' compare-and-sets
between them. A callback is whatever its lcore does between `Run` and `CallbackReturns`:
calls on any timer. `touched` is a history variable: the callback in progress has reset or
stopped its own timer (the code's `updated` says that it has reset or stopped any).
`stop_sync` repeats `Config`; it is called only outside callbacks, since two callbacks that
wait for each other's timers would wait for ever. `rte_timer_reset_sync` is a plain reset in
this code: `rte_timer_reset` always returns 0.

### Kni

A put and a get are two steps, the look at the other side's index and the move of one's own.
`TxBurst`..`TxFree` and `RxBurst`..`RxFill` are the application, `KernelRx`..`KernelPoll`
the kernel thread, `Xmit`..`XmitPut` the kernel's transmit function. A request goes through
`Request`, `RequestSent`, `ResponseThere` and `ResponseTaken`, or ends in `TimedOut`, which
leaves the request in its fifo. `Backlog` states what follows: each time-out leaves one
request or response behind, so that later callers get the answer of an earlier request,
until so many are left that `resp_q` is full and responses are dropped (hence the guard of
`Backlog`); `OwnAnswer` is therefore stated for behaviours without a time-out. The content
of packets is left out; the two loop-back modes of the kernel module are not modelled.

## 3. Runs

| run | question | bounds | distinct states |
|---|---|---|---|
| `RingIndex` | index order, ranges, slots, honest refusals, watermark | 2 producers and 2 consumers that race, size 4, bulk and burst calls of 2, watermark 2 | 2.5 M |
| `RingFifo` | refinement of `BoundedFifo`; answers of the queries | 2 producers, 1 single consumer that asks, 2 objects, calls of 1 | 1.8 M |
| `RingBurst` | burst calls, racing consumers, answers of the queries; liveness | 1 single producer that asks, 2 consumers, calls of 2 | 316 k |
| `SwitchPath` | ownership, order, isolation, routing, learned ports | four configurations: 1 lcore, unicast, 5 frames; 1 lcore, flooding, 3 frames, unwritten bytes vary; 1 lcore, one host on both ports, 3 frames, unwritten bytes vary; 2 lcores, one host on both ports, 2 frames | 233 k |
| `SwitchDrain` | every buffered packet leaves (liveness) | 1 lcore, 3 frames | 110 k |
| `SwitchTxQueue` | **violated**: one lcore per transmit queue | 2 lcores | |
| `SwitchFreed` | **violated**: allocated buffers have no reference | 4 broadcasts | |
| `Classifier` | first match; undisturbed rules stay | 2 lcores, 3 calls, 2 fields, 2 values | 3.1 M |
| `Main` | assignment, limits, link report; readiness, launch, every loop reached (liveness) | any of 3 lcores, 0, 3 or 5 devices, MAX_PORTS 4 | 15 k |
| `Mempool` | conservation, cache bounds, pool size | 2 lcores, 6 objects, cache of 3, requests of 1, 2 and 4 | 7 k |
| `Timer` | lists, callbacks, expiry; due timers are served (liveness) | 2 lcores, 2 timers, delays 0 and 1, 3 events | 359 k |
| `Kni` | conservation, sufficient checks, answers, backlog; mbufs and callers come back (liveness) | both directions with 2 mbufs, each alone with 3, 2 slots; 2 callers, 3 requests, 0 or 1 time-out, 4 slots | 46 k |

**Why the bounds are enough.** In the ring runs `Size` is 4 and `IndexMod` 8, starting
at 6: every index wraps within a few calls, the ring fills and empties, and two
requests of 2 do not fit in the 3 entries it holds, so refusals, partial bursts and
retries all occur, and several ranges are in progress at once. There is no bound on the
number of calls: the state space is closed, as it is in `Mempool`, where requests lie
below, at and above the size of the cache and above its flush threshold.
In the switch runs `MAX_PKT_BURST` is 1 or 2 and `NbTxDesc` is 3 (two descriptors in
use at most), so buffers fill, bursts are partly refused and descriptors are reused
within `max_frames` frames; that is the only counter bound, and the actions stop at it.
The configuration with most frames uses one value of the unwritten bytes, because a lookup
that misses ends the process, which hides nothing else; two others use two values. Three
calls in `Classifier` are one that overlaps nothing and two that overlap after it, which
two lcores can make. In `Mempool` six objects are too few to overflow the array of a cache,
so of `CacheBounded` the run can break only the half about the flush threshold; the other
half rests on the theorem. In `Main` arguments lie on both sides of each limit. In `Timer` an
event is a call of reset or stop or a tick of the clock (`MaxEvents`): three suffice for a timer to be set, to fall
due and to be reset by another lcore while its callback runs. `Kni` has fewer slots than
mbufs, so puts are refused. Deadlock is not checked where the system stops by itself: the
frames have run out, start-up has ended in an error, the events or requests are used up.

**Fairness.** `RteRing!FairSpec`: a thread inside a call keeps taking steps (weak
fairness per thread); no fairness for making calls. The threads are pinned to cores and
the ring's documentation excludes preemption. `LearningSwitch!FairSpec`: each lcore
keeps running its loop and the time stamp counter advances; nothing is assumed of the
network or of the card. `MainSpec`: every thread is scheduled. `Timer!FairSpec`: each lcore
calls `rte_timer_manage` again and again, as `rte_timer.h` demands, callbacks return, and
an lcore that spins on a lock or in `stop_sync` gets its turn if the lock is free again
and again (strong fairness: the spinlock promises no order, so what is assumed is
that no lcore loses the race for it for ever).
`Kni!FairSpec`: the application polls both directions, as `examples/kni` does, the kernel
thread runs, and a caller inside a request goes on. The kernel need not send or ask.

**What the properties say.** The comment before each one states it and the behaviour
it is about. Some are conditional, and the condition is part of the result:

* `MbufsOwnedOnce` (packet buffers), `InOrder`, `RoutedToLearned`, `ForbiddenStays` and
  `BareOnTheWire` are about one lcore with all ports and traffic without broadcasts
  (`Clean`): two lcores share a transmit queue (finding 1), where both may free the buffer
  of one descriptor, and flooding frees twice (finding 2). Header buffers are owned once
  also under flooding.
  With five packet buffers, broadcasts and six frames TLC finds a behaviour in
  which a forbidden frame leaves: finding 2 puts a buffer in the pool that still waits in
  a transmit ring, and the next frame received in it is sent in its place.
* The bounds of the transmit buffers (in `TypeOK`) have no condition.
* `FirstPortKept` holds until two lcores are in an insertion at once (`damaged`): lookups may
  overlap with it, and one that is out of date leads to an insertion that changes nothing.
  Two insertions at once are undefined behaviour, after which a port may change.
* With varying unwritten bytes `RoutedToLearned` allows a port learned under any of their
  values; a host may then have two.
* `FirstMatch` is about calls of `add_rule` that do not overlap, `RuleKept` about the rules
  whose own call overlapped no other. Later calls may overlap as long as no two change one
  container at once; after that nothing is claimed.
* `RunsAlone` and `NotEarly` are about callbacks that have not reset or stopped their own
  timer, whatever they did to others. One that has given its timer to another lcore may run
  there at the same time, in the model as in the code.

## 4. Findings

1. *The transmit queue is shared* (`SwitchTxQueue`). `setup.c:67` says "Each logical
   core is assigned a dedicated TX queue on each port." One queue is set up per port
   (`setup.c:115,127`), `tx_queue_id` is never assigned, and every lcore sends on queue
   0. The driver's functions must not run in parallel on one queue
   (`rte_ethdev.h:55-61`).
2. *A flooded frame is freed twice* (`SwitchFreed`). `pkt_flood` (`io.cc:127-146`) puts
   one frame behind a header for each of two ports without taking a reference. Each
   chain frees it: the first free puts the buffer into the pool with count 0, the second
   takes the count to -1 and puts nothing back (`mbuf.h:674-676`). The run then allocates
   the buffer with that count, against the assertion at `mbuf.h:397`.
   This run does not show it, but between the two frees the buffer is in the pool while the
   other chain still waits in a transmit ring, and a forbidden frame received in it may
   leave the switch (section 3).

Seen while modelling, without a run of their own:

* *Ring.* "'free_entries' is always between 0 and size(ring)-1" (`ring.h:308-311`) does not
  hold when `prod_head` is out of date (it may be larger; `Snapshots` in `IInv` says by how
  much, and the compare-and-set then fails). The watermark reports when it is exceeded
  (`ring.h:342`).
* *Mempool.* A get may fail although the cache of the caller and the ring together have
  enough ("truly out of buffers", `mempool.h:674-679`). The single-consumer variant does not
  look at the cache at all. With a cache of one object each lcore keeps one for good, since
  gets of one bypass the cache. `rte_mempool_audit` on another lcore may see a cache between
  a put and its flush, and panic (`rte_mempool.c:389-392`).
* *Classifier.* Every lcore adds the rule (`ethane.cc:59`). Calls that overlap promise
  nothing: two that change one container at once may lose numbers, and even without that the
  numbers entered for the fields may have an empty intersection, or the counter may be stored
  back below them. A forbidden packet is then allowed.
* *Timer.* A SINGLE timer whose callback resets or stops *another* timer stays RUNNING
  (`timer.c:446`) until the loop over `done` makes it PENDING, and so runs again at every
  `rte_timer_manage`, where `rte_timer.h:206-207` says it goes to STOPPED. `ListsSound` says
  that it does not stay RUNNING. `rte_timer_reset` always returns 0, so
  `rte_timer_reset_sync` never tries again. A reset that races with `rte_timer_manage` may
  be put off by one period.
* *KNI.* After a time-out every later caller receives the response of an earlier request
  (`kni_net.c:613`). `rte_kni.h` exchanges which burst frees and which allocates mbufs.
* *Launch.* `eal_thread_loop` looks for its own `thread_id`, which `pthread_create` may not
  have stored yet (`eal.c:793`, `eal_thread.c:179-184`). `MAIN` ignores -EBUSY
  (`EveryLcoreLoops` says that it never comes).
* *Start-up.* `parse.c:19` gives 86400 as the maximum period, line 50 refuses it. A
  malformed port mask enables every port (`parse.c:94`). `BURST_TX_DRAIN` and
  `TIMER_MILLISECOND` are ten times off what their comments say (`defs.h:63,79`).
* *Address table.* An unknown destination dereferences `end()` (`l2.cc:73-78`); no property
  covers it, the model ends the process there.

## 5. Proofs

Each theorem holds for every value of the constants that the named assumptions of its
module allow; TLC evaluates the same assumptions in the runs.

| module | theorem | statement |
|---|---|---|
| `RteRingProofs` | `SpecIInv`, `TypeSafe` | the inductive invariant and the types |
| | `IndexOrderSafe`, `RangesSafe` | `IndexOrder`, `RangesDisjoint` always hold |
| | `SlotsNeverShared` | `NoSharedSlot` always holds |
| | `CallsAnsweredHonestly`, `WatermarkReported` | the action properties `AnswersHonest`, `SilenceBelowWatermark` |
| | `RingIsFifo` | `Spec => ImplementsFifo`: the ring implements `BoundedFifo` |
| | `PromisesKept` | what a query answers to a lcore alone on its side holds (`PromiseKept`) |
| `LearningSwitchProofs` | `BuffersStayBounded` | no transmit buffer is written past its end |
| | `LearnedPortsStay` | the action property `FirstPortKept` |
| | `SpecIInv`, `TypeSafe` | the inductive invariant of any lcores; `TypeOK` |
| `SwitchPathProofs` | `MbufsOwned` | `MbufsOwnedOnce` |
| | `ForbiddenNeverSent`, `SentBare`, `SentAsLearned` | `ForbiddenStays`, `BareOnTheWire`, `RoutedToLearned` |
| | `OrderKept` | `InOrder` |
| `MempoolProofs` | `TypeSafe`, `CachesBounded` | types; `CacheBounded` |
| | `ObjectsKept`, `PoolServes` | `ObjectsConserved`; the action property `SizedPoolServes` |
| `TimerProofs` | `CallbacksRunAlone` | `RunsAlone` |
| | `TypeSafe`, `ListsAreSound`, `NeverEarly` | `TypeOK`, `ListsSound`, `NotEarly` |
| `KniProofs` | `SpecIInv`, `TypeSafe` | the inductive invariant; `TypeOK` |
| | `NoMbufLost`, `ChecksHold` | `MbufsConserved`, `ChecksSuffice` |
| | `OwnAnswers`, `BacklogGrows` | `OwnAnswer`, `Backlog` |
| `MainProofs` | `StatesAreTrue`, `SlavesAreReady` | `StatesTrue`, `SlavesReady` |
| | `PortsPolledOnce`, `RefusalsAreRight`, `LinksAreReported` | the three properties of start-up |
| | `TypeSafe`, `ListsBounded` | types of start-up; no list longer than its array |
| `ClassifierProofs` | `TypeSafe`, `RulesAreKept` | types; `RuleKept` |
| | `FirstRuleIsFound` | `FirstMatch` |

*Assumptions worth naming.* `SizeAssumption` of the ring asks for no power of two; only
`SlotsNeverShared` uses `DivisionAssumption`, that the size divides the range of an index
(which the power of two that `rte_ring_create` insists on gives). `MaxDrift` bounds
preemption (above). `RingAssumption` of `Mempool`: fewer than 2^30 objects, so that the ring
has a size. `Startup`: `MAX_RX_QUEUE_PER_LCORE` is at least 2. `Kni`: a fifo has at least two
slots (`BoundsAssumption`; `kni_fifo_init` wants a power of two), and the values the model
tells apart are different (`ValuesAssumption`, `CallersAssumption`).

*RteRing.* `IndexOrder` is not inductive alone. A reservation is safe because the free
entries were computed from a head that is still current, so `IInv` says what a thread
knows after its read of the head: `Snapshots` (the head has moved by exactly `drift`
since) and `StillAdmitted` (if it has not moved, the room or the entries counted are still
there, because the other side only adds to them). The compare-and-set succeeds when the
index values are equal, and with `drift <= MaxDrift < IndexMod` that means `drift = 0`.
Publishing needs `RangesDisjoint`: the range that starts at the tail is the first, so all
others lie behind its end. `Counters` ties the locals of a call together; `Alone` replaces
the compare-and-set and the wait in the single-thread variants. `NextIInv` has one step per
action; the steps that move no index share `QuietStep`, the four that do have a lemma each.
`NoSharedSlot` follows from `IInv`: all reserved entries lie less than a table ahead of
`cons_tail`, so two of them share a slot only if they are one (`WaysApart`). The watermark
needs `RoomKnown` besides: the room a producer counted is still free after its
compare-and-set, until it has decided.

*The ring is a FIFO.* The queue is what lies between `cons_head` and `prod_tail`, a call in
progress is a call record, and what a consumer has reserved (copied or still in the table) is
what it has taken. `Contents` is invariant besides `IInv`: how far each copy has come
(`Progress`), and that the slots a producer has passed hold what it copied (`Written`).
`WritesApart` and `PublishedApart` say that a write hits no slot of another range and none of
the queue: both are `WaysApart` again. `PublishEntries` appends its range because it starts
where the queue ends (`QueueGrows`), `ReserveEntries` takes the front (`QueueShrinks`),
`ReadEntry` leaves `Taken` as it is (`ReadEntryTaken`), and every other action but calls and
refusals stutters. `RingIsFifo` collects one step per action.

*Queries.* `LoneAskers`: a lcore that asks is alone on its side, which is when an answer means
anything. `Asked` and `Trusted` say what it knows between the two reads and after the answer;
only the other side moves, and that only adds (`EntriesGrow`, `RoomGrows`). The answer is a
remainder of a difference that wraps (`CountValue`, `FreeCountValue`).

*LearningSwitch.* `IInv` says only what survives double frees and races: types (`Types`),
that a lcore in the pipeline has a packet and one in the driver a buffer to send (`Ready`),
and that a full transmit buffer is on its way to the driver (`Bounded`). `LearnedPortsStay` needs
one thing more, `OnePort`: while the table is not damaged it has one node for each key, which
an insertion that is not disturbed keeps, since it looks again (`OnePortStep`). That the output port
is a port is *not* part of it, since a header could be overwritten through a buffer that was
freed twice: the bound on the buffers holds even then.
`TypeOK` bounds `nb_tx_free` for a lone lcore. `Idle`: the others never leave their first
step. `Rings`: of the descriptors of a transmit ring all but one are free, to be reclaimed, in
flight or being filled, counted around the ring (`Between`); so `nb_tx_free` never promises a
descriptor that is in flight, and the bound follows.

*SwitchPath.* What is said of single buffers and frames holds with one lcore, and, of
packet buffers, as long as nothing is flooded (`Clean`). `MbufsOwned` comes first. `Owned`
counts (`Num`) how often a buffer occurs in each place, and says that it is in one place
once, with one reference, or in the pool; `Chains` and `Unflooded` say which buffers may
lead a chain, so that freeing a packet frees one tracked buffer. Every action is then one
of a few moves: a buffer goes from one place to another, from the pool to a place or back
(`OwnedStep`).

On top of it, `Passage` says what is known of a packet at each `Stage` of the pipeline
(behind `learn` its source has a port; between `classify` and `enforce` its one header is its
class; between `route` and `output` it is the port learned for its destination) and that
whatever is on its way out is `Fit`: bare, allowed, and on the port of its destination.
What is on its way stays so because nobody writes to a buffer in two places, and there are
none (`Apart`, from `Owned`), and because one lcore alone never damages the table
(`Undamaged`), so that a learned port is kept (`PortKept`). `OrderKept`
needs no stages but places: `Lines` says that the arrival numbers of one receive port grow
along the descriptors in flight, the transmit buffer and the burst, and every step is one of
six `Moves` along that line (a burst arrives, the current packet is dropped, or buffered, one
is loaded into descriptors, unsent ones are discarded, or all stay where they are).

*Mempool.* For the bounds lengths suffice: `LengthKnown` gives the length of a cache at each
step of a call. `ObjectsKept` adds `Conserved`: the ring, the caches and what users hold are a
partition (`Partition`) in which nothing occurs twice (`Once`). Each step is a `Move` of
objects between two places, and the ring is never full, so that ignoring enqueue's answer is
harmless. `PoolServes` counts: a refused get finds ring and own cache empty, so all objects
are held or in caches of other lcores, which are too small for them.

*Timer.* Two layers. `IInv`: `Configured` (who holds a timer in CONFIG), `InHand` and
`Untouched` (the timer of the running callback is RUNNING here unless the callback has
touched it) make `RunsAlone` inductive. `LInv` is about the lists: each is without
repetition and no timer is in two (`NoRepeats`, `Unique`), status and place agree
(`Placed`), a timer that is RUNNING is still to be looked at by the `rte_timer_manage` that
ran it (`Running`), what a call is about to unlink or link is where it expects it
(`Moving`), who holds a lock is in the section it guards (`Locked`), and what was collected
was due (`Due`).

*KNI.* The indices of a fifo wrap by a remainder; `Gap` and `After` replace it. `FifoOK` says
that exactly the slots between the two indices are filled, `Sights` that the index a side has
seen is not ahead of the true one, so that there is at least the room, or the entries, it
counted, and `Counts` that what the kernel thread counted beforehand in two fifos lasts until
it acts. `Single` puts each mbuf in one place; `Pending` counts the requests under way, and
`Answers` says which request each response in the queue is about.

*Main.* `Protocol` describes each slave as resting, called or under way, with the bytes in
its pipes; `Phases` says what the master knows. *Startup.* `Assigned` and `Rounds` say what
the loops have done so far; `RefusalsAreRight` counts places over all lists. *Classifier.*
`Counted` bounds the counter by the calls begun, and `Kept` follows a number from the call
that took it, while nothing is damaged: no later call stores the counter below it.
`Damaging`: without calls that overlap there is no damage, which `FirstMatch` needs.
`FirstRuleIsFound` needs `Numbered` besides: while no calls overlapped, a rule's number is
its place in the order of the calls, so that the least number left after the intersection is
the first rule that matches.

*Only model-checked:* every invariant of the runs that must pass, the refinement of the FIFO
and every action property is a theorem. What is left to TLC are the liveness properties
(`ReservationsComplete`, `BufferedDrains`, `EveryLcoreLoops`, `DueServed`, `MbufsReturn`,
`RequestsEnd`), which the prover cannot treat, as it cannot treat ENABLED and induction over
data.

## 6. Not modelled

* *Range match* (`match_range.hh`): only `test.cc` uses it. *Patricia trie*: not in the build.
* *ixgbe driver* but for its receive and transmit functions: registers, queue set-up,
  interrupts; in those functions offload contexts, RS-bit spacing, multi-segment receive.
* *mbufs*: attach, detach, clone (the switch never clones), control mbufs, append.
* *KNI*: loop-back modes, creation and release of devices, ethtool.
* *rte_malloc heap* (initialisation only, under a lock), *statistics* (printing only; the
  call is commented out), and the DPDK libraries, drivers and examples the switch does not
  use, which are most of the files of the repository.

`PROJECT.json` gives the reason for each.

## 7. Plan

Done: ring with its refinement and proofs; mbufs and packet path; classifier; start-up;
mempool; launch and `Main`; timers; KNI; proofs for all of them. Left, in this order:

1. `LearningSwitch` over `Mempool` instead of bags, with caches that hold buffers back.
2. Driver detail in a module of its own: groups of descriptors with one RS bit.
3. `Patricia` and the range match as functions against a reference definition.
