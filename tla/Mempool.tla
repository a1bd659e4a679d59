------------------------------ MODULE Mempool ------------------------------
(***************************************************************************)
(* lib/librte_mempool: a pool of objects of one size.  The objects that are *)
(* not in use lie in a ring all lcores share and in a cache of each lcore.  *)
(* A put fills the cache and flushes what exceeds a threshold to the ring;  *)
(* a get empties the cache and refills it from the ring.                    *)
(*                                                                         *)
(* The calls on the ring take effect at once (RteRing implements            *)
(* BoundedFifo); everything else a call does is a step of its own.  The     *)
(* cache of a lcore is the sequence of the first len entries of objs.       *)
(***************************************************************************)
EXTENDS Naturals, Sequences, FiniteSets

CONSTANTS
  Lcores,
  Objs,                        \* the objects the pool was created with
  cache_size,                  \* 0: no caches
  RTE_MEMPOOL_CACHE_MAX_SIZE,
  Requests                     \* bound: the sizes of the bulk calls made

ASSUME ObjsAssumption == IsFiniteSet(Objs)
ASSUME LcoresAssumption == IsFiniteSet(Lcores)
ASSUME RequestsAssumption == Requests \subseteq Nat \ {0}
(* rte_mempool_create refuses a larger cache. *)
ASSUME CacheAssumption == /\ RTE_MEMPOOL_CACHE_MAX_SIZE \in Nat
                          /\ cache_size \in 0 .. RTE_MEMPOOL_CACHE_MAX_SIZE

VARIABLES
  ring,    \* the common pool
  cache,   \* local_cache[lcore].objs, up to len
  held,    \* the objects in the hands of the application
  pc,      \* what each lcore does next
  n,       \* the size of the call in progress
  multi,   \* is_mp or is_mc: other lcores may use the ring at the same time
  table    \* the objects of a put that goes to the ring

vars == <<ring, cache, held, pc, n, multi, table>>

size == Cardinality(Objs)

(* CACHE_FLUSHTHRESH_MULTIPLIER is 1.5, and the product is truncated. *)
cache_flushthresh == (3 * cache_size) \div 2
CacheArray == 3 * RTE_MEMPOOL_CACHE_MAX_SIZE

(* The ring has rte_align32pow2(n + 1) slots, one of which stays empty. *)
Powers == {2 ^ k : k \in 0 .. 30}
RingSize == CHOOSE p \in Powers : p > size /\ \A q \in Powers : q > size => p <= q
Mask == RingSize - 1

(* That power of two exists: a pool has fewer than 2^30 objects.            *)
ASSUME RingAssumption == Mask \in Nat /\ size <= Mask

Elements(s) == {s[k] : k \in DOMAIN s}
First(s, k) == SubSeq(s, 1, k)
From(s, k) == SubSeq(s, k, Len(s))

At(l, label) == pc[l] = label
Goto(l, label) == pc' = [pc EXCEPT ![l] = label]
Return(l) == Goto(l, "idle")

(* The duty of who calls a single-producer (single-consumer) variant: no    *)
(* other lcore puts (gets) in the meantime.                                 *)
PutLabels == {"enqueue", "flush", "trim"}
GetLabels == {"backfill", "pop", "dequeue"}
Alone(l, labels, is_multi) ==
  \A o \in Lcores \ {l} : pc[o] \in labels => is_multi /\ multi[o]

-----------------------------------------------------------------------------
(* The bulk enqueue of the ring, whose answer no caller looks at: when      *)
(* there is no room the objects are gone.                                   *)
Enqueue(s) == ring' = IF Len(ring) + Len(s) <= Mask THEN ring \o s ELSE ring

(* Creation enqueues the objects one by one. *)
Init ==
  /\ \E s \in [1 .. size -> Objs] :
       /\ Elements(s) = Objs
       /\ ring = First(s, IF size <= Mask THEN size ELSE Mask)
  /\ cache = [l \in Lcores |-> <<>>]
  /\ held = {}
  /\ pc = [l \in Lcores |-> "idle"]
  /\ n = [l \in Lcores |-> 0]
  /\ multi = [l \in Lcores |-> TRUE]
  /\ table = [l \in Lcores |-> <<>>]

-----------------------------------------------------------------------------
(* rte_mempool_put_bulk of some objects the application holds, on whatever  *)
(* lcore they were allocated.  The single-producer variant, a pool without  *)
(* caches and a table no cache could take go straight to the ring; else     *)
(* the objects are added to the cache, which may then be due for a flush.   *)
MutantDue(s) == Len(s) > cache_flushthresh  \* mutant: off by one
Due(s) == Len(s) >= cache_flushthresh

PutCall(l) ==
  /\ At(l, "idle")
  /\ \E k \in Requests, is_mp \in BOOLEAN : \E objs \in [1 .. k -> held] :
       /\ Alone(l, PutLabels, is_mp)
       /\ Cardinality(Elements(objs)) = k
       /\ held' = held \ Elements(objs)
       /\ n' = [n EXCEPT ![l] = k]
       /\ multi' = [multi EXCEPT ![l] = is_mp]
       /\ IF cache_size = 0 \/ ~is_mp \/ k > RTE_MEMPOOL_CACHE_MAX_SIZE
            THEN /\ table' = [table EXCEPT ![l] = objs]
                 /\ Goto(l, "enqueue")
                 /\ UNCHANGED cache
            ELSE /\ cache' = [cache EXCEPT ![l] = @ \o objs]
                 /\ Goto(l, IF Due(cache[l] \o objs) THEN "flush" ELSE "idle")
                 /\ UNCHANGED table
  /\ UNCHANGED ring

PutToRing(l) ==
  /\ At(l, "enqueue")
  /\ Enqueue(table[l])
  /\ table' = [table EXCEPT ![l] = <<>>]
  /\ Return(l)
  /\ UNCHANGED <<cache, held, n, multi>>

(* What exceeds the size of the cache is enqueued; other lcores can get it  *)
(* before the length of the cache has been reset.                           *)
Flush(l) ==
  /\ At(l, "flush")
  /\ Enqueue(From(cache[l], cache_size + 1))
  /\ Goto(l, "trim")
  /\ UNCHANGED <<cache, held, n, multi, table>>

MutantTrim(l) ==  \* mutant: forgets one object more
  /\ At(l, "trim")
  /\ cache' = [cache EXCEPT ![l] = First(@, cache_size - 1)]
  /\ Return(l)
  /\ UNCHANGED <<ring, held, n, multi, table>>
Trim(l) ==
  /\ At(l, "trim")
  /\ cache' = [cache EXCEPT ![l] = First(@, cache_size)]
  /\ Return(l)
  /\ UNCHANGED <<ring, held, n, multi, table>>

-----------------------------------------------------------------------------
(* rte_mempool_get_bulk: a call that asks for less than a full cache is     *)
(* served from the cache, refilled first if it holds too little.            *)
GetCall(l) ==
  /\ At(l, "idle")
  /\ \E k \in Requests, is_mc \in BOOLEAN :
       /\ Alone(l, GetLabels, is_mc)
       /\ n' = [n EXCEPT ![l] = k]
       /\ multi' = [multi EXCEPT ![l] = is_mc]
       /\ Goto(l, IF cache_size = 0 \/ ~is_mc \/ k >= cache_size THEN "dequeue"
                  ELSE IF Len(cache[l]) < k THEN "backfill"
                  ELSE "pop")
  /\ UNCHANGED <<ring, cache, held, table>>

(* The ring must give what is missing to a full cache and the call: if it   *)
(* cannot, the call tries the ring alone.                                   *)
Missing(l) == n[l] + (cache_size - Len(cache[l]))
Backfill(l) ==
  /\ At(l, "backfill")
  /\ Len(ring) >= Missing(l)
  /\ cache' = [cache EXCEPT ![l] = @ \o First(ring, Missing(l))]
  /\ ring' = From(ring, Missing(l) + 1)
  /\ Goto(l, "pop")
  /\ UNCHANGED <<held, n, multi, table>>

MutantBackfillFails(l) ==  \* mutant: gives up
  /\ At(l, "backfill")
  /\ Len(ring) < Missing(l)
  /\ Return(l)
  /\ UNCHANGED <<ring, cache, held, n, multi, table>>
BackfillFails(l) ==
  /\ At(l, "backfill")
  /\ Len(ring) < Missing(l)
  /\ Goto(l, "dequeue")
  /\ UNCHANGED <<ring, cache, held, n, multi, table>>

(* The last n entries of the cache. *)
Pop(l) ==
  LET rest == Len(cache[l]) - n[l]
  IN /\ At(l, "pop")
     /\ held' = held \cup Elements(From(cache[l], rest + 1))
     /\ cache' = [cache EXCEPT ![l] = First(@, rest)]
     /\ Return(l)
     /\ UNCHANGED <<ring, n, multi, table>>

GetFromRing(l) ==
  /\ At(l, "dequeue")
  /\ Len(ring) >= n[l]
  /\ held' = held \cup Elements(First(ring, n[l]))
  /\ ring' = From(ring, n[l] + 1)
  /\ Return(l)
  /\ UNCHANGED <<cache, n, multi, table>>

(* -ENOENT *)
GetRefused(l) ==
  /\ At(l, "dequeue")
  /\ Len(ring) < n[l]
  /\ Return(l)
  /\ UNCHANGED <<ring, cache, held, n, multi, table>>

Put(l) == PutCall(l) \/ PutToRing(l) \/ Flush(l) \/ Trim(l)
Get(l) == \/ GetCall(l) \/ Backfill(l) \/ BackfillFails(l) \/ Pop(l)
          \/ GetFromRing(l) \/ GetRefused(l)
Next == \E l \in Lcores : Put(l) \/ Get(l)

Spec == Init /\ [][Next]_vars

-----------------------------------------------------------------------------
TypeOK ==
  /\ ring \in Seq(Objs)
  /\ cache \in [Lcores -> Seq(Objs)]
  /\ held \subseteq Objs
  /\ pc \in [Lcores -> {"idle"} \cup PutLabels \cup GetLabels]
  /\ n \in [Lcores -> Requests \cup {0}]
  /\ multi \in [Lcores -> BOOLEAN]
  /\ table \in [Lcores -> Seq(Objs)]
  /\ \A l \in Lcores : At(l, "enqueue") <=> table[l] # <<>>

(* What the cache holds, without the objects a flush has just enqueued.     *)
Cached(l) == IF At(l, "trim") THEN First(cache[l], cache_size) ELSE cache[l]

(* No object is lost and none is in two places, although no caller looks    *)
(* at the answer of the ring's enqueue: each is in the ring, a cache, the   *)
(* table of a put in progress or the application's hands.                   *)
ObjectsConserved ==
  \A o \in Objs :
    Cardinality({k \in DOMAIN ring : ring[k] = o})
    + Cardinality({lk \in Lcores \X (1 .. size) :
                     lk[2] \in DOMAIN Cached(lk[1]) /\ Cached(lk[1])[lk[2]] = o})
    + Cardinality({lk \in Lcores \X (1 .. size) :
                     lk[2] \in DOMAIN table[lk[1]] /\ table[lk[1]][lk[2]] = o})
    + Cardinality({o} \cap held) = 1

(* The most objects a cache keeps between two calls. *)
MaxCached == IF cache_flushthresh > cache_size THEN cache_flushthresh - 1 ELSE cache_size

(* No store goes past the end of objs, and between two calls a cache is     *)
(* below its threshold, which is what rte_mempool_audit checks.             *)
CacheBounded ==
  \A l \in Lcores : /\ Len(cache[l]) <= CacheArray
                    /\ At(l, "idle") => Len(cache[l]) <= MaxCached

(* Objects in use: those the application holds, and those of puts that are  *)
(* in progress or of gets that are being served.                            *)
InUse == Cardinality({o \in Objs :
           \/ o \in held
           \/ \E l \in Lcores : \/ o \in Elements(table[l])
                                \/ o \in Elements(From(Cached(l), MaxCached + 1))})

(* How large a pool must be: an allocation of one object (that of an mbuf)  *)
(* fails only if, apart from the objects in use, there are no more than     *)
(* what the caches of the other lcores can keep.                            *)
SizedPoolServes ==
  [][\A l \in Lcores :
       pc[l] \in {"backfill", "dequeue"} /\ pc'[l] = "idle" /\ held' = held
         /\ multi[l] /\ n[l] = 1 /\ cache_size > 1
         => size - InUse <= (Cardinality(Lcores) - 1) * MaxCached]_vars
=============================================================================
