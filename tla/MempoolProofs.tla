--------------------------- MODULE MempoolProofs ---------------------------
(***************************************************************************)
(* Proofs about Mempool for every set of objects and lcores, every size of  *)
(* the caches and of the calls: no cache is written past the end of objs,   *)
(* and each keeps its bound between two calls.                              *)
(***************************************************************************)
EXTENDS Mempool, FiniteSetTheorems, TLAPS

(* What a lcore knows of the length of its cache at each point of a call:   *)
(* a flush has enough to keep cache_size, a refill is made of a cache that  *)
(* holds less than was asked for, and a pop leaves no more than the bound.  *)
LengthKnown ==
  \A l \in Lcores :
    /\ pc[l] \in {"idle", "enqueue", "dequeue"} => Len(cache[l]) <= MaxCached
    /\ pc[l] \in {"flush", "trim"} =>
         /\ cache_size <= Len(cache[l])
         /\ Len(cache[l]) <= MaxCached + RTE_MEMPOOL_CACHE_MAX_SIZE
    /\ At(l, "backfill") => Len(cache[l]) < n[l] /\ n[l] < cache_size
    /\ At(l, "pop") => /\ n[l] <= Len(cache[l])
                       /\ Len(cache[l]) - n[l] <= MaxCached
                       /\ Len(cache[l]) <= CacheArray

IInv == TypeOK /\ LengthKnown

(* The flush threshold, one and a half times the size, lies between the     *)
(* size and the end of the array, even with a full put on top of it.        *)
LEMMA Bounds ==
  /\ {cache_size, cache_flushthresh, MaxCached, CacheArray} \subseteq Nat
  /\ cache_size <= MaxCached
  /\ cache_size <= cache_flushthresh
  /\ cache_flushthresh <= MaxCached + 1
  /\ MaxCached + RTE_MEMPOOL_CACHE_MAX_SIZE <= CacheArray
  /\ 2 * cache_size <= CacheArray
<1>1. cache_size \in Nat /\ RTE_MEMPOOL_CACHE_MAX_SIZE \in Nat
      /\ cache_size <= RTE_MEMPOOL_CACHE_MAX_SIZE
  BY CacheAssumption
<1>2. /\ cache_flushthresh \in Nat
      /\ cache_size <= cache_flushthresh
      /\ 2 * cache_flushthresh <= 3 * cache_size
  BY <1>1 DEF cache_flushthresh
<1>. QED BY <1>1, <1>2 DEF MaxCached, CacheArray

(* Cutting a sequence in two. *)
LEMMA Cut ==
  ASSUME NEW S, NEW s \in Seq(S), NEW k \in 0 .. Len(s)
  PROVE  /\ First(s, k) \in Seq(S) /\ Len(First(s, k)) = k
         /\ From(s, k + 1) \in Seq(S) /\ Len(From(s, k + 1)) = Len(s) - k
  BY DEF First, From

(* Joining two sequences. *)
LEMMA Concatenation ==
  ASSUME NEW S, NEW a \in Seq(S), NEW b \in Seq(S)
  PROVE  a \o b \in Seq(S) /\ Len(a \o b) = Len(a) + Len(b)
  OBVIOUS

(* The objects of a sequence are objects. *)
LEMMA ElementsOf ==
  ASSUME NEW S, NEW s \in Seq(S) PROVE Elements(s) \subseteq S
  BY DEF Elements

(* What the ring does with a table of objects, it remains a sequence. *)
LEMMA EnqueueType ==
  ASSUME NEW s \in Seq(Objs), ring \in Seq(Objs), Enqueue(s)
  PROVE  ring' \in Seq(Objs)
  BY DEF Enqueue

(* The sizes of the calls are positive numbers. *)
LEMMA RequestsPositive == \A k \in Requests : k \in Nat /\ k > 0
  BY RequestsAssumption

-----------------------------------------------------------------------------
LEMMA InitIInv == Init => IInv
<1> SUFFICES ASSUME Init PROVE IInv
  OBVIOUS
<1>1. size \in Nat
  BY ObjsAssumption, FS_CardinalityType DEF size
<1>2. ring \in Seq(Objs)
  <2>1. PICK s \in [1 .. size -> Objs] : ring = First(s, IF size <= Mask THEN size ELSE Mask)
    BY DEF Init
  <2>2. s \in Seq(Objs) /\ Len(s) = size
    BY <1>1
  <2>3. ring = First(s, size)
    BY <2>1, RingAssumption
  <2>. QED BY <1>1, <2>2, <2>3, Cut
<1>3. TypeOK
  BY <1>2 DEF Init, TypeOK, At, PutLabels, GetLabels
<1>4. LengthKnown
  BY Bounds DEF Init, LengthKnown, At
<1>. QED BY <1>3, <1>4 DEF IInv

(* A step of one lcore leaves the knowledge of the others alone.            *)
LEMMA LocalStep ==
  ASSUME IInv, NEW l \in Lcores, TypeOK',
         \A o \in Lcores \ {l} : pc'[o] = pc[o] /\ cache'[o] = cache[o] /\ n'[o] = n[o],
         pc'[l] \in {"idle", "enqueue", "dequeue"} => Len(cache'[l]) <= MaxCached,
         pc'[l] \in {"flush", "trim"} =>
           /\ cache_size <= Len(cache'[l])
           /\ Len(cache'[l]) <= MaxCached + RTE_MEMPOOL_CACHE_MAX_SIZE,
         pc'[l] = "backfill" => Len(cache'[l]) < n'[l] /\ n'[l] < cache_size,
         pc'[l] = "pop" => /\ n'[l] <= Len(cache'[l])
                           /\ Len(cache'[l]) - n'[l] <= MaxCached
                           /\ Len(cache'[l]) <= CacheArray
  PROVE  IInv'
<1> SUFFICES ASSUME NEW o \in Lcores
             PROVE  /\ pc'[o] \in {"idle", "enqueue", "dequeue"} => Len(cache'[o]) <= MaxCached
                    /\ pc'[o] \in {"flush", "trim"} =>
                         /\ cache_size <= Len(cache'[o])
                         /\ Len(cache'[o]) <= MaxCached + RTE_MEMPOOL_CACHE_MAX_SIZE
                    /\ pc'[o] = "backfill" => Len(cache'[o]) < n'[o] /\ n'[o] < cache_size
                    /\ pc'[o] = "pop" => /\ n'[o] <= Len(cache'[o])
                                         /\ Len(cache'[o]) - n'[o] <= MaxCached
                                         /\ Len(cache'[o]) <= CacheArray
  BY DEF IInv, LengthKnown, At
<1>1. CASE o = l
  BY <1>1
<1>2. CASE o # l
  BY <1>2 DEF IInv, LengthKnown, At
<1>. QED BY <1>1, <1>2

(* A put adds at most a full cache to a cache within its bound.             *)
LEMMA PutCallIInv ==
  ASSUME IInv, NEW l \in Lcores, PutCall(l)
  PROVE  IInv'
<1> USE DEF At, Goto
<1>1. PICK k \in Requests, is_mp \in BOOLEAN : \E objs \in [1 .. k -> held] :
        /\ held' = held \ Elements(objs)
        /\ n' = [n EXCEPT ![l] = k]
        /\ multi' = [multi EXCEPT ![l] = is_mp]
        /\ IF cache_size = 0 \/ ~is_mp \/ k > RTE_MEMPOOL_CACHE_MAX_SIZE
             THEN /\ table' = [table EXCEPT ![l] = objs]
                  /\ Goto(l, "enqueue")
                  /\ UNCHANGED cache
             ELSE /\ cache' = [cache EXCEPT ![l] = @ \o objs]
                  /\ Goto(l, IF Due(cache[l] \o objs) THEN "flush" ELSE "idle")
                  /\ UNCHANGED table
  BY DEF PutCall
<1>2. PICK objs \in [1 .. k -> held] :
        /\ held' = held \ Elements(objs)
        /\ n' = [n EXCEPT ![l] = k]
        /\ multi' = [multi EXCEPT ![l] = is_mp]
        /\ IF cache_size = 0 \/ ~is_mp \/ k > RTE_MEMPOOL_CACHE_MAX_SIZE
             THEN /\ table' = [table EXCEPT ![l] = objs]
                  /\ Goto(l, "enqueue")
                  /\ UNCHANGED cache
             ELSE /\ cache' = [cache EXCEPT ![l] = @ \o objs]
                  /\ Goto(l, IF Due(cache[l] \o objs) THEN "flush" ELSE "idle")
                  /\ UNCHANGED table
  BY <1>1
<1>3. pc[l] = "idle" /\ UNCHANGED ring
  BY DEF PutCall
<1>4. /\ k \in Nat /\ k > 0
      /\ objs \in Seq(Objs) /\ Len(objs) = k /\ objs # <<>>
      /\ cache[l] \in Seq(Objs) /\ Len(cache[l]) \in Nat /\ Len(cache[l]) <= MaxCached
      /\ table[l] = <<>>
  <2>1. k \in Nat /\ k > 0
    BY RequestsPositive
  <2>2. objs \in [1 .. k -> Objs]
    BY DEF IInv, TypeOK
  <2>3. objs \in Seq(Objs) /\ Len(objs) = k
    BY <2>1, <2>2
  <2>4. objs # <<>>
    BY <2>1, <2>3
  <2>5. cache[l] \in Seq(Objs) /\ table[l] = <<>>
    BY <1>3 DEF IInv, TypeOK
  <2>6. Len(cache[l]) <= MaxCached
    BY <1>3 DEF IInv, LengthKnown
  <2>. QED BY <2>1, <2>3, <2>4, <2>5, <2>6
<1>5. CASE cache_size = 0 \/ ~is_mp \/ k > RTE_MEMPOOL_CACHE_MAX_SIZE
  <2>1. /\ table' = [table EXCEPT ![l] = objs]
        /\ pc' = [pc EXCEPT ![l] = "enqueue"]
        /\ UNCHANGED cache
    BY <1>2, <1>5
  <2>2. TypeOK'
    BY <1>2, <1>3, <1>4, <2>1 DEF IInv, TypeOK, PutLabels, GetLabels
  <2>. QED BY <1>2, <1>4, <2>1, <2>2, LocalStep DEF IInv, TypeOK
<1>6. CASE ~(cache_size = 0 \/ ~is_mp \/ k > RTE_MEMPOOL_CACHE_MAX_SIZE)
  <2> DEFINE s == cache[l] \o objs
  <2>1. /\ cache' = [cache EXCEPT ![l] = s]
        /\ pc' = [pc EXCEPT ![l] = IF Due(s) THEN "flush" ELSE "idle"]
        /\ UNCHANGED table
    BY <1>2, <1>6
  <2>2. s \in Seq(Objs) /\ Len(s) = Len(cache[l]) + k
    BY <1>4
  <2>3. TypeOK'
    BY <1>2, <1>3, <1>4, <2>1, <2>2 DEF IInv, TypeOK, PutLabels, GetLabels
  <2>4. /\ Len(s) <= MaxCached + RTE_MEMPOOL_CACHE_MAX_SIZE
        /\ Due(s) => cache_size <= Len(s)
        /\ ~Due(s) => Len(s) <= MaxCached
    BY <1>4, <1>6, <2>2, Bounds, CacheAssumption DEF Due
  <2>5. cache'[l] = s /\ pc'[l] = IF Due(s) THEN "flush" ELSE "idle"
    BY <2>1 DEF IInv, TypeOK
  <2>6. \A o \in Lcores \ {l} : pc'[o] = pc[o] /\ cache'[o] = cache[o] /\ n'[o] = n[o]
    BY <1>2, <2>1 DEF IInv, TypeOK
  <2>. HIDE DEF s
  <2>. QED BY <2>3, <2>4, <2>5, <2>6, LocalStep
<1>. QED BY <1>5, <1>6

(* The steps of a put to the ring: the cache is as it was, or is cut down   *)
(* to its size.                                                             *)
LEMMA PutStepsIInv ==
  ASSUME IInv, NEW l \in Lcores, PutToRing(l) \/ Flush(l) \/ Trim(l)
  PROVE  IInv'
<1> USE DEF IInv, At, Goto, Return
<1>1. cache[l] \in Seq(Objs) /\ table[l] \in Seq(Objs) /\ cache_size \in Nat
  BY Bounds DEF TypeOK
<1>2. CASE PutToRing(l)
  <2>1. ring' \in Seq(Objs)
    BY <1>1, <1>2, EnqueueType DEF PutToRing, TypeOK
  <2>2. TypeOK'
    BY <1>2, <2>1 DEF PutToRing, TypeOK, PutLabels, GetLabels
  <2>. QED BY <1>2, <2>2, LocalStep DEF PutToRing, TypeOK, LengthKnown
<1>3. CASE Flush(l)
  <2>1. cache_size <= Len(cache[l])
    BY <1>3 DEF Flush, LengthKnown
  <2>2. ring' \in Seq(Objs)
    BY <1>1, <1>3, <2>1, Cut, EnqueueType DEF Flush, TypeOK
  <2>3. TypeOK'
    BY <1>3, <2>2 DEF Flush, TypeOK, PutLabels, GetLabels
  <2>. QED BY <1>3, <2>3, LocalStep DEF Flush, TypeOK, LengthKnown
<1>4. CASE Trim(l)
  <2>1. cache_size <= Len(cache[l])
    BY <1>4 DEF Trim, LengthKnown
  <2>2. First(cache[l], cache_size) \in Seq(Objs) /\ Len(First(cache[l], cache_size)) = cache_size
    BY <1>1, <2>1, Cut
  <2>3. /\ cache' = [cache EXCEPT ![l] = First(cache[l], cache_size)]
        /\ pc' = [pc EXCEPT ![l] = "idle"]
        /\ UNCHANGED <<ring, held, n, multi, table>>
        /\ pc[l] = "trim"
    BY <1>4 DEF Trim
  <2> HIDE DEF First
  <2>4. TypeOK'
    BY <2>2, <2>3 DEF TypeOK
  <2>5. /\ pc'[l] = "idle" /\ Len(cache'[l]) <= MaxCached
        /\ \A o \in Lcores \ {l} : pc'[o] = pc[o] /\ cache'[o] = cache[o] /\ n'[o] = n[o]
    BY <2>2, <2>3, Bounds DEF TypeOK
  <2>. QED BY <2>4, <2>5, LocalStep
<1>. QED BY <1>2, <1>3, <1>4

-----------------------------------------------------------------------------
(* A get goes to the cache only if it asks for less than a full one.        *)
LEMMA GetCallIInv ==
  ASSUME IInv, NEW l \in Lcores, GetCall(l)
  PROVE  IInv'
<1> USE DEF IInv, At, Goto
<1>1. PICK k \in Requests, is_mc \in BOOLEAN :
        /\ n' = [n EXCEPT ![l] = k]
        /\ multi' = [multi EXCEPT ![l] = is_mc]
        /\ pc' = [pc EXCEPT ![l] = IF cache_size = 0 \/ ~is_mc \/ k >= cache_size THEN "dequeue"
                                   ELSE IF Len(cache[l]) < k THEN "backfill" ELSE "pop"]
  BY DEF GetCall
<1>2. pc[l] = "idle" /\ UNCHANGED <<ring, cache, held, table>>
  BY DEF GetCall
<1>3. k \in Nat /\ k > 0 /\ Len(cache[l]) \in Nat /\ Len(cache[l]) <= MaxCached
  BY <1>2, RequestsPositive DEF TypeOK, LengthKnown
<1>4. TypeOK'
  BY <1>1, <1>2 DEF TypeOK, PutLabels, GetLabels
<1>5. /\ \A o \in Lcores \ {l} : pc'[o] = pc[o] /\ cache'[o] = cache[o] /\ n'[o] = n[o]
      /\ n'[l] = k /\ cache'[l] = cache[l]
      /\ pc'[l] \in {"dequeue", "backfill", "pop"}
      /\ pc'[l] = "backfill" => Len(cache[l]) < k /\ ~(k >= cache_size)
      /\ pc'[l] = "pop" => ~(Len(cache[l]) < k)
  BY <1>1, <1>2 DEF TypeOK
<1>6. /\ pc'[l] = "backfill" => Len(cache'[l]) < n'[l] /\ n'[l] < cache_size
      /\ pc'[l] = "pop" => /\ n'[l] <= Len(cache'[l])
                           /\ Len(cache'[l]) - n'[l] <= MaxCached
                           /\ Len(cache'[l]) <= CacheArray
  BY <1>3, <1>5, Bounds, CacheAssumption
<1>. QED
  BY <1>3, <1>4, <1>5, <1>6, LocalStep

(* A refill fills the cache and adds what was asked for.                    *)
LEMMA BackfillIInv ==
  ASSUME IInv, NEW l \in Lcores, Backfill(l)
  PROVE  IInv'
<1> DEFINE s == cache[l] \o First(ring, Missing(l))
<1> USE DEF IInv, At, Goto
<1>1. /\ pc[l] = "backfill" /\ Len(ring) >= Missing(l)
      /\ cache' = [cache EXCEPT ![l] = s]
      /\ ring' = From(ring, Missing(l) + 1)
      /\ pc' = [pc EXCEPT ![l] = "pop"]
      /\ UNCHANGED <<held, n, multi, table>>
  BY DEF Backfill
<1>2. /\ cache[l] \in Seq(Objs) /\ Len(cache[l]) \in Nat /\ n[l] \in Nat
      /\ Len(cache[l]) < n[l] /\ n[l] < cache_size /\ cache_size \in Nat
      /\ ring \in Seq(Objs)
  BY <1>1, Bounds, RequestsPositive DEF TypeOK, LengthKnown
<1>3. Missing(l) \in 0 .. Len(ring) /\ Missing(l) = n[l] + (cache_size - Len(cache[l]))
  BY <1>1, <1>2 DEF Missing
<1>4. /\ First(ring, Missing(l)) \in Seq(Objs) /\ Len(First(ring, Missing(l))) = Missing(l)
      /\ From(ring, Missing(l) + 1) \in Seq(Objs)
  BY <1>2, <1>3, Cut
<1>5. s \in Seq(Objs) /\ Len(s) = n[l] + cache_size
  <2> DEFINE new == First(ring, Missing(l))
  <2>1. new \in Seq(Objs) /\ Len(new) = n[l] + (cache_size - Len(cache[l]))
    BY <1>3, <1>4
  <2> HIDE DEF new
  <2>2. cache[l] \o new \in Seq(Objs) /\ Len(cache[l] \o new) = n[l] + cache_size
    <3>1. cache[l] \o new \in Seq(Objs) /\ Len(cache[l] \o new) = Len(cache[l]) + Len(new)
      BY <1>2, <2>1, Concatenation
    <3>. QED BY <1>2, <2>1, <3>1
  <2>. QED BY <2>2 DEF new
<1>6. TypeOK'
  BY <1>1, <1>4, <1>5 DEF TypeOK, GetLabels
<1>7. /\ \A o \in Lcores \ {l} : pc'[o] = pc[o] /\ cache'[o] = cache[o] /\ n'[o] = n[o]
      /\ pc'[l] = "pop" /\ cache'[l] = s /\ n'[l] = n[l]
  BY <1>1 DEF TypeOK
<1> HIDE DEF s
<1>8. /\ n[l] <= Len(s)
      /\ Len(s) - n[l] <= MaxCached
      /\ Len(s) <= CacheArray
  BY <1>2, <1>5, Bounds
<1>. QED
  BY <1>6, <1>7, <1>8, LocalStep

(* A pop leaves what the refill put in, or less than there was.             *)
LEMMA PopIInv ==
  ASSUME IInv, NEW l \in Lcores, Pop(l)
  PROVE  IInv'
<1> DEFINE rest == Len(cache[l]) - n[l]
<1> USE DEF IInv, At, Goto, Return
<1>1. /\ pc[l] = "pop" /\ pc' = [pc EXCEPT ![l] = "idle"]
      /\ held' = held \cup Elements(From(cache[l], rest + 1))
      /\ cache' = [cache EXCEPT ![l] = First(cache[l], rest)]
      /\ UNCHANGED <<ring, n, multi, table>>
  BY DEF Pop
<1>2. /\ cache[l] \in Seq(Objs) /\ Len(cache[l]) \in Nat /\ n[l] \in Nat
      /\ n[l] <= Len(cache[l]) /\ rest <= MaxCached
  BY <1>1, RequestsPositive DEF TypeOK, LengthKnown
<1>3. rest \in 0 .. Len(cache[l])
  BY <1>2
<1>4. /\ First(cache[l], rest) \in Seq(Objs) /\ Len(First(cache[l], rest)) = rest
      /\ Elements(From(cache[l], rest + 1)) \subseteq Objs
  <2> HIDE DEF rest
  <2>1. /\ First(cache[l], rest) \in Seq(Objs) /\ Len(First(cache[l], rest)) = rest
        /\ From(cache[l], rest + 1) \in Seq(Objs)
    BY <1>2, <1>3, Cut
  <2>. QED BY <2>1, ElementsOf
<1>5. TypeOK'
  BY <1>1, <1>4 DEF TypeOK
<1>6. /\ \A o \in Lcores \ {l} : pc'[o] = pc[o] /\ cache'[o] = cache[o] /\ n'[o] = n[o]
      /\ pc'[l] = "idle" /\ Len(cache'[l]) = rest
  BY <1>1, <1>4 DEF TypeOK
<1>. QED
  BY <1>2, <1>5, <1>6, LocalStep

(* The steps of a get that leave the cache alone.                           *)
LEMMA GetStepsIInv ==
  ASSUME IInv, NEW l \in Lcores, BackfillFails(l) \/ GetFromRing(l) \/ GetRefused(l)
  PROVE  IInv'
<1> USE DEF IInv, At, Goto, Return
<1>1. CASE BackfillFails(l)
  <2>1. TypeOK'
    BY <1>1 DEF BackfillFails, TypeOK, GetLabels
  <2>2. Len(cache[l]) <= MaxCached
    <3>1. Len(cache[l]) < n[l] /\ n[l] < cache_size
      BY <1>1 DEF BackfillFails, LengthKnown
    <3>2. Len(cache[l]) \in Nat /\ n[l] \in Nat
      BY RequestsPositive DEF TypeOK
    <3>. QED BY <3>1, <3>2, Bounds
  <2>. QED BY <1>1, <2>1, <2>2, LocalStep DEF BackfillFails, TypeOK
<1>2. CASE GetFromRing(l)
  <2>1. n[l] \in 0 .. Len(ring) /\ ring \in Seq(Objs)
    BY <1>2, RequestsPositive DEF GetFromRing, TypeOK
  <2>2. From(ring, n[l] + 1) \in Seq(Objs) /\ Elements(First(ring, n[l])) \subseteq Objs
    BY <2>1, Cut, ElementsOf
  <2>3. TypeOK'
    BY <1>2, <2>2 DEF GetFromRing, TypeOK
  <2>. QED BY <1>2, <2>3, LocalStep DEF GetFromRing, TypeOK, LengthKnown
<1>3. CASE GetRefused(l)
  <2>1. TypeOK'
    BY <1>3 DEF GetRefused, TypeOK
  <2>. QED BY <1>3, <2>1, LocalStep DEF GetRefused, TypeOK, LengthKnown
<1>. QED BY <1>1, <1>2, <1>3

-----------------------------------------------------------------------------
(* Every step of every lcore preserves the invariant.                       *)
LEMMA NextIInv == IInv /\ [Next]_vars => IInv'
<1> SUFFICES ASSUME IInv, [Next]_vars PROVE IInv'
  OBVIOUS
<1>1. CASE UNCHANGED vars
  BY <1>1 DEF IInv, TypeOK, LengthKnown, vars, At
<1>2. ASSUME NEW l \in Lcores, Put(l) \/ Get(l) PROVE IInv'
  BY <1>2, PutCallIInv, PutStepsIInv, GetCallIInv, BackfillIInv, PopIInv, GetStepsIInv
  DEF Put, Get
<1>. QED BY <1>1, <1>2 DEF Next

(* The invariant holds in every reachable state. *)
THEOREM SpecIInv == Spec => []IInv
  BY InitIInv, NextIInv, PTL DEF Spec

(* Types, among them that ring, caches and tables hold nothing but objects  *)
(* of the pool.                                                             *)
THEOREM TypeSafe == Spec => []TypeOK
<1>1. IInv => TypeOK
  BY DEF IInv
<1>. QED BY <1>1, SpecIInv, PTL

(* No store of a put or of a refill goes past the end of objs, whatever the *)
(* sizes of the cache and of the calls.                                     *)
THEOREM CachesBounded == Spec => []CacheBounded
<1>1. IInv => CacheBounded
  <2> SUFFICES ASSUME IInv, NEW l \in Lcores
               PROVE  /\ Len(cache[l]) <= CacheArray
                      /\ At(l, "idle") => Len(cache[l]) <= MaxCached
    BY DEF CacheBounded
  <2>1. /\ pc[l] \in {"idle"} \cup PutLabels \cup GetLabels
        /\ Len(cache[l]) \in Nat /\ n[l] \in Nat
    BY RequestsPositive DEF IInv, TypeOK
  <2>2. {MaxCached, RTE_MEMPOOL_CACHE_MAX_SIZE, cache_size, CacheArray} \subseteq Nat
    BY Bounds, CacheAssumption
  <2>. QED
    BY <2>1, <2>2, Bounds DEF IInv, LengthKnown, At, PutLabels, GetLabels
<1>. QED BY <1>1, SpecIInv, PTL

-----------------------------------------------------------------------------
(* Where an object can be, and the objects that are there.                  *)
Places == {<<"ring">>, <<"held">>} \cup {<<"cache", l>> : l \in Lcores}
                                   \cup {<<"table", l>> : l \in Lcores}
Stock(p) == CASE p = <<"ring">> -> Elements(ring)
              [] p = <<"held">> -> held
              [] p \in {<<"cache", l>> : l \in Lcores} -> Elements(Cached(p[2]))
              [] OTHER -> Elements(table[p[2]])

(* Each object is in one place,                                             *)
Partition ==
  /\ \A o \in Objs : \E p \in Places : o \in Stock(p)
  /\ \A p, q \in Places : \A o \in Stock(p) \cap Stock(q) : p = q

(* and there only once.                                                     *)
Distinct(s) == \A j, k \in DOMAIN s : s[j] = s[k] => j = k
Once == /\ Distinct(ring)
        /\ \A l \in Lcores : Distinct(Cached(l)) /\ Distinct(table[l])

Conserved == Partition /\ Once

(* The stocks, now and after a step. *)
LEMMA Stocks ==
  /\ Stock(<<"ring">>) = Elements(ring) /\ Stock(<<"held">>) = held
  /\ \A l \in Lcores : /\ Stock(<<"cache", l>>) = Elements(Cached(l))
                       /\ Stock(<<"table", l>>) = Elements(table[l])
  BY DEF Stock

LEMMA StocksNext ==
  /\ Stock(<<"ring">>)' = Elements(ring)' /\ Stock(<<"held">>)' = held'
  /\ \A l \in Lcores : /\ Stock(<<"cache", l>>)' = Elements(Cached(l))'
                       /\ Stock(<<"table", l>>)' = Elements(table[l])'
  BY DEF Stock

(* The places of one lcore, and the common ones. *)
LEMMA PlacesOf ==
  /\ <<"ring">> \in Places /\ <<"held">> \in Places /\ <<"ring">> # <<"held">>
  /\ \A l \in Lcores : /\ <<"cache", l>> \in Places /\ <<"table", l>> \in Places
                       /\ <<"cache", l>> # <<"table", l>>
                       /\ <<"cache", l>> # <<"ring">> /\ <<"cache", l>> # <<"held">>
                       /\ <<"table", l>> # <<"ring">> /\ <<"table", l>> # <<"held">>
  /\ \A p \in Places : \/ p = <<"ring">> \/ p = <<"held">>
                       \/ \E l \in Lcores : p = <<"cache", l>> \/ p = <<"table", l>>
  BY DEF Places

(* Objects M go from place p to place q. *)
LEMMA Move ==
  ASSUME Partition, NEW p \in Places, NEW q \in Places, p # q, NEW M,
         \A o \in M : o \in Stock(p),
         \A o : o \in Stock(p)' <=> o \in Stock(p) /\ o \notin M,
         \A o : o \in Stock(q)' <=> o \in Stock(q) \/ o \in M,
         \A r \in Places \ {p, q} : Stock(r)' = Stock(r)
  PROVE  Partition'
<1>1. ASSUME NEW o \in Objs PROVE \E r \in Places : o \in Stock(r)'
  <2>1. PICK r \in Places : o \in Stock(r)
    BY DEF Partition
  <2>2. CASE r \notin {p, q}
    BY <2>1, <2>2
  <2>3. CASE r = p
    BY <2>1, <2>3
  <2>4. CASE r = q
    BY <2>1, <2>4
  <2>. QED BY <2>2, <2>3, <2>4
<1>2. ASSUME NEW r \in Places, NEW s \in Places, NEW o \in Stock(r)', o \in Stock(s)'
      PROVE  r = s
  <2> DEFINE Before(t) == IF t = q /\ o \in M THEN p ELSE t
  <2>1. \A t \in Places : o \in Stock(t)' =>
           \/ o \in Stock(t) /\ o \notin M
           \/ t = q /\ o \in M
    <3>1. ASSUME NEW t \in Places \ {p, q}, o \in Stock(t) PROVE o \notin M
      BY <3>1 DEF Partition
    <3>2. o \in Stock(q) => o \notin M
      BY DEF Partition
    <3>. QED BY <3>1, <3>2
  <2>. QED BY <1>2, <2>1 DEF Partition
<1>. QED BY <1>1, <1>2 DEF Partition

(* No object moves. *)
LEMMA NoMove ==
  ASSUME Conserved, UNCHANGED <<ring, held, table>>,
         \A l \in Lcores : Cached(l)' = Cached(l)
  PROVE  Conserved'
<1>1. ASSUME NEW p \in Places PROVE Stock(p)' = Stock(p)
  <2>1. Stock(<<"ring">>)' = Stock(<<"ring">>) /\ Stock(<<"held">>)' = Stock(<<"held">>)
    BY Stocks, StocksNext DEF Elements
  <2>2. ASSUME NEW l \in Lcores
        PROVE  /\ Stock(<<"cache", l>>)' = Stock(<<"cache", l>>)
               /\ Stock(<<"table", l>>)' = Stock(<<"table", l>>)
    <3>1. Elements(Cached(l))' = Elements(Cached(l)) /\ Elements(table[l])' = Elements(table[l])
      BY DEF Elements
    <3>. QED BY <3>1, Stocks, StocksNext
  <2>3. CASE p = <<"ring">> \/ p = <<"held">>
    BY <2>1, <2>3
  <2>4. ASSUME NEW l \in Lcores, p = <<"cache", l>> \/ p = <<"table", l>> PROVE Stock(p)' = Stock(p)
    BY <2>2, <2>4
  <2>. QED BY <2>3, <2>4, PlacesOf
<1>2. Partition'
  BY <1>1 DEF Conserved, Partition
<1>3. Once'
  BY DEF Conserved, Once, Distinct
<1>. QED BY <1>2, <1>3 DEF Conserved

(* The entries of two sequences one after the other. *)
LEMMA Joined ==
  ASSUME NEW S, NEW a \in Seq(S), NEW b \in Seq(S)
  PROVE  /\ \A o : o \in Elements(a \o b) <=> o \in Elements(a) \/ o \in Elements(b)
         /\ Distinct(a) /\ Distinct(b) /\ (\A o \in Elements(a) : o \notin Elements(b))
              => Distinct(a \o b)
<1> DEFINE c == a \o b
<1>1. /\ Len(a) \in Nat /\ Len(b) \in Nat
      /\ DOMAIN a = 1 .. Len(a) /\ DOMAIN b = 1 .. Len(b) /\ DOMAIN c = 1 .. (Len(a) + Len(b))
      /\ \A k \in 1 .. Len(a) : c[k] = a[k]
  OBVIOUS
<1>2. \A k \in 1 .. Len(b) : Len(a) + k \in DOMAIN c /\ c[Len(a) + k] = b[k]
  OBVIOUS
<1>3. \A k \in DOMAIN c : k \in 1 .. Len(a) \/ (k - Len(a) \in 1 .. Len(b) /\ c[k] = b[k - Len(a)])
  <2> SUFFICES ASSUME NEW k \in DOMAIN c, k \notin 1 .. Len(a)
               PROVE  k - Len(a) \in 1 .. Len(b) /\ c[k] = b[k - Len(a)]
    OBVIOUS
  <2>1. k - Len(a) \in 1 .. Len(b) /\ Len(a) + (k - Len(a)) = k
    BY <1>1
  <2>. QED BY <1>2, <2>1
<1> HIDE DEF c
<1>4. \A o : o \in Elements(c) <=> o \in Elements(a) \/ o \in Elements(b)
  <2>1. ASSUME NEW k \in DOMAIN c PROVE c[k] \in Elements(a) \/ c[k] \in Elements(b)
    BY <1>1, <1>3 DEF Elements
  <2>2. ASSUME NEW k \in DOMAIN a PROVE a[k] \in Elements(c)
    BY <1>1 DEF Elements
  <2>3. ASSUME NEW k \in DOMAIN b PROVE b[k] \in Elements(c)
    BY <1>1, <1>2 DEF Elements
  <2>. QED BY <2>1, <2>2, <2>3 DEF Elements
<1>5. ASSUME Distinct(a), Distinct(b), \A o \in Elements(a) : o \notin Elements(b)
      PROVE  Distinct(c)
  <2> SUFFICES ASSUME NEW j \in DOMAIN c, NEW k \in DOMAIN c, c[j] = c[k] PROVE j = k
    BY DEF Distinct
  <2>1. CASE j \in 1 .. Len(a) /\ k \in 1 .. Len(a)
    BY <1>1, <1>5, <2>1 DEF Distinct
  <2>2. CASE j \notin 1 .. Len(a) /\ k \notin 1 .. Len(a)
    <3>1. j - Len(a) = k - Len(a)
      BY <1>1, <1>3, <1>5, <2>2 DEF Distinct
    <3>. QED BY <1>1, <3>1
  <2>3. CASE j \in 1 .. Len(a) /\ k \notin 1 .. Len(a)
    BY <1>1, <1>3, <1>5, <2>3 DEF Elements
  <2>4. CASE j \notin 1 .. Len(a) /\ k \in 1 .. Len(a)
    BY <1>1, <1>3, <1>5, <2>4 DEF Elements
  <2>. QED BY <2>1, <2>2, <2>3, <2>4
<1>. QED BY <1>4, <1>5 DEF c

(* The entries of the two parts of a sequence. *)
LEMMA Parts ==
  ASSUME NEW S, NEW s \in Seq(S), NEW k \in 0 .. Len(s)
  PROVE  /\ \A o : o \in Elements(s) <=> o \in Elements(First(s, k)) \/ o \in Elements(From(s, k + 1))
         /\ Distinct(s) =>
              /\ Distinct(First(s, k)) /\ Distinct(From(s, k + 1))
              /\ \A o \in Elements(First(s, k)) : o \notin Elements(From(s, k + 1))
<1> DEFINE a == First(s, k)
           b == From(s, k + 1)
<1>1. /\ Len(s) \in Nat /\ k \in Nat /\ k <= Len(s)
      /\ DOMAIN s = 1 .. Len(s) /\ DOMAIN a = 1 .. k
      /\ \A j \in 1 .. k : a[j] = s[j]
  BY DEF First
<1>2. /\ DOMAIN b = 1 .. (Len(s) - k)
      /\ \A j \in 1 .. (Len(s) - k) : b[j] = s[k + j]
  BY DEF From
<1> HIDE DEF a, b
<1>3. \A j \in 1 .. Len(s) : j \notin 1 .. k => j - k \in 1 .. (Len(s) - k) /\ b[j - k] = s[j]
  <2> SUFFICES ASSUME NEW j \in 1 .. Len(s), j \notin 1 .. k
               PROVE  j - k \in 1 .. (Len(s) - k) /\ b[j - k] = s[j]
    OBVIOUS
  <2>1. j - k \in 1 .. (Len(s) - k) /\ k + (j - k) = j
    BY <1>1
  <2>. QED BY <1>2, <2>1
<1>4. \A j \in 1 .. (Len(s) - k) : k + j \in 1 .. Len(s) /\ k + j \notin 1 .. k
  BY <1>1
<1>5. \A j \in 1 .. k : j \in 1 .. Len(s)
  BY <1>1
<1>6. \A o : o \in Elements(s) <=> o \in Elements(a) \/ o \in Elements(b)
  <2>1. ASSUME NEW j \in DOMAIN s PROVE s[j] \in Elements(a) \/ s[j] \in Elements(b)
    BY <1>1, <1>2, <1>3 DEF Elements
  <2>2. ASSUME NEW j \in DOMAIN a PROVE a[j] \in Elements(s)
    BY <1>1, <1>5 DEF Elements
  <2>3. ASSUME NEW j \in DOMAIN b PROVE b[j] \in Elements(s)
    BY <1>1, <1>2, <1>4 DEF Elements
  <2>. QED BY <2>1, <2>2, <2>3 DEF Elements
<1>7. ASSUME Distinct(s)
      PROVE  Distinct(a) /\ Distinct(b) /\ \A o \in Elements(a) : o \notin Elements(b)
  <2>1. Distinct(a)
    BY <1>1, <1>5, <1>7 DEF Distinct
  <2>2. Distinct(b)
    <3> SUFFICES ASSUME NEW i \in 1 .. (Len(s) - k), NEW j \in 1 .. (Len(s) - k), b[i] = b[j]
                 PROVE  i = j
      BY <1>2 DEF Distinct
    <3>1. k + i = k + j
      BY <1>1, <1>2, <1>4, <1>7 DEF Distinct
    <3>. QED BY <1>1, <3>1
  <2>3. ASSUME NEW i \in DOMAIN a, NEW j \in DOMAIN b PROVE a[i] # b[j]
    <3>1. a[i] = s[i] /\ b[j] = s[k + j] /\ i # k + j
      BY <1>1, <1>2, <1>4
    <3>. QED BY <1>1, <1>2, <1>4, <1>5, <1>7, <3>1 DEF Distinct
  <2>. QED BY <2>1, <2>2, <2>3 DEF Elements
<1>. QED BY <1>6, <1>7 DEF a, b

(* A sequence that has no object twice is no longer than the pool.          *)
LEMMA NoLonger ==
  ASSUME NEW s \in Seq(Objs), Distinct(s)
  PROVE  Len(s) <= size
<1>1. s \in Injection(1 .. Len(s), Objs)
  <2>1. s \in [1 .. Len(s) -> Objs]
    OBVIOUS
  <2>2. \A j, k \in 1 .. Len(s) : s[j] = s[k] => j = k
    BY DEF Distinct
  <2>. QED BY <2>1, <2>2 DEF Injection, IsInjective
<1>2. Len(s) \in Nat
  OBVIOUS
<1>3. Cardinality(1 .. Len(s)) <= Cardinality(Objs)
  BY <1>1, ObjsAssumption, FS_Injection
<1>4. Cardinality(1 .. Len(s)) = Len(s)
  <2> DEFINE k == Len(s)
  <2> HIDE DEF k
  <2>1. k \in Nat
    BY <1>2 DEF k
  <2>2. Cardinality(1 .. k) = IF 1 > k THEN 0 ELSE k - 1 + 1
    BY <2>1, FS_Interval
  <2>. QED BY <2>1, <2>2 DEF k
<1>. QED BY <1>3, <1>4 DEF size

(* As many objects as there are entries: none is there twice.               *)
LEMMA AllDifferent ==
  ASSUME NEW k \in Nat, NEW T, NEW s \in [1 .. k -> T], Cardinality(Elements(s)) = k
  PROVE  Distinct(s)
<1>1. s \in Surjection(1 .. k, Elements(s))
  BY DEF Surjection, Elements
<1>2. IsFiniteSet(1 .. k) /\ Cardinality(1 .. k) = k
  <2>1. IsFiniteSet(1 .. k) /\ Cardinality(1 .. k) = IF 1 > k THEN 0 ELSE k - 1 + 1
    BY FS_Interval
  <2>. QED BY <2>1
<1>3. s \in Injection(1 .. k, Elements(s))
  BY <1>1, <1>2, FS_Surjection
<1>. QED BY <1>3 DEF Injection, IsInjective, Distinct

-----------------------------------------------------------------------------
LEMMA InitConserved == Init => Conserved
<1> SUFFICES ASSUME Init PROVE Conserved
  OBVIOUS
<1>1. size \in Nat
  BY ObjsAssumption, FS_CardinalityType DEF size
<1>2. PICK s \in [1 .. size -> Objs] :
        Elements(s) = Objs /\ ring = First(s, IF size <= Mask THEN size ELSE Mask)
  BY DEF Init
<1>3. s \in Seq(Objs) /\ Len(s) = size
  BY <1>1
<1>4. ring = First(s, size)
  BY <1>2, RingAssumption
<1>5. Distinct(s)
  BY <1>1, <1>2, AllDifferent DEF size
<1>6. size \in 0 .. Len(s)
  BY <1>1, <1>3
<1>7. Distinct(ring)
  BY <1>3, <1>4, <1>5, <1>6, Parts
<1>8. Elements(ring) = Objs
  <2>1. \A o : o \in Elements(s) <=> o \in Elements(First(s, size)) \/ o \in Elements(From(s, size + 1))
    BY <1>3, <1>6, Parts
  <2>2. From(s, size + 1) \in Seq(Objs) /\ Len(From(s, size + 1)) = Len(s) - size
    BY <1>3, <1>6, Cut
  <2> DEFINE t == From(s, size + 1)
  <2>3. Len(t) = 0 /\ DOMAIN t = 1 .. Len(t)
    BY <1>1, <1>3, <2>2
  <2> HIDE DEF t
  <2>4. Elements(t) = {}
    BY <2>3 DEF Elements
  <2>. QED BY <1>2, <1>4, <2>1, <2>4 DEF t
<1>9. \A l \in Lcores : Cached(l) = <<>> /\ table[l] = <<>>
  BY DEF Init, Cached, At
<1>10. Elements(<<>>) = {} /\ Distinct(<<>>)
  BY DEF Elements, Distinct
<1>11. Once
  BY <1>7, <1>9, <1>10 DEF Once
<1>12. /\ Stock(<<"ring">>) = Objs
       /\ \A p \in Places : p # <<"ring">> => Stock(p) = {}
  BY <1>8, <1>9, <1>10, Stocks, PlacesOf DEF Init
<1>13. Partition
  BY <1>12, PlacesOf DEF Partition
<1>. QED BY <1>11, <1>13 DEF Conserved

(* What the invariant says of one lcore.                                    *)
LEMMA Sequences ==
  ASSUME IInv, Conserved, NEW l \in Lcores
  PROVE  /\ ring \in Seq(Objs) /\ Distinct(ring)
         /\ cache[l] \in Seq(Objs) /\ table[l] \in Seq(Objs)
         /\ Distinct(Cached(l)) /\ Distinct(table[l])
         /\ pc[l] # "trim" => Cached(l) = cache[l]
  BY DEF IInv, TypeOK, Conserved, Once, Cached, At

(* The ring takes what another place gives it.                              *)
LEMMA EnqueueAll ==
  ASSUME ring \in Seq(Objs), Distinct(ring), NEW s \in Seq(Objs), Distinct(s), Enqueue(s),
         \A o \in Elements(ring) : o \notin Elements(s)
  PROVE  /\ ring' \in Seq(Objs) /\ Distinct(ring')
         /\ \A o : o \in Elements(ring') <=> o \in Elements(ring) \/ o \in Elements(s)
<1>1. ring \o s \in Seq(Objs) /\ Len(ring \o s) = Len(ring) + Len(s)
  BY Concatenation
<1>2. Distinct(ring \o s)
  BY Joined
<1>3. Len(ring) + Len(s) <= size
  BY <1>1, <1>2, NoLonger
<1>4. Len(ring) \in Nat /\ Len(s) \in Nat /\ size \in Nat
  BY ObjsAssumption, FS_CardinalityType DEF size
<1>5. Len(ring) + Len(s) <= Mask
  BY <1>3, <1>4, RingAssumption
<1>6. ring' = ring \o s
  BY <1>5 DEF Enqueue
<1>. QED BY <1>1, <1>2, <1>6, Joined

(* Places that are not those of the step.                                   *)
LEMMA OtherPlaces ==
  ASSUME NEW l \in Lcores,
         \A o \in Lcores \ {l} : Cached(o)' = Cached(o) /\ table'[o] = table[o]
  PROVE  \A p \in Places \ {<<"ring">>, <<"held">>, <<"cache", l>>, <<"table", l>>} :
           Stock(p)' = Stock(p)
<1> SUFFICES ASSUME NEW p \in Places \ {<<"ring">>, <<"held">>, <<"cache", l>>, <<"table", l>>}
             PROVE  Stock(p)' = Stock(p)
  OBVIOUS
<1>1. PICK o \in Lcores : p = <<"cache", o>> \/ p = <<"table", o>>
  BY PlacesOf
<1>2. o # l
  BY <1>1
<1>3. Elements(Cached(o))' = Elements(Cached(o)) /\ Elements(table[o])' = Elements(table[o])
  BY <1>2 DEF Elements
<1>4. /\ Stock(<<"cache", o>>)' = Stock(<<"cache", o>>)
      /\ Stock(<<"table", o>>)' = Stock(<<"table", o>>)
  BY <1>3, Stocks, StocksNext
<1>. QED BY <1>1, <1>4

(* The sequences stay free of repetitions.                                  *)
LEMMA OnceStep ==
  ASSUME Once, NEW l \in Lcores,
         \A o \in Lcores \ {l} : Cached(o)' = Cached(o) /\ table'[o] = table[o],
         Distinct(ring'), Distinct(Cached(l)'), Distinct(table'[l])
  PROVE  Once'
<1>1. \A o \in Lcores : Distinct(Cached(o)') /\ Distinct(table'[o])
  BY DEF Once
<1>. QED BY <1>1 DEF Once, Distinct

(* The objects of a put leave the application's hands.                      *)
LEMMA PutCallConserved ==
  ASSUME IInv, Conserved, NEW l \in Lcores, PutCall(l)
  PROVE  Conserved'
<1> USE DEF At, Goto
<1>1. PICK k \in Requests, is_mp \in BOOLEAN : \E objs \in [1 .. k -> held] :
        /\ Cardinality(Elements(objs)) = k
        /\ held' = held \ Elements(objs)
        /\ IF cache_size = 0 \/ ~is_mp \/ k > RTE_MEMPOOL_CACHE_MAX_SIZE
             THEN /\ table' = [table EXCEPT ![l] = objs]
                  /\ Goto(l, "enqueue")
                  /\ UNCHANGED cache
             ELSE /\ cache' = [cache EXCEPT ![l] = @ \o objs]
                  /\ Goto(l, IF Due(cache[l] \o objs) THEN "flush" ELSE "idle")
                  /\ UNCHANGED table
  BY DEF PutCall
<1>2. PICK objs \in [1 .. k -> held] :
        /\ Cardinality(Elements(objs)) = k
        /\ held' = held \ Elements(objs)
        /\ IF cache_size = 0 \/ ~is_mp \/ k > RTE_MEMPOOL_CACHE_MAX_SIZE
             THEN /\ table' = [table EXCEPT ![l] = objs]
                  /\ Goto(l, "enqueue")
                  /\ UNCHANGED cache
             ELSE /\ cache' = [cache EXCEPT ![l] = @ \o objs]
                  /\ Goto(l, IF Due(cache[l] \o objs) THEN "flush" ELSE "idle")
                  /\ UNCHANGED table
  BY <1>1
<1>3. pc[l] = "idle" /\ UNCHANGED ring
  BY DEF PutCall
<1>4. k \in Nat /\ objs \in Seq(Objs) /\ Distinct(objs) /\ Elements(objs) \subseteq held
  <2>1. k \in Nat
    BY RequestsPositive
  <2>2. objs \in [1 .. k -> Objs]
    BY DEF IInv, TypeOK
  <2>3. Distinct(objs)
    BY <1>2, <2>1, AllDifferent
  <2>4. objs \in Seq(Objs)
    BY <2>1, <2>2
  <2>. QED BY <2>1, <2>3, <2>4 DEF Elements
<1>5. \A o : o \in Stock(<<"held">>)' <=> o \in Stock(<<"held">>) /\ o \notin Elements(objs)
  BY <1>2, Stocks, StocksNext
<1>6. \A o \in Elements(objs) : o \in Stock(<<"held">>)
  BY <1>4, Stocks
<1>7. Elements(ring)' = Elements(ring) /\ Distinct(ring')
  BY <1>3 DEF Elements, Conserved, Once
<1>8. CASE cache_size = 0 \/ ~is_mp \/ k > RTE_MEMPOOL_CACHE_MAX_SIZE
  <2>1. /\ table' = [table EXCEPT ![l] = objs] /\ pc' = [pc EXCEPT ![l] = "enqueue"]
        /\ UNCHANGED cache
    BY <1>2, <1>8
  <2>2. /\ table[l] = <<>> /\ table'[l] = objs
        /\ \A o \in Lcores \ {l} : table'[o] = table[o]
        /\ \A o \in Lcores : Cached(o)' = Cached(o)
    BY <1>3, <2>1 DEF IInv, TypeOK, Cached
  <2>3. \A o : o \in Stock(<<"table", l>>)' <=> o \in Stock(<<"table", l>>) \/ o \in Elements(objs)
    <3>1. Elements(table[l]) = {}
      BY <2>2 DEF Elements
    <3>2. Elements(table[l])' = Elements(objs)
      BY <2>2 DEF Elements
    <3>. QED BY <3>1, <3>2, Stocks, StocksNext
  <2>4. \A p \in Places \ {<<"held">>, <<"table", l>>} : Stock(p)' = Stock(p)
    <3>1. \A p \in Places \ {<<"ring">>, <<"held">>, <<"cache", l>>, <<"table", l>>} :
            Stock(p)' = Stock(p)
      BY <2>2, OtherPlaces
    <3>2. Elements(Cached(l))' = Elements(Cached(l))
      BY <2>2 DEF Elements
    <3>. QED BY <1>7, <3>1, <3>2, Stocks, StocksNext
  <2>5. Partition'
    BY <1>5, <1>6, <2>3, <2>4, Move, PlacesOf DEF Conserved
  <2>6. Once'
    BY <1>4, <1>7, <2>2, OnceStep DEF Conserved, Once
  <2>. QED BY <2>5, <2>6 DEF Conserved
<1>9. CASE ~(cache_size = 0 \/ ~is_mp \/ k > RTE_MEMPOOL_CACHE_MAX_SIZE)
  <2> DEFINE s == cache[l] \o objs
  <2>1. /\ cache' = [cache EXCEPT ![l] = s]
        /\ pc' = [pc EXCEPT ![l] = IF Due(s) THEN "flush" ELSE "idle"]
        /\ UNCHANGED table
    BY <1>2, <1>9
  <2> HIDE DEF s
  <2>2. /\ Cached(l) = cache[l] /\ Cached(l)' = s
        /\ \A o \in Lcores \ {l} : Cached(o)' = Cached(o) /\ table'[o] = table[o]
        /\ table'[l] = table[l]
    BY <1>3, <2>1 DEF IInv, TypeOK, Cached
  <2>3. cache[l] \in Seq(Objs) /\ Distinct(cache[l])
    BY <1>3, Sequences
  <2>4. \A o \in Elements(cache[l]) : o \notin Elements(objs)
    <3>1. \A o \in Stock(<<"cache", l>>) : o \notin Stock(<<"held">>)
      BY PlacesOf DEF Conserved, Partition
    <3>. QED BY <1>6, <2>2, <3>1, Stocks
  <2>5. /\ \A o : o \in Elements(s) <=> o \in Elements(cache[l]) \/ o \in Elements(objs)
        /\ Distinct(s)
    BY <1>4, <2>3, <2>4, Joined DEF s
  <2>6. \A o : o \in Stock(<<"cache", l>>)' <=> o \in Stock(<<"cache", l>>) \/ o \in Elements(objs)
    <3>1. Elements(Cached(l))' = Elements(s) /\ Elements(Cached(l)) = Elements(cache[l])
      BY <2>2 DEF Elements
    <3>. QED BY <2>5, <3>1, Stocks, StocksNext
  <2>7. \A p \in Places \ {<<"held">>, <<"cache", l>>} : Stock(p)' = Stock(p)
    <3>1. \A p \in Places \ {<<"ring">>, <<"held">>, <<"cache", l>>, <<"table", l>>} :
            Stock(p)' = Stock(p)
      BY <2>2, OtherPlaces
    <3>2. Elements(table[l])' = Elements(table[l])
      BY <2>2 DEF Elements
    <3>. QED BY <1>7, <3>1, <3>2, Stocks, StocksNext
  <2>8. Partition'
    BY <1>5, <1>6, <2>6, <2>7, Move, PlacesOf DEF Conserved
  <2>9. Once'
    BY <1>7, <2>2, <2>5, OnceStep DEF Conserved, Once
  <2>. QED BY <2>8, <2>9 DEF Conserved
<1>. QED BY <1>8, <1>9

(* The table of a put goes to the ring, which has room for it.              *)
LEMMA PutToRingConserved ==
  ASSUME IInv, Conserved, NEW l \in Lcores, PutToRing(l)
  PROVE  Conserved'
<1>1. /\ pc[l] = "enqueue" /\ Enqueue(table[l])
      /\ table' = [table EXCEPT ![l] = <<>>] /\ pc' = [pc EXCEPT ![l] = "idle"]
      /\ UNCHANGED <<cache, held>>
  BY DEF PutToRing, At, Goto, Return
<1>2. /\ table'[l] = <<>> /\ \A o \in Lcores \ {l} : table'[o] = table[o]
      /\ \A o \in Lcores : Cached(o)' = Cached(o)
  BY <1>1 DEF IInv, TypeOK, Cached, At
<1>3. \A o \in Elements(ring) : o \notin Elements(table[l])
  <2>1. \A o \in Stock(<<"ring">>) : o \notin Stock(<<"table", l>>)
    BY PlacesOf DEF Conserved, Partition
  <2>. QED BY <2>1, Stocks
<1>4. /\ Distinct(ring')
      /\ \A o : o \in Elements(ring') <=> o \in Elements(ring) \/ o \in Elements(table[l])
  BY <1>1, <1>3, Sequences, EnqueueAll
<1>5. Elements(<<>>) = {} /\ Distinct(<<>>)
  BY DEF Elements, Distinct
<1>6. /\ \A o \in Elements(table[l]) : o \in Stock(<<"table", l>>)
      /\ \A o : o \in Stock(<<"table", l>>)' <=> o \in Stock(<<"table", l>>) /\ o \notin Elements(table[l])
  <2>1. Elements(table[l])' = {}
    BY <1>2, <1>5 DEF Elements
  <2>. QED BY <2>1, Stocks, StocksNext
<1>7. \A o : o \in Stock(<<"ring">>)' <=> o \in Stock(<<"ring">>) \/ o \in Elements(table[l])
  <2>1. Elements(ring)' = Elements(ring')
    BY DEF Elements
  <2>. QED BY <1>4, <2>1, Stocks, StocksNext
<1>8. \A p \in Places \ {<<"table", l>>, <<"ring">>} : Stock(p)' = Stock(p)
  <2>1. \A p \in Places \ {<<"ring">>, <<"held">>, <<"cache", l>>, <<"table", l>>} :
          Stock(p)' = Stock(p)
    BY <1>2, OtherPlaces
  <2>2. Elements(Cached(l))' = Elements(Cached(l)) /\ held' = held
    BY <1>1, <1>2 DEF Elements
  <2>. QED BY <2>1, <2>2, Stocks, StocksNext
<1>9. Partition'
  BY <1>6, <1>7, <1>8, Move, PlacesOf DEF Conserved
<1>10. Once'
  BY <1>2, <1>4, <1>5, OnceStep DEF Conserved, Once
<1>. QED BY <1>9, <1>10 DEF Conserved

(* What exceeds the size of the cache goes to the ring; the entries stay    *)
(* until the length is reset, but are not what the cache holds.             *)
LEMMA FlushConserved ==
  ASSUME IInv, Conserved, NEW l \in Lcores, Flush(l)
  PROVE  Conserved'
<1> DEFINE a == First(cache[l], cache_size)
           b == From(cache[l], cache_size + 1)
<1>1. /\ pc[l] = "flush" /\ Enqueue(b) /\ pc' = [pc EXCEPT ![l] = "trim"]
      /\ UNCHANGED <<cache, held, table>>
  BY DEF Flush, At, Goto
<1>2. cache[l] \in Seq(Objs) /\ Cached(l) = cache[l] /\ Distinct(cache[l])
  BY <1>1, Sequences
<1>3. cache_size \in 0 .. Len(cache[l])
  <2>1. cache_size <= Len(cache[l])
    BY <1>1 DEF IInv, LengthKnown
  <2>2. cache_size \in Nat /\ Len(cache[l]) \in Nat
    BY <1>2, Bounds
  <2>. QED BY <2>1, <2>2
<1>4. b \in Seq(Objs)
  BY <1>2, <1>3, Cut
<1>5. /\ \A o : o \in Elements(cache[l]) <=> o \in Elements(a) \/ o \in Elements(b)
      /\ Distinct(a) /\ Distinct(b) /\ \A o \in Elements(a) : o \notin Elements(b)
  BY <1>2, <1>3, Parts
<1>6. Cached(l)' = a
  BY <1>1 DEF IInv, TypeOK, Cached, At
<1>7. /\ \A o \in Lcores \ {l} : Cached(o)' = Cached(o) /\ table'[o] = table[o]
      /\ table'[l] = table[l]
  BY <1>1 DEF IInv, TypeOK, Cached, At
<1> HIDE DEF a, b
<1>8. \A o \in Elements(ring) : o \notin Elements(b)
  <2>1. \A o \in Stock(<<"ring">>) : o \notin Stock(<<"cache", l>>)
    BY PlacesOf DEF Conserved, Partition
  <2>. QED BY <1>2, <1>5, <2>1, Stocks
<1>9. /\ Distinct(ring')
      /\ \A o : o \in Elements(ring') <=> o \in Elements(ring) \/ o \in Elements(b)
  BY <1>1, <1>4, <1>5, <1>8, Sequences, EnqueueAll
<1>10. /\ \A o \in Elements(b) : o \in Stock(<<"cache", l>>)
       /\ \A o : o \in Stock(<<"cache", l>>)' <=> o \in Stock(<<"cache", l>>) /\ o \notin Elements(b)
  <2>1. Elements(Cached(l))' = Elements(a) /\ Elements(Cached(l)) = Elements(cache[l])
    BY <1>2, <1>6 DEF Elements
  <2>. QED BY <1>5, <2>1, Stocks, StocksNext
<1>11. \A o : o \in Stock(<<"ring">>)' <=> o \in Stock(<<"ring">>) \/ o \in Elements(b)
  <2>1. Elements(ring)' = Elements(ring')
    BY DEF Elements
  <2>. QED BY <1>9, <2>1, Stocks, StocksNext
<1>12. \A p \in Places \ {<<"cache", l>>, <<"ring">>} : Stock(p)' = Stock(p)
  <2>1. \A p \in Places \ {<<"ring">>, <<"held">>, <<"cache", l>>, <<"table", l>>} :
          Stock(p)' = Stock(p)
    BY <1>7, OtherPlaces
  <2>2. Elements(table[l])' = Elements(table[l]) /\ held' = held
    BY <1>1 DEF Elements
  <2>. QED BY <2>1, <2>2, Stocks, StocksNext
<1>13. Partition'
  BY <1>10, <1>11, <1>12, Move, PlacesOf DEF Conserved
<1>14. Once'
  BY <1>5, <1>6, <1>7, <1>9, OnceStep DEF Conserved, Once
<1>. QED BY <1>13, <1>14 DEF Conserved

(* The steps that move nothing.                                             *)
LEMMA NoMoveSteps ==
  ASSUME IInv, Conserved, NEW l \in Lcores,
         Trim(l) \/ GetCall(l) \/ BackfillFails(l) \/ GetRefused(l)
  PROVE  Conserved'
<1>1. UNCHANGED <<ring, held, table>>
  BY DEF Trim, GetCall, BackfillFails, GetRefused
<1>2. CASE Trim(l)
  <2>1. /\ pc[l] = "trim" /\ pc' = [pc EXCEPT ![l] = "idle"]
        /\ cache' = [cache EXCEPT ![l] = First(cache[l], cache_size)]
    BY <1>2 DEF Trim, At, Goto, Return
  <2>2. \A o \in Lcores : Cached(o)' = Cached(o)
    BY <2>1 DEF IInv, TypeOK, Cached, At
  <2>. QED BY <1>1, <2>2, NoMove
<1>3. CASE GetCall(l) \/ BackfillFails(l) \/ GetRefused(l)
  <2>1. /\ pc[l] # "trim" /\ cache' = cache
        /\ \E p \in {"idle", "dequeue", "backfill", "pop"} : pc' = [pc EXCEPT ![l] = p]
    BY <1>3 DEF GetCall, BackfillFails, GetRefused, At, Goto, Return
  <2>2. \A o \in Lcores : Cached(o)' = Cached(o)
    BY <2>1 DEF IInv, TypeOK, Cached, At
  <2>. QED BY <1>1, <2>2, NoMove
<1>. QED BY <1>2, <1>3

(* The first objects of the ring go to the end of the cache.                *)
LEMMA BackfillConserved ==
  ASSUME IInv, Conserved, NEW l \in Lcores, Backfill(l)
  PROVE  Conserved'
<1> DEFINE k == Missing(l)
           a == First(ring, k)
           b == From(ring, k + 1)
           s == cache[l] \o a
<1>1. /\ pc[l] = "backfill" /\ Len(ring) >= k
      /\ cache' = [cache EXCEPT ![l] = s] /\ ring' = b
      /\ pc' = [pc EXCEPT ![l] = "pop"] /\ UNCHANGED <<held, table>>
  BY DEF Backfill, At, Goto
<1>2. /\ ring \in Seq(Objs) /\ Distinct(ring) /\ cache[l] \in Seq(Objs)
      /\ Cached(l) = cache[l] /\ Distinct(cache[l])
  BY <1>1, Sequences
<1>3. k \in 0 .. Len(ring)
  <2>1. /\ Len(cache[l]) \in Nat /\ n[l] \in Nat /\ cache_size \in Nat /\ Len(ring) \in Nat
        /\ Len(cache[l]) < n[l] /\ n[l] < cache_size
    BY <1>1, <1>2, Bounds, RequestsPositive DEF IInv, TypeOK, LengthKnown, At
  <2>. QED BY <1>1, <2>1 DEF Missing
<1> HIDE DEF k
<1>4. a \in Seq(Objs)
  BY <1>2, <1>3, Cut
<1>5. /\ \A o : o \in Elements(ring) <=> o \in Elements(a) \/ o \in Elements(b)
      /\ Distinct(a) /\ Distinct(b) /\ \A o \in Elements(a) : o \notin Elements(b)
  BY <1>2, <1>3, Parts
<1> HIDE DEF a, b
<1>6. \A o \in Elements(cache[l]) : o \notin Elements(a)
  <2>1. \A o \in Stock(<<"ring">>) : o \notin Stock(<<"cache", l>>)
    BY PlacesOf DEF Conserved, Partition
  <2>. QED BY <1>2, <1>5, <2>1, Stocks
<1>7. /\ \A o : o \in Elements(s) <=> o \in Elements(cache[l]) \/ o \in Elements(a)
      /\ Distinct(s)
  BY <1>2, <1>4, <1>5, <1>6, Joined
<1> HIDE DEF s
<1>8. /\ Cached(l)' = s /\ table'[l] = table[l]
      /\ \A o \in Lcores \ {l} : Cached(o)' = Cached(o) /\ table'[o] = table[o]
  BY <1>1 DEF IInv, TypeOK, Cached, At
<1>9. /\ \A o \in Elements(a) : o \in Stock(<<"ring">>)
      /\ \A o : o \in Stock(<<"ring">>)' <=> o \in Stock(<<"ring">>) /\ o \notin Elements(a)
  <2>1. Elements(ring)' = Elements(b)
    BY <1>1 DEF Elements
  <2>. QED BY <1>5, <2>1, Stocks, StocksNext
<1>10. \A o : o \in Stock(<<"cache", l>>)' <=> o \in Stock(<<"cache", l>>) \/ o \in Elements(a)
  <2>1. Elements(Cached(l))' = Elements(s) /\ Elements(Cached(l)) = Elements(cache[l])
    BY <1>2, <1>8 DEF Elements
  <2>. QED BY <1>7, <2>1, Stocks, StocksNext
<1>11. \A p \in Places \ {<<"ring">>, <<"cache", l>>} : Stock(p)' = Stock(p)
  <2>1. \A p \in Places \ {<<"ring">>, <<"held">>, <<"cache", l>>, <<"table", l>>} :
          Stock(p)' = Stock(p)
    BY <1>8, OtherPlaces
  <2>2. Elements(table[l])' = Elements(table[l]) /\ held' = held
    BY <1>1 DEF Elements
  <2>. QED BY <2>1, <2>2, Stocks, StocksNext
<1>12. Partition'
  BY <1>9, <1>10, <1>11, Move, PlacesOf DEF Conserved
<1>13. Once'
  BY <1>1, <1>5, <1>7, <1>8, OnceStep DEF Conserved, Once
<1>. QED BY <1>12, <1>13 DEF Conserved

(* The last objects of the cache go to the application.                     *)
LEMMA PopConserved ==
  ASSUME IInv, Conserved, NEW l \in Lcores, Pop(l)
  PROVE  Conserved'
<1> DEFINE k == Len(cache[l]) - n[l]
           a == First(cache[l], k)
           b == From(cache[l], k + 1)
<1>1. /\ pc[l] = "pop" /\ held' = held \cup Elements(b)
      /\ cache' = [cache EXCEPT ![l] = a]
      /\ pc' = [pc EXCEPT ![l] = "idle"] /\ UNCHANGED <<ring, table>>
  BY DEF Pop, At, Goto, Return
<1>2. /\ cache[l] \in Seq(Objs) /\ Cached(l) = cache[l] /\ Distinct(cache[l])
  BY <1>1, Sequences
<1>3. k \in 0 .. Len(cache[l])
  <2>1. Len(cache[l]) \in Nat /\ n[l] \in Nat /\ n[l] <= Len(cache[l])
    BY <1>1, <1>2, RequestsPositive DEF IInv, TypeOK, LengthKnown, At
  <2>. QED BY <2>1
<1> HIDE DEF k
<1>5. /\ \A o : o \in Elements(cache[l]) <=> o \in Elements(a) \/ o \in Elements(b)
      /\ Distinct(a) /\ \A o \in Elements(a) : o \notin Elements(b)
  BY <1>2, <1>3, Parts
<1> HIDE DEF a, b
<1>8. /\ Cached(l)' = a /\ table'[l] = table[l]
      /\ \A o \in Lcores \ {l} : Cached(o)' = Cached(o) /\ table'[o] = table[o]
  BY <1>1 DEF IInv, TypeOK, Cached, At
<1>9. /\ \A o \in Elements(b) : o \in Stock(<<"cache", l>>)
      /\ \A o : o \in Stock(<<"cache", l>>)' <=> o \in Stock(<<"cache", l>>) /\ o \notin Elements(b)
  <2>1. Elements(Cached(l))' = Elements(a) /\ Elements(Cached(l)) = Elements(cache[l])
    BY <1>2, <1>8 DEF Elements
  <2>. QED BY <1>5, <2>1, Stocks, StocksNext
<1>10. \A o : o \in Stock(<<"held">>)' <=> o \in Stock(<<"held">>) \/ o \in Elements(b)
  BY <1>1, Stocks, StocksNext
<1>11. \A p \in Places \ {<<"cache", l>>, <<"held">>} : Stock(p)' = Stock(p)
  <2>1. \A p \in Places \ {<<"ring">>, <<"held">>, <<"cache", l>>, <<"table", l>>} :
          Stock(p)' = Stock(p)
    BY <1>8, OtherPlaces
  <2>2. Elements(table[l])' = Elements(table[l]) /\ Elements(ring)' = Elements(ring)
    BY <1>1 DEF Elements
  <2>. QED BY <2>1, <2>2, Stocks, StocksNext
<1>12. Partition'
  BY <1>9, <1>10, <1>11, Move, PlacesOf DEF Conserved
<1>13. Once'
  BY <1>1, <1>5, <1>8, OnceStep DEF Conserved, Once
<1>. QED BY <1>12, <1>13 DEF Conserved

(* The first objects of the ring go to the application.                     *)
LEMMA GetFromRingConserved ==
  ASSUME IInv, Conserved, NEW l \in Lcores, GetFromRing(l)
  PROVE  Conserved'
<1> DEFINE k == n[l]
           a == First(ring, k)
           b == From(ring, k + 1)
<1>1. /\ pc[l] = "dequeue" /\ Len(ring) >= k
      /\ held' = held \cup Elements(a) /\ ring' = b
      /\ pc' = [pc EXCEPT ![l] = "idle"] /\ UNCHANGED <<cache, table>>
  BY DEF GetFromRing, At, Goto, Return
<1>2. ring \in Seq(Objs) /\ Distinct(ring)
  BY Sequences
<1>3. k \in 0 .. Len(ring)
  <2>1. Len(ring) \in Nat /\ n[l] \in Nat
    BY <1>2, RequestsPositive DEF IInv, TypeOK
  <2>. QED BY <1>1, <2>1
<1> HIDE DEF k
<1>5. /\ \A o : o \in Elements(ring) <=> o \in Elements(a) \/ o \in Elements(b)
      /\ Distinct(b) /\ \A o \in Elements(a) : o \notin Elements(b)
  BY <1>2, <1>3, Parts
<1> HIDE DEF a, b
<1>8. \A o \in Lcores : Cached(o)' = Cached(o) /\ table'[o] = table[o]
  BY <1>1 DEF IInv, TypeOK, Cached, At
<1>9. /\ \A o \in Elements(a) : o \in Stock(<<"ring">>)
      /\ \A o : o \in Stock(<<"ring">>)' <=> o \in Stock(<<"ring">>) /\ o \notin Elements(a)
  <2>1. Elements(ring)' = Elements(b)
    BY <1>1 DEF Elements
  <2>. QED BY <1>5, <2>1, Stocks, StocksNext
<1>10. \A o : o \in Stock(<<"held">>)' <=> o \in Stock(<<"held">>) \/ o \in Elements(a)
  BY <1>1, Stocks, StocksNext
<1>11. \A p \in Places \ {<<"ring">>, <<"held">>} : Stock(p)' = Stock(p)
  <2>1. \A p \in Places \ {<<"ring">>, <<"held">>, <<"cache", l>>, <<"table", l>>} :
          Stock(p)' = Stock(p)
    BY <1>8, OtherPlaces
  <2>2. Elements(table[l])' = Elements(table[l]) /\ Elements(Cached(l))' = Elements(Cached(l))
    BY <1>8 DEF Elements
  <2>. QED BY <2>1, <2>2, Stocks, StocksNext
<1>12. Partition'
  BY <1>9, <1>10, <1>11, Move, PlacesOf DEF Conserved
<1>13. Once'
  BY <1>1, <1>5, <1>8, OnceStep DEF Conserved, Once
<1>. QED BY <1>12, <1>13 DEF Conserved

LEMMA NextConserved == IInv /\ Conserved /\ [Next]_vars => Conserved'
<1> SUFFICES ASSUME IInv, Conserved, [Next]_vars PROVE Conserved'
  OBVIOUS
<1>1. CASE UNCHANGED vars
  BY <1>1, NoMove DEF vars, Cached, At
<1>2. ASSUME NEW l \in Lcores, Put(l) \/ Get(l) PROVE Conserved'
  BY <1>2, PutCallConserved, PutToRingConserved, FlushConserved, NoMoveSteps,
     BackfillConserved, PopConserved, GetFromRingConserved DEF Put, Get
<1>. QED BY <1>1, <1>2 DEF Next

THEOREM SpecConserved == Spec => [](IInv /\ Conserved)
<1>1. Conserved /\ IInv /\ [Next]_vars => Conserved'
  BY NextConserved
<1>. QED BY <1>1, InitConserved, SpecIInv, PTL DEF Spec

(* How often a sequence that has no object twice has an object.             *)
LEMMA OccursOnce ==
  ASSUME NEW s, Distinct(s), NEW o
  PROVE  Cardinality({k \in DOMAIN s : s[k] = o}) = IF o \in Elements(s) THEN 1 ELSE 0
<1> DEFINE K == {k \in DOMAIN s : s[k] = o}
<1>1. CASE o \in Elements(s)
  <2>1. PICK k \in DOMAIN s : s[k] = o
    BY <1>1 DEF Elements
  <2>2. K = {k}
    BY <2>1 DEF Distinct
  <2> HIDE DEF K
  <2>3. Cardinality(K) = 1
    BY <2>2, FS_Singleton
  <2>. QED BY <1>1, <2>3 DEF K
<1>2. CASE o \notin Elements(s)
  <2>1. K = {}
    BY <1>2 DEF Elements
  <2>. QED BY <1>2, <2>1, FS_EmptySet
<1>. QED BY <1>1, <1>2

(* The same of a sequence of each lcore, no two of which share an object.   *)
Kept(f) == \A l \in Lcores : f[l] \in Seq(Objs) /\ Distinct(f[l]) /\ Len(f[l]) <= size
Has(f, l, o) == o \in Elements(f[l])
Entries(f, o) == {lk \in Lcores \X (1 .. size) : lk[2] \in DOMAIN f[lk[1]] /\ f[lk[1]][lk[2]] = o}
LEMMA OneOccurs ==
  ASSUME NEW f, NEW o, Kept(f), \A l, m \in Lcores : Has(f, l, o) /\ Has(f, m, o) => l = m
  PROVE  Cardinality(Entries(f, o)) = IF \E l \in Lcores : Has(f, l, o) THEN 1 ELSE 0
<1> USE DEF Kept, Has, Entries
<1> DEFINE K == Entries(f, o)
<1>1. CASE \E l \in Lcores : o \in Elements(f[l])
  <2>1. PICK l \in Lcores : o \in Elements(f[l])
    BY <1>1
  <2>2. PICK k \in DOMAIN f[l] : f[l][k] = o
    BY <2>1 DEF Elements
  <2>3. k \in 1 .. size
    <3>1. k \in 1 .. Len(f[l]) /\ Len(f[l]) \in Nat /\ Len(f[l]) <= size
      BY <2>2
    <3>2. size \in Nat
      BY ObjsAssumption, FS_CardinalityType DEF size
    <3>. QED BY <3>1, <3>2
  <2>4. <<l, k>> \in K
    BY <2>2, <2>3
  <2>5. ASSUME NEW lk \in K PROVE lk = <<l, k>>
    <3>1. lk = <<lk[1], lk[2]>> /\ lk[1] \in Lcores /\ lk[2] \in DOMAIN f[lk[1]] /\ f[lk[1]][lk[2]] = o
      OBVIOUS
    <3>2. lk[1] = l
      BY <2>1, <3>1 DEF Elements
    <3>3. lk[2] = k
      BY <2>2, <3>1, <3>2 DEF Distinct
    <3>. QED BY <3>1, <3>2, <3>3
  <2> HIDE DEF K
  <2>6. K = {<<l, k>>}
    BY <2>4, <2>5
  <2>7. Cardinality(K) = 1
    BY <2>6, FS_Singleton
  <2>. QED BY <1>1, <2>7 DEF K
<1>2. CASE ~\E l \in Lcores : o \in Elements(f[l])
  <2>1. ASSUME NEW lk \in K PROVE FALSE
    BY <1>2 DEF Elements
  <2> HIDE DEF K
  <2>2. K = {}
    BY <2>1
  <2>3. Cardinality(K) = 0
    BY <2>2, FS_EmptySet
  <2>. QED BY <1>2, <2>3 DEF K
<1>. QED BY <1>1, <1>2

(* No object is lost and none is in two places, however the lcores' calls   *)
(* interleave, and although no caller looks at the answer of the ring.      *)
THEOREM ObjectsKept == Spec => []ObjectsConserved
<1>1. IInv /\ Conserved => ObjectsConserved
  <2> SUFFICES ASSUME IInv, Conserved, NEW o \in Objs
               PROVE  Cardinality({k \in DOMAIN ring : ring[k] = o})
                      + Cardinality({lk \in Lcores \X (1 .. size) :
                                       lk[2] \in DOMAIN Cached(lk[1]) /\ Cached(lk[1])[lk[2]] = o})
                      + Cardinality({lk \in Lcores \X (1 .. size) :
                                       lk[2] \in DOMAIN table[lk[1]] /\ table[lk[1]][lk[2]] = o})
                      + Cardinality({o} \cap held) = 1
    BY DEF ObjectsConserved
  <2> DEFINE c == [l \in Lcores |-> Cached(l)]
             R == {k \in DOMAIN ring : ring[k] = o}
             C == Entries(c, o)
             T == Entries(table, o)
             H == {o} \cap held
             inC == \E l \in Lcores : Has(c, l, o)
             inT == \E l \in Lcores : Has(table, l, o)
  <2>1. \A l \in Lcores : /\ Cached(l) \in Seq(Objs) /\ Distinct(Cached(l))
                          /\ table[l] \in Seq(Objs) /\ Distinct(table[l])
    <3> SUFFICES ASSUME NEW l \in Lcores PROVE Cached(l) \in Seq(Objs)
      BY Sequences
    <3>1. cache[l] \in Seq(Objs) /\ Len(cache[l]) \in Nat /\ cache_size \in Nat
      BY Sequences, Bounds
    <3>2. CASE pc[l] = "trim"
      <4>1. cache_size <= Len(cache[l])
        BY <3>2 DEF IInv, LengthKnown
      <4>2. cache_size \in 0 .. Len(cache[l])
        BY <3>1, <4>1
      <4>. QED BY <3>1, <3>2, <4>2, Cut DEF Cached, At
    <3>. QED BY <3>1, <3>2, Sequences
  <2>2. \A p, q \in Places : o \in Stock(p) /\ o \in Stock(q) => p = q
    BY DEF Conserved, Partition
  <2>3. Cardinality(R) = IF o \in Elements(ring) THEN 1 ELSE 0
    BY OccursOnce DEF Conserved, Once
  <2>4. Cardinality(C) = IF inC THEN 1 ELSE 0
    <3>1. Kept(c)
      BY <2>1, NoLonger DEF Kept
    <3>2. \A l, m \in Lcores : Has(c, l, o) /\ Has(c, m, o) => l = m
      BY <2>2, Stocks, PlacesOf DEF Has
    <3> HIDE DEF c
    <3>. QED BY <3>1, <3>2, OneOccurs
  <2>5. Cardinality(T) = IF inT THEN 1 ELSE 0
    <3>1. Kept(table)
      BY <2>1, NoLonger DEF Kept
    <3>2. \A l, m \in Lcores : Has(table, l, o) /\ Has(table, m, o) => l = m
      BY <2>2, Stocks, PlacesOf DEF Has
    <3>. QED BY <3>1, <3>2, OneOccurs
  <2>6. Cardinality(H) = IF o \in held THEN 1 ELSE 0
    <3>1. CASE o \in held
      <4>1. H = {o}
        BY <3>1
      <4>. QED BY <3>1, <4>1, FS_Singleton
    <3>2. CASE o \notin held
      <4>1. H = {}
        BY <3>2
      <4>. QED BY <3>2, <4>1, FS_EmptySet
    <3>. QED BY <3>1, <3>2
  <2>7. \/ o \in Elements(ring) \/ inC \/ inT \/ o \in held
    <3>1. PICK p \in Places : o \in Stock(p)
      BY DEF Conserved, Partition
    <3>2. \A l \in Lcores : /\ p = <<"cache", l>> => Has(c, l, o)
                            /\ p = <<"table", l>> => Has(table, l, o)
      BY <3>1, Stocks DEF Has
    <3>. QED BY <3>1, <3>2, Stocks, PlacesOf
  <2>8. /\ o \in Elements(ring) => ~inC /\ ~inT /\ o \notin held
        /\ inC => ~inT /\ o \notin held
        /\ inT => o \notin held
    BY <2>2, Stocks, PlacesOf DEF Has
  <2>9. C = {lk \in Lcores \X (1 .. size) :
               lk[2] \in DOMAIN Cached(lk[1]) /\ Cached(lk[1])[lk[2]] = o}
    BY DEF Entries
  <2> HIDE DEF R, C, T, H, inC, inT
  <2>10. Cardinality(R) + Cardinality(C) + Cardinality(T) + Cardinality(H) = 1
    BY <2>3, <2>4, <2>5, <2>6, <2>7, <2>8
  <2>. QED BY <2>9, <2>10 DEF R, T, H, Entries
<1>. QED BY <1>1, SpecConserved, PTL

-----------------------------------------------------------------------------
(* A call for one object that could be served by a cache asks the ring      *)
(* alone only if its cache is empty.                                        *)
NothingCached ==
  \A l \in Lcores :
    pc[l] = "dequeue" /\ multi[l] /\ n[l] = 1 /\ cache_size > 1 => Len(cache[l]) = 0

LEMMA NextNothingCached == IInv /\ NothingCached /\ [Next]_vars => NothingCached'
<1> SUFFICES ASSUME IInv, NothingCached, [Next]_vars, NEW l \in Lcores,
                    pc'[l] = "dequeue", multi'[l], n'[l] = 1, cache_size > 1
             PROVE  Len(cache'[l]) = 0
  BY DEF NothingCached
<1>1. CASE UNCHANGED vars
  BY <1>1 DEF vars, NothingCached
<1>2. ASSUME NEW o \in Lcores, Put(o) \/ Get(o) PROVE Len(cache'[l]) = 0
  <2>1. CASE o # l
    <3>1. pc'[l] = pc[l] /\ multi'[l] = multi[l] /\ n'[l] = n[l] /\ cache'[l] = cache[l]
      <4>1. CASE Put(o)
        BY <2>1, <4>1 DEF Put, PutCall, PutToRing, Flush, Trim, Goto, Return, IInv, TypeOK
      <4>2. CASE Get(o)
        BY <2>1, <4>2 DEF Get, GetCall, Backfill, BackfillFails, Pop, GetFromRing, GetRefused,
           Goto, Return, IInv, TypeOK
      <4>. QED BY <1>2, <4>1, <4>2
    <3>. QED BY <3>1 DEF NothingCached
  <2>2. CASE o = l
    <3>1. GetCall(l) \/ BackfillFails(l)
      BY <1>2, <2>2 DEF Put, Get, PutCall, PutToRing, Flush, Trim, Backfill,
         Pop, GetFromRing, GetRefused, Goto, Return, IInv, TypeOK
    <3>2. CASE GetCall(l)
      <4>1. PICK k \in Requests, is_mc \in BOOLEAN :
              /\ n' = [n EXCEPT ![l] = k] /\ multi' = [multi EXCEPT ![l] = is_mc]
              /\ pc' = [pc EXCEPT ![l] = IF cache_size = 0 \/ ~is_mc \/ k >= cache_size THEN "dequeue"
                                         ELSE IF Len(cache[l]) < k THEN "backfill" ELSE "pop"]
        BY <3>2 DEF GetCall, Goto
      <4>2. k = 1 /\ is_mc
        BY <4>1 DEF IInv, TypeOK
      <4>3. cache_size \in Nat
        BY Bounds
      <4>. QED BY <4>1, <4>2, <4>3 DEF IInv, TypeOK
    <3>3. CASE BackfillFails(l)
      <4>1. pc[l] = "backfill" /\ n[l] = 1 /\ cache'[l] = cache[l]
        BY <3>3 DEF BackfillFails, At
      <4>2. Len(cache[l]) < 1 /\ Len(cache[l]) \in Nat
        BY <4>1 DEF IInv, TypeOK, LengthKnown, At
      <4>. QED BY <4>1, <4>2
    <3>. QED BY <3>1, <3>2, <3>3
  <2>. QED BY <2>1, <2>2
<1>. QED BY <1>1, <1>2 DEF Next

(* What the caches of the other lcores can keep at most.                    *)
LEMMA KeptByOthers ==
  ASSUME NEW l \in Lcores, NEW F,
         \A o \in F : o \in Objs,
         \A o \in F : \E m \in Lcores \ {l} : \E k \in 1 .. MaxCached :
                        k \in DOMAIN Cached(m) /\ Cached(m)[k] = o
  PROVE  Cardinality(F) <= (Cardinality(Lcores) - 1) * MaxCached
<1> DEFINE S == (Lcores \ {l}) \X (1 .. MaxCached)
           At1(o, mk) == mk[2] \in DOMAIN Cached(mk[1]) /\ Cached(mk[1])[mk[2]] = o
           f == [o \in F |-> CHOOSE mk \in S : At1(o, mk)]
<1>1. \A o \in F : f[o] \in S /\ At1(o, f[o])
  <2> SUFFICES ASSUME NEW o \in F PROVE f[o] \in S /\ At1(o, f[o])
    OBVIOUS
  <2>1. PICK m \in Lcores \ {l} : \E k \in 1 .. MaxCached : k \in DOMAIN Cached(m) /\ Cached(m)[k] = o
    OBVIOUS
  <2>2. PICK k \in 1 .. MaxCached : k \in DOMAIN Cached(m) /\ Cached(m)[k] = o
    BY <2>1
  <2>3. <<m, k>> \in S /\ At1(o, <<m, k>>)
    BY <2>2
  <2>4. f[o] = CHOOSE mk \in S : At1(o, mk)
    OBVIOUS
  <2> HIDE DEF f, S, At1
  <2>. QED BY <2>3, <2>4
<1>2. f \in Injection(F, S)
  <2>1. f \in [F -> S]
    BY <1>1
  <2>2. \A o, q \in F : f[o] = f[q] => o = q
    BY <1>1
  <2>. QED BY <2>1, <2>2 DEF Injection, IsInjective
<1>3. /\ IsFiniteSet(Lcores \ {l}) /\ Cardinality(Lcores \ {l}) = Cardinality(Lcores) - 1
  BY LcoresAssumption, FS_RemoveElement
<1>4. IsFiniteSet(1 .. MaxCached) /\ Cardinality(1 .. MaxCached) = MaxCached
  <2>1. MaxCached \in Nat
    BY Bounds
  <2> HIDE DEF MaxCached
  <2>2. IsFiniteSet(1 .. MaxCached)
        /\ Cardinality(1 .. MaxCached) = IF 1 > MaxCached THEN 0 ELSE MaxCached - 1 + 1
    BY <2>1, FS_Interval
  <2>. QED BY <2>1, <2>2
<1>5. IsFiniteSet(S) /\ Cardinality(S) = (Cardinality(Lcores) - 1) * MaxCached
  <2>1. IsFiniteSet(S) /\ Cardinality(S) = Cardinality(Lcores \ {l}) * Cardinality(1 .. MaxCached)
    BY <1>3, <1>4, FS_Product
  <2>. QED BY <1>3, <1>4, <2>1
<1> HIDE DEF f, S
<1>6. Cardinality(F) <= Cardinality(S)
  BY <1>2, <1>5, FS_Injection
<1>. QED BY <1>5, <1>6

(* How large a pool must be: a call for one object fails only if all that   *)
(* is not in use is in the caches of the other lcores, within their bounds. *)
THEOREM PoolServes == Spec => SizedPoolServes
<1> DEFINE Served == \A l \in Lcores :
             pc[l] \in {"backfill", "dequeue"} /\ pc'[l] = "idle" /\ held' = held
               /\ multi[l] /\ n[l] = 1 /\ cache_size > 1
               => size - InUse <= (Cardinality(Lcores) - 1) * MaxCached
<1>1. ASSUME IInv, Conserved, NothingCached, [Next]_vars PROVE Served \/ UNCHANGED vars
  <2> SUFFICES ASSUME NEW l \in Lcores, Next,
                      pc[l] \in {"backfill", "dequeue"}, pc'[l] = "idle", held' = held,
                      multi[l], n[l] = 1, cache_size > 1
               PROVE  size - InUse <= (Cardinality(Lcores) - 1) * MaxCached
    BY <1>1
  <2>1. PICK o \in Lcores : Put(o) \/ Get(o)
    BY DEF Next
  <2>2. o = l
    BY <1>1, <2>1 DEF Put, Get, PutCall, PutToRing, Flush, Trim, GetCall, Backfill, BackfillFails,
       Pop, GetFromRing, GetRefused, Goto, Return, IInv, TypeOK
  <2>3. GetRefused(l) \/ GetFromRing(l)
    BY <1>1, <2>1, <2>2 DEF Put, Get, PutCall, PutToRing, Flush, Trim, GetCall, Backfill,
       BackfillFails, Pop, Goto, Return, At, IInv, TypeOK
  <2>4. ring \in Seq(Objs) /\ Len(ring) \in Nat /\ pc[l] = "dequeue"
    BY <1>1, <2>3 DEF IInv, TypeOK, GetRefused, GetFromRing, At
  <2>5. ~GetFromRing(l)
    <3> SUFFICES ASSUME Len(ring) >= 1, held' = held \cup Elements(First(ring, 1)) PROVE FALSE
      BY DEF GetFromRing
    <3>1. 1 \in 0 .. Len(ring)
      BY <2>4
    <3>2. \A q : q \in Elements(ring) <=> q \in Elements(First(ring, 1)) \/ q \in Elements(From(ring, 2))
      <4>1. \A q : q \in Elements(ring) <=>
                     q \in Elements(First(ring, 1)) \/ q \in Elements(From(ring, 1 + 1))
        BY <2>4, <3>1, Parts
      <4>. QED BY <4>1
    <3>3. First(ring, 1) \in Seq(Objs) /\ Len(First(ring, 1)) = 1
      BY <2>4, <3>1, Cut
    <3> DEFINE a == First(ring, 1)
    <3> HIDE DEF a
    <3>4. a[1] \in Elements(a)
      <4>1. a \in Seq(Objs) /\ Len(a) = 1
        BY <3>3 DEF a
      <4>2. 1 \in DOMAIN a
        BY <4>1
      <4>. QED BY <4>2 DEF Elements
    <3>5. a[1] \in Elements(ring) /\ a[1] \in held
      BY <3>2, <3>4 DEF a
    <3>6. \A q \in Stock(<<"ring">>) : q \notin Stock(<<"held">>)
      BY <1>1, PlacesOf DEF Conserved, Partition
    <3>. QED BY <3>5, <3>6, Stocks
  <2>6. Elements(ring) = {}
    <3>1. Len(ring) < 1
      BY <2>3, <2>5 DEF GetRefused
    <3>2. DOMAIN ring = 1 .. Len(ring)
      BY <2>4
    <3>3. DOMAIN ring = {}
      BY <2>4, <3>1, <3>2
    <3>. QED BY <3>3 DEF Elements
  <2>7. Elements(Cached(l)) = {}
    <3>1. Len(cache[l]) = 0 /\ cache[l] \in Seq(Objs) /\ Cached(l) = cache[l]
      BY <1>1, <2>4, Sequences DEF NothingCached
    <3>2. DOMAIN Cached(l) = {}
      BY <3>1
    <3>. QED BY <3>2 DEF Elements
  <2> DEFINE Used == {q \in Objs : \/ q \in held
                                   \/ \E m \in Lcores : \/ q \in Elements(table[m])
                                                        \/ q \in Elements(From(Cached(m), MaxCached + 1))}
             F == Objs \ Used
  <2>8. \A q \in F : \E m \in Lcores \ {l} : \E k \in 1 .. MaxCached :
                       k \in DOMAIN Cached(m) /\ Cached(m)[k] = q
    <3> SUFFICES ASSUME NEW q \in Objs, q \notin held,
                        \A m \in Lcores : /\ q \notin Elements(table[m])
                                          /\ q \notin Elements(From(Cached(m), MaxCached + 1))
                 PROVE  \E m \in Lcores \ {l} : \E k \in 1 .. MaxCached :
                          k \in DOMAIN Cached(m) /\ Cached(m)[k] = q
      OBVIOUS
    <3>1. PICK m \in Lcores : q \in Elements(Cached(m))
      <4>1. PICK p \in Places : q \in Stock(p)
        BY <1>1 DEF Conserved, Partition
      <4>2. \A m \in Lcores : /\ p = <<"cache", m>> => q \in Elements(Cached(m))
                              /\ p # <<"table", m>>
        BY <4>1, Stocks
      <4>3. p # <<"ring">> /\ p # <<"held">>
        BY <2>6, <4>1, Stocks
      <4>. QED BY <4>2, <4>3, PlacesOf
    <3>2. m # l
      BY <2>7, <3>1
    <3>3. PICK k \in DOMAIN Cached(m) : Cached(m)[k] = q
      BY <3>1 DEF Elements
    <3>4. Cached(m) \in Seq(Objs)
      <4>1. cache[m] \in Seq(Objs) /\ Len(cache[m]) \in Nat /\ cache_size \in Nat
        BY <1>1, Sequences, Bounds
      <4>2. CASE pc[m] = "trim"
        <5>1. cache_size <= Len(cache[m])
          BY <1>1, <4>2 DEF IInv, LengthKnown
        <5>2. cache_size \in 0 .. Len(cache[m])
          BY <4>1, <5>1
        <5>. QED BY <4>1, <4>2, <5>2, Cut DEF Cached, At
      <4>. QED BY <4>1, <4>2 DEF Cached, At
    <3>5. k <= MaxCached
      <4> DEFINE s == Cached(m)
                 M == MaxCached
                 b == From(s, M + 1)
      <4> HIDE DEF s, M
      <4> SUFFICES ASSUME ~(k <= M) PROVE FALSE
        BY DEF M
      <4>1. s \in Seq(Objs) /\ M \in Nat /\ k \in 1 .. Len(s) /\ Len(s) \in Nat
        BY <3>3, <3>4, Bounds DEF s, M
      <4>2. M \in 0 .. Len(s) /\ k - M \in 1 .. (Len(s) - M) /\ M + (k - M) = k
        BY <4>1
      <4>3. /\ DOMAIN b = 1 .. (Len(s) - M)
            /\ \A j \in 1 .. (Len(s) - M) : b[j] = s[M + j]
        BY <4>1, <4>2 DEF From
      <4> HIDE DEF b
      <4>4. b[k - M] = s[k] /\ k - M \in DOMAIN b
        BY <4>2, <4>3
      <4>5. s[k] \in Elements(b)
        BY <4>4 DEF Elements
      <4>. QED BY <3>3, <4>5 DEF b, s, M
    <3>6. k \in 1 .. MaxCached
      <4>1. k \in Nat /\ k >= 1 /\ MaxCached \in Nat
        BY <3>3, <3>4, Bounds
      <4>. QED BY <3>5, <4>1
    <3>. QED BY <3>2, <3>3, <3>6
  <2>9. InUse = Cardinality(Used)
    BY DEF InUse
  <2>10. Cardinality(F) = size - Cardinality(Used)
    <3>1. Objs \cap Used = Used
      OBVIOUS
    <3> HIDE DEF Used
    <3>2. Cardinality(Objs \ Used) = Cardinality(Objs) - Cardinality(Objs \cap Used)
      BY ObjsAssumption, FS_Difference
    <3>3. Cardinality(Objs \cap Used) = Cardinality(Used)
      BY <3>1
    <3>. QED BY <3>2, <3>3 DEF size
  <2>11. \A q \in F : q \in Objs
    OBVIOUS
  <2> HIDE DEF F, Used
  <2>12. Cardinality(F) <= (Cardinality(Lcores) - 1) * MaxCached
    BY <2>8, <2>11, KeptByOthers
  <2>. QED BY <2>9, <2>10, <2>12
<1>2. Init => NothingCached
  BY DEF Init, NothingCached
<1>3. NothingCached /\ IInv /\ [Next]_vars => NothingCached'
  BY NextNothingCached
<1>4. Spec => []NothingCached
  BY <1>2, <1>3, SpecIInv, PTL DEF Spec
<1>5. IInv /\ Conserved /\ NothingCached /\ [Next]_vars => [Served]_vars
  BY <1>1
<1>6. Spec => [][Served]_vars
  <2> HIDE DEF Served
  <2>. QED BY <1>4, <1>5, SpecConserved, PTL DEF Spec
<1>. QED BY <1>6 DEF SizedPoolServes
=============================================================================
