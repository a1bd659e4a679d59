----------------------------- MODULE KniProofs -----------------------------
(***************************************************************************)
(* Proofs about Kni for any number of mbufs and callers, every size of the  *)
(* fifos and of a burst, and any number of requests and time-outs: no mbuf  *)
(* is lost or in two places, what the kernel counted is still there when it *)
(* relies on it, and what callers are told and what is left behind.         *)
(*                                                                         *)
(* First the fifos, without the remainders and apart from who uses them:    *)
(* what a put and a get based on an old index of the other side do.  Then   *)
(* where an mbuf is (Single) and how it moves.  Then the invariant, IInv:   *)
(* what each thread saw is behind the other's index (Sights), what it       *)
(* counted stays (Counts), which requests are under way (Pending) and what  *)
(* they are about (Answers).  One lemma for each action, and the theorems.  *)
(***************************************************************************)
EXTENDS Kni, FiniteSetTheorems, SequenceTheorems, TLAPS

(* The distance from index a to index b in a fifo of n slots, and the index *)
(* k slots after a.                                                         *)
Gap(n, a, b) == IF a <= b THEN b - a ELSE n + b - a
After(n, a, k) == IF a + k < n THEN a + k ELSE a + k - n

Sizes == Nat \ {0, 1}
Used(n, f) == Gap(n, f.read, f.write)

(* A fifo f of n slots for elements of C: what lies between the two indices *)
(* is filled, and nothing else.                                             *)
FifoOK(n, C, f) ==
  /\ f \in [buffer : [0 .. n - 1 -> C \cup {None}], write : 0 .. n - 1, read : 0 .. n - 1]
  /\ \A j \in 0 .. n - 1 : f.buffer[j] # None <=> Gap(n, f.read, j) < Used(n, f)

(* g is f after a put of h by one who saw the reader at index s: of h the   *)
(* first elements go in, as many as there seemed to be room for.            *)
Taken(n, f, s, h) == Smaller(Len(h), n - 1 - Gap(n, s, f.write))
IsPut(n, f, s, h, g) ==
  LET k == Taken(n, f, s, h)
  IN /\ g.read = f.read
     /\ g.write = After(n, f.write, k)
     /\ g \in [buffer : [0 .. n - 1 -> {g.buffer[j] : j \in 0 .. n - 1}], write : {g.write}, read : {g.read}]
     /\ \A j \in 0 .. n - 1 :
          g.buffer[j] = IF Gap(n, f.write, j) < k THEN h[Gap(n, f.write, j) + 1] ELSE f.buffer[j]

(* g is f after a get of at most m elements by one who saw the writer at    *)
(* index s: the first of them go out.                                       *)
Taking(n, f, s, m) == Smaller(m, Gap(n, f.read, s))
IsGet(n, f, s, m, g) ==
  LET k == Taking(n, f, s, m)
  IN /\ g.read = After(n, f.read, k)
     /\ g.write = f.write
     /\ g \in [buffer : [0 .. n - 1 -> {g.buffer[j] : j \in 0 .. n - 1}], write : {g.write}, read : {g.read}]
     /\ \A j \in 0 .. n - 1 :
          g.buffer[j] = IF Gap(n, f.read, j) < k THEN None ELSE f.buffer[j]

(* What one side knows of the other: it saw it at s, and it has not passed  *)
(* this side's own index since.                                             *)
ReaderSeen(n, f, s) == Gap(n, s, f.read) + Used(n, f) = Gap(n, s, f.write)
WriterSeen(n, f, s) == Gap(n, f.read, s) + Gap(n, s, f.write) = Used(n, f)

(* Distances and indices stay within the fifo.                              *)
LEMMA GapType ==
  ASSUME NEW n \in Sizes, NEW a \in 0 .. n - 1, NEW b \in 0 .. n - 1
  PROVE  Gap(n, a, b) \in 0 .. n - 1 /\ Gap(n, a, b) \in Nat
  BY DEF Gap, Sizes

(* So does an index that goes on.                                           *)
LEMMA AfterType ==
  ASSUME NEW n \in Sizes, NEW a \in 0 .. n - 1, NEW k \in 0 .. n - 1
  PROVE  After(n, a, k) \in 0 .. n - 1
  BY DEF After, Sizes

(* Going on by k puts an index k further.                                   *)
LEMMA GapAfter ==
  ASSUME NEW n \in Sizes, NEW a \in 0 .. n - 1, NEW k \in 0 .. n - 1
  PROVE  Gap(n, a, After(n, a, k)) = k
  BY DEF After, Gap, Sizes

(* Going on by the distance leads to the other index.                       *)
LEMMA AfterGap ==
  ASSUME NEW n \in Sizes, NEW a \in 0 .. n - 1, NEW b \in 0 .. n - 1
  PROVE  After(n, a, Gap(n, a, b)) = b
  BY DEF After, Gap, Sizes

(* When the read index goes on, what was between it and an index shrinks.   *)
LEMMA GapShrinks ==
  ASSUME NEW n \in Sizes, NEW a \in 0 .. n - 1, NEW b \in 0 .. n - 1, NEW k \in 0 .. n - 1,
         k <= Gap(n, a, b)
  PROVE  Gap(n, After(n, a, k), b) = Gap(n, a, b) - k
  BY DEF After, Gap, Sizes

(* When the write index goes on, what is between the two grows.             *)
LEMMA GapGrows ==
  ASSUME NEW n \in Sizes, NEW a \in 0 .. n - 1, NEW b \in 0 .. n - 1, NEW k \in 0 .. n - 1,
         Gap(n, b, a) + k < n
  PROVE  Gap(n, b, After(n, a, k)) = Gap(n, b, a) + k
  BY DEF After, Gap, Sizes

(* A distance is the sum of those to and from an index between.             *)
LEMMA GapSplit ==
  ASSUME NEW n \in Sizes, NEW a \in 0 .. n - 1, NEW b \in 0 .. n - 1, NEW c \in 0 .. n - 1
  PROVE  /\ Gap(n, a, b) <= Gap(n, a, c) => Gap(n, b, c) = Gap(n, a, c) - Gap(n, a, b)
         /\ Gap(n, a, c) < Gap(n, a, b) => Gap(n, b, c) = n + Gap(n, a, c) - Gap(n, a, b)
  BY DEF Gap, Sizes

(* The code's remainders are distances and indices.                         *)
LEMMA Modulo ==
  ASSUME NEW n \in Sizes
  PROVE  /\ \A a, b \in 0 .. n - 1 : (n + b - a) % n = Gap(n, a, b)
         /\ \A a \in 0 .. n - 1 : \A k \in 0 .. n - 1 : (a + k) % n = After(n, a, k)
         /\ \A a, b \in 0 .. n - 1 : (n + a - b - 1) % n = n - 1 - Gap(n, a, b)
<1>1. \A x \in 0 .. n - 1 : x % n = x
  BY DEF Sizes
<1>2. \A x \in 0 .. n - 1 : (n + x) % n = x
  BY DEF Sizes
<1>3. \A a, b \in 0 .. n - 1 : (n + b - a) % n = Gap(n, a, b)
  <2>. TAKE a, b \in 0 .. n - 1
  <2>1. CASE a <= b
    <3>1. b - a \in 0 .. n - 1 /\ n + b - a = n + (b - a)
      BY <2>1 DEF Sizes
    <3>. QED BY <3>1, <1>2, <2>1 DEF Gap
  <2>2. CASE ~(a <= b)
    <3>1. n + b - a \in 0 .. n - 1
      BY <2>2 DEF Sizes
    <3>. QED BY <3>1, <1>1, <2>2 DEF Gap
  <2>. QED BY <2>1, <2>2
<1>4. \A a \in 0 .. n - 1 : \A k \in 0 .. n - 1 : (a + k) % n = After(n, a, k)
  <2>. TAKE a \in 0 .. n - 1
  <2>. TAKE k \in 0 .. n - 1
  <2>1. CASE a + k < n
    <3>1. a + k \in 0 .. n - 1
      BY <2>1 DEF Sizes
    <3>. QED BY <3>1, <1>1, <2>1 DEF After
  <2>2. CASE ~(a + k < n)
    <3>1. a + k - n \in 0 .. n - 1 /\ a + k = n + (a + k - n)
      BY <2>2 DEF Sizes
    <3>. QED BY <3>1, <1>2, <2>2 DEF After
  <2>. QED BY <2>1, <2>2
<1>5. \A a, b \in 0 .. n - 1 : (n + a - b - 1) % n = n - 1 - Gap(n, a, b)
  <2>. TAKE a, b \in 0 .. n - 1
  <2>1. CASE a <= b
    <3>1. n + a - b - 1 \in 0 .. n - 1
      BY <2>1 DEF Sizes
    <3>. QED BY <3>1, <1>1, <2>1 DEF Gap, Sizes
  <2>2. CASE ~(a <= b)
    <3>1. a - b - 1 \in 0 .. n - 1 /\ n + a - b - 1 = n + (a - b - 1)
      BY <2>2 DEF Sizes
    <3>. QED BY <3>1, <1>2, <2>2 DEF Gap, Sizes
  <2>. QED BY <2>1, <2>2
<1>. QED BY <1>3, <1>4, <1>5

(* A put by who saw the reader keeps the fifo in order, and what readers saw. *)
LEMMA PutFacts ==
  ASSUME NEW n \in Sizes, NEW C, None \notin C, NEW f, FifoOK(n, C, f),
         NEW s \in 0 .. n - 1, ReaderSeen(n, f, s), NEW h \in Seq(C), NEW g, IsPut(n, f, s, h, g)
  PROVE  /\ FifoOK(n, C, g)
         /\ Taken(n, f, s, h) \in 0 .. Len(h)
         /\ Taken(n, f, s, h) <= n - 1 - Used(n, f)
         /\ Used(n, g) = Used(n, f) + Taken(n, f, s, h)
         /\ \A j \in 0 .. n - 1 : Gap(n, f.write, j) < Taken(n, f, s, h) => f.buffer[j] = None
         /\ \A w \in 0 .. n - 1 : WriterSeen(n, f, w) => WriterSeen(n, g, w)
<1>0. n \in Nat /\ n >= 2
  BY DEF Sizes
<1>. DEFINE k == Taken(n, f, s, h)
<1>1. f.read \in 0 .. n - 1 /\ f.write \in 0 .. n - 1
  BY DEF FifoOK
<1>b. /\ f.buffer \in [0 .. n - 1 -> C \cup {None}]
      /\ \A j \in 0 .. n - 1 : f.buffer[j] # None <=> Gap(n, f.read, j) < Used(n, f)
  BY DEF FifoOK
<1>2. Len(h) \in Nat /\ \A i \in 1 .. Len(h) : h[i] \in C
  OBVIOUS
<1>9. Used(n, f) \in 0 .. n - 1
  BY <1>1, GapType DEF Used
<1>K. k \in 0 .. Len(h) /\ k \in 0 .. n - 1 /\ Used(n, f) + k <= n - 1
  <2>. DEFINE x == Gap(n, s, f.write)
  <2>1. x \in 0 .. n - 1 /\ x \in Nat
    BY <1>1, GapType
  <2>2. Gap(n, s, f.read) \in Nat /\ Used(n, f) \in Nat /\ Gap(n, s, f.read) + Used(n, f) = x
    BY <1>1, GapType DEF ReaderSeen, Used
  <2>3. k = Smaller(Len(h), n - 1 - x)
    BY DEF Taken
  <2>. HIDE DEF x, k
  <2>. QED BY <1>0, <1>2, <2>1, <2>2, <2>3 DEF Smaller
<1>3. k \in 0 .. n - 1 /\ Used(n, f) + k <= n - 1
  BY <1>K
<1>N. k \in Nat /\ k <= Len(h)
  BY <1>2, <1>K
<1>4. /\ g.read = f.read
      /\ g.write = After(n, f.write, k)
      /\ \A j \in 0 .. n - 1 :
           g.buffer[j] = IF Gap(n, f.write, j) < k THEN h[Gap(n, f.write, j) + 1] ELSE f.buffer[j]
  BY DEF IsPut
<1>5. g \in [buffer : [0 .. n - 1 -> {g.buffer[j] : j \in 0 .. n - 1}], write : {g.write}, read : {g.read}]
  BY DEF IsPut
<1>. HIDE DEF k
<1>6. g.write \in 0 .. n - 1 /\ Used(n, g) = Used(n, f) + k
  <2>1. g.write \in 0 .. n - 1
    BY <1>1, <1>3, <1>4, AfterType
  <2>2. Used(n, f) \in 0 .. n - 1 /\ Used(n, f) + k < n
    BY <1>0, <1>3, <1>9
  <2>3. Gap(n, f.read, After(n, f.write, k)) = Gap(n, f.read, f.write) + k
    BY <1>1, <1>3, <2>2, GapGrows DEF Used
  <2>. QED BY <2>1, <2>3, <1>4 DEF Used
<1>7. ASSUME NEW j \in 0 .. n - 1
      PROVE  Gap(n, f.write, j) < k <=> (Used(n, f) <= Gap(n, f.read, j) /\ Gap(n, f.read, j) < Used(n, f) + k)
  <2>1. /\ Used(n, f) <= Gap(n, f.read, j) => Gap(n, f.write, j) = Gap(n, f.read, j) - Used(n, f)
        /\ Gap(n, f.read, j) < Used(n, f) => Gap(n, f.write, j) = n + Gap(n, f.read, j) - Used(n, f)
    BY <1>1, GapSplit DEF Used
  <2>2. Gap(n, f.write, j) \in 0 .. n - 1 /\ Gap(n, f.read, j) \in 0 .. n - 1
    BY <1>1, GapType
  <2>. HIDE DEF Used
  <2>. DEFINE u == Used(n, f)  p == Gap(n, f.read, j)  q == Gap(n, f.write, j)
  <2>3. /\ u \in 0 .. n - 1 /\ p \in 0 .. n - 1 /\ q \in 0 .. n - 1 /\ k \in 0 .. n - 1 /\ u + k <= n - 1
        /\ u <= p => q = p - u
        /\ p < u => q = n + p - u
    BY <1>3, <1>9, <2>1, <2>2
  <2>. HIDE DEF u, p, q
  <2>4. q < k <=> (u <= p /\ p < u + k)
    BY <2>3, <1>0
  <2>. QED BY <2>4 DEF u, p, q
<1>8. \A j \in 0 .. n - 1 : Gap(n, f.write, j) \in 0 .. n - 1 /\ Gap(n, f.read, j) \in 0 .. n - 1
  BY <1>1, GapType
<1>10. \A j \in 0 .. n - 1 : Gap(n, f.write, j) < k => f.buffer[j] = None
  <2>. SUFFICES ASSUME NEW j \in 0 .. n - 1, Gap(n, f.write, j) < k PROVE f.buffer[j] = None
    OBVIOUS
  <2>1. Used(n, f) <= Gap(n, f.read, j)
    BY <1>7
  <2>2. ~(Gap(n, f.read, j) < Used(n, f))
    <3>1. Gap(n, f.read, j) \in Nat /\ Used(n, f) \in Nat
      BY <1>1, GapType DEF Used
    <3>. QED BY <2>1, <3>1
  <2>. QED BY <2>2, <1>b
<1>11. \A j \in 0 .. n - 1 : Gap(n, f.write, j) < k => h[Gap(n, f.write, j) + 1] \in C
  <2>. SUFFICES ASSUME NEW j \in 0 .. n - 1, Gap(n, f.write, j) < k PROVE h[Gap(n, f.write, j) + 1] \in C
    OBVIOUS
  <2>1. Gap(n, f.write, j) + 1 \in 1 .. Len(h)
    <3>1. Gap(n, f.write, j) \in Nat
      BY <1>1, GapType
    <3>. QED BY <3>1, <1>N, <1>2
  <2>. QED BY <2>1, <1>2
<1>12. FifoOK(n, C, g)
  <2>1. \A j \in 0 .. n - 1 : g.buffer[j] \in C \cup {None}
    BY <1>b, <1>4, <1>11
  <2>2. g.buffer \in [0 .. n - 1 -> C \cup {None}]
    <3>1. g.buffer \in [0 .. n - 1 -> {g.buffer[j] : j \in 0 .. n - 1}]
      BY <1>5
    <3>. QED BY <3>1, <2>1
  <2>3. g \in [buffer : [0 .. n - 1 -> C \cup {None}], write : 0 .. n - 1, read : 0 .. n - 1]
    BY <2>2, <1>5, <1>1, <1>4, <1>6
  <2>4. ASSUME NEW j \in 0 .. n - 1 PROVE g.buffer[j] # None <=> Gap(n, g.read, j) < Used(n, g)
    <3>1. CASE Gap(n, f.write, j) < k
      <4>1. g.buffer[j] # None
        BY <3>1, <1>4, <1>11
      <4>2. Gap(n, f.read, j) < Used(n, f) + k
        BY <3>1, <1>7
      <4>. QED BY <4>1, <4>2, <1>4, <1>6
    <3>2. CASE ~(Gap(n, f.write, j) < k)
      <4>1. g.buffer[j] # None <=> Gap(n, f.read, j) < Used(n, f)
        BY <3>2, <1>4, <1>b
      <4>2. Gap(n, f.read, j) < Used(n, f) <=> Gap(n, f.read, j) < Used(n, f) + k
        <5>1. Gap(n, f.read, j) \in Nat /\ Used(n, f) \in Nat
          BY <1>1, GapType DEF Used
        <5>2. ~(Used(n, f) <= Gap(n, f.read, j) /\ Gap(n, f.read, j) < Used(n, f) + k)
          BY <3>2, <1>7
        <5>. QED BY <5>1, <5>2, <1>N
      <4>. QED BY <4>1, <4>2, <1>4, <1>6
    <3>. QED BY <3>1, <3>2
  <2>. QED BY <2>3, <2>4 DEF FifoOK
<1>13. ASSUME NEW w \in 0 .. n - 1, WriterSeen(n, f, w) PROVE WriterSeen(n, g, w)
  <2>1. Gap(n, w, After(n, f.write, k)) = Gap(n, w, f.write) + k
    <3>1. Gap(n, w, f.write) \in 0 .. n - 1 /\ Gap(n, f.read, w) \in 0 .. n - 1
      BY <1>1, GapType
    <3>2. Gap(n, f.read, w) + Gap(n, w, f.write) = Used(n, f)
      BY <1>13 DEF WriterSeen
    <3>3. Gap(n, w, f.write) + k < n
      BY <3>1, <3>2, <1>0, <1>3, <1>9
    <3>. QED BY <3>3, <1>1, <1>3, GapGrows
  <2>2. Gap(n, f.read, w) \in 0 .. n - 1 /\ Gap(n, w, f.write) \in 0 .. n - 1
    BY <1>1, GapType
  <2>. QED BY <2>1, <2>2, <1>3, <1>4, <1>6, <1>9, <1>13 DEF WriterSeen
<1>. QED BY <1>0, <1>9, <1>K, <1>6, <1>10, <1>12, <1>13 DEF k

(* A get by who saw the writer does, and keeps what writers saw.            *)
LEMMA GetFacts ==
  ASSUME NEW n \in Sizes, NEW C, None \notin C, NEW f, FifoOK(n, C, f),
         NEW s \in 0 .. n - 1, WriterSeen(n, f, s), NEW m \in Nat, NEW g, IsGet(n, f, s, m, g)
  PROVE  /\ FifoOK(n, C, g)
         /\ Taking(n, f, s, m) \in 0 .. m
         /\ Taking(n, f, s, m) <= Used(n, f)
         /\ Used(n, g) = Used(n, f) - Taking(n, f, s, m)
         /\ \A j \in 0 .. n - 1 : Gap(n, f.read, j) < Taking(n, f, s, m) => f.buffer[j] \in C
         /\ \A w \in 0 .. n - 1 : ReaderSeen(n, f, w) => ReaderSeen(n, g, w)
<1>0. n \in Nat /\ n >= 2
  BY DEF Sizes
<1>. DEFINE k == Taking(n, f, s, m)
<1>1. f.read \in 0 .. n - 1 /\ f.write \in 0 .. n - 1
  BY DEF FifoOK
<1>b. /\ f.buffer \in [0 .. n - 1 -> C \cup {None}]
      /\ \A j \in 0 .. n - 1 : f.buffer[j] # None <=> Gap(n, f.read, j) < Used(n, f)
  BY DEF FifoOK
<1>3. /\ k \in 0 .. m /\ k \in 0 .. n - 1
      /\ k <= Used(n, f)
  <2>. DEFINE x == Gap(n, f.read, s)
  <2>1. x \in 0 .. n - 1 /\ x \in Nat
    BY <1>1, GapType
  <2>2. Gap(n, s, f.write) \in Nat /\ Used(n, f) \in Nat /\ x + Gap(n, s, f.write) = Used(n, f)
    BY <1>1, GapType DEF WriterSeen, Used
  <2>3. k = Smaller(m, x)
    BY DEF Taking
  <2>. HIDE DEF x, k
  <2>. QED BY <1>0, <2>1, <2>2, <2>3 DEF Smaller
<1>4. /\ g.read = After(n, f.read, k)
      /\ g.write = f.write
      /\ \A j \in 0 .. n - 1 :
           g.buffer[j] = IF Gap(n, f.read, j) < k THEN None ELSE f.buffer[j]
  BY DEF IsGet
<1>5. g \in [buffer : [0 .. n - 1 -> {g.buffer[j] : j \in 0 .. n - 1}], write : {g.write}, read : {g.read}]
  BY DEF IsGet
<1>. HIDE DEF k
<1>6. g.read \in 0 .. n - 1 /\ Used(n, g) = Used(n, f) - k
  <2>1. g.read \in 0 .. n - 1
    BY <1>1, <1>3, <1>4, AfterType
  <2>2. Gap(n, After(n, f.read, k), f.write) = Gap(n, f.read, f.write) - k
    BY <1>1, <1>3, GapShrinks DEF Used
  <2>. QED BY <2>1, <2>2, <1>4 DEF Used
<1>8. \A j \in 0 .. n - 1 : Gap(n, f.read, j) \in 0 .. n - 1
  BY <1>1, GapType
<1>9. Used(n, f) \in 0 .. n - 1
  BY <1>1, GapType DEF Used
<1>7. ASSUME NEW j \in 0 .. n - 1
      PROVE  Gap(n, g.read, j) < Used(n, g) <=> k <= Gap(n, f.read, j) /\ Gap(n, f.read, j) < Used(n, f)
  <2>1. CASE k <= Gap(n, f.read, j)
    <3>1. Gap(n, After(n, f.read, k), j) = Gap(n, f.read, j) - k
      BY <2>1, <1>1, <1>3, GapShrinks
    <3>. QED BY <3>1, <2>1, <1>3, <1>4, <1>6, <1>8, <1>9, <1>0
  <2>2. CASE ~(k <= Gap(n, f.read, j))
    <3>1. Gap(n, After(n, f.read, k), j) = n + Gap(n, f.read, j) - k
      BY <2>2, <1>1, <1>3 DEF Gap, After, Sizes
    <3>2. n + Gap(n, f.read, j) - k >= Used(n, f) - k
      BY <1>8, <1>9, <1>3 DEF Sizes
    <3>. QED BY <3>1, <3>2, <2>2, <1>3, <1>4, <1>6, <1>8, <1>9, <1>0
  <2>. QED BY <2>1, <2>2
<1>10. \A j \in 0 .. n - 1 : Gap(n, f.read, j) < k => f.buffer[j] \in C
  <2>. SUFFICES ASSUME NEW j \in 0 .. n - 1, Gap(n, f.read, j) < k PROVE f.buffer[j] \in C
    OBVIOUS
  <2>1. Gap(n, f.read, j) < Used(n, f)
    BY <1>3, <1>8, <1>9
  <2>. QED BY <2>1, <1>b
<1>12. FifoOK(n, C, g)
  <2>1. \A j \in 0 .. n - 1 : g.buffer[j] \in C \cup {None}
    BY <1>b, <1>4
  <2>2. g.buffer \in [0 .. n - 1 -> C \cup {None}]
    <3>1. g.buffer \in [0 .. n - 1 -> {g.buffer[j] : j \in 0 .. n - 1}]
      BY <1>5
    <3>. QED BY <3>1, <2>1
  <2>3. g \in [buffer : [0 .. n - 1 -> C \cup {None}], write : 0 .. n - 1, read : 0 .. n - 1]
    BY <2>2, <1>5, <1>1, <1>4, <1>6
  <2>4. ASSUME NEW j \in 0 .. n - 1 PROVE g.buffer[j] # None <=> Gap(n, g.read, j) < Used(n, g)
    <3>1. CASE Gap(n, f.read, j) < k
      <4>1. g.buffer[j] = None
        BY <3>1, <1>4
      <4>2. ~(k <= Gap(n, f.read, j))
        BY <3>1, <1>3, <1>8
      <4>. QED BY <4>1, <4>2, <1>7
    <3>2. CASE ~(Gap(n, f.read, j) < k)
      <4>1. g.buffer[j] # None <=> Gap(n, f.read, j) < Used(n, f)
        BY <3>2, <1>4, <1>b
      <4>2. k <= Gap(n, f.read, j)
        BY <3>2, <1>3, <1>8
      <4>. QED BY <4>1, <4>2, <1>7
    <3>. QED BY <3>1, <3>2
  <2>. QED BY <2>3, <2>4 DEF FifoOK
<1>13. ASSUME NEW w \in 0 .. n - 1, ReaderSeen(n, f, w) PROVE ReaderSeen(n, g, w)
  <2>1. Gap(n, w, f.read) \in 0 .. n - 1 /\ Gap(n, w, f.write) \in 0 .. n - 1
    BY <1>1, GapType
  <2>2. Gap(n, w, f.read) + k < n
    BY <2>1, <1>3, <1>9, <1>13 DEF ReaderSeen, Sizes
  <2>3. Gap(n, w, After(n, f.read, k)) = Gap(n, w, f.read) + k
    BY <2>2, <1>1, <1>3, GapGrows
  <2>. QED BY <2>1, <2>3, <1>3, <1>4, <1>6, <1>9, <1>13 DEF ReaderSeen
<1>. QED BY <1>3, <1>6, <1>10, <1>12, <1>13 DEF k

-----------------------------------------------------------------------------
(* Where an mbuf is.                                                        *)

PacketQueues == {"rx_q", "tx_q", "alloc_q", "free_q"}
Movers == {"ingress", "egress", "kthread", "xmit"}

NoSlot(n, ff, m) == \A q \in PacketQueues : \A j \in 0 .. n - 1 : ff[q].buffer[j] # m
OneSlot(n, ff, m, q, j) ==
  \A r \in PacketQueues : \A i \in 0 .. n - 1 : ff[r].buffer[i] = m <=> (r = q /\ i = j)
NoHand(hd, m) == \A p \in Movers : \A k \in 1 .. Len(hd[p]) : hd[p][k] # m
OneHand(hd, m, p, k) ==
  \A r \in Movers : \A i \in 1 .. Len(hd[r]) : hd[r][i] = m <=> (r = p /\ i = k)

(* An mbuf is free, in one slot or in one hand.                             *)
Single(n, pl, ff, hd, m) ==
  \/ m \in pl /\ NoSlot(n, ff, m) /\ NoHand(hd, m)
  \/ /\ m \notin pl /\ NoHand(hd, m)
     /\ \E q \in PacketQueues : \E j \in 0 .. n - 1 : OneSlot(n, ff, m, q, j)
  \/ /\ m \notin pl /\ NoSlot(n, ff, m)
     /\ \E p \in Movers : \E k \in 1 .. Len(hd[p]) : OneHand(hd, m, p, k)

(* Different elements h of the pool pl are taken from it, which leaves pl2.  *)
IsDraw(pl, h, pl2) ==
  /\ Len(h) \in Nat
  /\ \A k \in 1 .. Len(h) : h[k] \in pl
  /\ \A i, k \in 1 .. Len(h) : h[i] = h[k] => i = k
  /\ \A x : x \in pl2 <=> (x \in pl /\ \A k \in 1 .. Len(h) : h[k] # x)

(* A draw from the pool keeps each mbuf in one place, ...                   *)
LEMMA Drawn ==
  ASSUME NEW n \in Sizes, NEW pl, NEW ff, NEW hd, NEW pl2, NEW hd2, NEW m,
         Single(n, pl, ff, hd, m),
         NEW p \in Movers, hd[p] = <<>>, IsDraw(pl, hd2[p], pl2),
         \A r \in Movers \ {p} : hd2[r] = hd[r]
  PROVE  Single(n, pl2, ff, hd2, m)
<1>0. /\ Len(hd2[p]) \in Nat
      /\ \A k \in 1 .. Len(hd2[p]) : hd2[p][k] \in pl
      /\ \A i, k \in 1 .. Len(hd2[p]) : hd2[p][i] = hd2[p][k] => i = k
      /\ \A x : x \in pl2 <=> (x \in pl /\ \A k \in 1 .. Len(hd2[p]) : hd2[p][k] # x)
  BY DEF IsDraw
<1>1. CASE m \in pl /\ NoSlot(n, ff, m) /\ NoHand(hd, m)
  <2>1. CASE \E k \in 1 .. Len(hd2[p]) : hd2[p][k] = m
    <3>1. PICK k \in 1 .. Len(hd2[p]) : hd2[p][k] = m
      BY <2>1
    <3>2. OneHand(hd2, m, p, k)
      BY <1>0, <1>1, <3>1 DEF OneHand, NoHand
    <3>. QED BY <1>0, <1>1, <3>1, <3>2 DEF Single
  <2>2. CASE ~ \E k \in 1 .. Len(hd2[p]) : hd2[p][k] = m
    <3>1. NoHand(hd2, m)
      BY <1>1, <2>2 DEF NoHand
    <3>. QED BY <1>0, <1>1, <2>2, <3>1 DEF Single
  <2>. QED BY <2>1, <2>2
<1>2. CASE m \notin pl
  <2>1. m \notin pl2 /\ \A k \in 1 .. Len(hd2[p]) : hd2[p][k] # m
    BY <1>0, <1>2
  <2>2. NoHand(hd, m) => NoHand(hd2, m)
    BY <2>1 DEF NoHand
  <2>3. ASSUME NEW r \in Movers, NEW k \in 1 .. Len(hd[r]), OneHand(hd, m, r, k)
        PROVE  r # p /\ k \in 1 .. Len(hd2[r]) /\ OneHand(hd2, m, r, k)
    <3>1. r # p
      OBVIOUS
    <3>. QED BY <2>1, <2>3, <3>1 DEF OneHand
  <2>. QED BY <1>2, <2>1, <2>2, <2>3 DEF Single
<1>. QED BY <1>1, <1>2 DEF Single

(* ... so does a put, those that did not fit going to the pool, ...         *)
LEMMA Stored ==
  ASSUME NEW n \in Sizes, NEW C, None \notin C, NEW pl, NEW ff, NEW hd, NEW pl2, NEW ff2, NEW hd2, NEW m \in C,
         Single(n, pl, ff, hd, m),
         NEW p \in Movers, NEW q \in PacketQueues, FifoOK(n, C, ff[q]), hd[p] \in Seq(C),
         NEW s \in 0 .. n - 1, ReaderSeen(n, ff[q], s), IsPut(n, ff[q], s, hd[p], ff2[q]),
         \A r \in PacketQueues \ {q} : ff2[r] = ff[r],
         hd2[p] = <<>>, \A r \in Movers \ {p} : hd2[r] = hd[r],
         \A x : x \in pl2 <=> (x \in pl \/ \E k \in Taken(n, ff[q], s, hd[p]) + 1 .. Len(hd[p]) : hd[p][k] = x)
  PROVE  Single(n, pl2, ff2, hd2, m)
<1>. DEFINE t == Taken(n, ff[q], s, hd[p])
            w == ff[q].write
<1>0. n \in Nat /\ n >= 2
  BY DEF Sizes
<1>1. /\ t \in 0 .. Len(hd[p]) /\ t <= n - 1 - Used(n, ff[q])
      /\ \A j \in 0 .. n - 1 : Gap(n, w, j) < t => ff[q].buffer[j] = None
  BY PutFacts
<1>2. \A j \in 0 .. n - 1 :
        ff2[q].buffer[j] = IF Gap(n, w, j) < t THEN hd[p][Gap(n, w, j) + 1] ELSE ff[q].buffer[j]
  BY DEF IsPut
<1>3. Len(hd[p]) \in Nat /\ w \in 0 .. n - 1 /\ ff[q].read \in 0 .. n - 1 /\ m # None
  BY DEF FifoOK
<1>4. Used(n, ff[q]) \in Nat
  BY <1>3, GapType DEF Used
<1>5. t \in Nat /\ t <= Len(hd[p]) /\ t < n
  BY <1>0, <1>1, <1>3, <1>4
<1>6. \A x : x \in pl2 <=> (x \in pl \/ \E k \in t + 1 .. Len(hd[p]) : hd[p][k] = x)
  OBVIOUS
<1>. HIDE DEF t, w
<1>7. \A j \in 0 .. n - 1 : Gap(n, w, j) \in Nat /\ (Gap(n, w, j) < t => Gap(n, w, j) + 1 \in 1 .. Len(hd[p]))
  <2>1. \A j \in 0 .. n - 1 : Gap(n, w, j) \in Nat
    BY <1>3, GapType
  <2>. QED BY <2>1, <1>3, <1>5
<1>8. NoHand(hd, m) => NoHand(hd2, m)
  BY DEF NoHand
<1>9. NoHand(hd, m) => (m \in pl2 <=> m \in pl)
  <2>1. \A k \in t + 1 .. Len(hd[p]) : k \in 1 .. Len(hd[p])
    BY <1>3, <1>5
  <2>. QED BY <2>1, <1>6 DEF NoHand
<1>10. NoHand(hd, m) => \A r \in PacketQueues : \A j \in 0 .. n - 1 : ff2[r].buffer[j] = m <=> ff[r].buffer[j] = m
  <2>. SUFFICES ASSUME NoHand(hd, m), NEW r \in PacketQueues, NEW j \in 0 .. n - 1
                PROVE  ff2[r].buffer[j] = m <=> ff[r].buffer[j] = m
    OBVIOUS
  <2>1. CASE r = q /\ Gap(n, w, j) < t
    <3>1. ff2[q].buffer[j] = hd[p][Gap(n, w, j) + 1] /\ ff[q].buffer[j] = None
      BY <2>1, <1>1, <1>2 DEF t, w
    <3>2. hd[p][Gap(n, w, j) + 1] # m
      BY <2>1, <1>7 DEF NoHand
    <3>. QED BY <2>1, <3>1, <3>2, <1>3
  <2>2. CASE r = q /\ ~(Gap(n, w, j) < t)
    BY <2>2, <1>2
  <2>3. CASE r # q
    BY <2>3
  <2>. QED BY <2>1, <2>2, <2>3
<1>11. CASE NoHand(hd, m)
  <2>1. NoSlot(n, ff, m) => NoSlot(n, ff2, m)
    BY <1>10, <1>11 DEF NoSlot
  <2>2. ASSUME NEW r \in PacketQueues, NEW j \in 0 .. n - 1, OneSlot(n, ff, m, r, j)
        PROVE  OneSlot(n, ff2, m, r, j)
    BY <1>10, <1>11, <2>2 DEF OneSlot
  <2>3. \A r \in Movers : \A k \in 1 .. Len(hd[r]) : ~OneHand(hd, m, r, k)
    BY <1>11 DEF NoHand, OneHand
  <2>. QED BY <1>8, <1>9, <1>11, <2>1, <2>2, <2>3 DEF Single
<1>12. CASE m \notin pl /\ NoSlot(n, ff, m) /\ \E r \in Movers : \E k \in 1 .. Len(hd[r]) : OneHand(hd, m, r, k)
  <2>0. PICK r \in Movers : \E k \in 1 .. Len(hd[r]) : OneHand(hd, m, r, k)
    BY <1>12
  <2>1. PICK k \in 1 .. Len(hd[r]) : OneHand(hd, m, r, k)
    BY <2>0
  <2>2. hd[r][k] = m
    BY <2>1 DEF OneHand
  <2>3. CASE r # p
    <3>1. \A i \in 1 .. Len(hd[p]) : hd[p][i] # m
      BY <2>1, <2>3 DEF OneHand
    <3>2. m \notin pl2
      <4>1. \A i \in t + 1 .. Len(hd[p]) : i \in 1 .. Len(hd[p])
        BY <1>3, <1>5
      <4>. QED BY <4>1, <3>1, <1>6, <1>12
    <3>3. NoSlot(n, ff2, m)
      <4>. SUFFICES ASSUME NEW r2 \in PacketQueues, NEW j \in 0 .. n - 1 PROVE ff2[r2].buffer[j] # m
        BY DEF NoSlot
      <4>1. CASE r2 = q /\ Gap(n, w, j) < t
        BY <4>1, <3>1, <1>2, <1>7
      <4>2. CASE ~(r2 = q /\ Gap(n, w, j) < t)
        BY <4>2, <1>2, <1>12 DEF NoSlot
      <4>. QED BY <4>1, <4>2
    <3>4. OneHand(hd2, m, r, k) /\ k \in 1 .. Len(hd2[r])
      BY <2>1, <2>3 DEF OneHand
    <3>. QED BY <3>2, <3>3, <3>4 DEF Single
  <2>4. CASE r = p
    <3>1. \A i \in 1 .. Len(hd[p]) : hd[p][i] = m <=> i = k
      BY <2>1, <2>4 DEF OneHand
    <3>2. NoHand(hd2, m)
      BY <2>1, <2>4 DEF OneHand, NoHand
    <3>3. k \in Nat /\ k >= 1 /\ k <= Len(hd[p])
      BY <2>4, <1>3
    <3>4. CASE k <= t
      <4>. DEFINE j == After(n, w, k - 1)
      <4>1. k - 1 \in 0 .. n - 1
        BY <3>3, <3>4, <1>0, <1>5
      <4>2. j \in 0 .. n - 1 /\ Gap(n, w, j) = k - 1
        BY <4>1, <1>3, AfterType, GapAfter
      <4>3. \A i \in 0 .. n - 1 : Gap(n, w, i) = k - 1 => i = j
        BY <1>3, AfterGap
      <4>. HIDE DEF j
      <4>4. OneSlot(n, ff2, m, q, j)
        <5>. SUFFICES ASSUME NEW r2 \in PacketQueues, NEW i \in 0 .. n - 1
                      PROVE  ff2[r2].buffer[i] = m <=> (r2 = q /\ i = j)
          BY DEF OneSlot
        <5>1. CASE r2 = q /\ Gap(n, w, i) < t
          <6>1. ff2[r2].buffer[i] = hd[p][Gap(n, w, i) + 1] /\ Gap(n, w, i) + 1 \in 1 .. Len(hd[p])
            BY <5>1, <1>2, <1>7
          <6>2. ff2[r2].buffer[i] = m <=> Gap(n, w, i) + 1 = k
            BY <6>1, <3>1
          <6>3. Gap(n, w, i) \in Nat
            BY <1>7
          <6>4. Gap(n, w, i) + 1 = k <=> Gap(n, w, i) = k - 1
            BY <6>3, <3>3
          <6>. QED BY <5>1, <6>2, <6>4, <4>2, <4>3
        <5>2. CASE ~(r2 = q /\ Gap(n, w, i) < t)
          <6>1. ff2[r2].buffer[i] # m
            BY <5>2, <1>2, <1>12 DEF NoSlot
          <6>2. ~(r2 = q /\ i = j)
            BY <5>2, <4>2, <3>3, <3>4, <1>5
          <6>. QED BY <6>1, <6>2
        <5>. QED BY <5>1, <5>2
      <4>5. m \notin pl2
        <5>1. \A i \in t + 1 .. Len(hd[p]) : i \in 1 .. Len(hd[p]) /\ i # k
          BY <1>3, <1>5, <3>3, <3>4
        <5>. QED BY <5>1, <3>1, <1>6, <1>12
      <4>. QED BY <3>2, <4>2, <4>4, <4>5 DEF Single
    <3>5. CASE t < k
      <4>1. m \in pl2
        <5>1. k \in t + 1 .. Len(hd[p])
          BY <3>3, <3>5, <1>3, <1>5
        <5>. QED BY <5>1, <2>2, <2>4, <1>6
      <4>2. NoSlot(n, ff2, m)
        <5>. SUFFICES ASSUME NEW r2 \in PacketQueues, NEW i \in 0 .. n - 1 PROVE ff2[r2].buffer[i] # m
          BY DEF NoSlot
        <5>1. CASE r2 = q /\ Gap(n, w, i) < t
          <6>1. ff2[r2].buffer[i] = hd[p][Gap(n, w, i) + 1] /\ Gap(n, w, i) + 1 \in 1 .. Len(hd[p])
            BY <5>1, <1>2, <1>7
          <6>2. Gap(n, w, i) + 1 # k
            BY <5>1, <1>5, <1>7, <3>3, <3>5
          <6>. QED BY <6>1, <6>2, <3>1
        <5>2. CASE ~(r2 = q /\ Gap(n, w, i) < t)
          BY <5>2, <1>2, <1>12 DEF NoSlot
        <5>. QED BY <5>1, <5>2
      <4>. QED BY <3>2, <4>1, <4>2 DEF Single
    <3>. QED BY <3>3, <3>4, <3>5, <1>5
  <2>. QED BY <2>3, <2>4
<1>. QED BY <1>11, <1>12 DEF Single

(* What a get does to an mbuf: it leaves the fifo as one of those taken, or *)
(* stays where it was.                                                      *)
Emptying(n, ff, ff2, m, q, t) ==
  LET out(k) == ff[q].buffer[After(n, ff[q].read, k - 1)]
  IN /\ NoSlot(n, ff, m) => NoSlot(n, ff2, m) /\ \A k \in 1 .. t : out(k) # m
     /\ \A r \in PacketQueues : \A j \in 0 .. n - 1 : OneSlot(n, ff, m, r, j) =>
          \/ OneSlot(n, ff2, m, r, j) /\ \A k \in 1 .. t : out(k) # m
          \/ NoSlot(n, ff2, m) /\ \E k \in 1 .. t : \A i \in 1 .. t : out(i) = m <=> i = k

(* A get of an mbuf, or of none: where it was.                              *)
LEMMA Emptied ==
  ASSUME NEW n \in Sizes, NEW C, None \notin C, NEW ff, NEW ff2, NEW m \in C,
         NEW q \in PacketQueues, FifoOK(n, C, ff[q]),
         NEW s \in 0 .. n - 1, WriterSeen(n, ff[q], s), NEW z \in Nat, IsGet(n, ff[q], s, z, ff2[q]),
         \A r \in PacketQueues \ {q} : ff2[r] = ff[r]
  PROVE  Emptying(n, ff, ff2, m, q, Taking(n, ff[q], s, z))
<1>. DEFINE t == Taking(n, ff[q], s, z)
            w == ff[q].read
<1>0. n \in Nat /\ n >= 2
  BY DEF Sizes
<1>1. t \in 0 .. z /\ t <= Used(n, ff[q])
  BY GetFacts
<1>2. \A j \in 0 .. n - 1 : ff2[q].buffer[j] = IF Gap(n, w, j) < t THEN None ELSE ff[q].buffer[j]
  BY DEF IsGet
<1>3. w \in 0 .. n - 1 /\ ff[q].write \in 0 .. n - 1 /\ m # None
  BY DEF FifoOK
<1>4. Used(n, ff[q]) \in 0 .. n - 1
  BY <1>3, GapType DEF Used
<1>5. t \in Nat /\ t < n
  BY <1>0, <1>1, <1>4
<1>. HIDE DEF t, w
<1>6. ASSUME NEW k \in 1 .. t
      PROVE  /\ k \in Nat /\ After(n, w, k - 1) \in 0 .. n - 1
             /\ Gap(n, w, After(n, w, k - 1)) = k - 1 /\ k - 1 < t
  <2>1. k \in Nat /\ k - 1 \in 0 .. n - 1 /\ k - 1 < t
    BY <1>0, <1>5
  <2>. QED BY <2>1, <1>3, AfterType, GapAfter
<1>7. \A j \in 0 .. n - 1 : Gap(n, w, j) \in Nat /\ After(n, w, Gap(n, w, j)) = j
  BY <1>3, GapType, AfterGap
<1>8. ASSUME NEW r \in PacketQueues, NEW j \in 0 .. n - 1, ff2[r].buffer[j] = m
      PROVE  ff[r].buffer[j] = m /\ ~(r = q /\ Gap(n, w, j) < t)
  BY <1>2, <1>3, <1>8
<1>9. ASSUME NEW r \in PacketQueues, NEW j \in 0 .. n - 1, ~(r = q /\ Gap(n, w, j) < t)
      PROVE  ff2[r].buffer[j] = ff[r].buffer[j]
  BY <1>2, <1>9
<1>10. NoSlot(n, ff, m) => NoSlot(n, ff2, m) /\ \A k \in 1 .. t : ff[q].buffer[After(n, w, k - 1)] # m
  BY <1>6, <1>8 DEF NoSlot
<1>11. ASSUME NEW r \in PacketQueues, NEW j \in 0 .. n - 1, OneSlot(n, ff, m, r, j)
       PROVE  \/ OneSlot(n, ff2, m, r, j) /\ \A k \in 1 .. t : ff[q].buffer[After(n, w, k - 1)] # m
              \/ /\ NoSlot(n, ff2, m)
                 /\ \E k \in 1 .. t : \A i \in 1 .. t : ff[q].buffer[After(n, w, i - 1)] = m <=> i = k
  <2>1. CASE r = q /\ Gap(n, w, j) < t
    <3>1. NoSlot(n, ff2, m)
      BY <1>8, <1>11, <2>1 DEF NoSlot, OneSlot
    <3>. DEFINE k == Gap(n, w, j) + 1
    <3>2. k \in 1 .. t /\ k - 1 = Gap(n, w, j)
      BY <1>7, <2>1, <1>5
    <3>3. ASSUME NEW i \in 1 .. t PROVE ff[q].buffer[After(n, w, i - 1)] = m <=> i = k
      <4>1. ff[q].buffer[After(n, w, i - 1)] = m <=> After(n, w, i - 1) = j
        BY <1>6, <1>11, <2>1 DEF OneSlot
      <4>2. After(n, w, i - 1) = j <=> i - 1 = Gap(n, w, j)
        BY <1>6, <1>7
      <4>3. i \in Nat /\ Gap(n, w, j) \in Nat
        BY <1>6, <1>7
      <4>. QED BY <4>1, <4>2, <4>3
    <3>. QED BY <3>1, <3>2, <3>3
  <2>2. CASE ~(r = q /\ Gap(n, w, j) < t)
    <3>1. OneSlot(n, ff2, m, r, j)
      BY <1>8, <1>9, <1>11, <2>2 DEF OneSlot
    <3>2. ASSUME NEW k \in 1 .. t, ff[q].buffer[After(n, w, k - 1)] = m PROVE FALSE
      <4>1. r = q /\ After(n, w, k - 1) = j
        BY <1>6, <1>11, <3>2 DEF OneSlot
      <4>. QED BY <4>1, <1>6, <2>2
    <3>. QED BY <3>1, <3>2
  <2>. QED BY <2>1, <2>2
<1>. QED BY <1>10, <1>11 DEF t, w, Emptying

(* ... a get whose mbufs go to the pool, ...                                *)
LEMMA Freed ==
  ASSUME NEW n \in Sizes, NEW C, None \notin C, NEW pl, NEW ff, NEW hd, NEW pl2, NEW ff2, NEW m \in C,
         Single(n, pl, ff, hd, m),
         NEW q \in PacketQueues, FifoOK(n, C, ff[q]),
         NEW s \in 0 .. n - 1, WriterSeen(n, ff[q], s), NEW z \in Nat, IsGet(n, ff[q], s, z, ff2[q]),
         \A r \in PacketQueues \ {q} : ff2[r] = ff[r],
         \A x : x \in pl2 <=> (x \in pl \/ \E k \in 1 .. Taking(n, ff[q], s, z) :
                                             ff[q].buffer[After(n, ff[q].read, k - 1)] = x)
  PROVE  Single(n, pl2, ff2, hd, m)
<1>. DEFINE t == Taking(n, ff[q], s, z)
            out(k) == ff[q].buffer[After(n, ff[q].read, k - 1)]
<1>1. /\ NoSlot(n, ff, m) => NoSlot(n, ff2, m) /\ \A k \in 1 .. t : out(k) # m
      /\ \A r \in PacketQueues : \A j \in 0 .. n - 1 : OneSlot(n, ff, m, r, j) =>
           \/ OneSlot(n, ff2, m, r, j) /\ \A k \in 1 .. t : out(k) # m
           \/ NoSlot(n, ff2, m) /\ \E k \in 1 .. t : \A i \in 1 .. t : out(i) = m <=> i = k
  <2>1. Emptying(n, ff, ff2, m, q, t)
    BY Emptied
  <2>. QED BY <2>1 DEF Emptying
<1>2. m \in pl2 <=> (m \in pl \/ \E k \in 1 .. t : out(k) = m)
  OBVIOUS
<1>. HIDE DEF t, out
<1>3. CASE NoSlot(n, ff, m)
  <2>1. \A r \in PacketQueues : \A j \in 0 .. n - 1 : ~OneSlot(n, ff, m, r, j)
    BY <1>3 DEF NoSlot, OneSlot
  <2>. QED BY <1>1, <1>2, <1>3, <2>1 DEF Single
<1>4. CASE /\ m \notin pl /\ NoHand(hd, m)
           /\ \E r \in PacketQueues : \E j \in 0 .. n - 1 : OneSlot(n, ff, m, r, j)
  <2>1. PICK r \in PacketQueues : \E j \in 0 .. n - 1 : OneSlot(n, ff, m, r, j)
    BY <1>4
  <2>2. PICK j \in 0 .. n - 1 : OneSlot(n, ff, m, r, j)
    BY <2>1
  <2>3. CASE OneSlot(n, ff2, m, r, j) /\ \A k \in 1 .. t : out(k) # m
    BY <2>3, <1>2, <1>4 DEF Single
  <2>4. CASE NoSlot(n, ff2, m) /\ \E k \in 1 .. t : \A i \in 1 .. t : out(i) = m <=> i = k
    <3>1. m \in pl2
      BY <2>4, <1>2
    <3>. QED BY <3>1, <2>4, <1>4 DEF Single
  <2>. QED BY <1>1, <2>2, <2>3, <2>4
<1>. QED BY <1>3, <1>4 DEF Single

(* ... and a get whose mbufs stay in the hands of the thread.               *)
LEMMA Fetched ==
  ASSUME NEW n \in Sizes, NEW C, None \notin C, NEW pl, NEW ff, NEW hd, NEW ff2, NEW hd2, NEW m \in C,
         Single(n, pl, ff, hd, m),
         NEW p \in Movers, hd[p] = <<>>, \A r \in Movers \ {p} : hd2[r] = hd[r],
         NEW q \in PacketQueues, FifoOK(n, C, ff[q]),
         NEW s \in 0 .. n - 1, WriterSeen(n, ff[q], s), NEW z \in Nat, IsGet(n, ff[q], s, z, ff2[q]),
         \A r \in PacketQueues \ {q} : ff2[r] = ff[r],
         Len(hd2[p]) = Taking(n, ff[q], s, z),
         \A k \in 1 .. Taking(n, ff[q], s, z) : hd2[p][k] = ff[q].buffer[After(n, ff[q].read, k - 1)]
  PROVE  Single(n, pl, ff2, hd2, m)
<1>. DEFINE t == Taking(n, ff[q], s, z)
            out(k) == ff[q].buffer[After(n, ff[q].read, k - 1)]
<1>1. /\ NoSlot(n, ff, m) => NoSlot(n, ff2, m) /\ \A k \in 1 .. t : out(k) # m
      /\ \A r \in PacketQueues : \A j \in 0 .. n - 1 : OneSlot(n, ff, m, r, j) =>
           \/ OneSlot(n, ff2, m, r, j) /\ \A k \in 1 .. t : out(k) # m
           \/ NoSlot(n, ff2, m) /\ \E k \in 1 .. t : \A i \in 1 .. t : out(i) = m <=> i = k
  <2>1. Emptying(n, ff, ff2, m, q, t)
    BY Emptied
  <2>. QED BY <2>1 DEF Emptying
<1>2. Len(hd2[p]) = t /\ \A k \in 1 .. t : hd2[p][k] = out(k)
  OBVIOUS
<1>. HIDE DEF t, out
<1>3. CASE \A k \in 1 .. t : out(k) # m
  <2>1. NoHand(hd, m) => NoHand(hd2, m)
    BY <1>2, <1>3 DEF NoHand
  <2>2. ASSUME NEW r \in Movers, NEW k \in 1 .. Len(hd[r]), OneHand(hd, m, r, k)
        PROVE  k \in 1 .. Len(hd2[r]) /\ OneHand(hd2, m, r, k)
    <3>1. r # p
      OBVIOUS
    <3>. QED BY <1>2, <1>3, <2>2, <3>1 DEF OneHand
  <2>3. NoSlot(n, ff, m) => NoSlot(n, ff2, m)
    BY <1>1
  <2>4. \A r \in PacketQueues : \A j \in 0 .. n - 1 : OneSlot(n, ff, m, r, j) => OneSlot(n, ff2, m, r, j)
    BY <1>1, <1>3
  <2>. QED BY <2>1, <2>2, <2>3, <2>4 DEF Single
<1>4. CASE ~ \A k \in 1 .. t : out(k) # m
  <2>0. PICK r \in PacketQueues : \E j \in 0 .. n - 1 : OneSlot(n, ff, m, r, j)
    BY <1>1, <1>4 DEF Single
  <2>1. m \notin pl /\ NoHand(hd, m)
    BY <1>1, <1>4 DEF Single
  <2>2. NoSlot(n, ff2, m) /\ \E k \in 1 .. t : \A i \in 1 .. t : out(i) = m <=> i = k
    BY <1>1, <1>4, <2>0
  <2>3. PICK k \in 1 .. t : \A i \in 1 .. t : out(i) = m <=> i = k
    BY <2>2
  <2>4. OneHand(hd2, m, p, k)
    <3>1. ASSUME NEW o \in Movers, NEW i \in 1 .. Len(hd2[o]) PROVE hd2[o][i] = m <=> (o = p /\ i = k)
      <4>1. CASE o = p
        BY <4>1, <1>2, <2>3
      <4>2. CASE o # p
        BY <4>2, <2>1 DEF NoHand
      <4>. QED BY <4>1, <4>2
    <3>. QED BY <3>1 DEF OneHand
  <2>. QED BY <2>1, <2>2, <2>4, <1>2 DEF Single
<1>. QED BY <1>3, <1>4

(* A step that does not touch the mbufs' fifos and moves no mbuf.           *)
LEMMA Kept ==
  ASSUME NEW n, NEW pl, NEW ff, NEW hd, NEW ff2, NEW hd2, NEW m,
         Single(n, pl, ff, hd, m),
         \A q \in PacketQueues : ff2[q] = ff[q],
         \A p \in Movers : \/ hd2[p] = hd[p]
                           \/ /\ \A k \in 1 .. Len(hd[p]) : hd[p][k] # m
                              /\ \A k \in 1 .. Len(hd2[p]) : hd2[p][k] # m
  PROVE  Single(n, pl, ff2, hd2, m)
<1>1. NoSlot(n, ff, m) => NoSlot(n, ff2, m)
  BY DEF NoSlot
<1>2. \A r \in PacketQueues : \A j \in 0 .. n - 1 : OneSlot(n, ff, m, r, j) => OneSlot(n, ff2, m, r, j)
  BY DEF OneSlot
<1>3. NoHand(hd, m) => NoHand(hd2, m)
  BY DEF NoHand
<1>4. ASSUME NEW r \in Movers, NEW k \in 1 .. Len(hd[r]), OneHand(hd, m, r, k)
      PROVE  k \in 1 .. Len(hd2[r]) /\ OneHand(hd2, m, r, k)
  <2>1. hd[r][k] = m
    BY <1>4 DEF OneHand
  <2>2. hd2[r] = hd[r]
    BY <2>1
  <2>3. ASSUME NEW p \in Movers, NEW i \in 1 .. Len(hd2[p]) PROVE hd2[p][i] = m <=> (p = r /\ i = k)
    BY <1>4, <2>2 DEF OneHand
  <2>. QED BY <2>2, <2>3 DEF OneHand
<1>. QED BY <1>1, <1>2, <1>3, <1>4 DEF Single

-----------------------------------------------------------------------------
(* What a fifo carries: the address of the request, or mbufs.               *)
Content(q, b) == IF q \in {"req_q", "resp_q"} THEN {sync_va} ELSE b.mbufs

IngressLabels == {"idle", "put", "free", "freeing", "request", "handle", "answer", "respond"}
EgressLabels == {"idle", "get", "alloc", "fill"}
KthreadLabels == {"idle", "rx", "get", "copied", "put", "poll"}
XmitLabels == {"idle", "get", "put"}
CallerLabels == {"idle", "send", "wait", "asleep", "awake", "take"}
Labels == IngressLabels \cup EgressLabels \cup KthreadLabels \cup XmitLabels \cup CallerLabels
Rets == {"none", "EBUSY", "ETIME", "ENODATA", "ok"}

(* The types of the variables, and the fifos as such.                       *)
Typed ==
  /\ bound \in Bounds
  /\ pool \subseteq bound.mbufs
  /\ pc \in [Threads -> Labels]
  /\ pc["ingress"] \in IngressLabels /\ pc["egress"] \in EgressLabels
  /\ pc["kthread"] \in KthreadLabels /\ pc["xmit"] \in XmitLabels
  /\ \A c \in Callers : pc[c] \in CallerLabels
  /\ seen \in [Threads -> Slots]
  /\ hand \in [Threads -> Seq(Entries \cup Nat)]
  /\ num \in 0 .. MAX_MBUF_BURST_NUM

FifosOK ==
  /\ fifo \in [Queues -> [buffer : [Slots -> Entries], write : Slots, read : Slots]]
  /\ \A q \in Queues : FifoOK(bound.slots, Content(q, bound), fifo[q])

(* What the threads hold, by what they are about to do.                     *)
Burst(h, b) == h \in Seq(b.mbufs) /\ Len(h) <= MAX_MBUF_BURST_NUM
HandsOK ==
  /\ pc["ingress"] = "put" => Burst(hand["ingress"], bound)
  /\ pc["ingress"] = "answer" => hand["ingress"] \in Seq(Nat) /\ Len(hand["ingress"]) = 1
  /\ pc["ingress"] = "respond" => hand["ingress"] = <<sync_va>>
  /\ pc["ingress"] \notin {"put", "answer", "respond"} => hand["ingress"] = <<>>
  /\ pc["egress"] = "fill" => Burst(hand["egress"], bound)
  /\ pc["egress"] # "fill" => hand["egress"] = <<>>
  /\ pc["kthread"] \in {"copied", "put"} => Burst(hand["kthread"], bound)
  /\ pc["kthread"] \notin {"copied", "put"} => hand["kthread"] = <<>>
  /\ pc["xmit"] = "put" => Burst(hand["xmit"], bound)
  /\ pc["xmit"] # "put" => hand["xmit"] = <<>>
  /\ \A c \in Callers : pc[c] = "send" => hand[c] = <<sync_va>>
  /\ \A c \in Callers : pc[c] # "send" => hand[c] = <<>>

(* One caller at a time: the one that holds sync_lock.                      *)
LockOK ==
  /\ sync_lock \in Callers \cup {None}
  /\ \A c \in Callers : pc[c] # "idle" <=> sync_lock = c

(* What the threads between the two steps of a put or a get saw.            *)
SawReader(p, q) == ReaderSeen(bound.slots, fifo[q], seen[p])
SawWriter(p, q) == WriterSeen(bound.slots, fifo[q], seen[p])
ApplicationSights ==
  /\ pc["ingress"] = "put" => SawReader("ingress", "rx_q")
  /\ pc["ingress"] = "freeing" => SawWriter("ingress", "free_q")
  /\ pc["ingress"] = "handle" => SawWriter("ingress", "req_q")
  /\ pc["ingress"] = "respond" => SawReader("ingress", "resp_q")
  /\ pc["egress"] = "get" => SawWriter("egress", "tx_q")
  /\ pc["egress"] = "fill" => SawReader("egress", "alloc_q")
KernelSights ==
  /\ pc["kthread"] = "get" => SawWriter("kthread", "rx_q")
  /\ pc["kthread"] = "put" => SawReader("kthread", "free_q")
  /\ pc["xmit"] = "get" => SawWriter("xmit", "alloc_q")
  /\ pc["xmit"] = "put" => SawReader("xmit", "tx_q")
CallerSights ==
  \A c \in Callers : /\ pc[c] = "send" => SawReader(c, "req_q")
                     /\ pc[c] = "take" => SawWriter(c, "resp_q")
Sights == ApplicationSights /\ KernelSights /\ CallerSights

(* What the kernel relies on: what it counted before is still there.        *)
Filled(q) == Used(bound.slots, fifo[q])
Empty(q) == bound.slots - 1 - Filled(q)
Visible(p, q) == Gap(bound.slots, fifo[q].read, seen[p])
RoomSeen(p, q) == bound.slots - 1 - Gap(bound.slots, seen[p], fifo[q].write)
KthreadCounts ==
  /\ pc["kthread"] \in {"rx", "get"} => num <= Filled("rx_q") /\ num <= Empty("free_q")
  /\ pc["kthread"] = "get" => num <= Visible("kthread", "rx_q")
  /\ pc["kthread"] \in {"copied", "put"} => Len(hand["kthread"]) <= Empty("free_q")
  /\ pc["kthread"] = "put" => Len(hand["kthread"]) <= RoomSeen("kthread", "free_q")
XmitCounts ==
  /\ pc["xmit"] = "get" => 1 <= Empty("tx_q") /\ 1 <= Visible("xmit", "alloc_q")
  /\ pc["xmit"] = "put" => Len(hand["xmit"]) = 1 /\ 1 <= RoomSeen("xmit", "tx_q")
CallerCounts ==
  \A c \in Callers : /\ pc[c] = "awake" => 1 <= Filled("resp_q")
                     /\ pc[c] = "take" => 1 <= Visible(c, "resp_q")
Counts == KthreadCounts /\ XmitCounts /\ CallerCounts

(* The requests: numbers, of which there is a last one.                     *)
RequestsOK ==
  /\ sync \in [id : Nat, result : Nat]
  /\ asked \in [Callers -> Nat]
  /\ Callers # {} => \E c \in Callers : \A d \in Callers : asked[d] <= asked[c]
  /\ told \in [Callers -> [ret : Rets, result : Nat]]
  /\ \A c \in Callers : told[c].ret # "ENODATA"
  /\ timeouts \in 0 .. bound.timeouts

(* Each request that timed out is still on its way, and so is the one that  *)
(* is waited for.                                                           *)
Handled == IF pc["ingress"] \in {"answer", "respond"} THEN 1 ELSE 0
Waiting(c) == pc[c] \in {"wait", "asleep", "awake", "take"}
Awaited == IF \E c \in Callers : Waiting(c) THEN 1 ELSE 0
Pending ==
  timeouts + 1 < bound.slots =>
    /\ Filled("req_q") + Filled("resp_q") + Handled = timeouts + Awaited
    /\ pc["ingress"] = "respond" =>
         Gap(bound.slots, seen["ingress"], fifo["resp_q"].write) <= timeouts

(* While none has timed out, everything under way is about the request of   *)
(* the caller with the lock.                                                *)
Answers ==
  timeouts = 0 =>
    /\ \A c \in Callers : sync_lock = c => sync.id = asked[c]
    /\ pc["ingress"] = "answer" => hand["ingress"][1] = sync.id
    /\ pc["ingress"] = "respond" => sync.result = sync.id
    /\ Filled("resp_q") > 0 => sync.result = sync.id
    /\ \A c \in Callers : told[c].ret = "ok" => told[c].result = asked[c]

Conserved == \A m \in bound.mbufs : Single(bound.slots, pool, fifo, hand, m)

IInv == Typed /\ FifosOK /\ HandsOK /\ LockOK /\ Sights /\ Counts /\ RequestsOK /\ Pending /\ Answers /\ Conserved

(* The sizes, of which the bounds are assumed.                              *)
LEMMA Size ==
  ASSUME Typed
  PROVE  /\ bound.slots \in Sizes /\ Slots = 0 .. bound.slots - 1
         /\ bound.mbufs \subseteq Mbufs /\ IsFiniteSet(bound.mbufs) /\ bound.timeouts \in Nat
         /\ \A q \in Queues : None \notin Content(q, bound) /\ Content(q, bound) \subseteq Entries
         /\ \A p \in Threads : seen[p] \in 0 .. bound.slots - 1
  BY BoundsAssumption, ValuesAssumption DEF Typed, Sizes, Slots, KNI_FIFO_COUNT_MAX, Content, Entries

(* The counts and the indices of the code, without the remainders.          *)
LEMMA Counting ==
  ASSUME Typed
  PROVE  /\ \A a, b \in 0 .. bound.slots - 1 : Between(a, b) = Gap(bound.slots, a, b)
         /\ \A a, k \in 0 .. bound.slots - 1 : Wrap(a + k) = After(bound.slots, a, k)
         /\ \A a, b \in 0 .. bound.slots - 1 :
              Wrap(bound.slots + a - b - 1) = bound.slots - 1 - Gap(bound.slots, a, b)
  BY Size, Modulo DEF Between, Wrap, KNI_FIFO_COUNT_MAX

(* The code's counts are those of the proofs.                               *)
LEMMA CountOf ==
  ASSUME Typed, FifosOK, NEW q \in Queues
  PROVE  /\ kni_fifo_count(q) = Filled(q)
         /\ kni_fifo_free_count(q) = Empty(q)
         /\ Filled(q) \in 0 .. bound.slots - 1 /\ Filled(q) \in Nat
         /\ fifo[q].read \in 0 .. bound.slots - 1 /\ fifo[q].write \in 0 .. bound.slots - 1
<1>1. fifo[q].read \in 0 .. bound.slots - 1 /\ fifo[q].write \in 0 .. bound.slots - 1
  BY Size DEF FifosOK
<1>2. kni_fifo_count(q) = Filled(q)
  BY <1>1, Counting DEF kni_fifo_count, Filled, Used
<1>3. kni_fifo_free_count(q) = Empty(q)
  BY <1>1, Counting DEF kni_fifo_free_count, Empty, Filled, Used, KNI_FIFO_COUNT_MAX
<1>4. Filled(q) \in 0 .. bound.slots - 1 /\ Filled(q) \in Nat
  BY <1>1, Size, GapType DEF Filled, Used
<1>. QED BY <1>1, <1>2, <1>3, <1>4

(* Fifos that are in order have their types.                                *)
LEMMA FifosType ==
  ASSUME Typed, bound' = bound, fifo' \in [Queues -> {fifo'[q] : q \in Queues}],
         \A r \in Queues : FifoOK(bound.slots, Content(r, bound), fifo'[r])
  PROVE  FifosOK'
<1>1. \A q \in Queues : fifo'[q] \in [buffer : [Slots -> Entries], write : Slots, read : Slots]
  <2>. TAKE q \in Queues
  <2>1. fifo'[q] \in [buffer : [0 .. bound.slots - 1 -> Content(q, bound) \cup {None}],
                      write : 0 .. bound.slots - 1, read : 0 .. bound.slots - 1]
    BY DEF FifoOK
  <2>2. Content(q, bound) \cup {None} \subseteq Entries /\ Slots = 0 .. bound.slots - 1
    BY Size DEF Entries
  <2>. QED BY <2>1, <2>2
<1>2. fifo' \in [Queues -> [buffer : [Slots -> Entries], write : Slots, read : Slots]]
  BY <1>1
<1>3. Slots' = Slots
  BY DEF Slots, KNI_FIFO_COUNT_MAX
<1>. QED BY <1>2, <1>3 DEF FifosOK, Content

(* Put is a put as the facts have it ...                                    *)
LEMMA PutIs ==
  ASSUME Typed, FifosOK, NEW p \in Threads, NEW q \in Queues, Put(p, q),
         hand[p] \in Seq(Content(q, bound)), SawReader(p, q), bound' = bound
  PROVE  /\ IsPut(bound.slots, fifo[q], seen[p], hand[p], fifo'[q])
         /\ \A r \in Queues \ {q} : fifo'[r] = fifo[r]
         /\ Accepted(p, q) = Taken(bound.slots, fifo[q], seen[p], hand[p])
         /\ Accepted(p, q) = Smaller(Len(hand[p]), RoomSeen(p, q))
         /\ fifo' \in [Queues -> {fifo'[r] : r \in Queues}]
<1>. DEFINE n == bound.slots  f == fifo[q]  s == seen[p]  h == hand[p]
            k == Taken(n, f, s, h)
            B == [j \in 0 .. n - 1 |-> IF Gap(n, f.write, j) < k THEN h[Gap(n, f.write, j) + 1]
                                                              ELSE f.buffer[j]]
<1>1. n \in Sizes /\ n \in Nat /\ Slots = 0 .. n - 1 /\ s \in 0 .. n - 1
  BY Size DEF Sizes
<1>2. f.read \in 0 .. n - 1 /\ f.write \in 0 .. n - 1
  BY CountOf
<1>3. Accepted(p, q) = k
  BY <1>1, <1>2, Counting DEF Accepted, Room, Taken, KNI_FIFO_COUNT_MAX
<1>4. k \in 0 .. n - 1
  <2>1. /\ FifoOK(n, Content(q, bound), f) /\ None \notin Content(q, bound) /\ ReaderSeen(n, f, s)
    BY Size DEF FifosOK, SawReader
  <2>2. k \in 0 .. Len(h) /\ k <= n - 1 - Gap(n, s, f.write)
    <3>. DEFINE x == Gap(n, s, f.write)
    <3>0. Len(h) \in Nat
      OBVIOUS
    <3>1. x \in 0 .. n - 1 /\ Len(h) \in Nat
      BY <1>1, <1>2, <3>0, GapType
    <3>2. k = Smaller(Len(h), n - 1 - x)
      BY DEF Taken
    <3>. HIDE DEF x, k, h, n
    <3>3. k \in 0 .. Len(h) /\ k <= n - 1 - x
      BY <3>1, <3>2, <1>1 DEF Smaller
    <3>. QED BY <3>3 DEF x, k, h, n
  <2>0. Len(h) \in Nat
    OBVIOUS
  <2>3. Gap(n, s, f.write) \in Nat /\ Len(h) \in Nat
    BY <1>1, <1>2, <2>0, GapType
  <2>. HIDE DEF k, h, n
  <2>. QED BY <1>1, <2>2, <2>3
<1>5. \A j \in 0 .. n - 1 : Between(f.write, j) = Gap(n, f.write, j)
  BY <1>2, Counting
<1>6. Wrap(f.write + k) = After(n, f.write, k)
  BY <1>2, <1>4, Counting
<1>7. /\ fifo \in [Queues -> [buffer : [Slots -> Entries], write : Slots, read : Slots]]
      /\ f \in [buffer : [Slots -> Entries], write : Slots, read : Slots]
  BY DEF FifosOK
<1>8. fifo' = [fifo EXCEPT ![q].buffer = B, ![q].write = After(n, f.write, k)]
  <2>1. fifo' = [fifo EXCEPT ![q].buffer = [j \in Slots |-> IF Between(f.write, j) < Accepted(p, q)
                                                             THEN h[Between(f.write, j) + 1]
                                                             ELSE @[j]],
                             ![q].write = Wrap(f.write + Accepted(p, q))]
    BY DEF Put
  <2>2. [j \in Slots |-> IF Between(f.write, j) < Accepted(p, q) THEN h[Between(f.write, j) + 1]
                                                                 ELSE f.buffer[j]] = B
    BY <1>1, <1>3, <1>5
  <2>. QED BY <2>1, <2>2, <1>3, <1>6
<1>9. fifo'[q] \in [buffer : {B}, write : {After(n, f.write, k)}, read : {f.read}]
  <2>. HIDE DEF B, k, n
  <2>. QED BY <1>7, <1>8
<1>10. IsPut(n, f, s, h, fifo'[q])
  <2>. DEFINE g == fifo'[q]
  <2>1. g.read = f.read /\ g.write = After(n, f.write, k) /\ g.buffer = B
    BY <1>9
  <2>2. \A j \in 0 .. n - 1 :
          g.buffer[j] = IF Gap(n, f.write, j) < k THEN h[Gap(n, f.write, j) + 1] ELSE f.buffer[j]
    BY <2>1
  <2>3. g \in [buffer : [0 .. n - 1 -> {g.buffer[j] : j \in 0 .. n - 1}], write : {g.write}, read : {g.read}]
    <3>1. g.buffer \in [0 .. n - 1 -> {g.buffer[j] : j \in 0 .. n - 1}]
      BY <2>1
    <3>2. g \in [buffer : {g.buffer}, write : {g.write}, read : {g.read}]
      BY <1>9, <2>1
    <3>. HIDE DEF g
    <3>. QED BY <3>1, <3>2
  <2>. QED BY <2>1, <2>2, <2>3 DEF IsPut
<1>11. Accepted(p, q) = Smaller(Len(hand[p]), RoomSeen(p, q))
  BY <1>3 DEF Taken, RoomSeen
<1>12. \A r \in Queues \ {q} : fifo'[r] = fifo[r]
  BY <1>7, <1>8
<1>13. fifo' \in [Queues -> {fifo'[r] : r \in Queues}]
  BY <1>7, <1>8
<1>. QED BY <1>3, <1>10, <1>11, <1>12, <1>13

(* ... and they hold of it.                                                 *)
LEMMA PutStep ==
  ASSUME Typed, FifosOK, NEW p \in Threads, NEW q \in Queues, Put(p, q),
         hand[p] \in Seq(Content(q, bound)), SawReader(p, q), bound' = bound
  PROVE  /\ IsPut(bound.slots, fifo[q], seen[p], hand[p], fifo'[q])
         /\ \A r \in Queues \ {q} : fifo'[r] = fifo[r]
         /\ Accepted(p, q) = Taken(bound.slots, fifo[q], seen[p], hand[p])
         /\ Accepted(p, q) = Smaller(Len(hand[p]), RoomSeen(p, q))
         /\ Accepted(p, q) \in 0 .. Len(hand[p]) /\ Len(hand[p]) \in Nat
         /\ FifosOK'
         /\ Used(bound.slots, fifo'[q]) = Filled(q) + Accepted(p, q)
         /\ fifo'[q].read = fifo[q].read
         /\ \A w \in 0 .. bound.slots - 1 :
              WriterSeen(bound.slots, fifo[q], w) => WriterSeen(bound.slots, fifo'[q], w)
<1>1. /\ IsPut(bound.slots, fifo[q], seen[p], hand[p], fifo'[q])
      /\ \A r \in Queues \ {q} : fifo'[r] = fifo[r]
      /\ Accepted(p, q) = Taken(bound.slots, fifo[q], seen[p], hand[p])
      /\ Accepted(p, q) = Smaller(Len(hand[p]), RoomSeen(p, q))
      /\ fifo' \in [Queues -> {fifo'[r] : r \in Queues}]
  BY PutIs
<1>2. /\ bound.slots \in Sizes /\ None \notin Content(q, bound) /\ seen[p] \in 0 .. bound.slots - 1
      /\ FifoOK(bound.slots, Content(q, bound), fifo[q])
      /\ ReaderSeen(bound.slots, fifo[q], seen[p])
  BY Size DEF FifosOK, SawReader
<1>3. /\ FifoOK(bound.slots, Content(q, bound), fifo'[q])
      /\ Taken(bound.slots, fifo[q], seen[p], hand[p]) \in 0 .. Len(hand[p])
      /\ Used(bound.slots, fifo'[q]) = Used(bound.slots, fifo[q]) + Taken(bound.slots, fifo[q], seen[p], hand[p])
      /\ \A w \in 0 .. bound.slots - 1 :
           WriterSeen(bound.slots, fifo[q], w) => WriterSeen(bound.slots, fifo'[q], w)
  <2>. DEFINE C == Content(q, bound)  h == hand[p]  f == fifo[q]  g == fifo'[q]  s == seen[p]  n == bound.slots
  <2>1. /\ n \in Sizes /\ None \notin C /\ s \in 0 .. n - 1 /\ FifoOK(n, C, f) /\ ReaderSeen(n, f, s)
        /\ h \in Seq(C) /\ IsPut(n, f, s, h, g)
    BY <1>1, <1>2
  <2>. HIDE DEF C, h, f, g, s, n
  <2>2. /\ FifoOK(n, C, g) /\ Taken(n, f, s, h) \in 0 .. Len(h)
        /\ Used(n, g) = Used(n, f) + Taken(n, f, s, h)
        /\ \A w \in 0 .. n - 1 : WriterSeen(n, f, w) => WriterSeen(n, g, w)
    BY <2>1, PutFacts
  <2>. QED BY <2>2 DEF C, h, f, g, s, n
<1>4. FifosOK'
  <2>1. \A r \in Queues : FifoOK(bound.slots, Content(r, bound), fifo'[r])
    BY <1>1, <1>3 DEF FifosOK
  <2>. QED BY <2>1, <1>1, FifosType
<1>5. fifo'[q].read = fifo[q].read
  BY <1>1 DEF IsPut
<1>6. /\ Accepted(p, q) \in 0 .. Len(hand[p])
      /\ Used(bound.slots, fifo'[q]) = Filled(q) + Accepted(p, q)
  BY <1>1, <1>3 DEF Filled
<1>7. Len(hand[p]) \in Nat
  OBVIOUS
<1>8. \A w \in 0 .. bound.slots - 1 :
        WriterSeen(bound.slots, fifo[q], w) => WriterSeen(bound.slots, fifo'[q], w)
  BY <1>3
<1>. HIDE DEF Accepted, Filled, Used, RoomSeen
<1>. QED BY <1>1, <1>4, <1>5, <1>6, <1>7, <1>8

(* What Got is.                                                             *)
LEMMA GotIs ==
  ASSUME Typed, FifosOK, NEW p \in Threads, NEW q \in Queues, NEW z \in Nat, SawWriter(p, q)
  PROVE  /\ Got(p, q, z) \in Seq(Content(q, bound))
         /\ Len(Got(p, q, z)) = Taking(bound.slots, fifo[q], seen[p], z)
         /\ Len(Got(p, q, z)) = Smaller(z, Visible(p, q))
         /\ Len(Got(p, q, z)) \in 0 .. z /\ Len(Got(p, q, z)) \in 0 .. bound.slots - 1
         /\ Len(Got(p, q, z)) <= Filled(q)
         /\ \A k \in 1 .. Len(Got(p, q, z)) :
              Got(p, q, z)[k] = fifo[q].buffer[After(bound.slots, fifo[q].read, k - 1)]
<1>. DEFINE n == bound.slots  f == fifo[q]  s == seen[p]  k == Taking(n, f, s, z)
            C == Content(q, bound)
            S == [j \in 1 .. k |-> f.buffer[Wrap(f.read + j - 1)]]
<1>1. n \in Sizes /\ n \in Nat /\ n >= 2 /\ Slots = 0 .. n - 1 /\ s \in 0 .. n - 1
  BY Size DEF Sizes
<1>2. f.read \in 0 .. n - 1 /\ f.write \in 0 .. n - 1
  BY CountOf
<1>3. Got(p, q, z) = S
  BY <1>1, <1>2, Counting DEF Got, Taking
<1>4. FifoOK(n, C, f) /\ None \notin C /\ WriterSeen(n, f, s)
  BY Size DEF FifosOK, SawWriter
<1>5. /\ k \in 0 .. n - 1 /\ k \in 0 .. z /\ k = Smaller(z, Visible(p, q))
      /\ k <= Filled(q)
  <2>. DEFINE x == Gap(n, f.read, s)  u == Used(n, f)  y == Gap(n, s, f.write)
  <2>1. x \in 0 .. n - 1 /\ y \in 0 .. n - 1 /\ u \in 0 .. n - 1
    BY <1>1, <1>2, GapType DEF Used
  <2>2. x + y = u
    BY <1>4 DEF WriterSeen
  <2>3. k = Smaller(z, x) /\ x = Visible(p, q) /\ u = Filled(q)
    BY DEF Taking, Visible, Filled
  <2>. HIDE DEF x, u, y, k, n
  <2>. QED BY <1>1, <2>1, <2>2, <2>3 DEF Smaller
<1>. HIDE DEF k, n, C, f
<1>6. ASSUME NEW j \in 1 .. k
      PROVE  /\ Wrap(f.read + j - 1) = After(n, f.read, j - 1)
             /\ f.buffer[After(n, f.read, j - 1)] \in C
  <2>1. j \in Nat /\ j - 1 \in 0 .. n - 1 /\ j - 1 < k
    BY <1>1, <1>5
  <2>2. f.read + j - 1 = f.read + (j - 1)
    BY <1>2, <2>1, <1>1
  <2>3. Wrap(f.read + (j - 1)) = After(n, f.read, j - 1)
    BY <2>1, <1>2, Counting DEF n
  <2>4. After(n, f.read, j - 1) \in 0 .. n - 1 /\ Gap(n, f.read, After(n, f.read, j - 1)) = j - 1
    BY <2>1, <1>1, <1>2, AfterType, GapAfter
  <2>5. \A i \in 0 .. n - 1 : f.buffer[i] \in C \cup {None} /\ (f.buffer[i] # None <=> Gap(n, f.read, i) < Used(n, f))
    BY <1>4 DEF FifoOK
  <2>6. j - 1 < Used(n, f)
    <3>1. Used(n, f) \in Nat
      BY <1>1, <1>2, GapType DEF Used
    <3>2. k <= Used(n, f) /\ k \in Nat
      BY <1>1, <1>5 DEF Filled, n, f
    <3>. QED BY <3>1, <3>2, <2>1
  <2>. QED BY <2>2, <2>3, <2>4, <2>5, <2>6
<1>7. k \in Nat
  BY <1>1, <1>5
<1>8. S \in Seq(C) /\ Len(S) = k /\ \A j \in 1 .. k : S[j] = f.buffer[After(n, f.read, j - 1)]
  <2>1. \A j \in 1 .. k : f.buffer[Wrap(f.read + j - 1)] \in C
    BY <1>6
  <2>2. S \in [1 .. k -> C]
    BY <2>1
  <2>3. S \in Seq(C)
    BY <2>2, <1>7
  <2>4. Len(S) = k
    BY <1>7
  <2>5. \A j \in 1 .. k : S[j] = f.buffer[After(n, f.read, j - 1)]
    BY <1>6
  <2>. QED BY <2>3, <2>4, <2>5
<1>. HIDE DEF S
<1>. QED BY <1>3, <1>5, <1>8 DEF k, n, C, f

(* Get is a get as the facts have it ...                                    *)
LEMMA GetIs ==
  ASSUME Typed, FifosOK, NEW p \in Threads, NEW q \in Queues, NEW z \in Nat, Get(p, q, z),
         SawWriter(p, q), bound' = bound
  PROVE  /\ IsGet(bound.slots, fifo[q], seen[p], z, fifo'[q])
         /\ \A r \in Queues \ {q} : fifo'[r] = fifo[r]
         /\ fifo' \in [Queues -> {fifo'[r] : r \in Queues}]
<1>. DEFINE n == bound.slots  f == fifo[q]  s == seen[p]
            k == Taking(n, f, s, z)
            B == [j \in 0 .. n - 1 |-> IF Gap(n, f.read, j) < k THEN None ELSE f.buffer[j]]
<1>1. n \in Sizes /\ n \in Nat /\ Slots = 0 .. n - 1 /\ s \in 0 .. n - 1
  BY Size DEF Sizes
<1>2. f.read \in 0 .. n - 1 /\ f.write \in 0 .. n - 1
  BY CountOf
<1>3. Len(Got(p, q, z)) = k /\ k \in 0 .. n - 1
  BY GotIs
<1>5. \A j \in 0 .. n - 1 : Between(f.read, j) = Gap(n, f.read, j)
  BY <1>2, Counting
<1>6. Wrap(f.read + k) = After(n, f.read, k)
  BY <1>2, <1>3, Counting
<1>7. /\ fifo \in [Queues -> [buffer : [Slots -> Entries], write : Slots, read : Slots]]
      /\ f \in [buffer : [Slots -> Entries], write : Slots, read : Slots]
  BY DEF FifosOK
<1>8. fifo' = [fifo EXCEPT ![q].buffer = B, ![q].read = After(n, f.read, k)]
  <2>1. fifo' = [fifo EXCEPT ![q].buffer = [j \in Slots |-> IF Between(f.read, j) < Len(Got(p, q, z)) THEN None
                                                             ELSE @[j]],
                             ![q].read = Wrap(f.read + Len(Got(p, q, z)))]
    BY DEF Get
  <2>2. [j \in Slots |-> IF Between(f.read, j) < Len(Got(p, q, z)) THEN None ELSE f.buffer[j]] = B
    BY <1>1, <1>3, <1>5
  <2>. QED BY <2>1, <2>2, <1>3, <1>6
<1>9. fifo'[q] \in [buffer : {B}, write : {f.write}, read : {After(n, f.read, k)}]
  <2>. HIDE DEF B, k, n
  <2>. QED BY <1>7, <1>8
<1>10. IsGet(n, f, s, z, fifo'[q])
  <2>. DEFINE g == fifo'[q]
  <2>1. g.read = After(n, f.read, k) /\ g.write = f.write /\ g.buffer = B
    BY <1>9
  <2>2. \A j \in 0 .. n - 1 : g.buffer[j] = IF Gap(n, f.read, j) < k THEN None ELSE f.buffer[j]
    BY <2>1
  <2>3. g \in [buffer : [0 .. n - 1 -> {g.buffer[j] : j \in 0 .. n - 1}], write : {g.write}, read : {g.read}]
    <3>1. g.buffer \in [0 .. n - 1 -> {g.buffer[j] : j \in 0 .. n - 1}]
      BY <2>1
    <3>2. g \in [buffer : {g.buffer}, write : {g.write}, read : {g.read}]
      BY <1>9, <2>1
    <3>. HIDE DEF g
    <3>. QED BY <3>1, <3>2
  <2>. QED BY <2>1, <2>2, <2>3 DEF IsGet
<1>12. \A r \in Queues \ {q} : fifo'[r] = fifo[r]
  BY <1>7, <1>8
<1>13. fifo' \in [Queues -> {fifo'[r] : r \in Queues}]
  BY <1>7, <1>8
<1>. QED BY <1>10, <1>12, <1>13

(* ... and they hold of it.                                                 *)
LEMMA GetStep ==
  ASSUME Typed, FifosOK, NEW p \in Threads, NEW q \in Queues, NEW z \in Nat, Get(p, q, z),
         SawWriter(p, q), bound' = bound
  PROVE  /\ IsGet(bound.slots, fifo[q], seen[p], z, fifo'[q])
         /\ \A r \in Queues \ {q} : fifo'[r] = fifo[r]
         /\ FifosOK'
         /\ Used(bound.slots, fifo'[q]) = Filled(q) - Len(Got(p, q, z))
         /\ fifo'[q].write = fifo[q].write
         /\ \A w \in 0 .. bound.slots - 1 :
              ReaderSeen(bound.slots, fifo[q], w) => ReaderSeen(bound.slots, fifo'[q], w)
<1>1. /\ IsGet(bound.slots, fifo[q], seen[p], z, fifo'[q])
      /\ \A r \in Queues \ {q} : fifo'[r] = fifo[r]
      /\ fifo' \in [Queues -> {fifo'[r] : r \in Queues}]
  BY GetIs
<1>2. /\ bound.slots \in Sizes /\ None \notin Content(q, bound) /\ seen[p] \in 0 .. bound.slots - 1
      /\ FifoOK(bound.slots, Content(q, bound), fifo[q])
      /\ WriterSeen(bound.slots, fifo[q], seen[p])
  BY Size DEF FifosOK, SawWriter
<1>3. /\ FifoOK(bound.slots, Content(q, bound), fifo'[q])
      /\ Used(bound.slots, fifo'[q]) = Used(bound.slots, fifo[q]) - Taking(bound.slots, fifo[q], seen[p], z)
      /\ \A w \in 0 .. bound.slots - 1 :
           ReaderSeen(bound.slots, fifo[q], w) => ReaderSeen(bound.slots, fifo'[q], w)
  <2>. DEFINE C == Content(q, bound)  f == fifo[q]  g == fifo'[q]  s == seen[p]  n == bound.slots
  <2>1. /\ n \in Sizes /\ None \notin C /\ s \in 0 .. n - 1 /\ FifoOK(n, C, f) /\ WriterSeen(n, f, s)
        /\ IsGet(n, f, s, z, g)
    BY <1>1, <1>2
  <2>. HIDE DEF C, f, g, s, n
  <2>2. /\ FifoOK(n, C, g)
        /\ Used(n, g) = Used(n, f) - Taking(n, f, s, z)
        /\ \A w \in 0 .. n - 1 : ReaderSeen(n, f, w) => ReaderSeen(n, g, w)
    BY <2>1, GetFacts
  <2>. QED BY <2>2 DEF C, f, g, s, n
<1>4. FifosOK'
  <2>1. \A r \in Queues : FifoOK(bound.slots, Content(r, bound), fifo'[r])
    BY <1>1, <1>3 DEF FifosOK
  <2>. QED BY <2>1, <1>1, FifosType
<1>5. fifo'[q].write = fifo[q].write
  BY <1>1 DEF IsGet
<1>6. Used(bound.slots, fifo'[q]) = Filled(q) - Len(Got(p, q, z))
  <2>1. Len(Got(p, q, z)) = Taking(bound.slots, fifo[q], seen[p], z)
    BY GotIs
  <2>. QED BY <1>3, <2>1 DEF Filled
<1>8. \A w \in 0 .. bound.slots - 1 :
        ReaderSeen(bound.slots, fifo[q], w) => ReaderSeen(bound.slots, fifo'[q], w)
  BY <1>3
<1>. HIDE DEF Filled, Used
<1>. QED BY <1>1, <1>4, <1>5, <1>6, <1>8

(* Which threads' sights a step leaves alone: all but a putter's of w and a *)
(* getter's of r.                                                           *)
KeptSights(w, r) ==
  \A q \in Queues : \A i \in 0 .. bound.slots - 1 :
    /\ q # w => (ReaderSeen(bound.slots, fifo[q], i) => ReaderSeen(bound.slots, fifo'[q], i))
    /\ q # r => (WriterSeen(bound.slots, fifo[q], i) => WriterSeen(bound.slots, fifo'[q], i))

(* Who looks now sees all.                                                  *)
LEMMA Fresh ==
  ASSUME Typed, FifosOK, NEW q \in Queues
  PROVE  /\ ReaderSeen(bound.slots, fifo[q], fifo[q].read)
         /\ WriterSeen(bound.slots, fifo[q], fifo[q].write)
         /\ Gap(bound.slots, fifo[q].read, fifo[q].write) = Filled(q)
<1>1. fifo[q].read \in 0 .. bound.slots - 1 /\ fifo[q].write \in 0 .. bound.slots - 1 /\ bound.slots \in Sizes
  BY CountOf, Size
<1>. DEFINE r == fifo[q].read  w == fifo[q].write  n == bound.slots
<1>2. Gap(n, r, w) \in Nat /\ Gap(n, r, r) = 0 /\ Gap(n, w, w) = 0
  BY <1>1, GapType DEF Gap, Sizes
<1>. HIDE DEF r, w, n
<1>3. 0 + Gap(n, r, w) = Gap(n, r, w) /\ Gap(n, r, w) + 0 = Gap(n, r, w)
  BY <1>2
<1>. QED BY <1>2, <1>3 DEF r, w, n, ReaderSeen, WriterSeen, Used, Filled

(* The same fifos. *)
LEMMA NoFifo ==
  ASSUME Typed, FifosOK, fifo' = fifo, bound' = bound, NEW w, NEW r
  PROVE  /\ KeptSights(w, r) /\ FifosOK'
         /\ \A q \in Queues : Filled(q)' = Filled(q) /\ Empty(q)' = Empty(q)
  BY DEF KeptSights, FifosOK, Filled, Empty, Slots, KNI_FIFO_COUNT_MAX

(* What a put does to the counts and to what others saw.                    *)
LEMMA PutKeeps ==
  ASSUME Typed, FifosOK, NEW p \in Threads, NEW q \in Queues, Put(p, q),
         hand[p] \in Seq(Content(q, bound)), SawReader(p, q), bound' = bound, NEW r
  PROVE  /\ KeptSights(q, r) /\ FifosOK'
         /\ Accepted(p, q) \in 0 .. Len(hand[p]) /\ Len(hand[p]) \in Nat
         /\ Accepted(p, q) = Smaller(Len(hand[p]), RoomSeen(p, q))
         /\ Filled(q)' = Filled(q) + Accepted(p, q) /\ Empty(q)' = Empty(q) - Accepted(p, q)
         /\ \A o \in Queues \ {q} : fifo'[o] = fifo[o] /\ Filled(o)' = Filled(o) /\ Empty(o)' = Empty(o)
         /\ fifo'[q].read = fifo[q].read
         /\ \A x \in Int : x <= Filled(q) => x <= Filled(q)'
<1>1. /\ \A o \in Queues \ {q} : fifo'[o] = fifo[o]
      /\ FifosOK'
      /\ Accepted(p, q) \in 0 .. Len(hand[p]) /\ Len(hand[p]) \in Nat
      /\ Accepted(p, q) = Smaller(Len(hand[p]), RoomSeen(p, q))
      /\ Used(bound.slots, fifo'[q]) = Filled(q) + Accepted(p, q)
      /\ \A w \in 0 .. bound.slots - 1 :
              WriterSeen(bound.slots, fifo[q], w) => WriterSeen(bound.slots, fifo'[q], w)
      /\ fifo'[q].read = fifo[q].read
  BY PutStep
<1>2. KeptSights(q, r)
  BY <1>1 DEF KeptSights
<1>3. Filled(q)' = Filled(q) + Accepted(p, q)
  BY <1>1 DEF Filled
<1>4. Empty(q)' = Empty(q) - Accepted(p, q)
  <2>1. Filled(q) \in Nat /\ bound.slots \in Nat /\ Accepted(p, q) \in Nat
    BY <1>1, CountOf, Size DEF Sizes
  <2>2. Empty(q)' = bound.slots - 1 - Filled(q)'
    BY DEF Empty
  <2>. QED BY <1>3, <2>1, <2>2 DEF Empty
<1>5. \A o \in Queues \ {q} : Filled(o)' = Filled(o) /\ Empty(o)' = Empty(o)
  BY <1>1 DEF Filled, Empty
<1>6. \A x \in Int : x <= Filled(q) => x <= Filled(q)'
  <2>1. Filled(q) \in Nat /\ Accepted(p, q) \in Nat
    BY <1>1, CountOf
  <2>. QED BY <2>1, <1>3
<1>. QED BY <1>1, <1>2, <1>3, <1>4, <1>5, <1>6

(* What a get does to the counts and to what others saw.                    *)
LEMMA GetKeeps ==
  ASSUME Typed, FifosOK, NEW p \in Threads, NEW q \in Queues, NEW z \in Nat, Get(p, q, z),
         SawWriter(p, q), bound' = bound, NEW w
  PROVE  /\ KeptSights(w, q) /\ FifosOK'
         /\ Got(p, q, z) \in Seq(Content(q, bound)) /\ Len(Got(p, q, z)) \in 0 .. z
         /\ Len(Got(p, q, z)) = Smaller(z, Visible(p, q))
         /\ Filled(q)' = Filled(q) - Len(Got(p, q, z)) /\ Empty(q)' = Empty(q) + Len(Got(p, q, z))
         /\ \A o \in Queues \ {q} : fifo'[o] = fifo[o] /\ Filled(o)' = Filled(o) /\ Empty(o)' = Empty(o)
         /\ fifo'[q].write = fifo[q].write
         /\ \A x \in Int : x <= Empty(q) => x <= Empty(q)'
<1>1. /\ \A o \in Queues \ {q} : fifo'[o] = fifo[o]
      /\ FifosOK'
      /\ Used(bound.slots, fifo'[q]) = Filled(q) - Len(Got(p, q, z))
      /\ \A i \in 0 .. bound.slots - 1 :
              ReaderSeen(bound.slots, fifo[q], i) => ReaderSeen(bound.slots, fifo'[q], i)
      /\ fifo'[q].write = fifo[q].write
  BY GetStep
<1>2. KeptSights(w, q)
  BY <1>1 DEF KeptSights
<1>3. Filled(q)' = Filled(q) - Len(Got(p, q, z))
  BY <1>1 DEF Filled
<1>4. /\ Got(p, q, z) \in Seq(Content(q, bound)) /\ Len(Got(p, q, z)) \in 0 .. z
      /\ Len(Got(p, q, z)) = Smaller(z, Visible(p, q))
  BY GotIs
<1>5. Empty(q)' = Empty(q) + Len(Got(p, q, z))
  <2>1. Filled(q) \in Nat /\ bound.slots \in Nat /\ Len(Got(p, q, z)) \in Nat
    BY <1>4, CountOf, Size DEF Sizes
  <2>2. Empty(q)' = bound.slots - 1 - Filled(q)'
    BY DEF Empty
  <2>. QED BY <1>3, <2>1, <2>2 DEF Empty
<1>6. \A o \in Queues \ {q} : Filled(o)' = Filled(o) /\ Empty(o)' = Empty(o)
  BY <1>1 DEF Filled, Empty
<1>7. \A x \in Int : x <= Empty(q) => x <= Empty(q)'
  <2>1. Empty(q) \in Int /\ Len(Got(p, q, z)) \in Nat
    BY <1>4, CountOf, Size DEF Empty, Sizes
  <2>. QED BY <2>1, <1>5
<1>. QED BY <1>1, <1>2, <1>3, <1>4, <1>5, <1>6, <1>7

(* The elements of the end of a sequence, and of a sequence.                *)
LEMMA RestOf ==
  ASSUME NEW S, NEW h \in Seq(S), NEW k \in 0 .. Len(h)
  PROVE  /\ Elements(SubSeq(h, k + 1, Len(h))) \subseteq S
         /\ \A x : x \in Elements(SubSeq(h, k + 1, Len(h))) <=> \E i \in k + 1 .. Len(h) : h[i] = x
<1>. DEFINE r == SubSeq(h, k + 1, Len(h))
<1>1. /\ k \in Nat /\ Len(h) \in Nat /\ k <= Len(h)
      /\ Len(r) = Len(h) - k /\ \A i \in 1 .. Len(r) : r[i] = h[k + i]
      /\ r \in Seq(S)
  OBVIOUS
<1>. HIDE DEF r
<1>2. DOMAIN r = 1 .. Len(r) /\ Elements(r) = {r[i] : i \in 1 .. Len(r)}
  BY <1>1 DEF Elements
<1>3. ASSUME NEW x, x \in Elements(r) PROVE \E i \in k + 1 .. Len(h) : h[i] = x
  <2>1. PICK i \in 1 .. Len(r) : r[i] = x
    BY <1>2, <1>3
  <2>2. k + i \in k + 1 .. Len(h) /\ h[k + i] = x
    BY <1>1, <2>1
  <2>. QED BY <2>2
<1>4. ASSUME NEW i \in k + 1 .. Len(h) PROVE h[i] \in Elements(r)
  <2>1. i - k \in 1 .. Len(r) /\ k + (i - k) = i
    BY <1>1
  <2>. QED BY <2>1, <1>1, <1>2
<1>5. Elements(r) \subseteq S
  BY <1>1, <1>2
<1>. QED BY <1>3, <1>4, <1>5 DEF r

(* The elements of a sequence.                                              *)
LEMMA ElementsOf ==
  ASSUME NEW S, NEW h \in Seq(S)
  PROVE  /\ Elements(h) \subseteq S /\ Elements(h) = {h[i] : i \in 1 .. Len(h)}
  BY DEF Elements

(* What the steps of the packets leave to the requests.                     *)
LEMMA Unasked ==
  ASSUME IInv, UNCHANGED <<sync, sync_lock, asked, told, timeouts, bound>>,
         \A c \in Callers : pc'[c] = pc[c],
         fifo'["req_q"] = fifo["req_q"], fifo'["resp_q"] = fifo["resp_q"],
         \/ /\ pc'["ingress"] = pc["ingress"] /\ hand'["ingress"] = hand["ingress"]
            /\ seen'["ingress"] = seen["ingress"]
         \/ /\ pc["ingress"] \notin {"answer", "respond"}
            /\ pc'["ingress"] \notin {"answer", "respond"}
  PROVE  LockOK' /\ RequestsOK' /\ Pending' /\ Answers'
<1>1. LockOK /\ RequestsOK /\ Pending /\ Answers
  BY DEF IInv
<1>2. LockOK' /\ RequestsOK'
  BY <1>1 DEF LockOK, RequestsOK
<1>3. Filled("req_q")' = Filled("req_q") /\ Filled("resp_q")' = Filled("resp_q")
  BY DEF Filled
<1>4. Handled' = Handled /\ Awaited' = Awaited
  BY DEF Handled, Awaited, Waiting
<1>5. Pending'
  BY <1>1, <1>3, <1>4 DEF Pending
<1>6. Answers'
  BY <1>1, <1>3 DEF Answers
<1>. QED BY <1>2, <1>5, <1>6

(* Which threads and queues there are.                                      *)
LEMMA Names ==
  /\ Movers \subseteq Threads /\ Callers \subseteq Threads /\ PacketQueues \subseteq Queues
  /\ {"req_q", "resp_q"} \subseteq Queues
  /\ \A c \in Callers : c \notin Movers
  /\ \A c \in Callers : c # "ingress" /\ c # "egress" /\ c # "kthread" /\ c # "xmit"
  BY CallersAssumption DEF Movers, Threads, PacketQueues, Queues

(* The four ways mbufs move, as the actions have them.                      *)
LEMMA StoredKeeps ==
  ASSUME IInv, NEW p \in Movers, NEW q \in PacketQueues, Put(p, q), Burst(hand[p], bound),
         SawReader(p, q), bound' = bound, hand'[p] = <<>>,
         \A r \in Movers \ {p} : hand'[r] = hand[r],
         \A x : x \in pool' <=> (x \in pool \/ \E k \in Accepted(p, q) + 1 .. Len(hand[p]) : hand[p][k] = x)
  PROVE  Conserved'
<1>1. Typed /\ FifosOK /\ Conserved
  BY DEF IInv
<1>2. p \in Threads /\ q \in Queues /\ Content(q, bound) = bound.mbufs /\ hand[p] \in Seq(bound.mbufs)
  BY Names DEF PacketQueues, Content, Burst
<1>3. /\ IsPut(bound.slots, fifo[q], seen[p], hand[p], fifo'[q])
      /\ \A r \in PacketQueues \ {q} : fifo'[r] = fifo[r]
      /\ Accepted(p, q) = Taken(bound.slots, fifo[q], seen[p], hand[p])
  BY <1>1, <1>2, PutStep, Names
<1>4. /\ bound.slots \in Sizes /\ None \notin bound.mbufs /\ seen[p] \in 0 .. bound.slots - 1
      /\ FifoOK(bound.slots, bound.mbufs, fifo[q]) /\ ReaderSeen(bound.slots, fifo[q], seen[p])
  BY <1>1, <1>2, Size DEF FifosOK, SawReader
<1>5. ASSUME NEW m \in bound.mbufs PROVE Single(bound.slots, pool', fifo', hand', m)
  <2>. DEFINE n == bound.slots  C == bound.mbufs  s == seen[p]
  <2>1. Single(n, pool, fifo, hand, m)
    BY <1>1 DEF Conserved
  <2>2. /\ n \in Sizes /\ None \notin C /\ FifoOK(n, C, fifo[q]) /\ hand[p] \in Seq(C) /\ m \in C
        /\ s \in 0 .. n - 1 /\ ReaderSeen(n, fifo[q], s) /\ IsPut(n, fifo[q], s, hand[p], fifo'[q])
        /\ \A r \in PacketQueues \ {q} : fifo'[r] = fifo[r]
        /\ \A x : x \in pool' <=> (x \in pool \/ \E k \in Taken(n, fifo[q], s, hand[p]) + 1 .. Len(hand[p]) :
                                                  hand[p][k] = x)
    BY <1>2, <1>3, <1>4
  <2>. HIDE DEF n, C, s
  <2>3. Single(n, pool', fifo', hand', m)
    BY <2>1, <2>2, Stored
  <2>. QED BY <2>3 DEF n
<1>. QED BY <1>5 DEF Conserved

(* Mbufs that go from a fifo to the pool.                                   *)
LEMMA FreedKeeps ==
  ASSUME IInv, NEW p \in Threads, NEW q \in PacketQueues, NEW z \in Nat, Get(p, q, z), SawWriter(p, q),
         bound' = bound, hand' = hand, pool' = pool \cup Elements(Got(p, q, z))
  PROVE  Conserved'
<1>1. Typed /\ FifosOK /\ Conserved
  BY DEF IInv
<1>2. q \in Queues /\ Content(q, bound) = bound.mbufs
  BY Names DEF PacketQueues, Content
<1>3. /\ IsGet(bound.slots, fifo[q], seen[p], z, fifo'[q])
      /\ \A r \in PacketQueues \ {q} : fifo'[r] = fifo[r]
  BY <1>1, <1>2, GetStep, Names
<1>4. /\ Got(p, q, z) \in Seq(bound.mbufs)
      /\ Len(Got(p, q, z)) = Taking(bound.slots, fifo[q], seen[p], z)
      /\ \A k \in 1 .. Len(Got(p, q, z)) :
              Got(p, q, z)[k] = fifo[q].buffer[After(bound.slots, fifo[q].read, k - 1)]
  BY <1>1, <1>2, GotIs
<1>5. /\ bound.slots \in Sizes /\ None \notin bound.mbufs /\ seen[p] \in 0 .. bound.slots - 1
      /\ FifoOK(bound.slots, bound.mbufs, fifo[q]) /\ WriterSeen(bound.slots, fifo[q], seen[p])
  BY <1>1, <1>2, Size DEF FifosOK, SawWriter
<1>6. \A x : x \in pool' <=> (x \in pool \/ \E k \in 1 .. Taking(bound.slots, fifo[q], seen[p], z) :
                                 fifo[q].buffer[After(bound.slots, fifo[q].read, k - 1)] = x)
  <2>. DEFINE g == Got(p, q, z)
  <2>1. Elements(g) = {g[i] : i \in 1 .. Len(g)}
    BY <1>4, ElementsOf
  <2>. HIDE DEF g
  <2>2. pool' = pool \cup {g[i] : i \in 1 .. Len(g)}
    BY <2>1 DEF g
  <2>3. /\ Len(g) = Taking(bound.slots, fifo[q], seen[p], z)
        /\ \A k \in 1 .. Len(g) : g[k] = fifo[q].buffer[After(bound.slots, fifo[q].read, k - 1)]
    BY <1>4 DEF g
  <2>. QED BY <2>2, <2>3
<1>7. ASSUME NEW m \in bound.mbufs PROVE Single(bound.slots, pool', fifo', hand, m)
  <2>. DEFINE n == bound.slots  C == bound.mbufs  s == seen[p]
  <2>1. Single(n, pool, fifo, hand, m)
    BY <1>1 DEF Conserved
  <2>2. /\ n \in Sizes /\ None \notin C /\ FifoOK(n, C, fifo[q]) /\ m \in C
        /\ s \in 0 .. n - 1 /\ WriterSeen(n, fifo[q], s) /\ IsGet(n, fifo[q], s, z, fifo'[q])
        /\ \A r \in PacketQueues \ {q} : fifo'[r] = fifo[r]
        /\ \A x : x \in pool' <=> (x \in pool \/ \E k \in 1 .. Taking(n, fifo[q], s, z) :
                                 fifo[q].buffer[After(n, fifo[q].read, k - 1)] = x)
    BY <1>3, <1>5, <1>6
  <2>. HIDE DEF n, C, s
  <2>3. Single(n, pool', fifo', hand, m)
    BY <2>1, <2>2, Freed
  <2>. QED BY <2>3 DEF n
<1>. QED BY <1>7 DEF Conserved

(* Mbufs that go from a fifo to the hands of a thread.                      *)
LEMMA FetchedKeeps ==
  ASSUME IInv, NEW p \in Movers, NEW q \in PacketQueues, NEW z \in Nat, Get(p, q, z), SawWriter(p, q),
         bound' = bound, pool' = pool, hand[p] = <<>>, hand'[p] = Got(p, q, z),
         \A r \in Movers \ {p} : hand'[r] = hand[r]
  PROVE  Conserved'
<1>1. Typed /\ FifosOK /\ Conserved
  BY DEF IInv
<1>2. q \in Queues /\ Content(q, bound) = bound.mbufs /\ p \in Threads
  BY Names DEF PacketQueues, Content
<1>3. /\ IsGet(bound.slots, fifo[q], seen[p], z, fifo'[q])
      /\ \A r \in PacketQueues \ {q} : fifo'[r] = fifo[r]
  BY <1>1, <1>2, GetStep, Names
<1>4. /\ Len(hand'[p]) = Taking(bound.slots, fifo[q], seen[p], z)
      /\ \A k \in 1 .. Taking(bound.slots, fifo[q], seen[p], z) :
              hand'[p][k] = fifo[q].buffer[After(bound.slots, fifo[q].read, k - 1)]
  BY <1>1, <1>2, GotIs
<1>5. /\ bound.slots \in Sizes /\ None \notin bound.mbufs /\ seen[p] \in 0 .. bound.slots - 1
      /\ FifoOK(bound.slots, bound.mbufs, fifo[q]) /\ WriterSeen(bound.slots, fifo[q], seen[p])
  BY <1>1, <1>2, Size DEF FifosOK, SawWriter
<1>7. ASSUME NEW m \in bound.mbufs PROVE Single(bound.slots, pool, fifo', hand', m)
  <2>. DEFINE n == bound.slots  C == bound.mbufs  s == seen[p]
  <2>1. Single(n, pool, fifo, hand, m)
    BY <1>1 DEF Conserved
  <2>2. /\ n \in Sizes /\ None \notin C /\ FifoOK(n, C, fifo[q]) /\ m \in C
        /\ s \in 0 .. n - 1 /\ WriterSeen(n, fifo[q], s) /\ IsGet(n, fifo[q], s, z, fifo'[q])
        /\ \A r \in PacketQueues \ {q} : fifo'[r] = fifo[r]
        /\ Len(hand'[p]) = Taking(n, fifo[q], s, z)
        /\ \A k \in 1 .. Taking(n, fifo[q], s, z) :
              hand'[p][k] = fifo[q].buffer[After(n, fifo[q].read, k - 1)]
    BY <1>3, <1>4, <1>5
  <2>. HIDE DEF n, C, s
  <2>3. Single(n, pool, fifo', hand', m)
    BY <2>1, <2>2, Fetched
  <2>. QED BY <2>3 DEF n
<1>. QED BY <1>7 DEF Conserved

(* Mbufs that go from the pool to the hands of a thread, ...                *)
LEMMA DrawnMoves ==
  ASSUME IInv, NEW p \in Movers, hand[p] = <<>>, IsDraw(pool, hand'[p], pool'),
         \A r \in Movers \ {p} : hand'[r] = hand[r]
  PROVE  \A m \in bound.mbufs : Single(bound.slots, pool', fifo, hand', m)
<1>1. Typed /\ Conserved /\ bound.slots \in Sizes
  BY Size DEF IInv
<1>2. ASSUME NEW m \in bound.mbufs PROVE Single(bound.slots, pool', fifo, hand', m)
  <2>. DEFINE n == bound.slots
  <2>1. Single(n, pool, fifo, hand, m) /\ n \in Sizes
    BY <1>1 DEF Conserved
  <2>. HIDE DEF n
  <2>2. Single(n, pool', fifo, hand', m)
    BY <2>1, Drawn
  <2>. QED BY <2>2 DEF n
<1>. QED BY <1>2

(* ... as TxBurst and RxAlloc have it.                                      *)
LEMMA DrawnKeeps ==
  ASSUME IInv, NEW p \in Movers, NEW k \in Nat, NEW mbufs \in [1 .. k -> pool],
         Cardinality(Elements(mbufs)) = k, k <= MAX_MBUF_BURST_NUM,
         hand[p] = <<>>, hand' = [hand EXCEPT ![p] = mbufs], pool' = pool \ Elements(mbufs),
         fifo' = fifo, bound' = bound
  PROVE  Conserved' /\ Burst(hand'[p], bound) /\ hand'[p] \in Seq(Entries \cup Nat) /\ Len(hand'[p]) = k
<1>1. Typed /\ Conserved /\ bound.slots \in Sizes /\ bound.mbufs \subseteq Mbufs /\ pool \subseteq bound.mbufs
  BY Size DEF IInv, Typed
<1>2. mbufs \in Seq(pool) /\ Len(mbufs) = k
  OBVIOUS
<1>3. Elements(mbufs) = {mbufs[i] : i \in 1 .. k}
  BY <1>2, ElementsOf
<1>4. \A i, j \in 1 .. k : mbufs[i] = mbufs[j] => i = j
  <2>1. IsFiniteSet(1 .. k) /\ Cardinality(1 .. k) = k
    BY FS_Interval
  <2>2. mbufs \in Surjection(1 .. k, Elements(mbufs))
    BY <1>3 DEF Surjection
  <2>3. mbufs \in Injection(1 .. k, Elements(mbufs))
    BY <2>1, <2>2, FS_SurjSameCardinalityImpliesInj
  <2>. QED BY <2>3 DEF Injection, IsInjective
<1>5. hand'[p] = mbufs /\ \A r \in Movers \ {p} : hand'[r] = hand[r]
  BY <1>1, Names DEF Typed
<1>6. \A m \in bound.mbufs : Single(bound.slots, pool', fifo, hand', m)
  <2>1. IsDraw(pool, hand'[p], pool')
    BY <1>2, <1>3, <1>4, <1>5 DEF IsDraw
  <2>. QED BY <2>1, <1>5, DrawnMoves
<1>7. Conserved'
  BY <1>6 DEF Conserved
<1>8. mbufs \in Seq(bound.mbufs) /\ mbufs \in Seq(Entries \cup Nat)
  BY <1>1 DEF Entries
<1>. QED BY <1>2, <1>5, <1>7, <1>8 DEF Burst

(* Where no mbuf moves.                                                     *)
LEMMA NothingMoves ==
  ASSUME IInv, bound' = bound, pool' = pool, \A q \in PacketQueues : fifo'[q] = fifo[q],
         \A p \in Movers : \/ hand'[p] = hand[p]
                           \/ \A m \in bound.mbufs :
                                /\ \A k \in 1 .. Len(hand[p]) : hand[p][k] # m
                                /\ \A k \in 1 .. Len(hand'[p]) : hand'[p][k] # m
  PROVE  Conserved'
<1>1. ASSUME NEW m \in bound.mbufs PROVE Single(bound.slots, pool, fifo', hand', m)
  <2>1. Single(bound.slots, pool, fifo, hand, m)
    BY DEF IInv, Conserved
  <2>. QED BY <2>1, Kept
<1>. QED BY <1>1 DEF Conserved

-----------------------------------------------------------------------------
(* The steps of the packets.                                                *)

(* The parts of the invariant, and the types of its numbers.                *)
LEMMA Parts ==
  ASSUME IInv
  PROVE  /\ Typed /\ FifosOK /\ HandsOK /\ LockOK /\ Sights /\ Counts /\ RequestsOK /\ Pending
         /\ Answers /\ Conserved
  BY DEF IInv

(* The counts and what was seen are numbers.                                *)
LEMMA Ints ==
  ASSUME Typed, FifosOK
  PROVE  /\ \A q \in Queues : Filled(q) \in Nat /\ Empty(q) \in Nat
         /\ num \in Nat /\ num <= MAX_MBUF_BURST_NUM
         /\ \A p \in Threads : \A q \in Queues : Visible(p, q) \in Nat /\ RoomSeen(p, q) \in Nat
         /\ \A p \in Threads : Len(hand[p]) \in Nat
<1>1. bound.slots \in Sizes /\ bound.slots \in Nat /\ \A p \in Threads : seen[p] \in 0 .. bound.slots - 1
  BY Size DEF Sizes
<1>2. ASSUME NEW q \in Queues PROVE Filled(q) \in Nat /\ Empty(q) \in Nat
  <2>1. Filled(q) \in 0 .. bound.slots - 1
    BY CountOf
  <2>. QED BY <1>1, <2>1 DEF Empty
<1>3. num \in Nat /\ num <= MAX_MBUF_BURST_NUM
  BY BurstAssumption DEF Typed
<1>4. ASSUME NEW p \in Threads, NEW q \in Queues PROVE Visible(p, q) \in Nat /\ RoomSeen(p, q) \in Nat
  <2>1. fifo[q].read \in 0 .. bound.slots - 1 /\ fifo[q].write \in 0 .. bound.slots - 1
    BY CountOf
  <2>2. /\ Gap(bound.slots, fifo[q].read, seen[p]) \in 0 .. bound.slots - 1
        /\ Gap(bound.slots, seen[p], fifo[q].write) \in 0 .. bound.slots - 1
    BY <1>1, <2>1, GapType
  <2>. QED BY <1>1, <2>2 DEF Visible, RoomSeen
<1>5. \A p \in Threads : Len(hand[p]) \in Nat
  <2>. TAKE p \in Threads
  <2>1. hand[p] \in Seq(Entries \cup Nat)
    BY DEF Typed
  <2>. QED BY <2>1
<1>. QED BY <1>1, <1>2, <1>3, <1>4, <1>5

(* A sequence over a smaller set.                                           *)
LEMMA Wider ==
  ASSUME NEW S, NEW T, S \subseteq T, NEW s \in Seq(S)
  PROVE  s \in Seq(T)
  OBVIOUS

(* What a thread saw, and may rely on, after a step of another.             *)
LEMMA Others ==
  ASSUME Typed, bound' = bound, NEW w, NEW r, KeptSights(w, r), NEW t \in Threads, seen'[t] = seen[t],
         NEW q \in Queues
  PROVE  /\ q # w /\ SawReader(t, q) => SawReader(t, q)'
         /\ q # r /\ SawWriter(t, q) => SawWriter(t, q)'
         /\ fifo'[q].read = fifo[q].read => Visible(t, q)' = Visible(t, q)
         /\ fifo'[q].write = fifo[q].write => RoomSeen(t, q)' = RoomSeen(t, q)
  BY Size DEF KeptSights, SawReader, SawWriter, Visible, RoomSeen

(* What a thread knows that has just looked.                                *)
LEMMA Looked ==
  ASSUME Typed, FifosOK, bound' = bound, NEW p \in Threads, NEW q \in Queues, fifo'[q] = fifo[q]
  PROVE  /\ seen'[p] = fifo[q].read => SawReader(p, q)' /\ RoomSeen(p, q)' = Empty(q)
         /\ seen'[p] = fifo[q].write => SawWriter(p, q)' /\ Visible(p, q)' = Filled(q)
  BY Fresh DEF SawReader, SawWriter, Visible, RoomSeen, Empty

(* TxBurst: mbufs of the pool come to the hands of ingress.                 *)
LEMMA TxBurstStep ==
  ASSUME IInv, TxBurst, num' = num
  PROVE  IInv'
<1>a. PICK k \in 0 .. MAX_MBUF_BURST_NUM :
          \E mbufs \in [1 .. k -> pool] :
            /\ Cardinality(Elements(mbufs)) = k
            /\ pool' = pool \ Elements(mbufs)
            /\ hand' = [hand EXCEPT !["ingress"] = mbufs]
  BY DEF TxBurst
<1>b. PICK mbufs \in [1 .. k -> pool] :
            /\ Cardinality(Elements(mbufs)) = k
            /\ pool' = pool \ Elements(mbufs)
            /\ hand' = [hand EXCEPT !["ingress"] = mbufs]
  BY <1>a
<1>0. /\ k \in Nat /\ k <= MAX_MBUF_BURST_NUM /\ Cardinality(Elements(mbufs)) = k
      /\ pool' = pool \ Elements(mbufs) /\ hand' = [hand EXCEPT !["ingress"] = mbufs]
  BY <1>b, BurstAssumption
<1>1. /\ pc["ingress"] = "idle"
      /\ pc' = [pc EXCEPT !["ingress"] = "put"]
      /\ hand' = [hand EXCEPT !["ingress"] = mbufs]
      /\ pool' = pool \ Elements(mbufs)
      /\ seen' = [seen EXCEPT !["ingress"] = fifo["rx_q"].read]
      /\ fifo' = fifo
      /\ num' = num
      /\ sync' = sync /\ sync_lock' = sync_lock /\ asked' = asked /\ told' = told /\ timeouts' = timeouts
      /\ bound' = bound
  BY <1>0 DEF TxBurst, At, Goto, Look, requests
<1>2. /\ Typed /\ FifosOK /\ HandsOK /\ LockOK /\ Sights /\ Counts /\ RequestsOK /\ Pending
      /\ Answers /\ Conserved
  BY Parts
<1>3. /\ "ingress" \in Threads /\ "ingress" \in Movers
      /\ \A c \in Callers : c # "ingress" /\ c \in Threads
      /\ {"ingress", "egress", "kthread", "xmit"} \subseteq Threads
  BY Names DEF Movers, Threads
<1>p. /\ pc'["ingress"] = "put"
      /\ \A t \in Threads \ {"ingress"} : pc'[t] = pc[t] /\ seen'[t] = seen[t] /\ hand'[t] = hand[t]
      /\ hand'["ingress"] = mbufs
  BY <1>1, <1>2, <1>3 DEF Typed
<1>5. /\ KeptSights("", "") /\ FifosOK'
      /\ \A q \in Queues : Filled(q)' = Filled(q) /\ Empty(q)' = Empty(q)
      /\ fifo' = fifo
  BY <1>1, <1>2, NoFifo
<1>4. /\ Conserved' /\ Burst(hand'["ingress"], bound) /\ hand'["ingress"] \in Seq(Entries \cup Nat)
      /\ hand'["ingress"] = mbufs /\ Len(mbufs) = k
  <2>1. hand["ingress"] = <<>> /\ hand'["ingress"] = mbufs
    BY <1>1, <1>2, <1>3 DEF HandsOK, Typed
  <2>. QED BY <1>0, <1>1, <1>3, <2>1, DrawnKeeps
<1>o. \A t \in Threads : \A q \in Queues : t # "ingress" =>
        /\ q # "" /\ SawReader(t, q) => SawReader(t, q)'
        /\ q # "" /\ SawWriter(t, q) => SawWriter(t, q)'
        /\ fifo'[q].read = fifo[q].read => Visible(t, q)' = Visible(t, q)
        /\ fifo'[q].write = fifo[q].write => RoomSeen(t, q)' = RoomSeen(t, q)
  BY <1>1, <1>2, <1>5, <1>p, Others
<1>f. SawReader("ingress", "rx_q")' /\ RoomSeen("ingress", "rx_q")' = Empty("rx_q")
  <2>1. "rx_q" \in Queues /\ seen'["ingress"] = fifo["rx_q"].read /\ fifo'["rx_q"] = fifo["rx_q"]
    BY <1>1, <1>2, <1>3, <1>5 DEF Queues, Typed
  <2>. QED BY <1>1, <1>2, <1>3, <2>1, Looked
<1>6. pool' \subseteq bound.mbufs /\ hand' \in [Threads -> Seq(Entries \cup Nat)]
  <2>1. hand'["ingress"] \in Seq(Entries \cup Nat)
    BY <1>4
  <2>2. hand \in [Threads -> Seq(Entries \cup Nat)] /\ pool \subseteq bound.mbufs
    BY <1>2 DEF Typed
  <2>3. \A t \in Threads : hand'[t] \in Seq(Entries \cup Nat)
    BY <1>1, <2>1, <2>2
  <2>. QED BY <1>1, <2>2, <2>3
<1>7. Typed'
  <2>1. seen' \in [Threads -> Slots]
    BY <1>1, <1>2, <1>3 DEF Typed, FifosOK, Queues
  <2>. QED BY <1>1, <1>2, <1>3, <1>6, <2>1 DEF Typed, Slots, KNI_FIFO_COUNT_MAX, IngressLabels, EgressLabels, KthreadLabels, XmitLabels, CallerLabels, Labels
<1>8. HandsOK'
  BY <1>1, <1>2, <1>3, <1>5, <1>4 DEF HandsOK, Typed, Threads, Burst
<1>9. Sights'
  <2>1. CallerSights'
    BY <1>2, <1>3, <1>p, <1>o DEF Sights, CallerSights, Queues
  <2>2. ApplicationSights'
    BY <1>2, <1>3, <1>p, <1>o, <1>f DEF Sights, ApplicationSights, Queues
  <2>3. KernelSights'
    BY <1>2, <1>3, <1>p, <1>o, <1>f DEF Sights, KernelSights, Queues
  <2>. QED BY <2>1, <2>2, <2>3 DEF Sights
<1>10. Counts'
  <2>1. CallerCounts'
    BY <1>1, <1>2, <1>3, <1>p, <1>5, <1>o, Ints DEF Counts, CallerCounts, Queues
  <2>2. KthreadCounts'
    BY <1>1, <1>2, <1>3, <1>p, <1>5, <1>o, <1>f, Ints DEF Counts, KthreadCounts, Queues
  <2>3. XmitCounts'
    BY <1>1, <1>2, <1>3, <1>p, <1>5, <1>o, <1>f, Ints DEF Counts, XmitCounts, Queues
  <2>. QED BY <2>1, <2>2, <2>3 DEF Counts
<1>11. LockOK' /\ RequestsOK' /\ Pending' /\ Answers'
  BY <1>1, <1>3, <1>5, <1>p, Unasked DEF Queues
<1>12. Conserved'
  BY <1>4
<1>. QED BY <1>5, <1>7, <1>8, <1>9, <1>10, <1>11, <1>12 DEF IInv

(* TxPut: those go to rx_q, the rest back to the pool.                      *)
LEMMA TxPutStep ==
  ASSUME IInv, TxPut, num' = num
  PROVE  IInv'
<1>1. /\ pc["ingress"] = "put"
      /\ pc' = [pc EXCEPT !["ingress"] = "free"]
      /\ Put("ingress", "rx_q")
      /\ hand' = [hand EXCEPT !["ingress"] = <<>>]
      /\ seen' = seen
      /\ num' = num
      /\ pool' = pool \cup Elements(SubSeq(hand["ingress"], Accepted("ingress", "rx_q") + 1, Len(hand["ingress"])))
      /\ sync' = sync /\ sync_lock' = sync_lock /\ asked' = asked /\ told' = told /\ timeouts' = timeouts
      /\ bound' = bound
  BY DEF TxPut, At, Goto, Look, requests
<1>2. /\ Typed /\ FifosOK /\ HandsOK /\ LockOK /\ Sights /\ Counts /\ RequestsOK /\ Pending
      /\ Answers /\ Conserved
  BY Parts
<1>3. /\ "ingress" \in Threads /\ "ingress" \in Movers
      /\ \A c \in Callers : c # "ingress" /\ c \in Threads
      /\ {"ingress", "egress", "kthread", "xmit"} \subseteq Threads
  BY Names DEF Movers, Threads
<1>p. /\ pc'["ingress"] = "free"
      /\ \A t \in Threads \ {"ingress"} : pc'[t] = pc[t] /\ seen'[t] = seen[t] /\ hand'[t] = hand[t]
      /\ seen'["ingress"] = seen["ingress"]/\ hand'["ingress"] = <<>>
  BY <1>1, <1>2, <1>3 DEF Typed
<1>4. /\ Burst(hand["ingress"], bound) /\ SawReader("ingress", "rx_q") /\ hand["ingress"] \in Seq(Content("rx_q", bound))
      /\ "rx_q" \in Queues /\ "rx_q" \in PacketQueues /\ hand["ingress"] \in Seq(bound.mbufs)
  BY <1>1, <1>2 DEF HandsOK, Sights, ApplicationSights, KernelSights, Burst, Content, Queues, PacketQueues
<1>5. /\ KeptSights("rx_q", "") /\ FifosOK'
      /\ Accepted("ingress", "rx_q") \in 0 .. Len(hand["ingress"]) /\ Len(hand["ingress"]) \in Nat
      /\ Accepted("ingress", "rx_q") = Smaller(Len(hand["ingress"]), RoomSeen("ingress", "rx_q"))
      /\ Filled("rx_q")' = Filled("rx_q") + Accepted("ingress", "rx_q") /\ Empty("rx_q")' = Empty("rx_q") - Accepted("ingress", "rx_q")
      /\ \A o \in Queues \ {"rx_q"} : fifo'[o] = fifo[o] /\ Filled(o)' = Filled(o) /\ Empty(o)' = Empty(o)
      /\ fifo'["rx_q"].read = fifo["rx_q"].read
      /\ \A x \in Int : x <= Filled("rx_q") => x <= Filled("rx_q")'
  BY <1>1, <1>2, <1>3, <1>4, PutKeeps
<1>g. /\ num <= Filled("rx_q") => num <= Filled("rx_q")'
      /\ 1 <= Filled("rx_q") => 1 <= Filled("rx_q")'
      /\ Len(hand["kthread"]) <= Filled("rx_q") => Len(hand["kthread"]) <= Filled("rx_q")'
  <2>1. num \in Int /\ 1 \in Int /\ Len(hand["kthread"]) \in Int
    BY <1>2, <1>3, Ints
  <2>2. \A x \in Int : x <= Filled("rx_q") => x <= Filled("rx_q")'
    BY <1>5
  <2>. HIDE DEF Filled, Empty
  <2>. QED BY <2>1, <2>2
<1>o. \A t \in Threads : \A q \in Queues : t # "ingress" =>
        /\ q # "rx_q" /\ SawReader(t, q) => SawReader(t, q)'
        /\ q # "" /\ SawWriter(t, q) => SawWriter(t, q)'
        /\ fifo'[q].read = fifo[q].read => Visible(t, q)' = Visible(t, q)
        /\ fifo'[q].write = fifo[q].write => RoomSeen(t, q)' = RoomSeen(t, q)
  BY <1>1, <1>2, <1>5, <1>p, Others
<1>6. /\ pool' \subseteq bound.mbufs /\ hand' \in [Threads -> Seq(Entries \cup Nat)]
      /\ \A x : x \in pool' <=> (x \in pool \/ \E k \in Accepted("ingress", "rx_q") + 1 .. Len(hand["ingress"]) : hand["ingress"][k] = x)
  <2>1. /\ Elements(SubSeq(hand["ingress"], Accepted("ingress", "rx_q") + 1, Len(hand["ingress"]))) \subseteq bound.mbufs
        /\ \A x : x \in Elements(SubSeq(hand["ingress"], Accepted("ingress", "rx_q") + 1, Len(hand["ingress"]))) <=>
                    \E k \in Accepted("ingress", "rx_q") + 1 .. Len(hand["ingress"]) : hand["ingress"][k] = x
    <3>. DEFINE h == hand["ingress"]  k == Accepted("ingress", "rx_q")
    <3>1. h \in Seq(bound.mbufs) /\ k \in 0 .. Len(h)
      BY <1>4, <1>5
    <3>. HIDE DEF h, k
    <3>2. /\ Elements(SubSeq(h, k + 1, Len(h))) \subseteq bound.mbufs
          /\ \A x : x \in Elements(SubSeq(h, k + 1, Len(h))) <=> \E i \in k + 1 .. Len(h) : h[i] = x
      BY <3>1, RestOf
    <3>. QED BY <3>2 DEF h, k
  <2>2. pool \subseteq bound.mbufs /\ hand \in [Threads -> Seq(Entries \cup Nat)]
    BY <1>2 DEF Typed
  <2>3. hand' \in [Threads -> Seq(Entries \cup Nat)]
    BY <1>1, <1>3, <2>2
  <2>. QED BY <1>1, <2>1, <2>2, <2>3
<1>7. Typed'
  BY <1>1, <1>2, <1>3, <1>6 DEF Typed, Slots, KNI_FIFO_COUNT_MAX, IngressLabels, EgressLabels, KthreadLabels, XmitLabels, CallerLabels, Labels
<1>8. HandsOK'
  BY <1>1, <1>2, <1>3, <1>5, <1>4 DEF HandsOK, Typed, Threads, Burst
<1>9. Sights'
  <2>1. CallerSights'
    BY <1>2, <1>3, <1>p, <1>o DEF Sights, CallerSights, Queues
  <2>2. ApplicationSights'
    BY <1>2, <1>3, <1>p, <1>o DEF Sights, ApplicationSights, Queues
  <2>3. KernelSights'
    BY <1>2, <1>3, <1>p, <1>o DEF Sights, KernelSights, Queues
  <2>. QED BY <2>1, <2>2, <2>3 DEF Sights
<1>10. Counts'
  <2>1. CallerCounts'
    BY <1>1, <1>2, <1>3, <1>p, <1>5, <1>o, <1>g, Ints DEF Counts, CallerCounts, Queues
  <2>2. KthreadCounts'
    BY <1>1, <1>2, <1>3, <1>p, <1>5, <1>o, <1>g, Ints DEF Counts, KthreadCounts, Queues
  <2>3. XmitCounts'
    BY <1>1, <1>2, <1>3, <1>p, <1>5, <1>o, <1>g, Ints DEF Counts, XmitCounts, Queues
  <2>. QED BY <2>1, <2>2, <2>3 DEF Counts
<1>11. LockOK' /\ RequestsOK' /\ Pending' /\ Answers'
  BY <1>1, <1>3, <1>5, <1>p, Unasked DEF Queues
<1>12. Conserved'
  <2>1. hand'["ingress"] = <<>> /\ \A r \in Movers \ {"ingress"} : hand'[r] = hand[r]
    BY <1>1, <1>2, <1>3, Names DEF Typed
  <2>. QED BY <1>1, <1>3, <1>4, <1>6, <2>1, StoredKeeps
<1>. QED BY <1>5, <1>7, <1>8, <1>9, <1>10, <1>11, <1>12 DEF IInv

(* TxFreeLook: ingress sees what free_q holds.                              *)
LEMMA TxFreeLookStep ==
  ASSUME IInv, TxFreeLook, num' = num
  PROVE  IInv'
<1>1. /\ pc["ingress"] = "free"
      /\ pc' = [pc EXCEPT !["ingress"] = "freeing"]
      /\ seen' = [seen EXCEPT !["ingress"] = fifo["free_q"].write]
      /\ hand' = hand
      /\ pool' = pool
      /\ fifo' = fifo
      /\ num' = num
      /\ sync' = sync /\ sync_lock' = sync_lock /\ asked' = asked /\ told' = told /\ timeouts' = timeouts
      /\ bound' = bound
  BY DEF TxFreeLook, At, Goto, Look, requests
<1>2. /\ Typed /\ FifosOK /\ HandsOK /\ LockOK /\ Sights /\ Counts /\ RequestsOK /\ Pending
      /\ Answers /\ Conserved
  BY Parts
<1>3. /\ "ingress" \in Threads /\ "ingress" \in Movers
      /\ \A c \in Callers : c # "ingress" /\ c \in Threads
      /\ {"ingress", "egress", "kthread", "xmit"} \subseteq Threads
  BY Names DEF Movers, Threads
<1>p. /\ pc'["ingress"] = "freeing"
      /\ \A t \in Threads \ {"ingress"} : pc'[t] = pc[t] /\ seen'[t] = seen[t] /\ hand'[t] = hand[t]
      /\ hand'["ingress"] = hand["ingress"]
  BY <1>1, <1>2, <1>3 DEF Typed
<1>5. /\ KeptSights("", "") /\ FifosOK'
      /\ \A q \in Queues : Filled(q)' = Filled(q) /\ Empty(q)' = Empty(q)
      /\ fifo' = fifo
  BY <1>1, <1>2, NoFifo
<1>o. \A t \in Threads : \A q \in Queues : t # "ingress" =>
        /\ q # "" /\ SawReader(t, q) => SawReader(t, q)'
        /\ q # "" /\ SawWriter(t, q) => SawWriter(t, q)'
        /\ fifo'[q].read = fifo[q].read => Visible(t, q)' = Visible(t, q)
        /\ fifo'[q].write = fifo[q].write => RoomSeen(t, q)' = RoomSeen(t, q)
  BY <1>1, <1>2, <1>5, <1>p, Others
<1>f. SawWriter("ingress", "free_q")' /\ Visible("ingress", "free_q")' = Filled("free_q")
  <2>1. "free_q" \in Queues /\ seen'["ingress"] = fifo["free_q"].write /\ fifo'["free_q"] = fifo["free_q"]
    BY <1>1, <1>2, <1>3, <1>5 DEF Queues, Typed
  <2>. QED BY <1>1, <1>2, <1>3, <2>1, Looked
<1>6. pool' \subseteq bound.mbufs /\ hand' \in [Threads -> Seq(Entries \cup Nat)]
  BY <1>1, <1>2, <1>3 DEF Typed
<1>7. Typed'
  <2>1. seen' \in [Threads -> Slots]
    BY <1>1, <1>2, <1>3 DEF Typed, FifosOK, Queues
  <2>. QED BY <1>1, <1>2, <1>3, <1>6, <2>1 DEF Typed, Slots, KNI_FIFO_COUNT_MAX, IngressLabels, EgressLabels, KthreadLabels, XmitLabels, CallerLabels, Labels
<1>8. HandsOK'
  BY <1>1, <1>2, <1>3, <1>5 DEF HandsOK, Typed, Threads, Burst
<1>9. Sights'
  <2>1. CallerSights'
    BY <1>2, <1>3, <1>p, <1>o DEF Sights, CallerSights, Queues
  <2>2. ApplicationSights'
    BY <1>2, <1>3, <1>p, <1>o, <1>f DEF Sights, ApplicationSights, Queues
  <2>3. KernelSights'
    BY <1>2, <1>3, <1>p, <1>o, <1>f DEF Sights, KernelSights, Queues
  <2>. QED BY <2>1, <2>2, <2>3 DEF Sights
<1>10. Counts'
  <2>1. CallerCounts'
    BY <1>1, <1>2, <1>3, <1>p, <1>5, <1>o, Ints DEF Counts, CallerCounts, Queues
  <2>2. KthreadCounts'
    BY <1>1, <1>2, <1>3, <1>p, <1>5, <1>o, <1>f, Ints DEF Counts, KthreadCounts, Queues
  <2>3. XmitCounts'
    BY <1>1, <1>2, <1>3, <1>p, <1>5, <1>o, <1>f, Ints DEF Counts, XmitCounts, Queues
  <2>. QED BY <2>1, <2>2, <2>3 DEF Counts
<1>11. LockOK' /\ RequestsOK' /\ Pending' /\ Answers'
  BY <1>1, <1>3, <1>5, <1>p, Unasked DEF Queues
<1>12. Conserved'
  BY <1>1, NothingMoves
<1>. QED BY <1>5, <1>7, <1>8, <1>9, <1>10, <1>11, <1>12 DEF IInv

(* TxFree: mbufs come back from free_q.                                     *)
LEMMA TxFreeStep ==
  ASSUME IInv, TxFree, num' = num
  PROVE  IInv'
<1>1. /\ pc["ingress"] = "freeing"
      /\ pc' = [pc EXCEPT !["ingress"] = "request"]
      /\ Get("ingress", "free_q", MAX_MBUF_BURST_NUM)
      /\ hand' = hand
      /\ seen' = seen
      /\ num' = num
      /\ pool' = pool \cup Elements(Got("ingress", "free_q", MAX_MBUF_BURST_NUM))
      /\ sync' = sync /\ sync_lock' = sync_lock /\ asked' = asked /\ told' = told /\ timeouts' = timeouts
      /\ bound' = bound
  BY DEF TxFree, At, Goto, Look, requests
<1>2. /\ Typed /\ FifosOK /\ HandsOK /\ LockOK /\ Sights /\ Counts /\ RequestsOK /\ Pending
      /\ Answers /\ Conserved
  BY Parts
<1>3. /\ "ingress" \in Threads /\ "ingress" \in Movers
      /\ \A c \in Callers : c # "ingress" /\ c \in Threads
      /\ {"ingress", "egress", "kthread", "xmit"} \subseteq Threads
  BY Names DEF Movers, Threads
<1>p. /\ pc'["ingress"] = "request"
      /\ \A t \in Threads \ {"ingress"} : pc'[t] = pc[t] /\ seen'[t] = seen[t] /\ hand'[t] = hand[t]
      /\ seen'["ingress"] = seen["ingress"]/\ hand'["ingress"] = hand["ingress"]
  BY <1>1, <1>2, <1>3 DEF Typed
<1>4. /\ SawWriter("ingress", "free_q") /\ "free_q" \in Queues /\ "free_q" \in PacketQueues /\ MAX_MBUF_BURST_NUM \in Nat
      /\ Content("free_q", bound) = bound.mbufs /\ bound.mbufs \subseteq Entries
  BY <1>1, <1>2, Size, Ints, BurstAssumption DEF Sights, ApplicationSights, KernelSights, Content, Queues, PacketQueues, Entries
<1>5. /\ KeptSights("", "free_q") /\ FifosOK'
      /\ Got("ingress", "free_q", MAX_MBUF_BURST_NUM) \in Seq(bound.mbufs) /\ Len(Got("ingress", "free_q", MAX_MBUF_BURST_NUM)) \in 0 .. MAX_MBUF_BURST_NUM
      /\ Len(Got("ingress", "free_q", MAX_MBUF_BURST_NUM)) = Smaller(MAX_MBUF_BURST_NUM, Visible("ingress", "free_q"))
      /\ Filled("free_q")' = Filled("free_q") - Len(Got("ingress", "free_q", MAX_MBUF_BURST_NUM))
      /\ Empty("free_q")' = Empty("free_q") + Len(Got("ingress", "free_q", MAX_MBUF_BURST_NUM))
      /\ \A o \in Queues \ {"free_q"} : fifo'[o] = fifo[o] /\ Filled(o)' = Filled(o) /\ Empty(o)' = Empty(o)
      /\ fifo'["free_q"].write = fifo["free_q"].write
      /\ \A x \in Int : x <= Empty("free_q") => x <= Empty("free_q")'
  BY <1>1, <1>2, <1>3, <1>4, GetKeeps
<1>g. /\ num <= Empty("free_q") => num <= Empty("free_q")'
      /\ 1 <= Empty("free_q") => 1 <= Empty("free_q")'
      /\ Len(hand["kthread"]) <= Empty("free_q") => Len(hand["kthread"]) <= Empty("free_q")'
  <2>1. num \in Int /\ 1 \in Int /\ Len(hand["kthread"]) \in Int
    BY <1>2, <1>3, Ints
  <2>2. \A x \in Int : x <= Empty("free_q") => x <= Empty("free_q")'
    BY <1>5
  <2>. HIDE DEF Filled, Empty
  <2>. QED BY <2>1, <2>2
<1>o. \A t \in Threads : \A q \in Queues : t # "ingress" =>
        /\ q # "" /\ SawReader(t, q) => SawReader(t, q)'
        /\ q # "free_q" /\ SawWriter(t, q) => SawWriter(t, q)'
        /\ fifo'[q].read = fifo[q].read => Visible(t, q)' = Visible(t, q)
        /\ fifo'[q].write = fifo[q].write => RoomSeen(t, q)' = RoomSeen(t, q)
  BY <1>1, <1>2, <1>5, <1>p, Others
<1>6. pool' \subseteq bound.mbufs /\ hand' \in [Threads -> Seq(Entries \cup Nat)]
  <2>1. Elements(Got("ingress", "free_q", MAX_MBUF_BURST_NUM)) \subseteq bound.mbufs
    BY <1>5, ElementsOf
  <2>. QED BY <1>1, <1>2, <2>1 DEF Typed
<1>7. Typed'
  BY <1>1, <1>2, <1>3, <1>6 DEF Typed, Slots, KNI_FIFO_COUNT_MAX, IngressLabels, EgressLabels, KthreadLabels, XmitLabels, CallerLabels, Labels
<1>8. HandsOK'
  BY <1>1, <1>2, <1>3, <1>5, <1>4 DEF HandsOK, Typed, Threads, Burst
<1>9. Sights'
  <2>1. CallerSights'
    BY <1>2, <1>3, <1>p, <1>o DEF Sights, CallerSights, Queues
  <2>2. ApplicationSights'
    BY <1>2, <1>3, <1>p, <1>o DEF Sights, ApplicationSights, Queues
  <2>3. KernelSights'
    BY <1>2, <1>3, <1>p, <1>o DEF Sights, KernelSights, Queues
  <2>. QED BY <2>1, <2>2, <2>3 DEF Sights
<1>10. Counts'
  <2>1. CallerCounts'
    BY <1>1, <1>2, <1>3, <1>p, <1>5, <1>o, <1>g, Ints DEF Counts, CallerCounts, Queues
  <2>2. KthreadCounts'
    BY <1>1, <1>2, <1>3, <1>p, <1>5, <1>o, <1>g, Ints DEF Counts, KthreadCounts, Queues
  <2>3. XmitCounts'
    BY <1>1, <1>2, <1>3, <1>p, <1>5, <1>o, <1>g, Ints DEF Counts, XmitCounts, Queues
  <2>. QED BY <2>1, <2>2, <2>3 DEF Counts
<1>11. LockOK' /\ RequestsOK' /\ Pending' /\ Answers'
  BY <1>1, <1>3, <1>5, <1>p, Unasked DEF Queues
<1>12. Conserved'
  BY <1>1, <1>3, <1>4, FreedKeeps
<1>. QED BY <1>5, <1>7, <1>8, <1>9, <1>10, <1>11, <1>12 DEF IInv

(* RxBurst: egress sees what tx_q holds.                                    *)
LEMMA RxBurstStep ==
  ASSUME IInv, RxBurst, num' = num
  PROVE  IInv'
<1>1. /\ pc["egress"] = "idle"
      /\ pc' = [pc EXCEPT !["egress"] = "get"]
      /\ seen' = [seen EXCEPT !["egress"] = fifo["tx_q"].write]
      /\ hand' = hand
      /\ pool' = pool
      /\ fifo' = fifo
      /\ num' = num
      /\ sync' = sync /\ sync_lock' = sync_lock /\ asked' = asked /\ told' = told /\ timeouts' = timeouts
      /\ bound' = bound
  BY DEF RxBurst, At, Goto, Look, requests
<1>2. /\ Typed /\ FifosOK /\ HandsOK /\ LockOK /\ Sights /\ Counts /\ RequestsOK /\ Pending
      /\ Answers /\ Conserved
  BY Parts
<1>3. /\ "egress" \in Threads /\ "egress" \in Movers
      /\ \A c \in Callers : c # "egress" /\ c \in Threads
      /\ {"ingress", "egress", "kthread", "xmit"} \subseteq Threads
  BY Names DEF Movers, Threads
<1>p. /\ pc'["egress"] = "get"
      /\ \A t \in Threads \ {"egress"} : pc'[t] = pc[t] /\ seen'[t] = seen[t] /\ hand'[t] = hand[t]
      /\ hand'["egress"] = hand["egress"]
  BY <1>1, <1>2, <1>3 DEF Typed
<1>5. /\ KeptSights("", "") /\ FifosOK'
      /\ \A q \in Queues : Filled(q)' = Filled(q) /\ Empty(q)' = Empty(q)
      /\ fifo' = fifo
  BY <1>1, <1>2, NoFifo
<1>o. \A t \in Threads : \A q \in Queues : t # "egress" =>
        /\ q # "" /\ SawReader(t, q) => SawReader(t, q)'
        /\ q # "" /\ SawWriter(t, q) => SawWriter(t, q)'
        /\ fifo'[q].read = fifo[q].read => Visible(t, q)' = Visible(t, q)
        /\ fifo'[q].write = fifo[q].write => RoomSeen(t, q)' = RoomSeen(t, q)
  BY <1>1, <1>2, <1>5, <1>p, Others
<1>f. SawWriter("egress", "tx_q")' /\ Visible("egress", "tx_q")' = Filled("tx_q")
  <2>1. "tx_q" \in Queues /\ seen'["egress"] = fifo["tx_q"].write /\ fifo'["tx_q"] = fifo["tx_q"]
    BY <1>1, <1>2, <1>3, <1>5 DEF Queues, Typed
  <2>. QED BY <1>1, <1>2, <1>3, <2>1, Looked
<1>6. pool' \subseteq bound.mbufs /\ hand' \in [Threads -> Seq(Entries \cup Nat)]
  BY <1>1, <1>2, <1>3 DEF Typed
<1>7. Typed'
  <2>1. seen' \in [Threads -> Slots]
    BY <1>1, <1>2, <1>3 DEF Typed, FifosOK, Queues
  <2>. QED BY <1>1, <1>2, <1>3, <1>6, <2>1 DEF Typed, Slots, KNI_FIFO_COUNT_MAX, IngressLabels, EgressLabels, KthreadLabels, XmitLabels, CallerLabels, Labels
<1>8. HandsOK'
  BY <1>1, <1>2, <1>3, <1>5 DEF HandsOK, Typed, Threads, Burst
<1>9. Sights'
  <2>1. CallerSights'
    BY <1>2, <1>3, <1>p, <1>o DEF Sights, CallerSights, Queues
  <2>2. ApplicationSights'
    BY <1>2, <1>3, <1>p, <1>o, <1>f DEF Sights, ApplicationSights, Queues
  <2>3. KernelSights'
    BY <1>2, <1>3, <1>p, <1>o, <1>f DEF Sights, KernelSights, Queues
  <2>. QED BY <2>1, <2>2, <2>3 DEF Sights
<1>10. Counts'
  <2>1. CallerCounts'
    BY <1>1, <1>2, <1>3, <1>p, <1>5, <1>o, Ints DEF Counts, CallerCounts, Queues
  <2>2. KthreadCounts'
    BY <1>1, <1>2, <1>3, <1>p, <1>5, <1>o, <1>f, Ints DEF Counts, KthreadCounts, Queues
  <2>3. XmitCounts'
    BY <1>1, <1>2, <1>3, <1>p, <1>5, <1>o, <1>f, Ints DEF Counts, XmitCounts, Queues
  <2>. QED BY <2>1, <2>2, <2>3 DEF Counts
<1>11. LockOK' /\ RequestsOK' /\ Pending' /\ Answers'
  BY <1>1, <1>3, <1>5, <1>p, Unasked DEF Queues
<1>12. Conserved'
  BY <1>1, NothingMoves
<1>. QED BY <1>5, <1>7, <1>8, <1>9, <1>10, <1>11, <1>12 DEF IInv

(* RxGet: mbufs come back from tx_q.                                        *)
LEMMA RxGetStep ==
  ASSUME IInv, RxGet, num' = num
  PROVE  IInv'
<1>1. /\ pc["egress"] = "get"
      /\ pc' = [pc EXCEPT !["egress"] = "alloc"]
      /\ Get("egress", "tx_q", MAX_MBUF_BURST_NUM)
      /\ hand' = hand
      /\ seen' = seen
      /\ num' = num
      /\ pool' = pool \cup Elements(Got("egress", "tx_q", MAX_MBUF_BURST_NUM))
      /\ sync' = sync /\ sync_lock' = sync_lock /\ asked' = asked /\ told' = told /\ timeouts' = timeouts
      /\ bound' = bound
  BY DEF RxGet, At, Goto, Look, requests
<1>2. /\ Typed /\ FifosOK /\ HandsOK /\ LockOK /\ Sights /\ Counts /\ RequestsOK /\ Pending
      /\ Answers /\ Conserved
  BY Parts
<1>3. /\ "egress" \in Threads /\ "egress" \in Movers
      /\ \A c \in Callers : c # "egress" /\ c \in Threads
      /\ {"ingress", "egress", "kthread", "xmit"} \subseteq Threads
  BY Names DEF Movers, Threads
<1>p. /\ pc'["egress"] = "alloc"
      /\ \A t \in Threads \ {"egress"} : pc'[t] = pc[t] /\ seen'[t] = seen[t] /\ hand'[t] = hand[t]
      /\ seen'["egress"] = seen["egress"]/\ hand'["egress"] = hand["egress"]
  BY <1>1, <1>2, <1>3 DEF Typed
<1>4. /\ SawWriter("egress", "tx_q") /\ "tx_q" \in Queues /\ "tx_q" \in PacketQueues /\ MAX_MBUF_BURST_NUM \in Nat
      /\ Content("tx_q", bound) = bound.mbufs /\ bound.mbufs \subseteq Entries
  BY <1>1, <1>2, Size, Ints, BurstAssumption DEF Sights, ApplicationSights, KernelSights, Content, Queues, PacketQueues, Entries
<1>5. /\ KeptSights("", "tx_q") /\ FifosOK'
      /\ Got("egress", "tx_q", MAX_MBUF_BURST_NUM) \in Seq(bound.mbufs) /\ Len(Got("egress", "tx_q", MAX_MBUF_BURST_NUM)) \in 0 .. MAX_MBUF_BURST_NUM
      /\ Len(Got("egress", "tx_q", MAX_MBUF_BURST_NUM)) = Smaller(MAX_MBUF_BURST_NUM, Visible("egress", "tx_q"))
      /\ Filled("tx_q")' = Filled("tx_q") - Len(Got("egress", "tx_q", MAX_MBUF_BURST_NUM))
      /\ Empty("tx_q")' = Empty("tx_q") + Len(Got("egress", "tx_q", MAX_MBUF_BURST_NUM))
      /\ \A o \in Queues \ {"tx_q"} : fifo'[o] = fifo[o] /\ Filled(o)' = Filled(o) /\ Empty(o)' = Empty(o)
      /\ fifo'["tx_q"].write = fifo["tx_q"].write
      /\ \A x \in Int : x <= Empty("tx_q") => x <= Empty("tx_q")'
  BY <1>1, <1>2, <1>3, <1>4, GetKeeps
<1>g. /\ num <= Empty("tx_q") => num <= Empty("tx_q")'
      /\ 1 <= Empty("tx_q") => 1 <= Empty("tx_q")'
      /\ Len(hand["kthread"]) <= Empty("tx_q") => Len(hand["kthread"]) <= Empty("tx_q")'
  <2>1. num \in Int /\ 1 \in Int /\ Len(hand["kthread"]) \in Int
    BY <1>2, <1>3, Ints
  <2>2. \A x \in Int : x <= Empty("tx_q") => x <= Empty("tx_q")'
    BY <1>5
  <2>. HIDE DEF Filled, Empty
  <2>. QED BY <2>1, <2>2
<1>o. \A t \in Threads : \A q \in Queues : t # "egress" =>
        /\ q # "" /\ SawReader(t, q) => SawReader(t, q)'
        /\ q # "tx_q" /\ SawWriter(t, q) => SawWriter(t, q)'
        /\ fifo'[q].read = fifo[q].read => Visible(t, q)' = Visible(t, q)
        /\ fifo'[q].write = fifo[q].write => RoomSeen(t, q)' = RoomSeen(t, q)
  BY <1>1, <1>2, <1>5, <1>p, Others
<1>6. pool' \subseteq bound.mbufs /\ hand' \in [Threads -> Seq(Entries \cup Nat)]
  <2>1. Elements(Got("egress", "tx_q", MAX_MBUF_BURST_NUM)) \subseteq bound.mbufs
    BY <1>5, ElementsOf
  <2>. QED BY <1>1, <1>2, <2>1 DEF Typed
<1>7. Typed'
  BY <1>1, <1>2, <1>3, <1>6 DEF Typed, Slots, KNI_FIFO_COUNT_MAX, IngressLabels, EgressLabels, KthreadLabels, XmitLabels, CallerLabels, Labels
<1>8. HandsOK'
  BY <1>1, <1>2, <1>3, <1>5, <1>4 DEF HandsOK, Typed, Threads, Burst
<1>9. Sights'
  <2>1. CallerSights'
    BY <1>2, <1>3, <1>p, <1>o DEF Sights, CallerSights, Queues
  <2>2. ApplicationSights'
    BY <1>2, <1>3, <1>p, <1>o DEF Sights, ApplicationSights, Queues
  <2>3. KernelSights'
    BY <1>2, <1>3, <1>p, <1>o DEF Sights, KernelSights, Queues
  <2>. QED BY <2>1, <2>2, <2>3 DEF Sights
<1>10. Counts'
  <2>1. CallerCounts'
    BY <1>1, <1>2, <1>3, <1>p, <1>5, <1>o, <1>g, Ints DEF Counts, CallerCounts, Queues
  <2>2. KthreadCounts'
    BY <1>1, <1>2, <1>3, <1>p, <1>5, <1>o, <1>g, Ints DEF Counts, KthreadCounts, Queues
  <2>3. XmitCounts'
    BY <1>1, <1>2, <1>3, <1>p, <1>5, <1>o, <1>g, Ints DEF Counts, XmitCounts, Queues
  <2>. QED BY <2>1, <2>2, <2>3 DEF Counts
<1>11. LockOK' /\ RequestsOK' /\ Pending' /\ Answers'
  BY <1>1, <1>3, <1>5, <1>p, Unasked DEF Queues
<1>12. Conserved'
  BY <1>1, <1>3, <1>4, FreedKeeps
<1>. QED BY <1>5, <1>7, <1>8, <1>9, <1>10, <1>11, <1>12 DEF IInv

(* RxAlloc: mbufs of the pool come to the hands of egress.                  *)
LEMMA RxAllocStep ==
  ASSUME IInv, RxAlloc, num' = num
  PROVE  IInv'
<1>. DEFINE k == Smaller(MAX_MBUF_BURST_NUM, Cardinality(pool))
<1>a. k \in Nat /\ k <= MAX_MBUF_BURST_NUM
  <2>1. IsFiniteSet(pool)
    BY Parts, Size, FS_Subset DEF Typed
  <2>2. Cardinality(pool) \in Nat
    BY <2>1, FS_CardinalityType
  <2>. QED BY <2>2, BurstAssumption DEF Smaller
<1>b. PICK mbufs \in [1 .. k -> pool] :
            /\ Cardinality(Elements(mbufs)) = k
            /\ pool' = pool \ Elements(mbufs)
            /\ hand' = [hand EXCEPT !["egress"] = mbufs]
  BY DEF RxAlloc
<1>0. /\ k \in Nat /\ k <= MAX_MBUF_BURST_NUM /\ Cardinality(Elements(mbufs)) = k
      /\ pool' = pool \ Elements(mbufs) /\ hand' = [hand EXCEPT !["egress"] = mbufs]
  BY <1>a, <1>b

<1>1. /\ pc["egress"] = "alloc"
      /\ pc' = [pc EXCEPT !["egress"] = IF k = 0 THEN "idle" ELSE "fill"]
      /\ hand' = [hand EXCEPT !["egress"] = mbufs]
      /\ pool' = pool \ Elements(mbufs)
      /\ seen' = [seen EXCEPT !["egress"] = fifo["alloc_q"].read]
      /\ fifo' = fifo
      /\ num' = num
      /\ sync' = sync /\ sync_lock' = sync_lock /\ asked' = asked /\ told' = told /\ timeouts' = timeouts
      /\ bound' = bound
  BY <1>0 DEF RxAlloc, At, Goto, Look, requests
<1>2. /\ Typed /\ FifosOK /\ HandsOK /\ LockOK /\ Sights /\ Counts /\ RequestsOK /\ Pending
      /\ Answers /\ Conserved
  BY Parts
<1>3. /\ "egress" \in Threads /\ "egress" \in Movers
      /\ \A c \in Callers : c # "egress" /\ c \in Threads
      /\ {"ingress", "egress", "kthread", "xmit"} \subseteq Threads
  BY Names DEF Movers, Threads
<1>p. /\ pc'["egress"] = IF k = 0 THEN "idle" ELSE "fill"
      /\ \A t \in Threads \ {"egress"} : pc'[t] = pc[t] /\ seen'[t] = seen[t] /\ hand'[t] = hand[t]
      /\ hand'["egress"] = mbufs
  BY <1>1, <1>2, <1>3 DEF Typed
<1>5. /\ KeptSights("", "") /\ FifosOK'
      /\ \A q \in Queues : Filled(q)' = Filled(q) /\ Empty(q)' = Empty(q)
      /\ fifo' = fifo
  BY <1>1, <1>2, NoFifo
<1>. HIDE DEF k
<1>4. /\ Conserved' /\ Burst(hand'["egress"], bound) /\ hand'["egress"] \in Seq(Entries \cup Nat)
      /\ hand'["egress"] = mbufs /\ Len(mbufs) = k
  <2>1. hand["egress"] = <<>> /\ hand'["egress"] = mbufs
    BY <1>1, <1>2, <1>3 DEF HandsOK, Typed
  <2>. QED BY <1>0, <1>1, <1>3, <2>1, DrawnKeeps
<1>o. \A t \in Threads : \A q \in Queues : t # "egress" =>
        /\ q # "" /\ SawReader(t, q) => SawReader(t, q)'
        /\ q # "" /\ SawWriter(t, q) => SawWriter(t, q)'
        /\ fifo'[q].read = fifo[q].read => Visible(t, q)' = Visible(t, q)
        /\ fifo'[q].write = fifo[q].write => RoomSeen(t, q)' = RoomSeen(t, q)
  BY <1>1, <1>2, <1>5, <1>p, Others
<1>f. SawReader("egress", "alloc_q")' /\ RoomSeen("egress", "alloc_q")' = Empty("alloc_q")
  <2>1. "alloc_q" \in Queues /\ seen'["egress"] = fifo["alloc_q"].read /\ fifo'["alloc_q"] = fifo["alloc_q"]
    BY <1>1, <1>2, <1>3, <1>5 DEF Queues, Typed
  <2>. QED BY <1>1, <1>2, <1>3, <2>1, Looked
<1>6. pool' \subseteq bound.mbufs /\ hand' \in [Threads -> Seq(Entries \cup Nat)]
  <2>1. hand'["egress"] \in Seq(Entries \cup Nat)
    BY <1>4
  <2>2. hand \in [Threads -> Seq(Entries \cup Nat)] /\ pool \subseteq bound.mbufs
    BY <1>2 DEF Typed
  <2>3. \A t \in Threads : hand'[t] \in Seq(Entries \cup Nat)
    BY <1>1, <2>1, <2>2
  <2>. QED BY <1>1, <2>2, <2>3
<1>7. Typed'
  <2>1. seen' \in [Threads -> Slots]
    BY <1>1, <1>2, <1>3 DEF Typed, FifosOK, Queues
  <2>. QED BY <1>1, <1>2, <1>3, <1>6, <2>1 DEF Typed, Slots, KNI_FIFO_COUNT_MAX, IngressLabels, EgressLabels, KthreadLabels, XmitLabels, CallerLabels, Labels
<1>8. HandsOK'
  <2>1. k = 0 => mbufs = <<>>
    BY <1>4
  <2>. QED BY <1>1, <1>2, <1>3, <1>4, <2>1 DEF HandsOK, Typed, Threads
<1>9. Sights'
  <2>1. CallerSights'
    BY <1>2, <1>3, <1>p, <1>o DEF Sights, CallerSights, Queues
  <2>2. ApplicationSights'
    BY <1>2, <1>3, <1>p, <1>o, <1>f DEF Sights, ApplicationSights, Queues
  <2>3. KernelSights'
    BY <1>2, <1>3, <1>p, <1>o, <1>f DEF Sights, KernelSights, Queues
  <2>. QED BY <2>1, <2>2, <2>3 DEF Sights
<1>10. Counts'
  <2>1. CallerCounts'
    BY <1>1, <1>2, <1>3, <1>p, <1>5, <1>o, Ints DEF Counts, CallerCounts, Queues
  <2>2. KthreadCounts'
    BY <1>1, <1>2, <1>3, <1>p, <1>5, <1>o, <1>f, Ints DEF Counts, KthreadCounts, Queues
  <2>3. XmitCounts'
    BY <1>1, <1>2, <1>3, <1>p, <1>5, <1>o, <1>f, Ints DEF Counts, XmitCounts, Queues
  <2>. QED BY <2>1, <2>2, <2>3 DEF Counts
<1>11. LockOK' /\ RequestsOK' /\ Pending' /\ Answers'
  BY <1>1, <1>3, <1>5, <1>p, Unasked DEF Queues
<1>12. Conserved'
  BY <1>4
<1>. QED BY <1>5, <1>7, <1>8, <1>9, <1>10, <1>11, <1>12 DEF IInv

(* RxFill: those go to alloc_q, the rest back to the pool.                  *)
LEMMA RxFillStep ==
  ASSUME IInv, RxFill, num' = num
  PROVE  IInv'
<1>1. /\ pc["egress"] = "fill"
      /\ pc' = [pc EXCEPT !["egress"] = "idle"]
      /\ Put("egress", "alloc_q")
      /\ hand' = [hand EXCEPT !["egress"] = <<>>]
      /\ seen' = seen
      /\ num' = num
      /\ pool' = pool \cup Elements(SubSeq(hand["egress"], Accepted("egress", "alloc_q") + 1, Len(hand["egress"])))
      /\ sync' = sync /\ sync_lock' = sync_lock /\ asked' = asked /\ told' = told /\ timeouts' = timeouts
      /\ bound' = bound
  BY DEF RxFill, At, Goto, Look, requests
<1>2. /\ Typed /\ FifosOK /\ HandsOK /\ LockOK /\ Sights /\ Counts /\ RequestsOK /\ Pending
      /\ Answers /\ Conserved
  BY Parts
<1>3. /\ "egress" \in Threads /\ "egress" \in Movers
      /\ \A c \in Callers : c # "egress" /\ c \in Threads
      /\ {"ingress", "egress", "kthread", "xmit"} \subseteq Threads
  BY Names DEF Movers, Threads
<1>p. /\ pc'["egress"] = "idle"
      /\ \A t \in Threads \ {"egress"} : pc'[t] = pc[t] /\ seen'[t] = seen[t] /\ hand'[t] = hand[t]
      /\ seen'["egress"] = seen["egress"]/\ hand'["egress"] = <<>>
  BY <1>1, <1>2, <1>3 DEF Typed
<1>4. /\ Burst(hand["egress"], bound) /\ SawReader("egress", "alloc_q") /\ hand["egress"] \in Seq(Content("alloc_q", bound))
      /\ "alloc_q" \in Queues /\ "alloc_q" \in PacketQueues /\ hand["egress"] \in Seq(bound.mbufs)
  BY <1>1, <1>2 DEF HandsOK, Sights, ApplicationSights, KernelSights, Burst, Content, Queues, PacketQueues
<1>5. /\ KeptSights("alloc_q", "") /\ FifosOK'
      /\ Accepted("egress", "alloc_q") \in 0 .. Len(hand["egress"]) /\ Len(hand["egress"]) \in Nat
      /\ Accepted("egress", "alloc_q") = Smaller(Len(hand["egress"]), RoomSeen("egress", "alloc_q"))
      /\ Filled("alloc_q")' = Filled("alloc_q") + Accepted("egress", "alloc_q") /\ Empty("alloc_q")' = Empty("alloc_q") - Accepted("egress", "alloc_q")
      /\ \A o \in Queues \ {"alloc_q"} : fifo'[o] = fifo[o] /\ Filled(o)' = Filled(o) /\ Empty(o)' = Empty(o)
      /\ fifo'["alloc_q"].read = fifo["alloc_q"].read
      /\ \A x \in Int : x <= Filled("alloc_q") => x <= Filled("alloc_q")'
  BY <1>1, <1>2, <1>3, <1>4, PutKeeps
<1>g. /\ num <= Filled("alloc_q") => num <= Filled("alloc_q")'
      /\ 1 <= Filled("alloc_q") => 1 <= Filled("alloc_q")'
      /\ Len(hand["kthread"]) <= Filled("alloc_q") => Len(hand["kthread"]) <= Filled("alloc_q")'
  <2>1. num \in Int /\ 1 \in Int /\ Len(hand["kthread"]) \in Int
    BY <1>2, <1>3, Ints
  <2>2. \A x \in Int : x <= Filled("alloc_q") => x <= Filled("alloc_q")'
    BY <1>5
  <2>. HIDE DEF Filled, Empty
  <2>. QED BY <2>1, <2>2
<1>o. \A t \in Threads : \A q \in Queues : t # "egress" =>
        /\ q # "alloc_q" /\ SawReader(t, q) => SawReader(t, q)'
        /\ q # "" /\ SawWriter(t, q) => SawWriter(t, q)'
        /\ fifo'[q].read = fifo[q].read => Visible(t, q)' = Visible(t, q)
        /\ fifo'[q].write = fifo[q].write => RoomSeen(t, q)' = RoomSeen(t, q)
  BY <1>1, <1>2, <1>5, <1>p, Others
<1>6. /\ pool' \subseteq bound.mbufs /\ hand' \in [Threads -> Seq(Entries \cup Nat)]
      /\ \A x : x \in pool' <=> (x \in pool \/ \E k \in Accepted("egress", "alloc_q") + 1 .. Len(hand["egress"]) : hand["egress"][k] = x)
  <2>1. /\ Elements(SubSeq(hand["egress"], Accepted("egress", "alloc_q") + 1, Len(hand["egress"]))) \subseteq bound.mbufs
        /\ \A x : x \in Elements(SubSeq(hand["egress"], Accepted("egress", "alloc_q") + 1, Len(hand["egress"]))) <=>
                    \E k \in Accepted("egress", "alloc_q") + 1 .. Len(hand["egress"]) : hand["egress"][k] = x
    <3>. DEFINE h == hand["egress"]  k == Accepted("egress", "alloc_q")
    <3>1. h \in Seq(bound.mbufs) /\ k \in 0 .. Len(h)
      BY <1>4, <1>5
    <3>. HIDE DEF h, k
    <3>2. /\ Elements(SubSeq(h, k + 1, Len(h))) \subseteq bound.mbufs
          /\ \A x : x \in Elements(SubSeq(h, k + 1, Len(h))) <=> \E i \in k + 1 .. Len(h) : h[i] = x
      BY <3>1, RestOf
    <3>. QED BY <3>2 DEF h, k
  <2>2. pool \subseteq bound.mbufs /\ hand \in [Threads -> Seq(Entries \cup Nat)]
    BY <1>2 DEF Typed
  <2>3. hand' \in [Threads -> Seq(Entries \cup Nat)]
    BY <1>1, <1>3, <2>2
  <2>. QED BY <1>1, <2>1, <2>2, <2>3
<1>7. Typed'
  BY <1>1, <1>2, <1>3, <1>6 DEF Typed, Slots, KNI_FIFO_COUNT_MAX, IngressLabels, EgressLabels, KthreadLabels, XmitLabels, CallerLabels, Labels
<1>8. HandsOK'
  BY <1>1, <1>2, <1>3, <1>5, <1>4 DEF HandsOK, Typed, Threads, Burst
<1>9. Sights'
  <2>1. CallerSights'
    BY <1>2, <1>3, <1>p, <1>o DEF Sights, CallerSights, Queues
  <2>2. ApplicationSights'
    BY <1>2, <1>3, <1>p, <1>o DEF Sights, ApplicationSights, Queues
  <2>3. KernelSights'
    BY <1>2, <1>3, <1>p, <1>o DEF Sights, KernelSights, Queues
  <2>. QED BY <2>1, <2>2, <2>3 DEF Sights
<1>10. Counts'
  <2>1. CallerCounts'
    BY <1>1, <1>2, <1>3, <1>p, <1>5, <1>o, <1>g, Ints DEF Counts, CallerCounts, Queues
  <2>2. KthreadCounts'
    BY <1>1, <1>2, <1>3, <1>p, <1>5, <1>o, <1>g, Ints DEF Counts, KthreadCounts, Queues
  <2>3. XmitCounts'
    BY <1>1, <1>2, <1>3, <1>p, <1>5, <1>o, <1>g, Ints DEF Counts, XmitCounts, Queues
  <2>. QED BY <2>1, <2>2, <2>3 DEF Counts
<1>11. LockOK' /\ RequestsOK' /\ Pending' /\ Answers'
  BY <1>1, <1>3, <1>5, <1>p, Unasked DEF Queues
<1>12. Conserved'
  <2>1. hand'["egress"] = <<>> /\ \A r \in Movers \ {"egress"} : hand'[r] = hand[r]
    BY <1>1, <1>2, <1>3, Names DEF Typed
  <2>. QED BY <1>1, <1>3, <1>4, <1>6, <2>1, StoredKeeps
<1>. QED BY <1>5, <1>7, <1>8, <1>9, <1>10, <1>11, <1>12 DEF IInv

(* KernelLook: kthread sees at least the packets it counted.                *)
LEMMA KernelLookStep ==
  ASSUME IInv, KernelLook
  PROVE  IInv'
<1>1. /\ pc["kthread"] = "rx"
      /\ pc' = [pc EXCEPT !["kthread"] = "get"]
      /\ seen' = [seen EXCEPT !["kthread"] = fifo["rx_q"].write]
      /\ hand' = hand
      /\ pool' = pool
      /\ fifo' = fifo
      /\ num' = num
      /\ sync' = sync /\ sync_lock' = sync_lock /\ asked' = asked /\ told' = told /\ timeouts' = timeouts
      /\ bound' = bound
  BY DEF KernelLook, At, Goto, Look, requests
<1>2. /\ Typed /\ FifosOK /\ HandsOK /\ LockOK /\ Sights /\ Counts /\ RequestsOK /\ Pending
      /\ Answers /\ Conserved
  BY Parts
<1>3. /\ "kthread" \in Threads /\ "kthread" \in Movers
      /\ \A c \in Callers : c # "kthread" /\ c \in Threads
      /\ {"ingress", "egress", "kthread", "xmit"} \subseteq Threads
  BY Names DEF Movers, Threads
<1>p. /\ pc'["kthread"] = "get"
      /\ \A t \in Threads \ {"kthread"} : pc'[t] = pc[t] /\ seen'[t] = seen[t] /\ hand'[t] = hand[t]
      /\ hand'["kthread"] = hand["kthread"]
  BY <1>1, <1>2, <1>3 DEF Typed
<1>5. /\ KeptSights("", "") /\ FifosOK'
      /\ \A q \in Queues : Filled(q)' = Filled(q) /\ Empty(q)' = Empty(q)
      /\ fifo' = fifo
  BY <1>1, <1>2, NoFifo
<1>o. \A t \in Threads : \A q \in Queues : t # "kthread" =>
        /\ q # "" /\ SawReader(t, q) => SawReader(t, q)'
        /\ q # "" /\ SawWriter(t, q) => SawWriter(t, q)'
        /\ fifo'[q].read = fifo[q].read => Visible(t, q)' = Visible(t, q)
        /\ fifo'[q].write = fifo[q].write => RoomSeen(t, q)' = RoomSeen(t, q)
  BY <1>1, <1>2, <1>5, <1>p, Others
<1>f. SawWriter("kthread", "rx_q")' /\ Visible("kthread", "rx_q")' = Filled("rx_q")
  <2>1. "rx_q" \in Queues /\ seen'["kthread"] = fifo["rx_q"].write /\ fifo'["rx_q"] = fifo["rx_q"]
    BY <1>1, <1>2, <1>3, <1>5 DEF Queues, Typed
  <2>. QED BY <1>1, <1>2, <1>3, <2>1, Looked
<1>6. pool' \subseteq bound.mbufs /\ hand' \in [Threads -> Seq(Entries \cup Nat)]
  BY <1>1, <1>2, <1>3 DEF Typed
<1>7. Typed'
  <2>1. seen' \in [Threads -> Slots]
    BY <1>1, <1>2, <1>3 DEF Typed, FifosOK, Queues
  <2>. QED BY <1>1, <1>2, <1>3, <1>6, <2>1 DEF Typed, Slots, KNI_FIFO_COUNT_MAX, IngressLabels, EgressLabels, KthreadLabels, XmitLabels, CallerLabels, Labels
<1>8. HandsOK'
  BY <1>1, <1>2, <1>3, <1>5 DEF HandsOK, Typed, Threads, Burst
<1>9. Sights'
  <2>1. CallerSights'
    BY <1>2, <1>3, <1>p, <1>o DEF Sights, CallerSights, Queues
  <2>2. ApplicationSights'
    BY <1>2, <1>3, <1>p, <1>o, <1>f DEF Sights, ApplicationSights, Queues
  <2>3. KernelSights'
    BY <1>2, <1>3, <1>p, <1>o, <1>f DEF Sights, KernelSights, Queues
  <2>. QED BY <2>1, <2>2, <2>3 DEF Sights
<1>10. Counts'
  <2>1. CallerCounts'
    BY <1>1, <1>2, <1>3, <1>p, <1>5, <1>o, Ints DEF Counts, CallerCounts, Queues
  <2>2. KthreadCounts'
    BY <1>1, <1>2, <1>3, <1>p, <1>5, <1>o, <1>f, Ints DEF Counts, KthreadCounts, Queues
  <2>3. XmitCounts'
    BY <1>1, <1>2, <1>3, <1>p, <1>5, <1>o, <1>f, Ints DEF Counts, XmitCounts, Queues
  <2>. QED BY <2>1, <2>2, <2>3 DEF Counts
<1>11. LockOK' /\ RequestsOK' /\ Pending' /\ Answers'
  BY <1>1, <1>3, <1>5, <1>p, Unasked DEF Queues
<1>12. Conserved'
  BY <1>1, NothingMoves
<1>. QED BY <1>5, <1>7, <1>8, <1>9, <1>10, <1>11, <1>12 DEF IInv

(* KernelFreeLook: kthread sees at least the room it counted.               *)
LEMMA KernelFreeLookStep ==
  ASSUME IInv, KernelFreeLook
  PROVE  IInv'
<1>1. /\ pc["kthread"] = "copied"
      /\ pc' = [pc EXCEPT !["kthread"] = "put"]
      /\ seen' = [seen EXCEPT !["kthread"] = fifo["free_q"].read]
      /\ hand' = hand
      /\ pool' = pool
      /\ fifo' = fifo
      /\ num' = num
      /\ sync' = sync /\ sync_lock' = sync_lock /\ asked' = asked /\ told' = told /\ timeouts' = timeouts
      /\ bound' = bound
  BY DEF KernelFreeLook, At, Goto, Look, requests
<1>2. /\ Typed /\ FifosOK /\ HandsOK /\ LockOK /\ Sights /\ Counts /\ RequestsOK /\ Pending
      /\ Answers /\ Conserved
  BY Parts
<1>3. /\ "kthread" \in Threads /\ "kthread" \in Movers
      /\ \A c \in Callers : c # "kthread" /\ c \in Threads
      /\ {"ingress", "egress", "kthread", "xmit"} \subseteq Threads
  BY Names DEF Movers, Threads
<1>p. /\ pc'["kthread"] = "put"
      /\ \A t \in Threads \ {"kthread"} : pc'[t] = pc[t] /\ seen'[t] = seen[t] /\ hand'[t] = hand[t]
      /\ hand'["kthread"] = hand["kthread"]
  BY <1>1, <1>2, <1>3 DEF Typed
<1>5. /\ KeptSights("", "") /\ FifosOK'
      /\ \A q \in Queues : Filled(q)' = Filled(q) /\ Empty(q)' = Empty(q)
      /\ fifo' = fifo
  BY <1>1, <1>2, NoFifo
<1>o. \A t \in Threads : \A q \in Queues : t # "kthread" =>
        /\ q # "" /\ SawReader(t, q) => SawReader(t, q)'
        /\ q # "" /\ SawWriter(t, q) => SawWriter(t, q)'
        /\ fifo'[q].read = fifo[q].read => Visible(t, q)' = Visible(t, q)
        /\ fifo'[q].write = fifo[q].write => RoomSeen(t, q)' = RoomSeen(t, q)
  BY <1>1, <1>2, <1>5, <1>p, Others
<1>f. SawReader("kthread", "free_q")' /\ RoomSeen("kthread", "free_q")' = Empty("free_q")
  <2>1. "free_q" \in Queues /\ seen'["kthread"] = fifo["free_q"].read /\ fifo'["free_q"] = fifo["free_q"]
    BY <1>1, <1>2, <1>3, <1>5 DEF Queues, Typed
  <2>. QED BY <1>1, <1>2, <1>3, <2>1, Looked
<1>6. pool' \subseteq bound.mbufs /\ hand' \in [Threads -> Seq(Entries \cup Nat)]
  BY <1>1, <1>2, <1>3 DEF Typed
<1>7. Typed'
  <2>1. seen' \in [Threads -> Slots]
    BY <1>1, <1>2, <1>3 DEF Typed, FifosOK, Queues
  <2>. QED BY <1>1, <1>2, <1>3, <1>6, <2>1 DEF Typed, Slots, KNI_FIFO_COUNT_MAX, IngressLabels, EgressLabels, KthreadLabels, XmitLabels, CallerLabels, Labels
<1>8. HandsOK'
  BY <1>1, <1>2, <1>3, <1>5 DEF HandsOK, Typed, Threads, Burst
<1>9. Sights'
  <2>1. CallerSights'
    BY <1>2, <1>3, <1>p, <1>o DEF Sights, CallerSights, Queues
  <2>2. ApplicationSights'
    BY <1>2, <1>3, <1>p, <1>o, <1>f DEF Sights, ApplicationSights, Queues
  <2>3. KernelSights'
    BY <1>2, <1>3, <1>p, <1>o, <1>f DEF Sights, KernelSights, Queues
  <2>. QED BY <2>1, <2>2, <2>3 DEF Sights
<1>10. Counts'
  <2>1. CallerCounts'
    BY <1>1, <1>2, <1>3, <1>p, <1>5, <1>o, Ints DEF Counts, CallerCounts, Queues
  <2>2. KthreadCounts'
    BY <1>1, <1>2, <1>3, <1>p, <1>5, <1>o, <1>f, Ints DEF Counts, KthreadCounts, Queues
  <2>3. XmitCounts'
    BY <1>1, <1>2, <1>3, <1>p, <1>5, <1>o, <1>f, Ints DEF Counts, XmitCounts, Queues
  <2>. QED BY <2>1, <2>2, <2>3 DEF Counts
<1>11. LockOK' /\ RequestsOK' /\ Pending' /\ Answers'
  BY <1>1, <1>3, <1>5, <1>p, Unasked DEF Queues
<1>12. Conserved'
  BY <1>1, NothingMoves
<1>. QED BY <1>5, <1>7, <1>8, <1>9, <1>10, <1>11, <1>12 DEF IInv

(* XmitPut: there is room for the one mbuf.                                 *)
LEMMA XmitPutStep ==
  ASSUME IInv, XmitPut
  PROVE  IInv'
<1>1. /\ pc["xmit"] = "put"
      /\ pc' = [pc EXCEPT !["xmit"] = "idle"]
      /\ Put("xmit", "tx_q")
      /\ hand' = [hand EXCEPT !["xmit"] = <<>>]
      /\ seen' = seen
      /\ num' = num
      /\ pool' = pool
      /\ sync' = sync /\ sync_lock' = sync_lock /\ asked' = asked /\ told' = told /\ timeouts' = timeouts
      /\ bound' = bound
  BY DEF XmitPut, At, Goto, Look, requests
<1>2. /\ Typed /\ FifosOK /\ HandsOK /\ LockOK /\ Sights /\ Counts /\ RequestsOK /\ Pending
      /\ Answers /\ Conserved
  BY Parts
<1>3. /\ "xmit" \in Threads /\ "xmit" \in Movers
      /\ \A c \in Callers : c # "xmit" /\ c \in Threads
      /\ {"ingress", "egress", "kthread", "xmit"} \subseteq Threads
  BY Names DEF Movers, Threads
<1>p. /\ pc'["xmit"] = "idle"
      /\ \A t \in Threads \ {"xmit"} : pc'[t] = pc[t] /\ seen'[t] = seen[t] /\ hand'[t] = hand[t]
      /\ seen'["xmit"] = seen["xmit"]/\ hand'["xmit"] = <<>>
  BY <1>1, <1>2, <1>3 DEF Typed
<1>4. /\ Burst(hand["xmit"], bound) /\ SawReader("xmit", "tx_q") /\ hand["xmit"] \in Seq(Content("tx_q", bound))
      /\ "tx_q" \in Queues /\ "tx_q" \in PacketQueues /\ hand["xmit"] \in Seq(bound.mbufs)
  BY <1>1, <1>2 DEF HandsOK, Sights, ApplicationSights, KernelSights, Burst, Content, Queues, PacketQueues
<1>5. /\ KeptSights("tx_q", "") /\ FifosOK'
      /\ Accepted("xmit", "tx_q") \in 0 .. Len(hand["xmit"]) /\ Len(hand["xmit"]) \in Nat
      /\ Accepted("xmit", "tx_q") = Smaller(Len(hand["xmit"]), RoomSeen("xmit", "tx_q"))
      /\ Filled("tx_q")' = Filled("tx_q") + Accepted("xmit", "tx_q") /\ Empty("tx_q")' = Empty("tx_q") - Accepted("xmit", "tx_q")
      /\ \A o \in Queues \ {"tx_q"} : fifo'[o] = fifo[o] /\ Filled(o)' = Filled(o) /\ Empty(o)' = Empty(o)
      /\ fifo'["tx_q"].read = fifo["tx_q"].read
      /\ \A x \in Int : x <= Filled("tx_q") => x <= Filled("tx_q")'
  BY <1>1, <1>2, <1>3, <1>4, PutKeeps
<1>g. /\ num <= Filled("tx_q") => num <= Filled("tx_q")'
      /\ 1 <= Filled("tx_q") => 1 <= Filled("tx_q")'
      /\ Len(hand["kthread"]) <= Filled("tx_q") => Len(hand["kthread"]) <= Filled("tx_q")'
  <2>1. num \in Int /\ 1 \in Int /\ Len(hand["kthread"]) \in Int
    BY <1>2, <1>3, Ints
  <2>2. \A x \in Int : x <= Filled("tx_q") => x <= Filled("tx_q")'
    BY <1>5
  <2>. HIDE DEF Filled, Empty
  <2>. QED BY <2>1, <2>2
<1>o. \A t \in Threads : \A q \in Queues : t # "xmit" =>
        /\ q # "tx_q" /\ SawReader(t, q) => SawReader(t, q)'
        /\ q # "" /\ SawWriter(t, q) => SawWriter(t, q)'
        /\ fifo'[q].read = fifo[q].read => Visible(t, q)' = Visible(t, q)
        /\ fifo'[q].write = fifo[q].write => RoomSeen(t, q)' = RoomSeen(t, q)
  BY <1>1, <1>2, <1>5, <1>p, Others
<1>6. /\ pool' \subseteq bound.mbufs /\ hand' \in [Threads -> Seq(Entries \cup Nat)]
      /\ \A x : x \in pool' <=> (x \in pool \/ \E k \in Accepted("xmit", "tx_q") + 1 .. Len(hand["xmit"]) : hand["xmit"][k] = x)
  <2>1. pool' \subseteq bound.mbufs /\ hand' \in [Threads -> Seq(Entries \cup Nat)]
    BY <1>1, <1>2, <1>3 DEF Typed
  <2>2. Accepted("xmit", "tx_q") = Len(hand["xmit"])
    <3>1. Len(hand["xmit"]) <= RoomSeen("xmit", "tx_q")
      BY <1>1, <1>2, <1>3, <1>4, Ints DEF Counts, KthreadCounts, XmitCounts
    <3>2. RoomSeen("xmit", "tx_q") \in Nat
      BY <1>2, <1>3, <1>4, Ints
    <3>. DEFINE a == Accepted("xmit", "tx_q")  h == Len(hand["xmit"])  r == RoomSeen("xmit", "tx_q")
    <3>3. a = Smaller(h, r) /\ h <= r /\ r \in Nat /\ h \in Nat
      BY <1>5, <3>1, <3>2
    <3>. HIDE DEF a, h, r
    <3>4. a = h
      BY <3>3 DEF Smaller
    <3>. QED BY <3>4 DEF a, h
  <2>3. Accepted("xmit", "tx_q") + 1 .. Len(hand["xmit"]) = {}
    <3>. DEFINE a == Accepted("xmit", "tx_q")  h == Len(hand["xmit"])
    <3>1. a = h /\ h \in Nat
      BY <1>5, <2>2
    <3>. HIDE DEF a, h
    <3>2. a + 1 .. h = {}
      BY <3>1
    <3>. QED BY <3>2 DEF a, h
  <2>. QED BY <1>1, <2>1, <2>3
<1>7. Typed'
  BY <1>1, <1>2, <1>3, <1>6 DEF Typed, Slots, KNI_FIFO_COUNT_MAX, IngressLabels, EgressLabels, KthreadLabels, XmitLabels, CallerLabels, Labels
<1>8. HandsOK'
  BY <1>1, <1>2, <1>3, <1>5, <1>4 DEF HandsOK, Typed, Threads, Burst
<1>9. Sights'
  <2>1. CallerSights'
    BY <1>2, <1>3, <1>p, <1>o DEF Sights, CallerSights, Queues
  <2>2. ApplicationSights'
    BY <1>2, <1>3, <1>p, <1>o DEF Sights, ApplicationSights, Queues
  <2>3. KernelSights'
    BY <1>2, <1>3, <1>p, <1>o DEF Sights, KernelSights, Queues
  <2>. QED BY <2>1, <2>2, <2>3 DEF Sights
<1>10. Counts'
  <2>1. CallerCounts'
    BY <1>1, <1>2, <1>3, <1>p, <1>5, <1>o, <1>g, Ints DEF Counts, CallerCounts, Queues
  <2>2. KthreadCounts'
    BY <1>1, <1>2, <1>3, <1>p, <1>5, <1>o, <1>g, Ints DEF Counts, KthreadCounts, Queues
  <2>3. XmitCounts'
    BY <1>1, <1>2, <1>3, <1>p, <1>5, <1>o, <1>g, Ints DEF Counts, XmitCounts, Queues
  <2>. QED BY <2>1, <2>2, <2>3 DEF Counts
<1>11. LockOK' /\ RequestsOK' /\ Pending' /\ Answers'
  BY <1>1, <1>3, <1>5, <1>p, Unasked DEF Queues
<1>12. Conserved'
  <2>1. hand'["xmit"] = <<>> /\ \A r \in Movers \ {"xmit"} : hand'[r] = hand[r]
    BY <1>1, <1>2, <1>3, Names DEF Typed
  <2>. QED BY <1>1, <1>3, <1>4, <1>6, <2>1, StoredKeeps
<1>. QED BY <1>5, <1>7, <1>8, <1>9, <1>10, <1>11, <1>12 DEF IInv

(* KernelFree: there is room for all the mbufs.                             *)
LEMMA KernelFreeStep ==
  ASSUME IInv, KernelFree
  PROVE  IInv'
<1>1. /\ pc["kthread"] = "put"
      /\ pc' = [pc EXCEPT !["kthread"] = "poll"]
      /\ Put("kthread", "free_q")
      /\ hand' = [hand EXCEPT !["kthread"] = <<>>]
      /\ seen' = seen
      /\ num' = num
      /\ pool' = pool
      /\ sync' = sync /\ sync_lock' = sync_lock /\ asked' = asked /\ told' = told /\ timeouts' = timeouts
      /\ bound' = bound
  BY DEF KernelFree, At, Goto, Look, requests
<1>2. /\ Typed /\ FifosOK /\ HandsOK /\ LockOK /\ Sights /\ Counts /\ RequestsOK /\ Pending
      /\ Answers /\ Conserved
  BY Parts
<1>3. /\ "kthread" \in Threads /\ "kthread" \in Movers
      /\ \A c \in Callers : c # "kthread" /\ c \in Threads
      /\ {"ingress", "egress", "kthread", "xmit"} \subseteq Threads
  BY Names DEF Movers, Threads
<1>p. /\ pc'["kthread"] = "poll"
      /\ \A t \in Threads \ {"kthread"} : pc'[t] = pc[t] /\ seen'[t] = seen[t] /\ hand'[t] = hand[t]
      /\ seen'["kthread"] = seen["kthread"]/\ hand'["kthread"] = <<>>
  BY <1>1, <1>2, <1>3 DEF Typed
<1>4. /\ Burst(hand["kthread"], bound) /\ SawReader("kthread", "free_q") /\ hand["kthread"] \in Seq(Content("free_q", bound))
      /\ "free_q" \in Queues /\ "free_q" \in PacketQueues /\ hand["kthread"] \in Seq(bound.mbufs)
  BY <1>1, <1>2 DEF HandsOK, Sights, ApplicationSights, KernelSights, Burst, Content, Queues, PacketQueues
<1>5. /\ KeptSights("free_q", "") /\ FifosOK'
      /\ Accepted("kthread", "free_q") \in 0 .. Len(hand["kthread"]) /\ Len(hand["kthread"]) \in Nat
      /\ Accepted("kthread", "free_q") = Smaller(Len(hand["kthread"]), RoomSeen("kthread", "free_q"))
      /\ Filled("free_q")' = Filled("free_q") + Accepted("kthread", "free_q") /\ Empty("free_q")' = Empty("free_q") - Accepted("kthread", "free_q")
      /\ \A o \in Queues \ {"free_q"} : fifo'[o] = fifo[o] /\ Filled(o)' = Filled(o) /\ Empty(o)' = Empty(o)
      /\ fifo'["free_q"].read = fifo["free_q"].read
      /\ \A x \in Int : x <= Filled("free_q") => x <= Filled("free_q")'
  BY <1>1, <1>2, <1>3, <1>4, PutKeeps
<1>g. /\ num <= Filled("free_q") => num <= Filled("free_q")'
      /\ 1 <= Filled("free_q") => 1 <= Filled("free_q")'
      /\ Len(hand["kthread"]) <= Filled("free_q") => Len(hand["kthread"]) <= Filled("free_q")'
  <2>1. num \in Int /\ 1 \in Int /\ Len(hand["kthread"]) \in Int
    BY <1>2, <1>3, Ints
  <2>2. \A x \in Int : x <= Filled("free_q") => x <= Filled("free_q")'
    BY <1>5
  <2>. HIDE DEF Filled, Empty
  <2>. QED BY <2>1, <2>2
<1>o. \A t \in Threads : \A q \in Queues : t # "kthread" =>
        /\ q # "free_q" /\ SawReader(t, q) => SawReader(t, q)'
        /\ q # "" /\ SawWriter(t, q) => SawWriter(t, q)'
        /\ fifo'[q].read = fifo[q].read => Visible(t, q)' = Visible(t, q)
        /\ fifo'[q].write = fifo[q].write => RoomSeen(t, q)' = RoomSeen(t, q)
  BY <1>1, <1>2, <1>5, <1>p, Others
<1>6. /\ pool' \subseteq bound.mbufs /\ hand' \in [Threads -> Seq(Entries \cup Nat)]
      /\ \A x : x \in pool' <=> (x \in pool \/ \E k \in Accepted("kthread", "free_q") + 1 .. Len(hand["kthread"]) : hand["kthread"][k] = x)
  <2>1. pool' \subseteq bound.mbufs /\ hand' \in [Threads -> Seq(Entries \cup Nat)]
    BY <1>1, <1>2, <1>3 DEF Typed
  <2>2. Accepted("kthread", "free_q") = Len(hand["kthread"])
    <3>1. Len(hand["kthread"]) <= RoomSeen("kthread", "free_q")
      BY <1>1, <1>2, <1>3, <1>4, Ints DEF Counts, KthreadCounts, XmitCounts
    <3>2. RoomSeen("kthread", "free_q") \in Nat
      BY <1>2, <1>3, <1>4, Ints
    <3>. DEFINE a == Accepted("kthread", "free_q")  h == Len(hand["kthread"])  r == RoomSeen("kthread", "free_q")
    <3>3. a = Smaller(h, r) /\ h <= r /\ r \in Nat /\ h \in Nat
      BY <1>5, <3>1, <3>2
    <3>. HIDE DEF a, h, r
    <3>4. a = h
      BY <3>3 DEF Smaller
    <3>. QED BY <3>4 DEF a, h
  <2>3. Accepted("kthread", "free_q") + 1 .. Len(hand["kthread"]) = {}
    <3>. DEFINE a == Accepted("kthread", "free_q")  h == Len(hand["kthread"])
    <3>1. a = h /\ h \in Nat
      BY <1>5, <2>2
    <3>. HIDE DEF a, h
    <3>2. a + 1 .. h = {}
      BY <3>1
    <3>. QED BY <3>2 DEF a, h
  <2>. QED BY <1>1, <2>1, <2>3
<1>7. Typed'
  BY <1>1, <1>2, <1>3, <1>6 DEF Typed, Slots, KNI_FIFO_COUNT_MAX, IngressLabels, EgressLabels, KthreadLabels, XmitLabels, CallerLabels, Labels
<1>8. HandsOK'
  BY <1>1, <1>2, <1>3, <1>5, <1>4 DEF HandsOK, Typed, Threads, Burst
<1>9. Sights'
  <2>1. CallerSights'
    BY <1>2, <1>3, <1>p, <1>o DEF Sights, CallerSights, Queues
  <2>2. ApplicationSights'
    BY <1>2, <1>3, <1>p, <1>o DEF Sights, ApplicationSights, Queues
  <2>3. KernelSights'
    BY <1>2, <1>3, <1>p, <1>o DEF Sights, KernelSights, Queues
  <2>. QED BY <2>1, <2>2, <2>3 DEF Sights
<1>10. Counts'
  <2>1. CallerCounts'
    BY <1>1, <1>2, <1>3, <1>p, <1>5, <1>o, <1>g, Ints DEF Counts, CallerCounts, Queues
  <2>2. KthreadCounts'
    BY <1>1, <1>2, <1>3, <1>p, <1>5, <1>o, <1>g, Ints DEF Counts, KthreadCounts, Queues
  <2>3. XmitCounts'
    BY <1>1, <1>2, <1>3, <1>p, <1>5, <1>o, <1>g, Ints DEF Counts, XmitCounts, Queues
  <2>. QED BY <2>1, <2>2, <2>3 DEF Counts
<1>11. LockOK' /\ RequestsOK' /\ Pending' /\ Answers'
  BY <1>1, <1>3, <1>5, <1>p, Unasked DEF Queues
<1>12. Conserved'
  <2>1. hand'["kthread"] = <<>> /\ \A r \in Movers \ {"kthread"} : hand'[r] = hand[r]
    BY <1>1, <1>2, <1>3, Names DEF Typed
  <2>. QED BY <1>1, <1>3, <1>4, <1>6, <2>1, StoredKeeps
<1>. QED BY <1>5, <1>7, <1>8, <1>9, <1>10, <1>11, <1>12 DEF IInv

(* Xmit: what it counts, it relies on.                                      *)
LEMMA XmitStep ==
  ASSUME IInv, Xmit
  PROVE  IInv'
<1>1. /\ pc["xmit"] = "idle"
      /\ pc' = [pc EXCEPT !["xmit"] = "get"]
      /\ seen' = [seen EXCEPT !["xmit"] = fifo["alloc_q"].write]
      /\ hand' = hand
      /\ pool' = pool
      /\ fifo' = fifo
      /\ num' = num
      /\ sync' = sync /\ sync_lock' = sync_lock /\ asked' = asked /\ told' = told /\ timeouts' = timeouts
      /\ bound' = bound
  BY DEF Xmit, At, Goto, Look, requests
<1>2. /\ Typed /\ FifosOK /\ HandsOK /\ LockOK /\ Sights /\ Counts /\ RequestsOK /\ Pending
      /\ Answers /\ Conserved
  BY Parts
<1>3. /\ "xmit" \in Threads /\ "xmit" \in Movers
      /\ \A c \in Callers : c # "xmit" /\ c \in Threads
      /\ {"ingress", "egress", "kthread", "xmit"} \subseteq Threads
  BY Names DEF Movers, Threads
<1>p. /\ pc'["xmit"] = "get"
      /\ \A t \in Threads \ {"xmit"} : pc'[t] = pc[t] /\ seen'[t] = seen[t] /\ hand'[t] = hand[t]
      /\ hand'["xmit"] = hand["xmit"]
  BY <1>1, <1>2, <1>3 DEF Typed
<1>5. /\ KeptSights("", "") /\ FifosOK'
      /\ \A q \in Queues : Filled(q)' = Filled(q) /\ Empty(q)' = Empty(q)
      /\ fifo' = fifo
  BY <1>1, <1>2, NoFifo
<1>o. \A t \in Threads : \A q \in Queues : t # "xmit" =>
        /\ q # "" /\ SawReader(t, q) => SawReader(t, q)'
        /\ q # "" /\ SawWriter(t, q) => SawWriter(t, q)'
        /\ fifo'[q].read = fifo[q].read => Visible(t, q)' = Visible(t, q)
        /\ fifo'[q].write = fifo[q].write => RoomSeen(t, q)' = RoomSeen(t, q)
  BY <1>1, <1>2, <1>5, <1>p, Others
<1>f. SawWriter("xmit", "alloc_q")' /\ Visible("xmit", "alloc_q")' = Filled("alloc_q")
  <2>1. "alloc_q" \in Queues /\ seen'["xmit"] = fifo["alloc_q"].write /\ fifo'["alloc_q"] = fifo["alloc_q"]
    BY <1>1, <1>2, <1>3, <1>5 DEF Queues, Typed
  <2>. QED BY <1>1, <1>2, <1>3, <2>1, Looked
<1>6. pool' \subseteq bound.mbufs /\ hand' \in [Threads -> Seq(Entries \cup Nat)]
  BY <1>1, <1>2, <1>3 DEF Typed
<1>7. Typed'
  <2>1. seen' \in [Threads -> Slots]
    BY <1>1, <1>2, <1>3 DEF Typed, FifosOK, Queues
  <2>. QED BY <1>1, <1>2, <1>3, <1>6, <2>1 DEF Typed, Slots, KNI_FIFO_COUNT_MAX, IngressLabels, EgressLabels, KthreadLabels, XmitLabels, CallerLabels, Labels
<1>8. HandsOK'
  BY <1>1, <1>2, <1>3, <1>5 DEF HandsOK, Typed, Threads, Burst
<1>9. Sights'
  <2>1. CallerSights'
    BY <1>2, <1>3, <1>p, <1>o DEF Sights, CallerSights, Queues
  <2>2. ApplicationSights'
    BY <1>2, <1>3, <1>p, <1>o, <1>f DEF Sights, ApplicationSights, Queues
  <2>3. KernelSights'
    BY <1>2, <1>3, <1>p, <1>o, <1>f DEF Sights, KernelSights, Queues
  <2>. QED BY <2>1, <2>2, <2>3 DEF Sights
<1>10. Counts'
  <2>1. CallerCounts'
    BY <1>1, <1>2, <1>3, <1>p, <1>5, <1>o, Ints DEF Counts, CallerCounts, Queues
  <2>2. KthreadCounts'
    BY <1>1, <1>2, <1>3, <1>p, <1>5, <1>o, <1>f, Ints DEF Counts, KthreadCounts, Queues
  <2>3. XmitCounts'
    <3>1. kni_fifo_free_count("tx_q") > 0 /\ kni_fifo_count("alloc_q") > 0
      BY DEF Xmit
    <3>2. kni_fifo_free_count("tx_q") = Empty("tx_q") /\ kni_fifo_count("alloc_q") = Filled("alloc_q")
      BY <1>2, CountOf DEF Queues
    <3>3. Empty("tx_q") \in Nat /\ Filled("alloc_q") \in Nat
      BY <1>2, Ints DEF Queues
    <3>4. 1 <= Empty("tx_q") /\ 1 <= Filled("alloc_q")
      BY <3>1, <3>2, <3>3
    <3>5. Empty("tx_q")' = Empty("tx_q") /\ Visible("xmit", "alloc_q")' = Filled("alloc_q") /\ pc'["xmit"] = "get"
      BY <1>5, <1>f, <1>p DEF Queues
    <3>. QED BY <3>4, <3>5 DEF XmitCounts
  <2>. QED BY <2>1, <2>2, <2>3 DEF Counts
<1>11. LockOK' /\ RequestsOK' /\ Pending' /\ Answers'
  BY <1>1, <1>3, <1>5, <1>p, Unasked DEF Queues
<1>12. Conserved'
  BY <1>1, NothingMoves
<1>. QED BY <1>5, <1>7, <1>8, <1>9, <1>10, <1>11, <1>12 DEF IInv

(* KernelRx: what it counts, it relies on.                                  *)
LEMMA KernelRxStep ==
  ASSUME IInv, KernelRx
  PROVE  IInv'
<1>1. /\ pc["kthread"] = "idle"
      /\ pc' = [pc EXCEPT !["kthread"] = IF RxCount = 0 THEN "poll" ELSE "rx"]
      /\ num' = RxCount
      /\ hand' = hand
      /\ pool' = pool
      /\ fifo' = fifo
      /\ seen' = seen
      /\ sync' = sync /\ sync_lock' = sync_lock /\ asked' = asked /\ told' = told /\ timeouts' = timeouts
      /\ bound' = bound
  BY DEF KernelRx, At, Goto, Look, requests
<1>2. /\ Typed /\ FifosOK /\ HandsOK /\ LockOK /\ Sights /\ Counts /\ RequestsOK /\ Pending
      /\ Answers /\ Conserved
  BY Parts
<1>3. /\ "kthread" \in Threads /\ "kthread" \in Movers
      /\ \A c \in Callers : c # "kthread" /\ c \in Threads
      /\ {"ingress", "egress", "kthread", "xmit"} \subseteq Threads
  BY Names DEF Movers, Threads
<1>p. /\ pc'["kthread"] = IF RxCount = 0 THEN "poll" ELSE "rx"
      /\ \A t \in Threads \ {"kthread"} : pc'[t] = pc[t] /\ seen'[t] = seen[t] /\ hand'[t] = hand[t]
      /\ seen'["kthread"] = seen["kthread"]/\ hand'["kthread"] = hand["kthread"]
  BY <1>1, <1>2, <1>3 DEF Typed
<1>5. /\ KeptSights("", "") /\ FifosOK'
      /\ \A q \in Queues : Filled(q)' = Filled(q) /\ Empty(q)' = Empty(q)
      /\ fifo' = fifo
  BY <1>1, <1>2, NoFifo
<1>r. /\ RxCount \in 0 .. MAX_MBUF_BURST_NUM /\ RxCount <= Filled("rx_q") /\ RxCount <= Empty("free_q")
  <2>1. kni_fifo_count("rx_q") = Filled("rx_q") /\ kni_fifo_free_count("free_q") = Empty("free_q")
    BY <1>2, CountOf DEF Queues
  <2>2. Filled("rx_q") \in Nat /\ Empty("free_q") \in Nat
    BY <1>2, Ints DEF Queues
  <2>. QED BY <2>1, <2>2, BurstAssumption DEF RxCount, Least3, Smaller
<1>o. \A t \in Threads : \A q \in Queues : t # "kthread" =>
        /\ q # "" /\ SawReader(t, q) => SawReader(t, q)'
        /\ q # "" /\ SawWriter(t, q) => SawWriter(t, q)'
        /\ fifo'[q].read = fifo[q].read => Visible(t, q)' = Visible(t, q)
        /\ fifo'[q].write = fifo[q].write => RoomSeen(t, q)' = RoomSeen(t, q)
  BY <1>1, <1>2, <1>5, <1>p, Others
<1>6. pool' \subseteq bound.mbufs /\ hand' \in [Threads -> Seq(Entries \cup Nat)]
  BY <1>1, <1>2, <1>3 DEF Typed
<1>7. Typed'
  BY <1>1, <1>2, <1>3, <1>6, <1>r DEF Typed, Slots, KNI_FIFO_COUNT_MAX, IngressLabels, EgressLabels, KthreadLabels, XmitLabels, CallerLabels, Labels
<1>8. HandsOK'
  BY <1>1, <1>2, <1>3, <1>5 DEF HandsOK, Typed, Threads, Burst
<1>9. Sights'
  <2>1. CallerSights'
    BY <1>2, <1>3, <1>p, <1>o DEF Sights, CallerSights, Queues
  <2>2. ApplicationSights'
    BY <1>2, <1>3, <1>p, <1>o DEF Sights, ApplicationSights, Queues
  <2>3. KernelSights'
    BY <1>2, <1>3, <1>p, <1>o DEF Sights, KernelSights, Queues
  <2>. QED BY <2>1, <2>2, <2>3 DEF Sights
<1>10. Counts'
  <2>1. CallerCounts'
    BY <1>1, <1>2, <1>3, <1>p, <1>5, <1>o, Ints DEF Counts, CallerCounts, Queues
  <2>2. KthreadCounts'
    <3>1. /\ pc'["kthread"] = "poll" \/ pc'["kthread"] = "rx"
          /\ num' = RxCount
      BY <1>1, <1>p
    <3>2. Filled("rx_q")' = Filled("rx_q") /\ Empty("free_q")' = Empty("free_q")
      BY <1>5 DEF Queues
    <3>. QED BY <1>r, <3>1, <3>2 DEF KthreadCounts
  <2>3. XmitCounts'
    BY <1>1, <1>2, <1>3, <1>p, <1>5, <1>o, Ints DEF Counts, XmitCounts, Queues
  <2>. QED BY <2>1, <2>2, <2>3 DEF Counts
<1>11. LockOK' /\ RequestsOK' /\ Pending' /\ Answers'
  BY <1>1, <1>3, <1>5, <1>p, Unasked DEF Queues
<1>12. Conserved'
  BY <1>1, NothingMoves
<1>. QED BY <1>5, <1>7, <1>8, <1>9, <1>10, <1>11, <1>12 DEF IInv

(* KernelGet: as many mbufs as counted.                                     *)
LEMMA KernelGetStep ==
  ASSUME IInv, KernelGet
  PROVE  IInv'
<1>1. /\ pc["kthread"] = "get"
      /\ pc' = [pc EXCEPT !["kthread"] = "copied"]
      /\ Get("kthread", "rx_q", num)
      /\ hand' = [hand EXCEPT !["kthread"] = Got("kthread", "rx_q", num)]
      /\ num' = num
      /\ pool' = pool
      /\ seen' = seen
      /\ sync' = sync /\ sync_lock' = sync_lock /\ asked' = asked /\ told' = told /\ timeouts' = timeouts
      /\ bound' = bound
  BY DEF KernelGet, At, Goto, Look, requests
<1>2. /\ Typed /\ FifosOK /\ HandsOK /\ LockOK /\ Sights /\ Counts /\ RequestsOK /\ Pending
      /\ Answers /\ Conserved
  BY Parts
<1>3. /\ "kthread" \in Threads /\ "kthread" \in Movers
      /\ \A c \in Callers : c # "kthread" /\ c \in Threads
      /\ {"ingress", "egress", "kthread", "xmit"} \subseteq Threads
  BY Names DEF Movers, Threads
<1>p. /\ pc'["kthread"] = "copied"
      /\ \A t \in Threads \ {"kthread"} : pc'[t] = pc[t] /\ seen'[t] = seen[t] /\ hand'[t] = hand[t]
      /\ seen'["kthread"] = seen["kthread"]/\ hand'["kthread"] = Got("kthread", "rx_q", num)
  BY <1>1, <1>2, <1>3 DEF Typed
<1>4. /\ SawWriter("kthread", "rx_q") /\ "rx_q" \in Queues /\ "rx_q" \in PacketQueues /\ num \in Nat
      /\ Content("rx_q", bound) = bound.mbufs /\ bound.mbufs \subseteq Entries
  BY <1>1, <1>2, Size, Ints, BurstAssumption DEF Sights, ApplicationSights, KernelSights, Content, Queues, PacketQueues, Entries
<1>5. /\ KeptSights("", "rx_q") /\ FifosOK'
      /\ Got("kthread", "rx_q", num) \in Seq(bound.mbufs) /\ Len(Got("kthread", "rx_q", num)) \in 0 .. num
      /\ Len(Got("kthread", "rx_q", num)) = Smaller(num, Visible("kthread", "rx_q"))
      /\ Filled("rx_q")' = Filled("rx_q") - Len(Got("kthread", "rx_q", num))
      /\ Empty("rx_q")' = Empty("rx_q") + Len(Got("kthread", "rx_q", num))
      /\ \A o \in Queues \ {"rx_q"} : fifo'[o] = fifo[o] /\ Filled(o)' = Filled(o) /\ Empty(o)' = Empty(o)
      /\ fifo'["rx_q"].write = fifo["rx_q"].write
      /\ \A x \in Int : x <= Empty("rx_q") => x <= Empty("rx_q")'
  BY <1>1, <1>2, <1>3, <1>4, GetKeeps
<1>g. /\ num <= Empty("rx_q") => num <= Empty("rx_q")'
      /\ 1 <= Empty("rx_q") => 1 <= Empty("rx_q")'
      /\ Len(hand["kthread"]) <= Empty("rx_q") => Len(hand["kthread"]) <= Empty("rx_q")'
  <2>1. num \in Int /\ 1 \in Int /\ Len(hand["kthread"]) \in Int
    BY <1>2, <1>3, Ints
  <2>2. \A x \in Int : x <= Empty("rx_q") => x <= Empty("rx_q")'
    BY <1>5
  <2>. HIDE DEF Filled, Empty
  <2>. QED BY <2>1, <2>2
<1>o. \A t \in Threads : \A q \in Queues : t # "kthread" =>
        /\ q # "" /\ SawReader(t, q) => SawReader(t, q)'
        /\ q # "rx_q" /\ SawWriter(t, q) => SawWriter(t, q)'
        /\ fifo'[q].read = fifo[q].read => Visible(t, q)' = Visible(t, q)
        /\ fifo'[q].write = fifo[q].write => RoomSeen(t, q)' = RoomSeen(t, q)
  BY <1>1, <1>2, <1>5, <1>p, Others
<1>6. pool' \subseteq bound.mbufs /\ hand' \in [Threads -> Seq(Entries \cup Nat)]
  <2>1. Got("kthread", "rx_q", num) \in Seq(Entries \cup Nat)
    <3>. DEFINE g == Got("kthread", "rx_q", num)
    <3>1. g \in Seq(bound.mbufs) /\ bound.mbufs \subseteq Entries \cup Nat
      BY <1>4, <1>5
    <3>. HIDE DEF g
    <3>2. g \in Seq(Entries \cup Nat)
      BY <3>1, Wider
    <3>. QED BY <3>2 DEF g
  <2>. QED BY <1>1, <1>2, <2>1 DEF Typed
<1>t. pc' = [pc EXCEPT !["kthread"] = "copied"] /\ num' = num /\ seen' = seen /\ bound' = bound
  BY <1>1
<1>7. Typed'
  BY <1>t, <1>2, <1>3, <1>6 DEF Typed, Slots, KNI_FIFO_COUNT_MAX, IngressLabels, EgressLabels, KthreadLabels, XmitLabels, CallerLabels, Labels
<1>8. HandsOK'
  <2>1. Burst(hand'["kthread"], bound) /\ bound' = bound
    <3>. DEFINE g == Got("kthread", "rx_q", num)
    <3>0. num \in Nat /\ num <= MAX_MBUF_BURST_NUM /\ MAX_MBUF_BURST_NUM \in Nat
      BY <1>2, Ints, BurstAssumption
    <3>1. g \in Seq(bound.mbufs) /\ Len(g) \in 0 .. num
      BY <1>4, <1>5
    <3>2. hand'["kthread"] = g /\ bound' = bound
      BY <1>1, <1>p
    <3>. HIDE DEF g
    <3>3. Len(g) <= MAX_MBUF_BURST_NUM
      <4>. DEFINE l == Len(g)
      <4>1. l \in 0 .. num
        BY <3>1
      <4>. HIDE DEF l
      <4>2. l <= MAX_MBUF_BURST_NUM
        BY <3>0, <4>1
      <4>. QED BY <4>2 DEF l
    <3>. QED BY <3>1, <3>2, <3>3 DEF Burst
  <2>. QED BY <1>2, <1>3, <1>p, <2>1 DEF HandsOK
<1>9. Sights'
  <2>1. CallerSights'
    BY <1>2, <1>3, <1>p, <1>o DEF Sights, CallerSights, Queues
  <2>2. ApplicationSights'
    BY <1>2, <1>3, <1>p, <1>o DEF Sights, ApplicationSights, Queues
  <2>3. KernelSights'
    BY <1>2, <1>3, <1>p, <1>o DEF Sights, KernelSights, Queues
  <2>. QED BY <2>1, <2>2, <2>3 DEF Sights
<1>10. Counts'
  <2>1. CallerCounts'
    BY <1>1, <1>2, <1>3, <1>p, <1>5, <1>o, <1>g, Ints DEF Counts, CallerCounts, Queues
  <2>2. KthreadCounts'
    <3>1. /\ hand'["kthread"] = Got("kthread", "rx_q", num) /\ pc'["kthread"] = "copied"
          /\ num <= Empty("free_q") /\ Empty("free_q")' = Empty("free_q")
      BY <1>1, <1>2, <1>p, <1>5 DEF Counts, KthreadCounts, Queues
    <3>. DEFINE l == Len(Got("kthread", "rx_q", num))  e == Empty("free_q")
    <3>2. l \in 0 .. num /\ num \in Nat /\ num <= e /\ e \in Nat
      BY <1>2, <1>5, <3>1, Ints DEF Queues
    <3>. HIDE DEF l, e
    <3>3. l <= e
      BY <3>2
    <3>4. Len(hand'["kthread"]) <= Empty("free_q")'
      BY <3>1, <3>3 DEF l, e
    <3>. QED BY <3>1, <3>4 DEF KthreadCounts
  <2>3. XmitCounts'
    BY <1>1, <1>2, <1>3, <1>p, <1>5, <1>o, <1>g, Ints DEF Counts, XmitCounts, Queues
  <2>. QED BY <2>1, <2>2, <2>3 DEF Counts
<1>11. LockOK' /\ RequestsOK' /\ Pending' /\ Answers'
  BY <1>1, <1>3, <1>5, <1>p, Unasked DEF Queues
<1>12. Conserved'
  <2>1. hand'["kthread"] = Got("kthread", "rx_q", num) /\ hand["kthread"] = <<>> /\ \A r \in Movers \ {"kthread"} : hand'[r] = hand[r]
    BY <1>1, <1>2, <1>3, Names DEF Typed, HandsOK
  <2>. QED BY <1>1, <1>3, <1>4, <2>1, FetchedKeeps
<1>. QED BY <1>5, <1>7, <1>8, <1>9, <1>10, <1>11, <1>12 DEF IInv

(* XmitGet: one mbuf, and a look at tx_q.                                   *)
LEMMA XmitGetStep ==
  ASSUME IInv, XmitGet
  PROVE  IInv'
<1>1. /\ pc["xmit"] = "get"
      /\ pc' = [pc EXCEPT !["xmit"] = "put"]
      /\ Get("xmit", "alloc_q", 1)
      /\ hand' = [hand EXCEPT !["xmit"] = Got("xmit", "alloc_q", 1)]
      /\ num' = num
      /\ pool' = pool
      /\ seen' = [seen EXCEPT !["xmit"] = fifo["tx_q"].read]
      /\ sync' = sync /\ sync_lock' = sync_lock /\ asked' = asked /\ told' = told /\ timeouts' = timeouts
      /\ bound' = bound
  BY DEF XmitGet, At, Goto, Look, requests
<1>2. /\ Typed /\ FifosOK /\ HandsOK /\ LockOK /\ Sights /\ Counts /\ RequestsOK /\ Pending
      /\ Answers /\ Conserved
  BY Parts
<1>3. /\ "xmit" \in Threads /\ "xmit" \in Movers
      /\ \A c \in Callers : c # "xmit" /\ c \in Threads
      /\ {"ingress", "egress", "kthread", "xmit"} \subseteq Threads
  BY Names DEF Movers, Threads
<1>p. /\ pc'["xmit"] = "put"
      /\ \A t \in Threads \ {"xmit"} : pc'[t] = pc[t] /\ seen'[t] = seen[t] /\ hand'[t] = hand[t]
      /\ hand'["xmit"] = Got("xmit", "alloc_q", 1)
  BY <1>1, <1>2, <1>3 DEF Typed
<1>4. /\ SawWriter("xmit", "alloc_q") /\ "alloc_q" \in Queues /\ "alloc_q" \in PacketQueues /\ 1 \in Nat
      /\ Content("alloc_q", bound) = bound.mbufs /\ bound.mbufs \subseteq Entries
  BY <1>1, <1>2, Size, Ints, BurstAssumption DEF Sights, ApplicationSights, KernelSights, Content, Queues, PacketQueues, Entries
<1>5. /\ KeptSights("", "alloc_q") /\ FifosOK'
      /\ Got("xmit", "alloc_q", 1) \in Seq(bound.mbufs) /\ Len(Got("xmit", "alloc_q", 1)) \in 0 .. 1
      /\ Len(Got("xmit", "alloc_q", 1)) = Smaller(1, Visible("xmit", "alloc_q"))
      /\ Filled("alloc_q")' = Filled("alloc_q") - Len(Got("xmit", "alloc_q", 1))
      /\ Empty("alloc_q")' = Empty("alloc_q") + Len(Got("xmit", "alloc_q", 1))
      /\ \A o \in Queues \ {"alloc_q"} : fifo'[o] = fifo[o] /\ Filled(o)' = Filled(o) /\ Empty(o)' = Empty(o)
      /\ fifo'["alloc_q"].write = fifo["alloc_q"].write
      /\ \A x \in Int : x <= Empty("alloc_q") => x <= Empty("alloc_q")'
  BY <1>1, <1>2, <1>3, <1>4, GetKeeps
<1>g. /\ num <= Empty("alloc_q") => num <= Empty("alloc_q")'
      /\ 1 <= Empty("alloc_q") => 1 <= Empty("alloc_q")'
      /\ Len(hand["kthread"]) <= Empty("alloc_q") => Len(hand["kthread"]) <= Empty("alloc_q")'
  <2>1. num \in Int /\ 1 \in Int /\ Len(hand["kthread"]) \in Int
    BY <1>2, <1>3, Ints
  <2>2. \A x \in Int : x <= Empty("alloc_q") => x <= Empty("alloc_q")'
    BY <1>5
  <2>. HIDE DEF Filled, Empty
  <2>. QED BY <2>1, <2>2
<1>o. \A t \in Threads : \A q \in Queues : t # "xmit" =>
        /\ q # "" /\ SawReader(t, q) => SawReader(t, q)'
        /\ q # "alloc_q" /\ SawWriter(t, q) => SawWriter(t, q)'
        /\ fifo'[q].read = fifo[q].read => Visible(t, q)' = Visible(t, q)
        /\ fifo'[q].write = fifo[q].write => RoomSeen(t, q)' = RoomSeen(t, q)
  BY <1>1, <1>2, <1>5, <1>p, Others
<1>f. SawReader("xmit", "tx_q")' /\ RoomSeen("xmit", "tx_q")' = Empty("tx_q")
  <2>1. "tx_q" \in Queues /\ seen'["xmit"] = fifo["tx_q"].read /\ fifo'["tx_q"] = fifo["tx_q"]
    BY <1>1, <1>2, <1>3, <1>5 DEF Queues, Typed
  <2>. QED BY <1>1, <1>2, <1>3, <2>1, Looked
<1>6. pool' \subseteq bound.mbufs /\ hand' \in [Threads -> Seq(Entries \cup Nat)]
  <2>1. Got("xmit", "alloc_q", 1) \in Seq(Entries \cup Nat)
    <3>. DEFINE g == Got("xmit", "alloc_q", 1)
    <3>1. g \in Seq(bound.mbufs) /\ bound.mbufs \subseteq Entries \cup Nat
      BY <1>4, <1>5
    <3>. HIDE DEF g
    <3>2. g \in Seq(Entries \cup Nat)
      BY <3>1, Wider
    <3>. QED BY <3>2 DEF g
  <2>. QED BY <1>1, <1>2, <2>1 DEF Typed
<1>t. pc' = [pc EXCEPT !["xmit"] = "put"] /\ num' = num /\ bound' = bound
  BY <1>1
<1>7. Typed'
  <2>1. seen' \in [Threads -> Slots]
    BY <1>1, <1>2, <1>3 DEF Typed, FifosOK, Queues
  <2>. QED BY <1>t, <1>2, <1>3, <1>6, <2>1 DEF Typed, Slots, KNI_FIFO_COUNT_MAX, IngressLabels, EgressLabels, KthreadLabels, XmitLabels, CallerLabels, Labels
<1>8. HandsOK'
  <2>1. Burst(hand'["xmit"], bound) /\ bound' = bound
    <3>. DEFINE g == Got("xmit", "alloc_q", 1)
    <3>0. 1 \in Nat /\ 1 <= MAX_MBUF_BURST_NUM /\ MAX_MBUF_BURST_NUM \in Nat
      BY <1>2, Ints, BurstAssumption
    <3>1. g \in Seq(bound.mbufs) /\ Len(g) \in 0 .. 1
      BY <1>4, <1>5
    <3>2. hand'["xmit"] = g /\ bound' = bound
      BY <1>1, <1>p
    <3>. HIDE DEF g
    <3>3. Len(g) <= MAX_MBUF_BURST_NUM
      <4>. DEFINE l == Len(g)
      <4>1. l \in 0 .. 1
        BY <3>1
      <4>. HIDE DEF l
      <4>2. l <= MAX_MBUF_BURST_NUM
        BY <3>0, <4>1
      <4>. QED BY <4>2 DEF l
    <3>. QED BY <3>1, <3>2, <3>3 DEF Burst
  <2>. QED BY <1>2, <1>3, <1>p, <2>1 DEF HandsOK
<1>9. Sights'
  <2>1. CallerSights'
    BY <1>2, <1>3, <1>p, <1>o DEF Sights, CallerSights, Queues
  <2>2. ApplicationSights'
    BY <1>2, <1>3, <1>p, <1>o, <1>f DEF Sights, ApplicationSights, Queues
  <2>3. KernelSights'
    BY <1>2, <1>3, <1>p, <1>o, <1>f DEF Sights, KernelSights, Queues
  <2>. QED BY <2>1, <2>2, <2>3 DEF Sights
<1>10. Counts'
  <2>1. CallerCounts'
    BY <1>1, <1>2, <1>3, <1>p, <1>5, <1>o, <1>g, Ints DEF Counts, CallerCounts, Queues
  <2>2. KthreadCounts'
    BY <1>1, <1>2, <1>3, <1>p, <1>5, <1>o, <1>f, <1>g, Ints DEF Counts, KthreadCounts, Queues
  <2>3. XmitCounts'
    <3>. DEFINE l == Len(Got("xmit", "alloc_q", 1))  v == Visible("xmit", "alloc_q")
    <3>1. /\ hand'["xmit"] = Got("xmit", "alloc_q", 1) /\ pc'["xmit"] = "put"
          /\ 1 <= Empty("tx_q") /\ 1 <= v
          /\ RoomSeen("xmit", "tx_q")' = Empty("tx_q")
      BY <1>1, <1>2, <1>p, <1>f DEF Counts, XmitCounts
    <3>2. l = Smaller(1, v) /\ v \in Nat /\ 1 <= v
      BY <1>2, <1>3, <1>4, <1>5, <3>1, Ints
    <3>. HIDE DEF l, v
    <3>3. l = 1
      BY <3>2 DEF Smaller
    <3>4. Len(hand'["xmit"]) = 1 /\ 1 <= RoomSeen("xmit", "tx_q")'
      BY <3>1, <3>3 DEF l
    <3>. QED BY <3>1, <3>4 DEF XmitCounts
  <2>. QED BY <2>1, <2>2, <2>3 DEF Counts
<1>11. LockOK' /\ RequestsOK' /\ Pending' /\ Answers'
  BY <1>1, <1>3, <1>5, <1>p, Unasked DEF Queues
<1>12. Conserved'
  <2>1. hand'["xmit"] = Got("xmit", "alloc_q", 1) /\ hand["xmit"] = <<>> /\ \A r \in Movers \ {"xmit"} : hand'[r] = hand[r]
    BY <1>1, <1>2, <1>3, Names DEF Typed, HandsOK
  <2>. QED BY <1>1, <1>3, <1>4, <2>1, FetchedKeeps
<1>. QED BY <1>5, <1>7, <1>8, <1>9, <1>10, <1>11, <1>12 DEF IInv

-----------------------------------------------------------------------------
(* The steps of the requests.                                               *)

(* A caller that is not idle has the lock; without it all are.               *)
LEMMA Alone ==
  ASSUME LockOK, NEW c \in Callers
  PROVE  /\ sync_lock = None => pc[c] = "idle"
         /\ pc[c] # "idle" => sync_lock = c /\ \A d \in Callers \ {c} : pc[d] = "idle"
         /\ None \notin Callers
  BY ValuesAssumption DEF LockOK

(* The numbers Pending adds.                                                *)
LEMMA Numbers ==
  ASSUME Typed, FifosOK, RequestsOK
  PROVE  /\ Filled("req_q") \in Nat /\ Filled("resp_q") \in Nat /\ timeouts \in Nat /\ bound.slots \in Nat
         /\ bound.slots >= 2
<1>1. bound.slots \in Sizes /\ bound.timeouts \in Nat
  BY Size
<1>2. bound.slots \in Nat /\ bound.slots >= 2
  BY <1>1 DEF Sizes
<1>3. timeouts \in Nat
  BY <1>1 DEF RequestsOK
<1>4. Filled("req_q") \in Nat /\ Filled("resp_q") \in Nat
  BY Ints DEF Queues
<1>. QED BY <1>2, <1>3, <1>4

(* The values that pass between the threads are not mbufs.                  *)
LEMMA NotAnMbuf ==
  ASSUME Typed, NEW m \in bound.mbufs, NEW x, x \in Nat \cup {sync_va}
  PROVE  m # x
  BY Size, ValuesAssumption

(* HandlerLook: ingress sees what req_q holds.                              *)
LEMMA HandlerLookStep ==
  ASSUME IInv, HandlerLook, num' = num
  PROVE  IInv'
<1>1. /\ pc["ingress"] = "request"
      /\ pc' = [pc EXCEPT !["ingress"] = "handle"]
      /\ seen' = [seen EXCEPT !["ingress"] = fifo["req_q"].write]
      /\ hand' = hand
      /\ pool' = pool
      /\ fifo' = fifo
      /\ num' = num
      /\ sync' = sync /\ sync_lock' = sync_lock /\ asked' = asked /\ told' = told /\ timeouts' = timeouts
      /\ bound' = bound
  BY DEF HandlerLook, At, Goto, Look, Told, requests
<1>2. /\ Typed /\ FifosOK /\ HandsOK /\ LockOK /\ Sights /\ Counts /\ RequestsOK /\ Pending
      /\ Answers /\ Conserved
  BY Parts
<1>3. /\ "ingress" \in Threads /\ "ingress" \in Movers
      /\ \A d \in Callers : d # "ingress" /\ d \in Threads
      /\ {"ingress", "egress", "kthread", "xmit"} \subseteq Threads
  BY Names DEF Movers, Threads
<1>p. /\ pc'["ingress"] = "handle"
      /\ \A t \in Threads \ {"ingress"} : pc'[t] = pc[t] /\ seen'[t] = seen[t] /\ hand'[t] = hand[t]
      /\ hand'["ingress"] = hand["ingress"]
      /\ seen'["ingress"] = fifo["req_q"].write
  BY <1>1, <1>2, <1>3 DEF Typed
<1>5. /\ KeptSights("", "") /\ FifosOK'
      /\ \A q \in Queues : Filled(q)' = Filled(q) /\ Empty(q)' = Empty(q)
      /\ fifo' = fifo
  BY <1>1, <1>2, NoFifo
<1>o. \A t \in Threads : \A q \in Queues : t # "ingress" =>
        /\ q # "" /\ SawReader(t, q) => SawReader(t, q)'
        /\ q # "" /\ SawWriter(t, q) => SawWriter(t, q)'
        /\ fifo'[q].read = fifo[q].read => Visible(t, q)' = Visible(t, q)
        /\ fifo'[q].write = fifo[q].write => RoomSeen(t, q)' = RoomSeen(t, q)
  BY <1>1, <1>2, <1>5, <1>p, Others
<1>f. SawWriter("ingress", "req_q")' /\ Visible("ingress", "req_q")' = Filled("req_q")
  <2>1. "req_q" \in Queues /\ seen'["ingress"] = fifo["req_q"].write /\ fifo'["req_q"] = fifo["req_q"]
    BY <1>1, <1>2, <1>3, <1>5, <1>p DEF Queues
  <2>. QED BY <1>1, <1>2, <1>3, <2>1, Looked
<1>6. hand' \in [Threads -> Seq(Entries \cup Nat)]
  BY <1>1, <1>2, <1>3 DEF Typed, Entries
<1>t. pc' = [pc EXCEPT !["ingress"] = "handle"] /\ pool' = pool /\ num' = num /\ bound' = bound
  BY <1>1
<1>7. Typed'
  <2>1. seen' \in [Threads -> Slots]
    BY <1>1, <1>2, <1>3 DEF Typed, FifosOK, Queues
  <2>. QED BY <1>t, <1>2, <1>3, <1>6, <2>1 DEF Typed, Slots, KNI_FIFO_COUNT_MAX, IngressLabels, EgressLabels, KthreadLabels, XmitLabels, CallerLabels, Labels
<1>8. HandsOK'
  BY <1>1, <1>2, <1>3, <1>p DEF HandsOK, Burst
<1>9. Sights'
  <2>1. CallerSights'
    BY <1>2, <1>3, <1>p, <1>o, <1>f DEF Sights, CallerSights, Queues
  <2>2. ApplicationSights'
    BY <1>2, <1>3, <1>p, <1>o, <1>f DEF Sights, ApplicationSights, Queues
  <2>3. KernelSights'
    BY <1>2, <1>3, <1>p, <1>o, <1>f DEF Sights, KernelSights, Queues
  <2>. QED BY <2>1, <2>2, <2>3 DEF Sights
<1>10. Counts'
  <2>1. CallerCounts'
    BY <1>1, <1>2, <1>3, <1>p, <1>5, <1>o, <1>f DEF Counts, CallerCounts, Queues
  <2>2. KthreadCounts'
    BY <1>1, <1>2, <1>3, <1>p, <1>5, <1>o DEF Counts, KthreadCounts, Queues
  <2>3. XmitCounts'
    BY <1>1, <1>2, <1>3, <1>p, <1>5, <1>o DEF Counts, XmitCounts, Queues
  <2>. QED BY <2>1, <2>2, <2>3 DEF Counts
<1>a. LockOK'
  BY <1>1, <1>2, <1>3, <1>p DEF LockOK
<1>b. RequestsOK'
  BY <1>1, <1>2 DEF RequestsOK
<1>c. Pending'
  BY <1>1, <1>3, <1>5, <1>p, Unasked
<1>d. Answers'
  BY <1>1, <1>3, <1>5, <1>p, Unasked
<1>12. Conserved'
  <2>. \A q \in PacketQueues : fifo'[q] = fifo[q]
    BY <1>5 DEF PacketQueues, Queues
  <2>. QED BY <1>1, NothingMoves
<1>. QED BY <1>5, <1>7, <1>8, <1>9, <1>10, <1>a, <1>b, <1>c, <1>d, <1>12 DEF IInv

(* HandlerGet: the request under way is handled.                            *)
LEMMA HandlerGetStep ==
  ASSUME IInv, HandlerGet, num' = num
  PROVE  IInv'
<1>1. /\ pc["ingress"] = "handle"
      /\ pc' = [pc EXCEPT !["ingress"] = IF Got("ingress", "req_q", 1) = <<>> THEN "idle" ELSE "answer"]
      /\ hand' = [hand EXCEPT !["ingress"] = IF Got("ingress", "req_q", 1) = <<>> THEN <<>> ELSE <<sync.id>>]
      /\ seen' = seen
      /\ Get("ingress", "req_q", 1)
      /\ pool' = pool
      /\ num' = num
      /\ sync' = sync /\ sync_lock' = sync_lock /\ asked' = asked /\ told' = told /\ timeouts' = timeouts
      /\ bound' = bound
  BY DEF HandlerGet, At, Goto, Look, Told, requests
<1>2. /\ Typed /\ FifosOK /\ HandsOK /\ LockOK /\ Sights /\ Counts /\ RequestsOK /\ Pending
      /\ Answers /\ Conserved
  BY Parts
<1>3. /\ "ingress" \in Threads /\ "ingress" \in Movers
      /\ \A d \in Callers : d # "ingress" /\ d \in Threads
      /\ {"ingress", "egress", "kthread", "xmit"} \subseteq Threads
  BY Names DEF Movers, Threads
<1>p. /\ pc'["ingress"] = IF Got("ingress", "req_q", 1) = <<>> THEN "idle" ELSE "answer"
      /\ \A t \in Threads \ {"ingress"} : pc'[t] = pc[t] /\ seen'[t] = seen[t] /\ hand'[t] = hand[t]
      /\ seen'["ingress"] = seen["ingress"]
      /\ hand'["ingress"] = IF Got("ingress", "req_q", 1) = <<>> THEN <<>> ELSE <<sync.id>>
  BY <1>1, <1>2, <1>3 DEF Typed
<1>4. /\ SawWriter("ingress", "req_q") /\ "req_q" \in Queues /\ Content("req_q", bound) = {sync_va}
  BY <1>1, <1>2 DEF Sights, ApplicationSights, CallerSights, Content, Queues
<1>5. /\ KeptSights("", "req_q") /\ FifosOK'
      /\ Got("ingress", "req_q", 1) \in Seq({sync_va}) /\ Len(Got("ingress", "req_q", 1)) \in 0 .. 1
      /\ Len(Got("ingress", "req_q", 1)) = Smaller(1, Visible("ingress", "req_q"))
      /\ Filled("req_q")' = Filled("req_q") - Len(Got("ingress", "req_q", 1))
      /\ \A o \in Queues \ {"req_q"} : fifo'[o] = fifo[o] /\ Filled(o)' = Filled(o) /\ Empty(o)' = Empty(o)
      /\ fifo'["req_q"].write = fifo["req_q"].write
  BY <1>1, <1>2, <1>3, <1>4, GetKeeps
<1>e. \/ /\ Len(Got("ingress", "req_q", 1)) = 0 /\ pc'["ingress"] = "idle" /\ hand'["ingress"] = <<>>
      \/ /\ Len(Got("ingress", "req_q", 1)) = 1 /\ pc'["ingress"] = "answer" /\ hand'["ingress"] = <<sync.id>>
  <2>. DEFINE g == Got("ingress", "req_q", 1)
  <2>1. g \in Seq({sync_va}) /\ Len(g) \in 0 .. 1
    BY <1>5
  <2>2. /\ pc'["ingress"] = IF g = <<>> THEN "idle" ELSE "answer"
        /\ hand'["ingress"] = IF g = <<>> THEN <<>> ELSE <<sync.id>>
    BY <1>p
  <2>. HIDE DEF g
  <2>3. g = <<>> <=> Len(g) = 0
    BY <2>1
  <2>4. Len(g) = 0 \/ Len(g) = 1
    BY <2>1
  <2>5. CASE Len(g) = 0
    BY <2>2, <2>3, <2>5 DEF g
  <2>6. CASE Len(g) = 1
    BY <2>2, <2>3, <2>6 DEF g
  <2>. QED BY <2>4, <2>5, <2>6
<1>o. \A t \in Threads : \A q \in Queues : t # "ingress" =>
        /\ q # "" /\ SawReader(t, q) => SawReader(t, q)'
        /\ q # "req_q" /\ SawWriter(t, q) => SawWriter(t, q)'
        /\ fifo'[q].read = fifo[q].read => Visible(t, q)' = Visible(t, q)
        /\ fifo'[q].write = fifo[q].write => RoomSeen(t, q)' = RoomSeen(t, q)
  BY <1>1, <1>2, <1>5, <1>p, Others
<1>6. hand' \in [Threads -> Seq(Entries \cup Nat)]
  <2>1. hand'["ingress"] \in Seq(Entries \cup Nat)
    <3>1. sync.id \in Nat
      BY <1>2 DEF RequestsOK
    <3>2. <<sync.id>> \in Seq(Entries \cup Nat) /\ <<>> \in Seq(Entries \cup Nat)
      BY <3>1
    <3>. QED BY <1>e, <3>2
  <2>. QED BY <1>1, <1>2, <2>1 DEF Typed
<1>t. pc' = [pc EXCEPT !["ingress"] = IF Got("ingress", "req_q", 1) = <<>> THEN "idle" ELSE "answer"] /\ seen' = seen /\ pool' = pool /\ num' = num /\ bound' = bound
  BY <1>1
<1>7. Typed'
  BY <1>t, <1>2, <1>3, <1>6 DEF Typed, Slots, KNI_FIFO_COUNT_MAX, IngressLabels, EgressLabels, KthreadLabels, XmitLabels, CallerLabels, Labels
<1>8. HandsOK'
  <2>1. pc'["ingress"] = "answer" => hand'["ingress"] \in Seq(Nat) /\ Len(hand'["ingress"]) = 1
    BY <1>2, <1>p, <1>e DEF RequestsOK
  <2>2. pc'["ingress"] # "answer" => pc'["ingress"] = "idle" /\ hand'["ingress"] = <<>>
    BY <1>p, <1>e
  <2>. QED BY <1>1, <1>2, <1>3, <1>p, <2>1, <2>2 DEF HandsOK, Burst
<1>9. Sights'
  <2>1. CallerSights'
    BY <1>2, <1>3, <1>p, <1>o DEF Sights, CallerSights, Queues
  <2>2. ApplicationSights'
    BY <1>2, <1>3, <1>p, <1>o DEF Sights, ApplicationSights, Queues
  <2>3. KernelSights'
    BY <1>2, <1>3, <1>p, <1>o DEF Sights, KernelSights, Queues
  <2>. QED BY <2>1, <2>2, <2>3 DEF Sights
<1>10. Counts'
  <2>1. CallerCounts'
    BY <1>1, <1>2, <1>3, <1>p, <1>5, <1>o DEF Counts, CallerCounts, Queues
  <2>2. KthreadCounts'
    BY <1>1, <1>2, <1>3, <1>p, <1>5, <1>o DEF Counts, KthreadCounts, Queues
  <2>3. XmitCounts'
    BY <1>1, <1>2, <1>3, <1>p, <1>5, <1>o DEF Counts, XmitCounts, Queues
  <2>. QED BY <2>1, <2>2, <2>3 DEF Counts
<1>a. LockOK'
  BY <1>1, <1>2, <1>3, <1>p DEF LockOK
<1>b. RequestsOK'
  BY <1>1, <1>2 DEF RequestsOK
<1>c. Pending'
  <2>n. Filled("req_q") \in Nat /\ Filled("resp_q") \in Nat /\ timeouts \in Nat /\ bound.slots \in Nat
        /\ bound.slots >= 2
    BY <1>2, Numbers
  <2>1. Awaited' = Awaited /\ Awaited \in Nat
    BY <1>3, <1>p DEF Awaited, Waiting
  <2>2. Handled = 0 /\ Handled' = Len(Got("ingress", "req_q", 1))
    BY <1>1, <1>p, <1>e DEF Handled
  <2>3. Filled("req_q")' = Filled("req_q") - Len(Got("ingress", "req_q", 1)) /\ Filled("resp_q")' = Filled("resp_q")
    BY <1>5 DEF Queues
  <2>4. pc'["ingress"] # "respond" /\ timeouts' = timeouts /\ bound' = bound
    BY <1>1, <1>p
  <2>5. timeouts + 1 < bound.slots => Filled("req_q") + Filled("resp_q") + Handled = timeouts + Awaited
    BY <1>2 DEF Pending
  <2>6. timeouts + 1 < bound.slots => Filled("req_q")' + Filled("resp_q")' + Handled' = timeouts + Awaited
    <3>. DEFINE l == Len(Got("ingress", "req_q", 1))
    <3>1. l \in 0 .. 1
      BY <1>5
    <3>. HIDE DEF l, Filled, Awaited
    <3>2. timeouts + 1 < bound.slots => Filled("req_q") - l + Filled("resp_q") + l = timeouts + Awaited
      BY <2>n, <2>1, <2>2, <2>5, <3>1
    <3>. QED BY <2>2, <2>3, <3>2 DEF l
  <2>. QED BY <2>1, <2>4, <2>6 DEF Pending
<1>d. Answers'
  <2>1. Filled("resp_q")' = Filled("resp_q")
    BY <1>5 DEF Queues
  <2>2. pc'["ingress"] # "respond" /\ (pc'["ingress"] = "answer" => hand'["ingress"][1] = sync.id)
    BY <1>p, <1>e
  <2>. QED BY <1>1, <1>2, <2>1, <2>2 DEF Answers
<1>12. Conserved'
  <2>1. \A x \in Movers \ {"ingress"} : hand'[x] = hand[x]
    BY <1>3, <1>p, Names
  <2>2. \A q \in PacketQueues : fifo'[q] = fifo[q]
    BY <1>5 DEF PacketQueues, Queues
  <2>3. ASSUME NEW m \in bound.mbufs
        PROVE  /\ \A k \in 1 .. Len(hand["ingress"]) : hand["ingress"][k] # m
               /\ \A k \in 1 .. Len(hand'["ingress"]) : hand'["ingress"][k] # m
    <3>1. \A x \in Nat \cup {sync_va} : x # m
      BY <1>2, NotAnMbuf
    <3>2. hand["ingress"] = <<>>
      BY <1>1, <1>2 DEF HandsOK
    <3>3. \A k \in 1 .. Len(hand'["ingress"]) : hand'["ingress"][k] \in Nat
      BY <1>2, <1>p, <1>e DEF RequestsOK
    <3>. QED BY <3>1, <3>2, <3>3
  <2>4. \A x \in Movers : \/ hand'[x] = hand[x]
                        \/ \A m \in bound.mbufs :
                             /\ \A k \in 1 .. Len(hand[x]) : hand[x][k] # m
                             /\ \A k \in 1 .. Len(hand'[x]) : hand'[x][k] # m
    BY <2>1, <2>3
  <2>. QED BY <1>1, <2>2, <2>4, NothingMoves
<1>. QED BY <1>5, <1>7, <1>8, <1>9, <1>10, <1>a, <1>b, <1>c, <1>d, <1>12 DEF IInv

(* HandlerAnswer: the result is stored; resp_q holds what timed out at most. *)
LEMMA HandlerAnswerStep ==
  ASSUME IInv, HandlerAnswer, num' = num
  PROVE  IInv'
<1>1. /\ pc["ingress"] = "answer"
      /\ pc' = [pc EXCEPT !["ingress"] = "respond"]
      /\ hand' = [hand EXCEPT !["ingress"] = <<sync_va>>]
      /\ seen' = [seen EXCEPT !["ingress"] = fifo["resp_q"].read]
      /\ sync' = [sync EXCEPT !.result = hand["ingress"][1]]
      /\ fifo' = fifo
      /\ pool' = pool
      /\ num' = num
      /\ sync_lock' = sync_lock /\ asked' = asked /\ told' = told /\ timeouts' = timeouts
      /\ bound' = bound
  BY DEF HandlerAnswer, At, Goto, Look, Told, requests
<1>2. /\ Typed /\ FifosOK /\ HandsOK /\ LockOK /\ Sights /\ Counts /\ RequestsOK /\ Pending
      /\ Answers /\ Conserved
  BY Parts
<1>3. /\ "ingress" \in Threads /\ "ingress" \in Movers
      /\ \A d \in Callers : d # "ingress" /\ d \in Threads
      /\ {"ingress", "egress", "kthread", "xmit"} \subseteq Threads
  BY Names DEF Movers, Threads
<1>p. /\ pc'["ingress"] = "respond"
      /\ \A t \in Threads \ {"ingress"} : pc'[t] = pc[t] /\ seen'[t] = seen[t] /\ hand'[t] = hand[t]
      /\ hand'["ingress"] = <<sync_va>>
      /\ seen'["ingress"] = fifo["resp_q"].read
  BY <1>1, <1>2, <1>3 DEF Typed
<1>5. /\ KeptSights("", "") /\ FifosOK'
      /\ \A q \in Queues : Filled(q)' = Filled(q) /\ Empty(q)' = Empty(q)
      /\ fifo' = fifo
  BY <1>1, <1>2, NoFifo
<1>o. \A t \in Threads : \A q \in Queues : t # "ingress" =>
        /\ q # "" /\ SawReader(t, q) => SawReader(t, q)'
        /\ q # "" /\ SawWriter(t, q) => SawWriter(t, q)'
        /\ fifo'[q].read = fifo[q].read => Visible(t, q)' = Visible(t, q)
        /\ fifo'[q].write = fifo[q].write => RoomSeen(t, q)' = RoomSeen(t, q)
  BY <1>1, <1>2, <1>5, <1>p, Others
<1>f. SawReader("ingress", "resp_q")' /\ RoomSeen("ingress", "resp_q")' = Empty("resp_q")
  <2>1. "resp_q" \in Queues /\ seen'["ingress"] = fifo["resp_q"].read /\ fifo'["resp_q"] = fifo["resp_q"]
    BY <1>1, <1>2, <1>3, <1>5, <1>p DEF Queues
  <2>. QED BY <1>1, <1>2, <1>3, <2>1, Looked
<1>6. hand' \in [Threads -> Seq(Entries \cup Nat)]
  BY <1>1, <1>2, <1>3 DEF Typed, Entries
<1>t. pc' = [pc EXCEPT !["ingress"] = "respond"] /\ pool' = pool /\ num' = num /\ bound' = bound
  BY <1>1
<1>7. Typed'
  <2>1. seen' \in [Threads -> Slots]
    BY <1>1, <1>2, <1>3 DEF Typed, FifosOK, Queues
  <2>. QED BY <1>t, <1>2, <1>3, <1>6, <2>1 DEF Typed, Slots, KNI_FIFO_COUNT_MAX, IngressLabels, EgressLabels, KthreadLabels, XmitLabels, CallerLabels, Labels
<1>8. HandsOK'
  BY <1>1, <1>2, <1>3, <1>p DEF HandsOK, Burst
<1>9. Sights'
  <2>1. CallerSights'
    BY <1>2, <1>3, <1>p, <1>o, <1>f DEF Sights, CallerSights, Queues
  <2>2. ApplicationSights'
    BY <1>2, <1>3, <1>p, <1>o, <1>f DEF Sights, ApplicationSights, Queues
  <2>3. KernelSights'
    BY <1>2, <1>3, <1>p, <1>o, <1>f DEF Sights, KernelSights, Queues
  <2>. QED BY <2>1, <2>2, <2>3 DEF Sights
<1>10. Counts'
  <2>1. CallerCounts'
    BY <1>1, <1>2, <1>3, <1>p, <1>5, <1>o, <1>f DEF Counts, CallerCounts, Queues
  <2>2. KthreadCounts'
    BY <1>1, <1>2, <1>3, <1>p, <1>5, <1>o DEF Counts, KthreadCounts, Queues
  <2>3. XmitCounts'
    BY <1>1, <1>2, <1>3, <1>p, <1>5, <1>o DEF Counts, XmitCounts, Queues
  <2>. QED BY <2>1, <2>2, <2>3 DEF Counts
<1>a. LockOK'
  BY <1>1, <1>2, <1>3, <1>p DEF LockOK
<1>b. RequestsOK'
  <2>1. hand["ingress"][1] \in Nat
    BY <1>1, <1>2 DEF HandsOK
  <2>2. sync' \in [id : Nat, result : Nat]
    BY <1>1, <1>2, <2>1 DEF RequestsOK
  <2>. QED BY <1>1, <1>2, <2>2 DEF RequestsOK
<1>c. Pending'
  <2>n. Filled("req_q") \in Nat /\ Filled("resp_q") \in Nat /\ timeouts \in Nat /\ bound.slots \in Nat
        /\ bound.slots >= 2
    BY <1>2, Numbers
  <2>1. Awaited' = Awaited /\ Awaited \in 0 .. 1
    BY <1>3, <1>p DEF Awaited, Waiting
  <2>2. Handled = 1 /\ Handled' = 1
    BY <1>1, <1>p DEF Handled
  <2>3. Filled("req_q")' = Filled("req_q") /\ Filled("resp_q")' = Filled("resp_q")
    BY <1>5 DEF Queues
  <2>4. timeouts + 1 < bound.slots => Filled("req_q") + Filled("resp_q") + 1 = timeouts + Awaited
    BY <1>2, <2>2 DEF Pending
  <2>5. timeouts + 1 < bound.slots => Filled("resp_q") <= timeouts
    <3>. HIDE DEF Filled, Awaited
    <3>. QED BY <2>n, <2>1, <2>4
  <2>6. Gap(bound.slots, seen'["ingress"], fifo["resp_q"].write) = Filled("resp_q")
    BY <1>2, <1>p, Fresh DEF Queues
  <2>. QED BY <1>1, <2>1, <2>2, <2>3, <2>4, <2>5, <2>6 DEF Pending
<1>d. Answers'
  <2>1. timeouts = 0 => hand["ingress"][1] = sync.id
    BY <1>1, <1>2 DEF Answers
  <2>2. sync'.result = hand["ingress"][1] /\ sync'.id = sync.id
    BY <1>1, <1>2 DEF RequestsOK
  <2>3. pc'["ingress"] # "answer"
    BY <1>p
  <2>. QED BY <1>1, <1>2, <2>1, <2>2, <2>3 DEF Answers
<1>12. Conserved'
  <2>1. \A x \in Movers \ {"ingress"} : hand'[x] = hand[x]
    BY <1>3, <1>p, Names
  <2>2. \A q \in PacketQueues : fifo'[q] = fifo[q]
    BY <1>5 DEF PacketQueues, Queues
  <2>3. ASSUME NEW m \in bound.mbufs
        PROVE  /\ \A k \in 1 .. Len(hand["ingress"]) : hand["ingress"][k] # m
               /\ \A k \in 1 .. Len(hand'["ingress"]) : hand'["ingress"][k] # m
    <3>1. \A x \in Nat \cup {sync_va} : x # m
      BY <1>2, NotAnMbuf
    <3>2. \A k \in 1 .. Len(hand["ingress"]) : hand["ingress"][k] \in Nat
      BY <1>1, <1>2 DEF HandsOK
    <3>3. \A k \in 1 .. Len(hand'["ingress"]) : hand'["ingress"][k] = sync_va
      BY <1>p
    <3>. QED BY <3>1, <3>2, <3>3
  <2>4. \A x \in Movers : \/ hand'[x] = hand[x]
                        \/ \A m \in bound.mbufs :
                             /\ \A k \in 1 .. Len(hand[x]) : hand[x][k] # m
                             /\ \A k \in 1 .. Len(hand'[x]) : hand'[x][k] # m
    BY <2>1, <2>3
  <2>. QED BY <1>1, <2>2, <2>4, NothingMoves
<1>. QED BY <1>5, <1>7, <1>8, <1>9, <1>10, <1>a, <1>b, <1>c, <1>d, <1>12 DEF IInv

(* HandlerRespond: the response fits, unless too many timed out.            *)
LEMMA HandlerRespondStep ==
  ASSUME IInv, HandlerRespond, num' = num
  PROVE  IInv'
<1>1. /\ pc["ingress"] = "respond"
      /\ pc' = [pc EXCEPT !["ingress"] = "idle"]
      /\ hand' = [hand EXCEPT !["ingress"] = <<>>]
      /\ seen' = seen
      /\ Put("ingress", "resp_q")
      /\ pool' = pool
      /\ num' = num
      /\ sync' = sync /\ sync_lock' = sync_lock /\ asked' = asked /\ told' = told /\ timeouts' = timeouts
      /\ bound' = bound
  BY DEF HandlerRespond, At, Goto, Look, Told, requests
<1>2. /\ Typed /\ FifosOK /\ HandsOK /\ LockOK /\ Sights /\ Counts /\ RequestsOK /\ Pending
      /\ Answers /\ Conserved
  BY Parts
<1>3. /\ "ingress" \in Threads /\ "ingress" \in Movers
      /\ \A d \in Callers : d # "ingress" /\ d \in Threads
      /\ {"ingress", "egress", "kthread", "xmit"} \subseteq Threads
  BY Names DEF Movers, Threads
<1>p. /\ pc'["ingress"] = "idle"
      /\ \A t \in Threads \ {"ingress"} : pc'[t] = pc[t] /\ seen'[t] = seen[t] /\ hand'[t] = hand[t]
      /\ seen'["ingress"] = seen["ingress"]
      /\ hand'["ingress"] = <<>>
  BY <1>1, <1>2, <1>3 DEF Typed
<1>4. /\ SawReader("ingress", "resp_q") /\ hand["ingress"] = <<sync_va>> /\ hand["ingress"] \in Seq(Content("resp_q", bound))
      /\ "resp_q" \in Queues /\ Len(hand["ingress"]) = 1
  <2>1. SawReader("ingress", "resp_q") /\ hand["ingress"] = <<sync_va>>
    BY <1>1, <1>2 DEF HandsOK, Sights, ApplicationSights, CallerSights
  <2>2. Content("resp_q", bound) = {sync_va} /\ "resp_q" \in Queues
    BY DEF Content, Queues
  <2>3. <<sync_va>> \in Seq({sync_va}) /\ Len(<<sync_va>>) = 1
    OBVIOUS
  <2>. QED BY <2>1, <2>2, <2>3
<1>5. /\ KeptSights("resp_q", "") /\ FifosOK'
      /\ Accepted("ingress", "resp_q") \in 0 .. 1
      /\ Accepted("ingress", "resp_q") = Smaller(1, RoomSeen("ingress", "resp_q"))
      /\ Filled("resp_q")' = Filled("resp_q") + Accepted("ingress", "resp_q") /\ Empty("resp_q")' = Empty("resp_q") - Accepted("ingress", "resp_q")
      /\ \A o \in Queues \ {"resp_q"} : fifo'[o] = fifo[o] /\ Filled(o)' = Filled(o) /\ Empty(o)' = Empty(o)
      /\ fifo'["resp_q"].read = fifo["resp_q"].read
  BY <1>1, <1>2, <1>3, <1>4, PutKeeps
<1>g. 1 <= Filled("resp_q") => 1 <= Filled("resp_q")'
  <2>1. Filled("resp_q") \in Nat
    BY <1>2, <1>4, Ints
  <2>. DEFINE a == Accepted("ingress", "resp_q")
  <2>2. a \in 0 .. 1 /\ Filled("resp_q")' = Filled("resp_q") + a
    BY <1>5
  <2>. HIDE DEF Filled, a
  <2>3. 1 <= Filled("resp_q") => 1 <= Filled("resp_q") + a
    BY <2>1, <2>2
  <2>. QED BY <2>2, <2>3
<1>o. \A t \in Threads : \A q \in Queues : t # "ingress" =>
        /\ q # "resp_q" /\ SawReader(t, q) => SawReader(t, q)'
        /\ q # "" /\ SawWriter(t, q) => SawWriter(t, q)'
        /\ fifo'[q].read = fifo[q].read => Visible(t, q)' = Visible(t, q)
        /\ fifo'[q].write = fifo[q].write => RoomSeen(t, q)' = RoomSeen(t, q)
  BY <1>1, <1>2, <1>5, <1>p, Others
<1>6. hand' \in [Threads -> Seq(Entries \cup Nat)]
  BY <1>1, <1>2, <1>3 DEF Typed, Entries
<1>t. pc' = [pc EXCEPT !["ingress"] = "idle"] /\ seen' = seen /\ pool' = pool /\ num' = num /\ bound' = bound
  BY <1>1
<1>7. Typed'
  BY <1>t, <1>2, <1>3, <1>6 DEF Typed, Slots, KNI_FIFO_COUNT_MAX, IngressLabels, EgressLabels, KthreadLabels, XmitLabels, CallerLabels, Labels
<1>8. HandsOK'
  BY <1>1, <1>2, <1>3, <1>p DEF HandsOK, Burst
<1>9. Sights'
  <2>1. CallerSights'
    BY <1>2, <1>3, <1>p, <1>o DEF Sights, CallerSights, Queues
  <2>2. ApplicationSights'
    BY <1>2, <1>3, <1>p, <1>o DEF Sights, ApplicationSights, Queues
  <2>3. KernelSights'
    BY <1>2, <1>3, <1>p, <1>o DEF Sights, KernelSights, Queues
  <2>. QED BY <2>1, <2>2, <2>3 DEF Sights
<1>10. Counts'
  <2>1. CallerCounts'
    BY <1>1, <1>2, <1>3, <1>p, <1>5, <1>o, <1>g DEF Counts, CallerCounts, Queues
  <2>2. KthreadCounts'
    BY <1>1, <1>2, <1>3, <1>p, <1>5, <1>o DEF Counts, KthreadCounts, Queues
  <2>3. XmitCounts'
    BY <1>1, <1>2, <1>3, <1>p, <1>5, <1>o DEF Counts, XmitCounts, Queues
  <2>. QED BY <2>1, <2>2, <2>3 DEF Counts
<1>a. LockOK'
  BY <1>1, <1>2, <1>3, <1>p DEF LockOK
<1>b. RequestsOK'
  BY <1>1, <1>2 DEF RequestsOK
<1>c. Pending'
  <2>n. Filled("req_q") \in Nat /\ Filled("resp_q") \in Nat /\ timeouts \in Nat /\ bound.slots \in Nat
        /\ bound.slots >= 2
    BY <1>2, Numbers
  <2>1. Awaited' = Awaited /\ Awaited \in 0 .. 1
    BY <1>3, <1>p DEF Awaited, Waiting
  <2>2. Handled = 1 /\ Handled' = 0 /\ pc'["ingress"] # "respond"
    BY <1>1, <1>p DEF Handled
  <2>3. Filled("req_q")' = Filled("req_q") /\ Filled("resp_q")' = Filled("resp_q") + Accepted("ingress", "resp_q")
    BY <1>5 DEF Queues
  <2>4. timeouts + 1 < bound.slots =>
          /\ Filled("req_q") + Filled("resp_q") + 1 = timeouts + Awaited
          /\ Gap(bound.slots, seen["ingress"], fifo["resp_q"].write) <= timeouts
    BY <1>1, <1>2, <2>2 DEF Pending
  <2>5. timeouts + 1 < bound.slots => Accepted("ingress", "resp_q") = 1
    <3>. DEFINE x == Gap(bound.slots, seen["ingress"], fifo["resp_q"].write)  a == Accepted("ingress", "resp_q")
                n == bound.slots  r == RoomSeen("ingress", "resp_q")
    <3>1. r = n - 1 - x
      BY DEF RoomSeen
    <3>2. a = Smaller(1, r) /\ r \in Nat /\ n \in Nat
      BY <1>2, <1>3, <1>4, <1>5, <2>n, Ints
    <3>3. x \in Nat
      BY <1>2, <1>3, <1>4, CountOf, Size, GapType
    <3>4. timeouts + 1 < n => x <= timeouts
      BY <2>4
    <3>. HIDE DEF x, a, n, r
    <3>5. timeouts + 1 < n => a = 1
      BY <3>1, <3>2, <3>3, <3>4, <2>n DEF Smaller
    <3>. QED BY <3>5 DEF a, n
  <2>6. timeouts + 1 < bound.slots => Filled("req_q")' + Filled("resp_q")' + 0 = timeouts + Awaited
    <3>. HIDE DEF Filled, Awaited
    <3>1. timeouts + 1 < bound.slots => Filled("req_q") + (Filled("resp_q") + 1) + 0 = timeouts + Awaited
      BY <2>n, <2>1, <2>4
    <3>. QED BY <2>3, <2>5, <3>1
  <2>. QED BY <1>1, <2>1, <2>2, <2>6 DEF Pending
<1>d. Answers'
  <2>1. timeouts = 0 => sync.result = sync.id
    BY <1>1, <1>2 DEF Answers
  <2>2. pc'["ingress"] = "idle"
    BY <1>p
  <2>. QED BY <1>1, <1>2, <2>1, <2>2 DEF Answers
<1>12. Conserved'
  <2>1. \A x \in Movers \ {"ingress"} : hand'[x] = hand[x]
    BY <1>3, <1>p, Names
  <2>2. \A q \in PacketQueues : fifo'[q] = fifo[q]
    BY <1>5 DEF PacketQueues, Queues
  <2>3. ASSUME NEW m \in bound.mbufs
        PROVE  /\ \A k \in 1 .. Len(hand["ingress"]) : hand["ingress"][k] # m
               /\ \A k \in 1 .. Len(hand'["ingress"]) : hand'["ingress"][k] # m
    <3>1. \A x \in Nat \cup {sync_va} : x # m
      BY <1>2, NotAnMbuf
    <3>2. \A k \in 1 .. Len(hand["ingress"]) : hand["ingress"][k] = sync_va
      BY <1>4
    <3>3. \A k \in 1 .. Len(hand'["ingress"]) : FALSE
      BY <1>p
    <3>. QED BY <3>1, <3>2, <3>3
  <2>4. \A x \in Movers : \/ hand'[x] = hand[x]
                        \/ \A m \in bound.mbufs :
                             /\ \A k \in 1 .. Len(hand[x]) : hand[x][k] # m
                             /\ \A k \in 1 .. Len(hand'[x]) : hand'[x][k] # m
    BY <2>1, <2>3
  <2>. QED BY <1>1, <2>2, <2>4, NothingMoves
<1>. QED BY <1>5, <1>7, <1>8, <1>9, <1>10, <1>a, <1>b, <1>c, <1>d, <1>12 DEF IInv

(* KernelPoll: it wakes callers that will find a response.                  *)
LEMMA KernelPollStep ==
  ASSUME IInv, KernelPoll
  PROVE  IInv'
<1>1. /\ pc["kthread"] = "poll"
      /\ pc' = [p \in Threads |-> IF p = "kthread" THEN "idle"
                                 ELSE IF p \in Asleep /\ kni_fifo_count("resp_q") > 0 THEN "awake"
                                 ELSE pc[p]]
      /\ seen' = seen /\ hand' = hand /\ pool' = pool /\ fifo' = fifo /\ num' = num
      /\ sync' = sync /\ sync_lock' = sync_lock /\ asked' = asked /\ told' = told /\ timeouts' = timeouts
      /\ bound' = bound
  BY DEF KernelPoll, At, requests
<1>2. /\ Typed /\ FifosOK /\ HandsOK /\ LockOK /\ Sights /\ Counts /\ RequestsOK /\ Pending
      /\ Answers /\ Conserved
  BY Parts
<1>3. /\ "kthread" \in Threads /\ \A d \in Callers : d # "kthread" /\ d \in Threads
      /\ \A d \in Callers : d # "ingress" /\ d # "egress" /\ d # "xmit"
      /\ {"ingress", "egress", "kthread", "xmit"} \subseteq Threads
  BY Names DEF Movers, Threads
<1>p. /\ pc'["kthread"] = "idle" /\ pc' \in [Threads -> {pc'[t] : t \in Threads}]
      /\ pc'["ingress"] = pc["ingress"] /\ pc'["egress"] = pc["egress"] /\ pc'["xmit"] = pc["xmit"]
      /\ \A c \in Callers : \/ pc'[c] = pc[c]
                            \/ pc[c] = "asleep" /\ pc'[c] = "awake" /\ 1 <= Filled("resp_q")
  <2>1. kni_fifo_count("resp_q") = Filled("resp_q") /\ Filled("resp_q") \in Nat
    BY <1>2, CountOf DEF Queues
  <2>2. kni_fifo_count("resp_q") > 0 => 1 <= Filled("resp_q")
    BY <2>1
  <2>3. \A t \in Threads : t \notin Callers => t \notin Asleep
    BY DEF Asleep
  <2>4. {"ingress", "egress", "xmit"} \cap Callers = {}
    BY <1>3
  <2>. QED BY <1>1, <1>3, <2>2, <2>3, <2>4 DEF Asleep, At
<1>5. /\ KeptSights("", "") /\ FifosOK'
      /\ \A q \in Queues : Filled(q)' = Filled(q) /\ Empty(q)' = Empty(q)
  BY <1>1, <1>2, NoFifo
<1>6. /\ \A t \in Threads : \A q \in Queues :
           /\ SawReader(t, q)' = SawReader(t, q) /\ SawWriter(t, q)' = SawWriter(t, q)
           /\ Visible(t, q)' = Visible(t, q) /\ RoomSeen(t, q)' = RoomSeen(t, q)
  BY <1>1 DEF SawReader, SawWriter, Visible, RoomSeen
<1>7. Typed'
  <2>1. \A c \in Callers : pc'[c] \in CallerLabels
    BY <1>2, <1>p DEF Typed, CallerLabels
  <2>2. pc'["kthread"] \in KthreadLabels
    BY <1>p DEF KthreadLabels
  <2>3. \A t \in Threads : pc'[t] \in Labels
    BY <1>2, <1>p, <2>1, <2>2 DEF Typed, Labels, Threads
  <2>4. pc' \in [Threads -> Labels]
    BY <1>p, <2>3
  <2>. QED BY <1>1, <1>2, <1>p, <2>1, <2>2, <2>4 DEF Typed, Slots, KNI_FIFO_COUNT_MAX
<1>8. HandsOK'
  BY <1>1, <1>2, <1>p DEF HandsOK, Burst
<1>9. Sights'
  <2>1. CallerSights'
    BY <1>2, <1>3, <1>p, <1>6 DEF Sights, CallerSights, Queues
  <2>2. ApplicationSights'
    BY <1>2, <1>3, <1>p, <1>6 DEF Sights, ApplicationSights, Queues
  <2>3. KernelSights'
    BY <1>2, <1>3, <1>p, <1>6 DEF Sights, KernelSights, Queues
  <2>. QED BY <2>1, <2>2, <2>3 DEF Sights
<1>10. Counts'
  <2>1. CallerCounts'
    BY <1>2, <1>3, <1>p, <1>5, <1>6 DEF Counts, CallerCounts, Queues
  <2>2. KthreadCounts'
    BY <1>p DEF KthreadCounts
  <2>3. XmitCounts'
    BY <1>1, <1>2, <1>3, <1>p, <1>5, <1>6 DEF Counts, XmitCounts, Queues
  <2>. QED BY <2>1, <2>2, <2>3 DEF Counts
<1>a. LockOK' /\ RequestsOK'
  BY <1>1, <1>2, <1>p DEF LockOK, RequestsOK
<1>c. Pending'
  <2>1. Handled' = Handled
    BY <1>p DEF Handled
  <2>2. Awaited' = Awaited
    BY <1>p DEF Awaited, Waiting
  <2>3. Filled("req_q")' = Filled("req_q") /\ Filled("resp_q")' = Filled("resp_q")
    BY <1>5 DEF Queues
  <2>. QED BY <1>1, <1>2, <1>p, <2>1, <2>2, <2>3 DEF Pending
<1>d. Answers'
  BY <1>1, <1>2, <1>p, <1>5 DEF Answers, Queues
<1>12. Conserved'
  BY <1>1, NothingMoves
<1>. QED BY <1>5, <1>7, <1>8, <1>9, <1>10, <1>a, <1>c, <1>d, <1>12 DEF IInv

(* Request: nobody else is at it, and nothing is under way but what timed out. *)
LEMMA RequestStep ==
  ASSUME IInv, NEW c \in Callers, Request(c)
  PROVE  IInv'
<1>1. /\ pc[c] = "idle"
      /\ pc' = [pc EXCEPT ![c] = "send"]
      /\ sync_lock = None
      /\ sync_lock' = c
      /\ asked' = [asked EXCEPT ![c] = Issued + 1]
      /\ told' = [told EXCEPT ![c] = [ret |-> "none", result |-> 0]]
      /\ sync' = [id |-> Issued + 1, result |-> 0]
      /\ hand' = [hand EXCEPT ![c] = <<sync_va>>]
      /\ seen' = [seen EXCEPT ![c] = fifo["req_q"].read]
      /\ fifo' = fifo
      /\ pool' = pool
      /\ num' = num
      /\ timeouts' = timeouts
      /\ bound' = bound
  BY DEF Request, At, Goto, Look, Told, requests
<1>2. /\ Typed /\ FifosOK /\ HandsOK /\ LockOK /\ Sights /\ Counts /\ RequestsOK /\ Pending
      /\ Answers /\ Conserved
  BY Parts
<1>3. /\ c \in Threads /\ c \notin Movers
      /\ c # "ingress" /\ c # "egress" /\ c # "kthread" /\ c # "xmit"
      /\ \A d \in Callers : d \in Threads
      /\ {"ingress", "egress", "kthread", "xmit"} \subseteq Threads
  BY Names DEF Movers, Threads
<1>p. /\ pc'[c] = "send"
      /\ \A t \in Threads \ {c} : pc'[t] = pc[t] /\ seen'[t] = seen[t] /\ hand'[t] = hand[t]
      /\ hand'[c] = <<sync_va>>
      /\ seen'[c] = fifo["req_q"].read
  BY <1>1, <1>2, <1>3 DEF Typed
<1>5. /\ KeptSights("", "") /\ FifosOK'
      /\ \A q \in Queues : Filled(q)' = Filled(q) /\ Empty(q)' = Empty(q)
      /\ fifo' = fifo
  BY <1>1, <1>2, NoFifo
<1>i. /\ \A d \in Callers : pc[d] = "idle" /\ None \notin Callers
      /\ Issued \in Nat /\ \A d \in Callers : asked[d] <= Issued
  <2>1. \A d \in Callers : pc[d] = "idle" /\ None \notin Callers
    BY <1>1, <1>2, Alone
  <2>2. asked \in [Callers -> Nat] /\ \E d \in Callers : \A x \in Callers : asked[x] <= asked[d]
    BY <1>2 DEF RequestsOK
  <2>3. \E k \in {asked[d] : d \in Callers} : \A d \in Callers : asked[d] <= k
    BY <2>2
  <2>4. Issued \in {asked[d] : d \in Callers} /\ \A d \in Callers : asked[d] <= Issued
    BY <2>3 DEF Issued
  <2>. QED BY <2>1, <2>2, <2>4
<1>o. \A t \in Threads : \A q \in Queues : t # c =>
        /\ q # "" /\ SawReader(t, q) => SawReader(t, q)'
        /\ q # "" /\ SawWriter(t, q) => SawWriter(t, q)'
        /\ fifo'[q].read = fifo[q].read => Visible(t, q)' = Visible(t, q)
        /\ fifo'[q].write = fifo[q].write => RoomSeen(t, q)' = RoomSeen(t, q)
  BY <1>1, <1>2, <1>5, <1>p, Others
<1>f. SawReader(c, "req_q")' /\ RoomSeen(c, "req_q")' = Empty("req_q")
  <2>1. "req_q" \in Queues /\ seen'[c] = fifo["req_q"].read /\ fifo'["req_q"] = fifo["req_q"]
    BY <1>1, <1>2, <1>3, <1>5, <1>p DEF Queues
  <2>. QED BY <1>1, <1>2, <1>3, <2>1, Looked
<1>6. hand' \in [Threads -> Seq(Entries \cup Nat)]
  BY <1>1, <1>2, <1>3 DEF Typed, Entries
<1>t. pc' = [pc EXCEPT ![c] = "send"] /\ pool' = pool /\ num' = num /\ bound' = bound
  BY <1>1
<1>7. Typed'
  <2>1. seen' \in [Threads -> Slots]
    BY <1>1, <1>2, <1>3 DEF Typed, FifosOK, Queues
  <2>. QED BY <1>t, <1>2, <1>3, <1>6, <2>1 DEF Typed, Slots, KNI_FIFO_COUNT_MAX, IngressLabels, EgressLabels, KthreadLabels, XmitLabels, CallerLabels, Labels
<1>8. HandsOK'
  BY <1>1, <1>2, <1>3, <1>p DEF HandsOK, Burst
<1>9. Sights'
  <2>1. CallerSights'
    BY <1>2, <1>3, <1>p, <1>o, <1>f DEF Sights, CallerSights, Queues
  <2>2. ApplicationSights'
    BY <1>2, <1>3, <1>p, <1>o, <1>f DEF Sights, ApplicationSights, Queues
  <2>3. KernelSights'
    BY <1>2, <1>3, <1>p, <1>o, <1>f DEF Sights, KernelSights, Queues
  <2>. QED BY <2>1, <2>2, <2>3 DEF Sights
<1>10. Counts'
  <2>1. CallerCounts'
    BY <1>1, <1>2, <1>3, <1>p, <1>5, <1>o, <1>f DEF Counts, CallerCounts, Queues
  <2>2. KthreadCounts'
    BY <1>1, <1>2, <1>3, <1>p, <1>5, <1>o DEF Counts, KthreadCounts, Queues
  <2>3. XmitCounts'
    BY <1>1, <1>2, <1>3, <1>p, <1>5, <1>o DEF Counts, XmitCounts, Queues
  <2>. QED BY <2>1, <2>2, <2>3 DEF Counts
<1>a. LockOK'
  BY <1>1, <1>2, <1>p, <1>i DEF LockOK
<1>b. RequestsOK'
  <2>1. asked' \in [Callers -> Nat] /\ \A d \in Callers : asked'[d] <= asked'[c]
    <3>1. asked'[c] = Issued + 1 /\ \A d \in Callers \ {c} : asked'[d] = asked[d] /\ asked[d] <= Issued /\ asked[d] \in Nat
      BY <1>1, <1>2, <1>i DEF RequestsOK
    <3>2. asked' \in [Callers -> Nat]
      BY <1>1, <1>2, <1>i DEF RequestsOK
    <3>3. \A d \in Callers : asked'[d] <= asked'[c]
      <4>1. Issued + 1 <= Issued + 1 /\ \A x \in Nat : x <= Issued => x <= Issued + 1
        BY <1>i
      <4>. QED BY <3>1, <4>1
    <3>. QED BY <3>2, <3>3
  <2>2. told' \in [Callers -> [ret : Rets, result : Nat]] /\ \A d \in Callers : told'[d].ret # "ENODATA"
    BY <1>1, <1>2 DEF RequestsOK, Rets
  <2>3. sync' \in [id : Nat, result : Nat]
    BY <1>1, <1>i
  <2>. QED BY <1>1, <1>2, <2>1, <2>2, <2>3 DEF RequestsOK
<1>c. Pending'
  <2>1. Awaited = 0 /\ Awaited' = 0
    BY <1>3, <1>p, <1>i DEF Awaited, Waiting
  <2>2. Handled' = Handled
    BY <1>3, <1>p DEF Handled
  <2>3. Filled("req_q")' = Filled("req_q") /\ Filled("resp_q")' = Filled("resp_q")
    BY <1>5 DEF Queues
  <2>. QED BY <1>1, <1>2, <1>3, <1>p, <2>1, <2>2, <2>3 DEF Pending
<1>d. Answers'
  <2>. SUFFICES ASSUME timeouts = 0 PROVE Answers'
    BY <1>1 DEF Answers
  <2>n. Filled("req_q") \in Nat /\ Filled("resp_q") \in Nat /\ timeouts \in Nat /\ bound.slots \in Nat
        /\ bound.slots >= 2
    BY <1>2, Numbers
  <2>1. Awaited = 0
    BY <1>i DEF Awaited, Waiting
  <2>2. Filled("req_q") + Filled("resp_q") + Handled = 0
    <3>1. Filled("req_q") + Filled("resp_q") + Handled = timeouts + Awaited
      BY <1>2, <2>n DEF Pending
    <3>. QED BY <2>1, <3>1
  <2>3. Handled = 0 /\ Filled("resp_q") = 0
    <3>1. Handled \in Nat
      BY DEF Handled
    <3>. HIDE DEF Handled, Filled
    <3>. QED BY <2>n, <2>2, <3>1
  <2>4. pc'["ingress"] # "answer" /\ pc'["ingress"] # "respond" /\ ~(Filled("resp_q")' > 0)
    <3>1. Filled("resp_q")' = Filled("resp_q")
      BY <1>5 DEF Queues
    <3>2. pc'["ingress"] # "answer" /\ pc'["ingress"] # "respond"
      BY <1>3, <1>p, <2>3 DEF Handled
    <3>3. ~(0 > 0)
      OBVIOUS
    <3>. QED BY <2>3, <3>1, <3>2, <3>3
  <2>5. sync'.id = asked'[c] /\ told'[c].ret = "none" /\ \A d \in Callers \ {c} : told'[d] = told[d] /\ asked'[d] = asked[d]
    BY <1>1, <1>2 DEF RequestsOK
  <2>. QED BY <1>1, <1>2, <2>4, <2>5 DEF Answers
<1>12. Conserved'
  <2>1. \A x \in Movers : hand'[x] = hand[x]
    BY <1>3, <1>p, Names
  <2>2. \A q \in PacketQueues : fifo'[q] = fifo[q]
    BY <1>5 DEF PacketQueues, Queues
  <2>. QED BY <1>1, <2>1, <2>2, NothingMoves
<1>. QED BY <1>5, <1>7, <1>8, <1>9, <1>10, <1>a, <1>b, <1>c, <1>d, <1>12 DEF IInv

(* RequestSent: the request is on its way, or refused.                      *)
LEMMA RequestSentStep ==
  ASSUME IInv, NEW c \in Callers, RequestSent(c)
  PROVE  IInv'
<1>1. /\ pc[c] = "send"
      /\ pc' = [pc EXCEPT ![c] = IF Accepted(c, "req_q") = 1 THEN "wait" ELSE "idle"]
      /\ hand' = [hand EXCEPT ![c] = <<>>]
      /\ Put(c, "req_q")
      /\ \/ Accepted(c, "req_q") = 1 /\ told' = told /\ sync_lock' = sync_lock
         \/ Accepted(c, "req_q") # 1 /\ told' = [told EXCEPT ![c] = [ret |-> "EBUSY", result |-> 0]] /\ sync_lock' = None
      /\ seen' = seen
      /\ pool' = pool
      /\ num' = num
      /\ sync' = sync /\ asked' = asked /\ timeouts' = timeouts
      /\ bound' = bound
  BY DEF RequestSent, At, Goto, Look, Told, requests
<1>2. /\ Typed /\ FifosOK /\ HandsOK /\ LockOK /\ Sights /\ Counts /\ RequestsOK /\ Pending
      /\ Answers /\ Conserved
  BY Parts
<1>3. /\ c \in Threads /\ c \notin Movers
      /\ c # "ingress" /\ c # "egress" /\ c # "kthread" /\ c # "xmit"
      /\ \A d \in Callers : d \in Threads
      /\ {"ingress", "egress", "kthread", "xmit"} \subseteq Threads
  BY Names DEF Movers, Threads
<1>p. /\ pc'[c] = IF Accepted(c, "req_q") = 1 THEN "wait" ELSE "idle"
      /\ \A t \in Threads \ {c} : pc'[t] = pc[t] /\ seen'[t] = seen[t] /\ hand'[t] = hand[t]
      /\ seen'[c] = seen[c]
      /\ hand'[c] = <<>>
  BY <1>1, <1>2, <1>3 DEF Typed
<1>4. /\ SawReader(c, "req_q") /\ hand[c] = <<sync_va>> /\ hand[c] \in Seq(Content("req_q", bound))
      /\ "req_q" \in Queues /\ Len(hand[c]) = 1
  <2>1. SawReader(c, "req_q") /\ hand[c] = <<sync_va>>
    BY <1>1, <1>2 DEF HandsOK, Sights, ApplicationSights, CallerSights
  <2>2. Content("req_q", bound) = {sync_va} /\ "req_q" \in Queues
    BY DEF Content, Queues
  <2>3. <<sync_va>> \in Seq({sync_va}) /\ Len(<<sync_va>>) = 1
    OBVIOUS
  <2>. QED BY <2>1, <2>2, <2>3
<1>5. /\ KeptSights("req_q", "") /\ FifosOK'
      /\ Accepted(c, "req_q") \in 0 .. 1
      /\ Accepted(c, "req_q") = Smaller(1, RoomSeen(c, "req_q"))
      /\ Filled("req_q")' = Filled("req_q") + Accepted(c, "req_q") /\ Empty("req_q")' = Empty("req_q") - Accepted(c, "req_q")
      /\ \A o \in Queues \ {"req_q"} : fifo'[o] = fifo[o] /\ Filled(o)' = Filled(o) /\ Empty(o)' = Empty(o)
      /\ fifo'["req_q"].read = fifo["req_q"].read
  BY <1>1, <1>2, <1>3, <1>4, PutKeeps
<1>g. 1 <= Filled("req_q") => 1 <= Filled("req_q")'
  <2>1. Filled("req_q") \in Nat
    BY <1>2, <1>4, Ints
  <2>. DEFINE a == Accepted(c, "req_q")
  <2>2. a \in 0 .. 1 /\ Filled("req_q")' = Filled("req_q") + a
    BY <1>5
  <2>. HIDE DEF Filled, a
  <2>3. 1 <= Filled("req_q") => 1 <= Filled("req_q") + a
    BY <2>1, <2>2
  <2>. QED BY <2>2, <2>3
<1>i. sync_lock = c /\ None \notin Callers /\ \A d \in Callers \ {c} : pc[d] = "idle"
  BY <1>1, <1>2, Alone
<1>e. \/ Accepted(c, "req_q") = 1 /\ pc'[c] = "wait"
      \/ Accepted(c, "req_q") = 0 /\ pc'[c] = "idle"
  <2>. DEFINE a == Accepted(c, "req_q")
  <2>1. a \in 0 .. 1 /\ pc'[c] = IF a = 1 THEN "wait" ELSE "idle"
    BY <1>5, <1>p
  <2>. HIDE DEF a
  <2>2. a = 1 \/ a = 0
    BY <2>1
  <2>3. a = 1 => pc'[c] = "wait"
    BY <2>1
  <2>4. a = 0 => pc'[c] = "idle"
    BY <2>1
  <2>. QED BY <2>2, <2>3, <2>4 DEF a
<1>o. \A t \in Threads : \A q \in Queues : t # c =>
        /\ q # "req_q" /\ SawReader(t, q) => SawReader(t, q)'
        /\ q # "" /\ SawWriter(t, q) => SawWriter(t, q)'
        /\ fifo'[q].read = fifo[q].read => Visible(t, q)' = Visible(t, q)
        /\ fifo'[q].write = fifo[q].write => RoomSeen(t, q)' = RoomSeen(t, q)
  BY <1>1, <1>2, <1>5, <1>p, Others
<1>6. hand' \in [Threads -> Seq(Entries \cup Nat)]
  BY <1>1, <1>2, <1>3 DEF Typed, Entries
<1>t. pc' = [pc EXCEPT ![c] = IF Accepted(c, "req_q") = 1 THEN "wait" ELSE "idle"] /\ seen' = seen /\ pool' = pool /\ num' = num /\ bound' = bound
  BY <1>1
<1>7. Typed'
  BY <1>t, <1>2, <1>3, <1>6 DEF Typed, Slots, KNI_FIFO_COUNT_MAX, IngressLabels, EgressLabels, KthreadLabels, XmitLabels, CallerLabels, Labels
<1>8. HandsOK'
  BY <1>1, <1>2, <1>3, <1>p DEF HandsOK, Burst
<1>9. Sights'
  <2>1. CallerSights'
    BY <1>3, <1>p, <1>i, <1>e DEF CallerSights
  <2>2. ApplicationSights'
    BY <1>2, <1>3, <1>p, <1>o DEF Sights, ApplicationSights, Queues
  <2>3. KernelSights'
    BY <1>2, <1>3, <1>p, <1>o DEF Sights, KernelSights, Queues
  <2>. QED BY <2>1, <2>2, <2>3 DEF Sights
<1>10. Counts'
  <2>1. CallerCounts'
    BY <1>3, <1>p, <1>i, <1>e DEF CallerCounts
  <2>2. KthreadCounts'
    BY <1>1, <1>2, <1>3, <1>p, <1>5, <1>o DEF Counts, KthreadCounts, Queues
  <2>3. XmitCounts'
    BY <1>1, <1>2, <1>3, <1>p, <1>5, <1>o DEF Counts, XmitCounts, Queues
  <2>. QED BY <2>1, <2>2, <2>3 DEF Counts
<1>a. LockOK'
  BY <1>1, <1>2, <1>3, <1>p, <1>i, <1>e DEF LockOK
<1>b. RequestsOK'
  <2>1. told' \in [Callers -> [ret : Rets, result : Nat]] /\ \A d \in Callers : told'[d].ret # "ENODATA"
    <3>1. CASE told' = told
      BY <1>2, <3>1 DEF RequestsOK
    <3>2. CASE told' = [told EXCEPT ![c] = [ret |-> "EBUSY", result |-> 0]]
      BY <1>2, <3>2 DEF RequestsOK, Rets
    <3>. QED BY <1>1, <3>1, <3>2
  <2>. QED BY <1>1, <1>2, <2>1 DEF RequestsOK
<1>c. Pending'
  <2>n. Filled("req_q") \in Nat /\ Filled("resp_q") \in Nat /\ timeouts \in Nat /\ bound.slots \in Nat
        /\ bound.slots >= 2
    BY <1>2, Numbers
  <2>1. Awaited = 0 /\ Awaited' = Accepted(c, "req_q")
    <3>1. \A d \in Callers : ~Waiting(d)
      BY <1>1, <1>i DEF Waiting
    <3>2. \A d \in Callers \ {c} : Waiting(d)' = Waiting(d)
      BY <1>3, <1>p DEF Waiting
    <3>3. Waiting(c)' <=> Accepted(c, "req_q") = 1
      BY <1>e DEF Waiting
    <3>. QED BY <1>e, <3>1, <3>2, <3>3 DEF Awaited
  <2>2. Handled' = Handled /\ Handled \in Nat
    BY <1>3, <1>p DEF Handled
  <2>3. Filled("req_q")' = Filled("req_q") + Accepted(c, "req_q") /\ Filled("resp_q")' = Filled("resp_q")
        /\ fifo'["resp_q"] = fifo["resp_q"]
    BY <1>5 DEF Queues
  <2>4. timeouts + 1 < bound.slots => Filled("req_q") + Filled("resp_q") + Handled = timeouts + 0
    BY <1>2, <2>1 DEF Pending
  <2>5. timeouts + 1 < bound.slots => Filled("req_q")' + Filled("resp_q")' + Handled' = timeouts + Awaited'
    <3>. DEFINE a == Accepted(c, "req_q")
    <3>1. a \in 0 .. 1
      BY <1>5
    <3>. HIDE DEF a, Filled, Handled
    <3>2. timeouts + 1 < bound.slots => (Filled("req_q") + a) + Filled("resp_q") + Handled = timeouts + a
      BY <2>n, <2>2, <2>4, <3>1
    <3>. QED BY <2>1, <2>2, <2>3, <3>2 DEF a
  <2>. QED BY <1>1, <1>2, <1>3, <1>p, <2>3, <2>5 DEF Pending
<1>d. Answers'
  <2>1. Filled("resp_q")' = Filled("resp_q")
    BY <1>5 DEF Queues
  <2>2. \A d \in Callers : told'[d] = told[d] \/ told'[d].ret = "EBUSY"
    BY <1>1, <1>2 DEF RequestsOK
  <2>3. \A d \in Callers : sync_lock' = d => sync_lock = d
    BY <1>1, <1>i
  <2>4. pc'["ingress"] = pc["ingress"] /\ hand'["ingress"] = hand["ingress"]
    BY <1>3, <1>p
  <2>. QED BY <1>1, <1>2, <2>1, <2>2, <2>3, <2>4 DEF Answers
<1>12. Conserved'
  <2>1. \A x \in Movers : hand'[x] = hand[x]
    BY <1>3, <1>p, Names
  <2>2. \A q \in PacketQueues : fifo'[q] = fifo[q]
    BY <1>5 DEF PacketQueues, Queues
  <2>. QED BY <1>1, <2>1, <2>2, NothingMoves
<1>. QED BY <1>5, <1>7, <1>8, <1>9, <1>10, <1>a, <1>b, <1>c, <1>d, <1>12 DEF IInv

(* ResponseThere: a caller that goes on will find a response.               *)
LEMMA ResponseThereStep ==
  ASSUME IInv, NEW c \in Callers, ResponseThere(c)
  PROVE  IInv'
<1>1. /\ pc[c] = "wait"
      /\ pc' = [pc EXCEPT ![c] = IF kni_fifo_count("resp_q") > 0 THEN "awake" ELSE "asleep"]
      /\ seen' = seen
      /\ hand' = hand
      /\ fifo' = fifo
      /\ pool' = pool
      /\ num' = num
      /\ sync' = sync /\ sync_lock' = sync_lock /\ asked' = asked /\ told' = told /\ timeouts' = timeouts
      /\ bound' = bound
  BY DEF ResponseThere, At, Goto, Look, Told, requests
<1>2. /\ Typed /\ FifosOK /\ HandsOK /\ LockOK /\ Sights /\ Counts /\ RequestsOK /\ Pending
      /\ Answers /\ Conserved
  BY Parts
<1>3. /\ c \in Threads /\ c \notin Movers
      /\ c # "ingress" /\ c # "egress" /\ c # "kthread" /\ c # "xmit"
      /\ \A d \in Callers : d \in Threads
      /\ {"ingress", "egress", "kthread", "xmit"} \subseteq Threads
  BY Names DEF Movers, Threads
<1>p. /\ pc'[c] = IF kni_fifo_count("resp_q") > 0 THEN "awake" ELSE "asleep"
      /\ \A t \in Threads \ {c} : pc'[t] = pc[t] /\ seen'[t] = seen[t] /\ hand'[t] = hand[t]
      /\ seen'[c] = seen[c]
      /\ hand'[c] = hand[c]
  BY <1>1, <1>2, <1>3 DEF Typed
<1>5. /\ KeptSights("", "") /\ FifosOK'
      /\ \A q \in Queues : Filled(q)' = Filled(q) /\ Empty(q)' = Empty(q)
      /\ fifo' = fifo
  BY <1>1, <1>2, NoFifo
<1>e. \/ pc'[c] = "awake" /\ 1 <= Filled("resp_q")
      \/ pc'[c] = "asleep"
  <2>1. kni_fifo_count("resp_q") = Filled("resp_q") /\ Filled("resp_q") \in Nat
    BY <1>2, CountOf DEF Queues
  <2>2. kni_fifo_count("resp_q") > 0 => 1 <= Filled("resp_q")
    BY <2>1
  <2>. QED BY <1>p, <2>2
<1>o. \A t \in Threads : \A q \in Queues : t # c =>
        /\ q # "" /\ SawReader(t, q) => SawReader(t, q)'
        /\ q # "" /\ SawWriter(t, q) => SawWriter(t, q)'
        /\ fifo'[q].read = fifo[q].read => Visible(t, q)' = Visible(t, q)
        /\ fifo'[q].write = fifo[q].write => RoomSeen(t, q)' = RoomSeen(t, q)
  BY <1>1, <1>2, <1>5, <1>p, Others
<1>6. hand' \in [Threads -> Seq(Entries \cup Nat)]
  BY <1>1, <1>2, <1>3 DEF Typed, Entries
<1>t. pc' = [pc EXCEPT ![c] = IF kni_fifo_count("resp_q") > 0 THEN "awake" ELSE "asleep"] /\ seen' = seen /\ pool' = pool /\ num' = num /\ bound' = bound
  BY <1>1
<1>7. Typed'
  BY <1>t, <1>2, <1>3, <1>6 DEF Typed, Slots, KNI_FIFO_COUNT_MAX, IngressLabels, EgressLabels, KthreadLabels, XmitLabels, CallerLabels, Labels
<1>8. HandsOK'
  BY <1>1, <1>2, <1>3, <1>p DEF HandsOK, Burst
<1>9. Sights'
  <2>1. CallerSights'
    BY <1>2, <1>3, <1>p, <1>o DEF Sights, CallerSights, Queues
  <2>2. ApplicationSights'
    BY <1>2, <1>3, <1>p, <1>o DEF Sights, ApplicationSights, Queues
  <2>3. KernelSights'
    BY <1>2, <1>3, <1>p, <1>o DEF Sights, KernelSights, Queues
  <2>. QED BY <2>1, <2>2, <2>3 DEF Sights
<1>10. Counts'
  <2>1. CallerCounts'
    BY <1>1, <1>2, <1>3, <1>p, <1>e, <1>5, <1>o DEF Counts, CallerCounts, Queues
  <2>2. KthreadCounts'
    BY <1>1, <1>2, <1>3, <1>p, <1>5, <1>o DEF Counts, KthreadCounts, Queues
  <2>3. XmitCounts'
    BY <1>1, <1>2, <1>3, <1>p, <1>5, <1>o DEF Counts, XmitCounts, Queues
  <2>. QED BY <2>1, <2>2, <2>3 DEF Counts
<1>a. LockOK'
  BY <1>1, <1>2, <1>3, <1>p DEF LockOK
<1>b. RequestsOK'
  BY <1>1, <1>2 DEF RequestsOK
<1>c. Pending'
  <2>1. Awaited = Awaited'
    <3>1. \A d \in Callers : Waiting(d)' = Waiting(d)
      BY <1>1, <1>3, <1>p, <1>e DEF Waiting
    <3>. QED BY <3>1 DEF Awaited
  <2>2. Handled' = Handled
    BY <1>3, <1>p DEF Handled
  <2>3. Filled("req_q")' = Filled("req_q") /\ Filled("resp_q")' = Filled("resp_q")
    BY <1>5 DEF Queues
  <2>. QED BY <1>1, <1>2, <1>3, <1>p, <2>1, <2>2, <2>3 DEF Pending
<1>d. Answers'
  BY <1>1, <1>2, <1>3, <1>5, <1>p DEF Answers, Queues
<1>12. Conserved'
  <2>1. \A x \in Movers : hand'[x] = hand[x]
    BY <1>3, <1>p, Names
  <2>2. \A q \in PacketQueues : fifo'[q] = fifo[q]
    BY <1>5 DEF PacketQueues, Queues
  <2>. QED BY <1>1, <2>1, <2>2, NothingMoves
<1>. QED BY <1>5, <1>7, <1>8, <1>9, <1>10, <1>a, <1>b, <1>c, <1>d, <1>12 DEF IInv

(* TimedOut: what was waited for is one more left behind.                   *)
LEMMA TimedOutStep ==
  ASSUME IInv, NEW c \in Callers, TimedOut(c)
  PROVE  IInv'
<1>1. /\ pc[c] \in {"asleep", "awake"}
      /\ pc' = [pc EXCEPT ![c] = "idle"]
      /\ timeouts < bound.timeouts
      /\ timeouts' = timeouts + 1
      /\ told' = [told EXCEPT ![c] = [ret |-> "ETIME", result |-> 0]]
      /\ sync_lock' = None
      /\ seen' = seen
      /\ hand' = hand
      /\ fifo' = fifo
      /\ pool' = pool
      /\ num' = num
      /\ sync' = sync /\ asked' = asked
      /\ bound' = bound
  BY DEF TimedOut, At, Goto, Look, Told, requests
<1>2. /\ Typed /\ FifosOK /\ HandsOK /\ LockOK /\ Sights /\ Counts /\ RequestsOK /\ Pending
      /\ Answers /\ Conserved
  BY Parts
<1>3. /\ c \in Threads /\ c \notin Movers
      /\ c # "ingress" /\ c # "egress" /\ c # "kthread" /\ c # "xmit"
      /\ \A d \in Callers : d \in Threads
      /\ {"ingress", "egress", "kthread", "xmit"} \subseteq Threads
  BY Names DEF Movers, Threads
<1>p. /\ pc'[c] = "idle"
      /\ \A t \in Threads \ {c} : pc'[t] = pc[t] /\ seen'[t] = seen[t] /\ hand'[t] = hand[t]
      /\ seen'[c] = seen[c]
      /\ hand'[c] = hand[c]
  BY <1>1, <1>2, <1>3 DEF Typed
<1>5. /\ KeptSights("", "") /\ FifosOK'
      /\ \A q \in Queues : Filled(q)' = Filled(q) /\ Empty(q)' = Empty(q)
      /\ fifo' = fifo
  BY <1>1, <1>2, NoFifo
<1>i. sync_lock = c /\ None \notin Callers /\ \A d \in Callers \ {c} : pc[d] = "idle"
  BY <1>1, <1>2, Alone
<1>o. \A t \in Threads : \A q \in Queues : t # c =>
        /\ q # "" /\ SawReader(t, q) => SawReader(t, q)'
        /\ q # "" /\ SawWriter(t, q) => SawWriter(t, q)'
        /\ fifo'[q].read = fifo[q].read => Visible(t, q)' = Visible(t, q)
        /\ fifo'[q].write = fifo[q].write => RoomSeen(t, q)' = RoomSeen(t, q)
  BY <1>1, <1>2, <1>5, <1>p, Others
<1>6. hand' \in [Threads -> Seq(Entries \cup Nat)]
  BY <1>1, <1>2, <1>3 DEF Typed, Entries
<1>t. pc' = [pc EXCEPT ![c] = "idle"] /\ seen' = seen /\ pool' = pool /\ num' = num /\ bound' = bound
  BY <1>1
<1>7. Typed'
  BY <1>t, <1>2, <1>3, <1>6 DEF Typed, Slots, KNI_FIFO_COUNT_MAX, IngressLabels, EgressLabels, KthreadLabels, XmitLabels, CallerLabels, Labels
<1>8. HandsOK'
  BY <1>1, <1>2, <1>3, <1>p DEF HandsOK, Burst
<1>9. Sights'
  <2>1. CallerSights'
    BY <1>2, <1>3, <1>p, <1>o DEF Sights, CallerSights, Queues
  <2>2. ApplicationSights'
    BY <1>2, <1>3, <1>p, <1>o DEF Sights, ApplicationSights, Queues
  <2>3. KernelSights'
    BY <1>2, <1>3, <1>p, <1>o DEF Sights, KernelSights, Queues
  <2>. QED BY <2>1, <2>2, <2>3 DEF Sights
<1>10. Counts'
  <2>1. CallerCounts'
    BY <1>1, <1>2, <1>3, <1>p, <1>5, <1>o DEF Counts, CallerCounts, Queues
  <2>2. KthreadCounts'
    BY <1>1, <1>2, <1>3, <1>p, <1>5, <1>o DEF Counts, KthreadCounts, Queues
  <2>3. XmitCounts'
    BY <1>1, <1>2, <1>3, <1>p, <1>5, <1>o DEF Counts, XmitCounts, Queues
  <2>. QED BY <2>1, <2>2, <2>3 DEF Counts
<1>a. LockOK'
  BY <1>1, <1>2, <1>3, <1>p, <1>i DEF LockOK
<1>b. RequestsOK'
  <2>1. told' \in [Callers -> [ret : Rets, result : Nat]] /\ \A d \in Callers : told'[d].ret # "ENODATA"
    BY <1>1, <1>2 DEF RequestsOK, Rets
  <2>2. timeouts' \in 0 .. bound.timeouts
    BY <1>1, <1>2, Size DEF RequestsOK
  <2>. QED BY <1>1, <1>2, <2>1, <2>2 DEF RequestsOK
<1>c. Pending'
  <2>n. Filled("req_q") \in Nat /\ Filled("resp_q") \in Nat /\ timeouts \in Nat /\ bound.slots \in Nat
        /\ bound.slots >= 2
    BY <1>2, Numbers
  <2>1. Awaited = 1 /\ Awaited' = 0
    BY <1>1, <1>3, <1>p, <1>i DEF Awaited, Waiting
  <2>2. Handled' = Handled /\ Handled \in Nat
    BY <1>3, <1>p DEF Handled
  <2>3. Filled("req_q")' = Filled("req_q") /\ Filled("resp_q")' = Filled("resp_q")
    BY <1>5 DEF Queues
  <2>4. timeouts + 1 < bound.slots => Filled("req_q") + Filled("resp_q") + Handled = timeouts + 1
    BY <1>2, <2>1 DEF Pending
  <2>5. timeouts' + 1 < bound.slots => timeouts + 1 < bound.slots
    BY <1>1, <2>n
  <2>6. timeouts' + 0 = timeouts + 1
    BY <1>1, <2>n
  <2>7. pc'["ingress"] = "respond" /\ timeouts + 1 < bound.slots =>
          Gap(bound.slots, seen'["ingress"], fifo'["resp_q"].write) <= timeouts'
    <3>. DEFINE x == Gap(bound.slots, seen["ingress"], fifo["resp_q"].write)
    <3>1. x \in Nat
      BY <1>2, <1>3, CountOf, Size, GapType DEF Queues
    <3>2. pc["ingress"] = "respond" /\ timeouts + 1 < bound.slots => x <= timeouts
      BY <1>2 DEF Pending
    <3>. HIDE DEF x
    <3>3. x <= timeouts => x <= timeouts'
      BY <1>1, <2>n, <3>1
    <3>. QED BY <1>1, <1>3, <1>p, <3>2, <3>3 DEF x
  <2>. QED BY <1>1, <2>1, <2>2, <2>3, <2>4, <2>5, <2>6, <2>7 DEF Pending
<1>d. Answers'
  <2>1. timeouts' # 0
    BY <1>1, <1>2, Size DEF RequestsOK
  <2>. QED BY <2>1 DEF Answers
<1>12. Conserved'
  <2>1. \A x \in Movers : hand'[x] = hand[x]
    BY <1>3, <1>p, Names
  <2>2. \A q \in PacketQueues : fifo'[q] = fifo[q]
    BY <1>5 DEF PacketQueues, Queues
  <2>. QED BY <1>1, <2>1, <2>2, NothingMoves
<1>. QED BY <1>5, <1>7, <1>8, <1>9, <1>10, <1>a, <1>b, <1>c, <1>d, <1>12 DEF IInv

(* ResponseLook: the caller sees a response.                                *)
LEMMA ResponseLookStep ==
  ASSUME IInv, NEW c \in Callers, ResponseLook(c)
  PROVE  IInv'
<1>1. /\ pc[c] = "awake"
      /\ pc' = [pc EXCEPT ![c] = "take"]
      /\ seen' = [seen EXCEPT ![c] = fifo["resp_q"].write]
      /\ hand' = hand
      /\ fifo' = fifo
      /\ pool' = pool
      /\ num' = num
      /\ sync' = sync /\ sync_lock' = sync_lock /\ asked' = asked /\ told' = told /\ timeouts' = timeouts
      /\ bound' = bound
  BY DEF ResponseLook, At, Goto, Look, Told, requests
<1>2. /\ Typed /\ FifosOK /\ HandsOK /\ LockOK /\ Sights /\ Counts /\ RequestsOK /\ Pending
      /\ Answers /\ Conserved
  BY Parts
<1>3. /\ c \in Threads /\ c \notin Movers
      /\ c # "ingress" /\ c # "egress" /\ c # "kthread" /\ c # "xmit"
      /\ \A d \in Callers : d \in Threads
      /\ {"ingress", "egress", "kthread", "xmit"} \subseteq Threads
  BY Names DEF Movers, Threads
<1>p. /\ pc'[c] = "take"
      /\ \A t \in Threads \ {c} : pc'[t] = pc[t] /\ seen'[t] = seen[t] /\ hand'[t] = hand[t]
      /\ hand'[c] = hand[c]
      /\ seen'[c] = fifo["resp_q"].write
  BY <1>1, <1>2, <1>3 DEF Typed
<1>5. /\ KeptSights("", "") /\ FifosOK'
      /\ \A q \in Queues : Filled(q)' = Filled(q) /\ Empty(q)' = Empty(q)
      /\ fifo' = fifo
  BY <1>1, <1>2, NoFifo
<1>o. \A t \in Threads : \A q \in Queues : t # c =>
        /\ q # "" /\ SawReader(t, q) => SawReader(t, q)'
        /\ q # "" /\ SawWriter(t, q) => SawWriter(t, q)'
        /\ fifo'[q].read = fifo[q].read => Visible(t, q)' = Visible(t, q)
        /\ fifo'[q].write = fifo[q].write => RoomSeen(t, q)' = RoomSeen(t, q)
  BY <1>1, <1>2, <1>5, <1>p, Others
<1>f. SawWriter(c, "resp_q")' /\ Visible(c, "resp_q")' = Filled("resp_q")
  <2>1. "resp_q" \in Queues /\ seen'[c] = fifo["resp_q"].write /\ fifo'["resp_q"] = fifo["resp_q"]
    BY <1>1, <1>2, <1>3, <1>5, <1>p DEF Queues
  <2>. QED BY <1>1, <1>2, <1>3, <2>1, Looked
<1>6. hand' \in [Threads -> Seq(Entries \cup Nat)]
  BY <1>1, <1>2, <1>3 DEF Typed, Entries
<1>t. pc' = [pc EXCEPT ![c] = "take"] /\ pool' = pool /\ num' = num /\ bound' = bound
  BY <1>1
<1>7. Typed'
  <2>1. seen' \in [Threads -> Slots]
    BY <1>1, <1>2, <1>3 DEF Typed, FifosOK, Queues
  <2>. QED BY <1>t, <1>2, <1>3, <1>6, <2>1 DEF Typed, Slots, KNI_FIFO_COUNT_MAX, IngressLabels, EgressLabels, KthreadLabels, XmitLabels, CallerLabels, Labels
<1>8. HandsOK'
  BY <1>1, <1>2, <1>3, <1>p DEF HandsOK, Burst
<1>9. Sights'
  <2>1. CallerSights'
    BY <1>2, <1>3, <1>p, <1>o, <1>f DEF Sights, CallerSights, Queues
  <2>2. ApplicationSights'
    BY <1>2, <1>3, <1>p, <1>o, <1>f DEF Sights, ApplicationSights, Queues
  <2>3. KernelSights'
    BY <1>2, <1>3, <1>p, <1>o, <1>f DEF Sights, KernelSights, Queues
  <2>. QED BY <2>1, <2>2, <2>3 DEF Sights
<1>10. Counts'
  <2>1. CallerCounts'
    BY <1>1, <1>2, <1>3, <1>p, <1>5, <1>o, <1>f DEF Counts, CallerCounts, Queues
  <2>2. KthreadCounts'
    BY <1>1, <1>2, <1>3, <1>p, <1>5, <1>o DEF Counts, KthreadCounts, Queues
  <2>3. XmitCounts'
    BY <1>1, <1>2, <1>3, <1>p, <1>5, <1>o DEF Counts, XmitCounts, Queues
  <2>. QED BY <2>1, <2>2, <2>3 DEF Counts
<1>a. LockOK'
  BY <1>1, <1>2, <1>3, <1>p DEF LockOK
<1>b. RequestsOK'
  BY <1>1, <1>2 DEF RequestsOK
<1>c. Pending'
  <2>1. Awaited = Awaited'
    <3>1. \A d \in Callers : Waiting(d)' = Waiting(d)
      BY <1>1, <1>3, <1>p DEF Waiting
    <3>. QED BY <3>1 DEF Awaited
  <2>2. Handled' = Handled
    BY <1>3, <1>p DEF Handled
  <2>3. Filled("req_q")' = Filled("req_q") /\ Filled("resp_q")' = Filled("resp_q")
    BY <1>5 DEF Queues
  <2>. QED BY <1>1, <1>2, <1>3, <1>p, <2>1, <2>2, <2>3 DEF Pending
<1>d. Answers'
  BY <1>1, <1>2, <1>3, <1>5, <1>p DEF Answers, Queues
<1>12. Conserved'
  <2>1. \A x \in Movers : hand'[x] = hand[x]
    BY <1>3, <1>p, Names
  <2>2. \A q \in PacketQueues : fifo'[q] = fifo[q]
    BY <1>5 DEF PacketQueues, Queues
  <2>. QED BY <1>1, <2>1, <2>2, NothingMoves
<1>. QED BY <1>5, <1>7, <1>8, <1>9, <1>10, <1>a, <1>b, <1>c, <1>d, <1>12 DEF IInv

(* ResponseTaken: the caller gets it.                                       *)
LEMMA ResponseTakenStep ==
  ASSUME IInv, NEW c \in Callers, ResponseTaken(c)
  PROVE  IInv'
<1>0. Got(c, "resp_q", 1) = <<sync_va>> /\ Len(Got(c, "resp_q", 1)) = 1
  <2>1. /\ Typed /\ FifosOK /\ c \in Threads /\ "resp_q" \in Queues /\ 1 \in Nat
        /\ SawWriter(c, "resp_q") /\ 1 <= Visible(c, "resp_q")
        /\ Content("resp_q", bound) = {sync_va}
    BY Parts, Names DEF ResponseTaken, At, Sights, CallerSights, Counts, CallerCounts, Threads, Queues, Content
  <2>. DEFINE g == Got(c, "resp_q", 1)  v == Visible(c, "resp_q")
  <2>2. g \in Seq({sync_va}) /\ Len(g) = Smaller(1, v) /\ v \in Nat /\ 1 <= v
    BY <2>1, GotIs, Ints
  <2>. HIDE DEF g, v
  <2>3. Len(g) = 1
    BY <2>2 DEF Smaller
  <2>4. g = <<sync_va>>
    BY <2>2, <2>3
  <2>. QED BY <2>3, <2>4 DEF g
<1>1. /\ pc[c] = "take"
      /\ pc' = [pc EXCEPT ![c] = "idle"]
      /\ Get(c, "resp_q", 1)
      /\ told' = [told EXCEPT ![c] = [ret |-> "ok", result |-> sync.result]]
      /\ sync_lock' = None
      /\ seen' = seen
      /\ hand' = hand
      /\ pool' = pool
      /\ num' = num
      /\ sync' = sync /\ asked' = asked /\ timeouts' = timeouts
      /\ bound' = bound
  BY <1>0 DEF ResponseTaken, At, Goto, Look, Told, requests
<1>2. /\ Typed /\ FifosOK /\ HandsOK /\ LockOK /\ Sights /\ Counts /\ RequestsOK /\ Pending
      /\ Answers /\ Conserved
  BY Parts
<1>3. /\ c \in Threads /\ c \notin Movers
      /\ c # "ingress" /\ c # "egress" /\ c # "kthread" /\ c # "xmit"
      /\ \A d \in Callers : d \in Threads
      /\ {"ingress", "egress", "kthread", "xmit"} \subseteq Threads
  BY Names DEF Movers, Threads
<1>p. /\ pc'[c] = "idle"
      /\ \A t \in Threads \ {c} : pc'[t] = pc[t] /\ seen'[t] = seen[t] /\ hand'[t] = hand[t]
      /\ seen'[c] = seen[c]
      /\ hand'[c] = hand[c]
  BY <1>1, <1>2, <1>3 DEF Typed
<1>4. /\ SawWriter(c, "resp_q") /\ "resp_q" \in Queues /\ Content("resp_q", bound) = {sync_va}
  BY <1>1, <1>2 DEF Sights, ApplicationSights, CallerSights, Content, Queues
<1>5. /\ KeptSights("", "resp_q") /\ FifosOK'
      /\ Got(c, "resp_q", 1) \in Seq({sync_va}) /\ Len(Got(c, "resp_q", 1)) \in 0 .. 1
      /\ Len(Got(c, "resp_q", 1)) = Smaller(1, Visible(c, "resp_q"))
      /\ Filled("resp_q")' = Filled("resp_q") - Len(Got(c, "resp_q", 1))
      /\ \A o \in Queues \ {"resp_q"} : fifo'[o] = fifo[o] /\ Filled(o)' = Filled(o) /\ Empty(o)' = Empty(o)
      /\ fifo'["resp_q"].write = fifo["resp_q"].write
  BY <1>1, <1>2, <1>3, <1>4, GetKeeps
<1>i. sync_lock = c /\ None \notin Callers /\ \A d \in Callers \ {c} : pc[d] = "idle"
  BY <1>1, <1>2, Alone
<1>o. \A t \in Threads : \A q \in Queues : t # c =>
        /\ q # "" /\ SawReader(t, q) => SawReader(t, q)'
        /\ q # "resp_q" /\ SawWriter(t, q) => SawWriter(t, q)'
        /\ fifo'[q].read = fifo[q].read => Visible(t, q)' = Visible(t, q)
        /\ fifo'[q].write = fifo[q].write => RoomSeen(t, q)' = RoomSeen(t, q)
  BY <1>1, <1>2, <1>5, <1>p, Others
<1>6. hand' \in [Threads -> Seq(Entries \cup Nat)]
  BY <1>1, <1>2, <1>3 DEF Typed, Entries
<1>t. pc' = [pc EXCEPT ![c] = "idle"] /\ seen' = seen /\ pool' = pool /\ num' = num /\ bound' = bound
  BY <1>1
<1>7. Typed'
  BY <1>t, <1>2, <1>3, <1>6 DEF Typed, Slots, KNI_FIFO_COUNT_MAX, IngressLabels, EgressLabels, KthreadLabels, XmitLabels, CallerLabels, Labels
<1>8. HandsOK'
  BY <1>1, <1>2, <1>3, <1>p DEF HandsOK, Burst
<1>9. Sights'
  <2>1. CallerSights'
    BY <1>3, <1>p, <1>i DEF CallerSights
  <2>2. ApplicationSights'
    BY <1>2, <1>3, <1>p, <1>o DEF Sights, ApplicationSights, Queues
  <2>3. KernelSights'
    BY <1>2, <1>3, <1>p, <1>o DEF Sights, KernelSights, Queues
  <2>. QED BY <2>1, <2>2, <2>3 DEF Sights
<1>10. Counts'
  <2>1. CallerCounts'
    BY <1>1, <1>3, <1>i, <1>p DEF CallerCounts
  <2>2. KthreadCounts'
    BY <1>1, <1>2, <1>3, <1>p, <1>5, <1>o DEF Counts, KthreadCounts, Queues
  <2>3. XmitCounts'
    BY <1>1, <1>2, <1>3, <1>p, <1>5, <1>o DEF Counts, XmitCounts, Queues
  <2>. QED BY <2>1, <2>2, <2>3 DEF Counts
<1>a. LockOK'
  BY <1>1, <1>2, <1>3, <1>p, <1>i DEF LockOK
<1>b. RequestsOK'
  <2>1. told' \in [Callers -> [ret : Rets, result : Nat]] /\ \A d \in Callers : told'[d].ret # "ENODATA"
    BY <1>1, <1>2 DEF RequestsOK, Rets
  <2>. QED BY <1>1, <1>2, <2>1 DEF RequestsOK
<1>c. Pending'
  <2>n. Filled("req_q") \in Nat /\ Filled("resp_q") \in Nat /\ timeouts \in Nat /\ bound.slots \in Nat
        /\ bound.slots >= 2
    BY <1>2, Numbers
  <2>1. Awaited = 1 /\ Awaited' = 0
    BY <1>1, <1>3, <1>p, <1>i DEF Awaited, Waiting
  <2>2. Handled' = Handled /\ Handled \in Nat
    BY <1>3, <1>p DEF Handled
  <2>3. Filled("req_q")' = Filled("req_q") /\ Filled("resp_q")' = Filled("resp_q") - 1
        /\ fifo'["resp_q"].write = fifo["resp_q"].write
    BY <1>5, <1>0 DEF Queues
  <2>4. timeouts + 1 < bound.slots => Filled("req_q") + Filled("resp_q") + Handled = timeouts + 1
    BY <1>2, <2>1 DEF Pending
  <2>5. timeouts + 1 < bound.slots => Filled("req_q") + (Filled("resp_q") - 1) + Handled = timeouts + 0
    <3>. DEFINE x == Filled("req_q")  y == Filled("resp_q")  h == Handled
    <3>1. x \in Nat /\ y \in Nat /\ h \in Nat /\ timeouts \in Nat
      BY <2>n, <2>2
    <3>2. timeouts + 1 < bound.slots => x + y + h = timeouts + 1
      BY <2>4
    <3>. HIDE DEF x, y, h
    <3>3. x + y + h = timeouts + 1 => x + (y - 1) + h = timeouts + 0
      BY <3>1
    <3>4. timeouts + 1 < bound.slots => x + (y - 1) + h = timeouts + 0
      BY <3>2, <3>3
    <3>. QED BY <3>4 DEF x, y, h
  <2>. QED BY <1>1, <1>2, <1>3, <1>p, <2>1, <2>2, <2>3, <2>5 DEF Pending
<1>d. Answers'
  <2>1. Filled("resp_q")' = Filled("resp_q") - 1 /\ Filled("resp_q") \in Nat
    BY <1>0, <1>2, <1>4, <1>5, Ints
  <2>2. Filled("resp_q") > 0
    <3>. DEFINE v == Visible(c, "resp_q")  u == Filled("resp_q")
    <3>1. Len(Got(c, "resp_q", 1)) <= u /\ u \in Nat
      BY <1>2, <1>3, <1>4, <2>1, GotIs
    <3>2. 1 <= u
      BY <1>0, <3>1
    <3>. HIDE DEF u
    <3>3. u > 0
      BY <3>1, <3>2
    <3>. QED BY <3>3 DEF u
  <2>3. timeouts = 0 => sync.result = asked[c]
    BY <1>2, <1>i, <2>2 DEF Answers
  <2>4. told'[c].result = sync.result /\ \A d \in Callers \ {c} : told'[d] = told[d]
    BY <1>1, <1>2 DEF RequestsOK
  <2>5. pc'["ingress"] = pc["ingress"] /\ hand'["ingress"] = hand["ingress"]
    BY <1>3, <1>p
  <2>6. \A d \in Callers : sync_lock' # d
    BY <1>1, <1>i
  <2>. QED BY <1>1, <1>2, <2>2, <2>3, <2>4, <2>5, <2>6 DEF Answers
<1>12. Conserved'
  <2>1. \A x \in Movers : hand'[x] = hand[x]
    BY <1>3, <1>p, Names
  <2>2. \A q \in PacketQueues : fifo'[q] = fifo[q]
    BY <1>5 DEF PacketQueues, Queues
  <2>. QED BY <1>1, <2>1, <2>2, NothingMoves
<1>. QED BY <1>5, <1>7, <1>8, <1>9, <1>10, <1>a, <1>b, <1>c, <1>d, <1>12 DEF IInv

-----------------------------------------------------------------------------
(* The theorems.                                                            *)

(* The invariant holds at first, ...                                        *)
LEMMA InitIInv == Init => IInv
<1>. SUFFICES ASSUME Init PROVE IInv
  OBVIOUS
<1>1. /\ bound \in Bounds
      /\ fifo = [q \in Queues |-> [buffer |-> [j \in Slots |-> None], write |-> 0, read |-> 0]]
      /\ pool = bound.mbufs
      /\ pc = [p \in Threads |-> "idle"]
      /\ seen = [p \in Threads |-> 0]
      /\ hand = [p \in Threads |-> <<>>]
      /\ num = 0
      /\ sync = [id |-> 0, result |-> 0]
      /\ sync_lock = None
      /\ asked = [c \in Callers |-> 0]
      /\ told = [c \in Callers |-> [ret |-> "none", result |-> 0]]
      /\ timeouts = 0
  BY DEF Init
<1>2. {"ingress", "egress", "kthread", "xmit"} \subseteq Threads /\ Callers \subseteq Threads
      /\ Movers \subseteq Threads
  BY DEF Threads, Movers
<1>3. bound.slots \in Nat /\ bound.slots >= 2 /\ bound.timeouts \in Nat /\ Slots = 0 .. bound.slots - 1 /\ 0 \in Slots
  <2>1. bound.slots \in Nat \ {0, 1} /\ bound.timeouts \in Nat
    BY <1>1, BoundsAssumption
  <2>2. bound.slots >= 2 /\ 0 \in 0 .. bound.slots - 1
    BY <2>1
  <2>. QED BY <2>1, <2>2 DEF Slots, KNI_FIFO_COUNT_MAX
<1>4. Typed
  <2>1. <<>> \in Seq(Entries \cup Nat)
    OBVIOUS
  <2>2. hand \in [Threads -> Seq(Entries \cup Nat)]
    BY <1>1, <2>1
  <2>3. seen \in [Threads -> Slots]
    BY <1>1, <1>3
  <2>4. num \in 0 .. MAX_MBUF_BURST_NUM
    BY <1>1, BurstAssumption
  <2>5. pc \in [Threads -> Labels] /\ \A p \in Threads : pc[p] = "idle"
    BY <1>1 DEF Labels, IngressLabels
  <2>6. /\ pc["ingress"] \in IngressLabels /\ pc["egress"] \in EgressLabels
        /\ pc["kthread"] \in KthreadLabels /\ pc["xmit"] \in XmitLabels
        /\ \A c \in Callers : pc[c] \in CallerLabels
    BY <1>2, <2>5 DEF IngressLabels, EgressLabels, KthreadLabels, XmitLabels, CallerLabels
  <2>. QED BY <1>1, <2>2, <2>3, <2>4, <2>5, <2>6 DEF Typed
<1>5. \A q \in Queues : /\ fifo[q].read = 0 /\ fifo[q].write = 0
                        /\ \A j \in Slots : fifo[q].buffer[j] = None
  BY <1>1
<1>6. \A q \in Queues : Filled(q) = 0
  BY <1>3, <1>5 DEF Filled, Used, Gap
<1>7. FifosOK
  <2>1. fifo \in [Queues -> [buffer : [Slots -> Entries], write : Slots, read : Slots]]
    BY <1>1, <1>3 DEF Entries
  <2>2. ASSUME NEW q \in Queues PROVE FifoOK(bound.slots, Content(q, bound), fifo[q])
    <3>1. fifo[q] \in [buffer : [0 .. bound.slots - 1 -> Content(q, bound) \cup {None}],
                       write : 0 .. bound.slots - 1, read : 0 .. bound.slots - 1]
      BY <1>1, <1>3
    <3>2. Used(bound.slots, fifo[q]) = 0
      BY <1>6 DEF Filled
    <3>3. \A j \in 0 .. bound.slots - 1 : ~(Gap(bound.slots, fifo[q].read, j) < 0)
      <4>1. 0 \in 0 .. bound.slots - 1 /\ bound.slots \in Sizes
        BY <1>3 DEF Sizes
      <4>2. \A j \in 0 .. bound.slots - 1 : Gap(bound.slots, 0, j) \in 0 .. bound.slots - 1
        BY <4>1, GapType
      <4>3. \A x \in 0 .. bound.slots - 1 : ~(x < 0)
        OBVIOUS
      <4>. QED BY <1>5, <4>2, <4>3
    <3>. QED BY <1>3, <1>5, <3>1, <3>2, <3>3 DEF FifoOK
  <2>. QED BY <2>1, <2>2 DEF FifosOK
<1>8. HandsOK
  BY <1>1, <1>2 DEF HandsOK
<1>9. LockOK
  BY <1>1, <1>2, ValuesAssumption DEF LockOK
<1>10. Sights /\ Counts
  BY <1>1, <1>2 DEF Sights, ApplicationSights, KernelSights, CallerSights,
                    Counts, KthreadCounts, XmitCounts, CallerCounts
<1>11. RequestsOK
  BY <1>1, <1>3 DEF RequestsOK, Rets
<1>12. Pending
  <2>1. Handled = 0 /\ Awaited = 0 /\ Filled("req_q") = 0 /\ Filled("resp_q") = 0
    BY <1>1, <1>2, <1>6 DEF Handled, Awaited, Waiting, Queues
  <2>2. 0 + 0 + 0 = 0 + 0
    OBVIOUS
  <2>3. pc["ingress"] # "respond"
    BY <1>1, <1>2
  <2>. QED BY <1>1, <2>1, <2>2, <2>3 DEF Pending
<1>13. Answers
  <2>1. ~(Filled("resp_q") > 0)
    BY <1>6 DEF Queues
  <2>. QED BY <1>1, <1>2, <2>1, ValuesAssumption DEF Answers
<1>14. Conserved
  <2>1. ASSUME NEW m \in bound.mbufs PROVE Single(bound.slots, pool, fifo, hand, m)
    <3>1. m # None
      BY <1>1, BoundsAssumption, ValuesAssumption
    <3>2. NoSlot(bound.slots, fifo, m)
      BY <1>3, <1>5, <3>1 DEF NoSlot, PacketQueues, Queues
    <3>3. NoHand(hand, m)
      BY <1>1, <1>2 DEF NoHand
    <3>. QED BY <1>1, <3>2, <3>3 DEF Single
  <2>. QED BY <2>1 DEF Conserved
<1>. QED BY <1>4, <1>7, <1>8, <1>9, <1>10, <1>11, <1>12, <1>13, <1>14 DEF IInv

(* ... every step keeps it, ...                                             *)
LEMMA NextStep ==
  ASSUME IInv, [Next]_vars
  PROVE  IInv'
<1>1. CASE Ingress /\ num' = num
  BY <1>1, TxBurstStep, TxPutStep, TxFreeLookStep, TxFreeStep,
     HandlerLookStep, HandlerGetStep, HandlerAnswerStep, HandlerRespondStep DEF Ingress
<1>2. CASE Egress /\ num' = num
  BY <1>2, RxBurstStep, RxGetStep, RxAllocStep, RxFillStep DEF Egress
<1>3. CASE Kthread
  BY <1>3, KernelRxStep, KernelLookStep, KernelGetStep, KernelFreeLookStep, KernelFreeStep, KernelPollStep
  DEF Kthread
<1>4. CASE Xmit \/ XmitGet \/ XmitPut
  BY <1>4, XmitStep, XmitGetStep, XmitPutStep
<1>5. ASSUME NEW c \in Callers, Request(c) \/ Caller(c) \/ TimedOut(c)
      PROVE  IInv'
  BY <1>5, RequestStep, RequestSentStep, ResponseThereStep, ResponseLookStep, ResponseTakenStep, TimedOutStep
  DEF Caller
<1>6. CASE UNCHANGED vars
  <2>1. /\ fifo' = fifo /\ pool' = pool /\ pc' = pc /\ seen' = seen /\ hand' = hand /\ num' = num /\ sync' = sync
        /\ sync_lock' = sync_lock /\ asked' = asked /\ told' = told /\ timeouts' = timeouts /\ bound' = bound
    BY <1>6 DEF vars
  <2>2. Typed' = Typed /\ FifosOK' = FifosOK /\ HandsOK' = HandsOK /\ LockOK' = LockOK
    BY <2>1 DEF Typed, FifosOK, HandsOK, LockOK, Slots, KNI_FIFO_COUNT_MAX
  <2>3. /\ \A q \in Queues : Filled(q)' = Filled(q) /\ Empty(q)' = Empty(q)
        /\ \A t \in Threads : \A q \in Queues :
             /\ SawReader(t, q)' = SawReader(t, q) /\ SawWriter(t, q)' = SawWriter(t, q)
             /\ Visible(t, q)' = Visible(t, q) /\ RoomSeen(t, q)' = RoomSeen(t, q)
    BY <2>1 DEF Filled, Empty, SawReader, SawWriter, Visible, RoomSeen
  <2>4. Sights' /\ Counts'
    BY <2>1, Parts DEF Sights, ApplicationSights, KernelSights, CallerSights,
       Counts, KthreadCounts, XmitCounts, CallerCounts, SawReader, SawWriter, Visible, RoomSeen, Filled, Empty
  <2>5. LockOK' /\ RequestsOK' /\ Pending' /\ Answers'
    BY <2>1, Unasked
  <2>6. Conserved'
    BY <2>1, NothingMoves
  <2>. QED BY <2>2, <2>4, <2>5, <2>6, Parts DEF IInv
<1>. QED BY <1>1, <1>2, <1>3, <1>4, <1>5, <1>6 DEF Next

(* ... and so it holds always.                                              *)
THEOREM SpecIInv == Spec => []IInv
<1>1. Init => IInv
  BY InitIInv
<1>2. IInv /\ [Next]_vars => IInv'
  BY NextStep
<1>. QED BY <1>1, <1>2, PTL DEF Spec

(* The variables have their types and only the caller with the lock is busy. *)
THEOREM TypeSafe == Spec => []TypeOK
<1>1. IInv => TypeOK
  <2>. SUFFICES ASSUME IInv PROVE TypeOK
    OBVIOUS
  <2>1. Typed /\ FifosOK /\ LockOK /\ RequestsOK
    BY Parts
  <2>2. pool \subseteq Mbufs
    BY <2>1, Size DEF Typed
  <2>. QED BY <2>1, <2>2 DEF TypeOK, Typed, FifosOK, LockOK, RequestsOK
<1>. QED BY <1>1, SpecIInv, PTL

(* As long as no request has timed out, a caller is told of its own result. *)
THEOREM OwnAnswers == Spec => []OwnAnswer
<1>1. IInv => OwnAnswer
  BY Parts DEF Answers, OwnAnswer
<1>. QED BY <1>1, SpecIInv, PTL

(* What was counted once is still there.                                    *)
THEOREM ChecksHold == Spec => []ChecksSuffice
<1>1. IInv => ChecksSuffice
  <2>. SUFFICES ASSUME IInv PROVE ChecksSuffice
    OBVIOUS
  <2>1. Typed /\ FifosOK /\ HandsOK /\ Sights /\ Counts /\ RequestsOK
    BY Parts
  <2>2. {"ingress", "egress", "kthread", "xmit"} \subseteq Threads
    BY DEF Threads
  <2>3. ASSUME NEW h \in Nat, NEW r \in Nat, h <= r PROVE Smaller(h, r) = h
    BY <2>3 DEF Smaller
  <2>4. ASSUME At("kthread", "get") PROVE Len(Got("kthread", "rx_q", num)) = num
    <3>1. SawWriter("kthread", "rx_q") /\ num <= Visible("kthread", "rx_q")
      BY <2>1, <2>4 DEF At, Sights, KernelSights, Counts, KthreadCounts
    <3>2. Visible("kthread", "rx_q") \in Nat /\ num \in Nat
      BY <2>1, <2>2, Ints DEF Queues
    <3>3. Len(Got("kthread", "rx_q", num)) = Smaller(num, Visible("kthread", "rx_q"))
      BY <2>1, <2>2, <3>1, <3>2, GotIs DEF Queues
    <3>. QED BY <2>3, <3>1, <3>2, <3>3
  <2>5. ASSUME At("xmit", "get") PROVE Len(Got("xmit", "alloc_q", 1)) = 1
    <3>1. SawWriter("xmit", "alloc_q") /\ 1 <= Visible("xmit", "alloc_q")
      BY <2>1, <2>5 DEF At, Sights, KernelSights, Counts, XmitCounts
    <3>2. Visible("xmit", "alloc_q") \in Nat /\ 1 \in Nat
      BY <2>1, <2>2, Ints DEF Queues
    <3>3. Len(Got("xmit", "alloc_q", 1)) = Smaller(1, Visible("xmit", "alloc_q"))
      BY <2>1, <2>2, <3>1, <3>2, GotIs DEF Queues
    <3>. QED BY <2>3, <3>1, <3>2, <3>3
  <2>6. ASSUME NEW p \in Threads, NEW q \in Queues PROVE Accepted(p, q) = Smaller(Len(hand[p]), RoomSeen(p, q))
    <3>1. /\ \A a, b \in 0 .. bound.slots - 1 : Between(a, b) = Gap(bound.slots, a, b)
          /\ seen[p] \in 0 .. bound.slots - 1 /\ fifo[q].write \in 0 .. bound.slots - 1
      BY <2>1, Counting, CountOf, Size
    <3>. QED BY <3>1 DEF Accepted, Room, RoomSeen, KNI_FIFO_COUNT_MAX
  <2>7. ASSUME At("kthread", "put") PROVE Accepted("kthread", "free_q") = Len(hand["kthread"])
    <3>1. Len(hand["kthread"]) <= RoomSeen("kthread", "free_q")
      BY <2>1, <2>7 DEF At, Counts, KthreadCounts
    <3>2. RoomSeen("kthread", "free_q") \in Nat /\ Len(hand["kthread"]) \in Nat
      BY <2>1, <2>2, Ints DEF Queues
    <3>3. Accepted("kthread", "free_q") = Smaller(Len(hand["kthread"]), RoomSeen("kthread", "free_q"))
      BY <2>2, <2>6 DEF Queues
    <3>. QED BY <2>3, <3>1, <3>2, <3>3
  <2>8. ASSUME At("xmit", "put") PROVE Accepted("xmit", "tx_q") = 1
    <3>1. Len(hand["xmit"]) = 1 /\ 1 <= RoomSeen("xmit", "tx_q")
      BY <2>1, <2>8 DEF At, Counts, XmitCounts
    <3>2. RoomSeen("xmit", "tx_q") \in Nat /\ 1 \in Nat
      BY <2>1, <2>2, Ints DEF Queues
    <3>3. Accepted("xmit", "tx_q") = Smaller(Len(hand["xmit"]), RoomSeen("xmit", "tx_q"))
      BY <2>2, <2>6 DEF Queues
    <3>. QED BY <2>3, <3>1, <3>2, <3>3
  <2>9. \A c \in Callers : told[c].ret # "ENODATA"
    BY <2>1 DEF RequestsOK
  <2>. QED BY <2>4, <2>5, <2>7, <2>8, <2>9 DEF ChecksSuffice
<1>. QED BY <1>1, SpecIInv, PTL

(* Requests and responses under way: one of each that timed out and one of  *)
(* the caller that waits.                                                   *)
THEOREM BacklogGrows == Spec => []Backlog
<1>1. IInv => Backlog
  <2>. SUFFICES ASSUME IInv PROVE Backlog
    OBVIOUS
  <2>1. Typed /\ FifosOK /\ LockOK /\ Pending
    BY Parts
  <2>2. kni_fifo_count("req_q") = Filled("req_q") /\ kni_fifo_count("resp_q") = Filled("resp_q")
    BY <2>1, CountOf DEF Queues
  <2>. DEFINE Serving == {p \in {"ingress"} : pc[p] \in {"answer", "respond"}}
              Waiters == {c \in Callers : pc[c] \in {"wait", "asleep", "awake", "take"}}
  <2>3. Cardinality(Serving) = Handled
    <3>1. CASE pc["ingress"] \in {"answer", "respond"}
      <4>1. Serving = {"ingress"}
        BY <3>1
      <4>. QED BY <3>1, <4>1, FS_Singleton DEF Handled
    <3>2. CASE pc["ingress"] \notin {"answer", "respond"}
      <4>1. Serving = {}
        BY <3>2
      <4>. QED BY <3>2, <4>1, FS_EmptySet DEF Handled
    <3>. QED BY <3>1, <3>2
  <2>4. Cardinality(Waiters) = Awaited
    <3>1. CASE \E c \in Callers : Waiting(c)
      <4>1. PICK c \in Callers : Waiting(c)
        BY <3>1
      <4>2. \A d \in Callers \ {c} : ~Waiting(d)
        BY <2>1, <4>1, Alone DEF Waiting
      <4>3. Waiters = {c}
        BY <4>1, <4>2 DEF Waiting
      <4>. QED BY <3>1, <4>3, FS_Singleton DEF Awaited
    <3>2. CASE ~\E c \in Callers : Waiting(c)
      <4>1. Waiters = {}
        BY <3>2 DEF Waiting
      <4>. QED BY <3>2, <4>1, FS_EmptySet DEF Awaited
    <3>. QED BY <3>1, <3>2
  <2>5. InFlight = Filled("req_q") + Filled("resp_q") + Handled
    BY <2>2, <2>3 DEF InFlight
  <2>6. timeouts + 1 < bound.slots => Filled("req_q") + Filled("resp_q") + Handled = timeouts + Awaited
    BY <2>1 DEF Pending
  <2>. QED BY <2>4, <2>5, <2>6 DEF Backlog, KNI_FIFO_COUNT_MAX
<1>. QED BY <1>1, SpecIInv, PTL

(* Each mbuf is free, in one slot or in the hands of one thread.            *)
THEOREM NoMbufLost == Spec => []MbufsConserved
<1>1. IInv => MbufsConserved
  <2>. SUFFICES ASSUME IInv, NEW m \in bound.mbufs
                PROVE  Cardinality({m} \cap pool)
                       + Cardinality({qj \in Queues \X Slots : fifo[qj[1]].buffer[qj[2]] = m})
                       + Cardinality({pk \in {"ingress", "egress", "kthread", "xmit"} \X (1 .. MAX_MBUF_BURST_NUM) :
                                        pk[2] \in DOMAIN hand[pk[1]] /\ hand[pk[1]][pk[2]] = m}) = 1
    BY DEF MbufsConserved
  <2>. DEFINE InPool == {m} \cap pool
              InSlots == {qj \in Queues \X Slots : fifo[qj[1]].buffer[qj[2]] = m}
              InHands == {pk \in {"ingress", "egress", "kthread", "xmit"} \X (1 .. MAX_MBUF_BURST_NUM) :
                            pk[2] \in DOMAIN hand[pk[1]] /\ hand[pk[1]][pk[2]] = m}
  <2>1. Typed /\ FifosOK /\ HandsOK /\ Single(bound.slots, pool, fifo, hand, m)
    BY Parts DEF Conserved
  <2>2. Slots = 0 .. bound.slots - 1
    BY <2>1, Size
  <2>3. ASSUME NEW q \in {"req_q", "resp_q"}, NEW j \in Slots PROVE fifo[q].buffer[j] # m
    <3>1. fifo[q].buffer[j] \in {sync_va, None}
      <4>1. FifoOK(bound.slots, Content(q, bound), fifo[q])
        BY <2>1, Names DEF FifosOK
      <4>. QED BY <2>2, <4>1 DEF FifoOK, Content
    <3>. QED BY <2>1, <3>1, Size, ValuesAssumption
  <2>4. Queues = PacketQueues \cup {"req_q", "resp_q"}
    BY DEF Queues, PacketQueues
  <2>5. \A q \in Queues : \A j \in Slots : fifo[q].buffer[j] = m => q \in PacketQueues
    BY <2>3, <2>4
  <2>6. ASSUME NEW p \in Movers
        PROVE  DOMAIN hand[p] = 1 .. Len(hand[p]) /\ 1 .. Len(hand[p]) \subseteq 1 .. MAX_MBUF_BURST_NUM
    <3>1. hand[p] \in Seq(Entries \cup Nat)
      BY <2>1, Names DEF Typed
    <3>2. Len(hand[p]) <= MAX_MBUF_BURST_NUM
      <4>1. Len(<<>>) = 0 /\ Len(<<sync_va>>) = 1 /\ MAX_MBUF_BURST_NUM \in Nat /\ MAX_MBUF_BURST_NUM # 0
        BY BurstAssumption
      <4>2. 0 <= MAX_MBUF_BURST_NUM /\ 1 <= MAX_MBUF_BURST_NUM
        BY <4>1
      <4>3. CASE p = "ingress"
        BY <2>1, <4>1, <4>2, <4>3 DEF HandsOK, Burst
      <4>4. CASE p = "egress"
        BY <2>1, <4>1, <4>2, <4>4 DEF HandsOK, Burst
      <4>5. CASE p = "kthread"
        BY <2>1, <4>1, <4>2, <4>5 DEF HandsOK, Burst
      <4>6. CASE p = "xmit"
        BY <2>1, <4>1, <4>2, <4>6 DEF HandsOK, Burst
      <4>. QED BY <4>3, <4>4, <4>5, <4>6 DEF Movers
    <3>3. Len(hand[p]) \in Nat
      BY <3>1
    <3>4. DOMAIN hand[p] = 1 .. Len(hand[p])
      BY <3>1
    <3>. QED BY <3>2, <3>3, <3>4, BurstAssumption
  <2>7. CASE m \in pool /\ NoSlot(bound.slots, fifo, m) /\ NoHand(hand, m)
    <3>1. InPool = {m} /\ InSlots = {} /\ InHands = {}
      BY <2>2, <2>5, <2>6, <2>7 DEF NoSlot, NoHand, Movers
    <3>2. Cardinality(InPool) = 1 /\ Cardinality(InSlots) = 0 /\ Cardinality(InHands) = 0
      BY <3>1, FS_Singleton, FS_EmptySet
    <3>. QED BY <3>2
  <2>8. CASE /\ m \notin pool /\ NoHand(hand, m)
             /\ \E q \in PacketQueues : \E j \in 0 .. bound.slots - 1 : OneSlot(bound.slots, fifo, m, q, j)
    <3>1. PICK q \in PacketQueues : \E j \in 0 .. bound.slots - 1 : OneSlot(bound.slots, fifo, m, q, j)
      BY <2>8
    <3>2. PICK j \in 0 .. bound.slots - 1 : OneSlot(bound.slots, fifo, m, q, j)
      BY <3>1
    <3>3. InPool = {} /\ InHands = {}
      BY <2>6, <2>8 DEF NoHand, Movers
    <3>4. InSlots = {<<q, j>>}
      <4>1. <<q, j>> \in InSlots
        BY <2>2, <2>4, <3>2 DEF OneSlot
      <4>2. \A x \in InSlots : x = <<q, j>>
        BY <2>2, <2>5, <3>2 DEF OneSlot
      <4>. QED BY <4>1, <4>2
    <3>5. Cardinality(InPool) = 0 /\ Cardinality(InSlots) = 1 /\ Cardinality(InHands) = 0
      BY <3>3, <3>4, FS_Singleton, FS_EmptySet
    <3>. QED BY <3>5
  <2>9. CASE /\ m \notin pool /\ NoSlot(bound.slots, fifo, m)
             /\ \E p \in Movers : \E k \in 1 .. Len(hand[p]) : OneHand(hand, m, p, k)
    <3>1. PICK p \in Movers : \E k \in 1 .. Len(hand[p]) : OneHand(hand, m, p, k)
      BY <2>9
    <3>2. PICK k \in 1 .. Len(hand[p]) : OneHand(hand, m, p, k)
      BY <3>1
    <3>3. InPool = {} /\ InSlots = {}
      BY <2>2, <2>5, <2>9 DEF NoSlot
    <3>4. InHands = {<<p, k>>}
      <4>1. <<p, k>> \in InHands
        BY <2>6, <3>2 DEF OneHand, Movers
      <4>2. \A x \in InHands : x = <<p, k>>
        BY <2>6, <3>2 DEF OneHand, Movers
      <4>. QED BY <4>1, <4>2
    <3>5. Cardinality(InPool) = 0 /\ Cardinality(InSlots) = 0 /\ Cardinality(InHands) = 1
      BY <3>3, <3>4, FS_Singleton, FS_EmptySet
    <3>. QED BY <3>5
  <2>. QED BY <2>1, <2>7, <2>8, <2>9 DEF Single
<1>. QED BY <1>1, SpecIInv, PTL
=============================================================================
