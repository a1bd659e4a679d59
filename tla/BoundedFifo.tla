---------------------------- MODULE BoundedFifo ----------------------------
(***************************************************************************)
(* What the header comment of lib/librte_ring/rte_ring.h promises of a     *)
(* ring: a FIFO of bounded size, with bulk calls that transfer all the     *)
(* objects or none, and burst calls that transfer as many as possible.     *)
(* Every enqueue and every dequeue takes effect in one indivisible step.   *)
(* RteRing is shown to implement this specification.                       *)
(***************************************************************************)
EXTENDS Naturals, Sequences

CONSTANTS Producers,   \* threads that enqueue
          Consumers,   \* threads that dequeue
          Items,       \* the objects (pointers) carried by the ring
          Capacity,    \* the most entries the ring can hold
          Requests,    \* the numbers of objects a call may ask for
          NoCall       \* the thread is not in a call

VARIABLES queue,       \* the entries of the ring, oldest first
          put,         \* put[p]: the objects p's call adds, and whether it is bulk
          get,         \* get[c]: how many objects c's call asks for, and if bulk
          taken        \* taken[c]: the objects c's call has removed so far

vars == <<queue, put, get, taken>>

Init == /\ queue = <<>>
        /\ put = [p \in Producers |-> NoCall]
        /\ get = [c \in Consumers |-> NoCall]
        /\ taken = [c \in Consumers |-> <<>>]

(* A producer calls enqueue with a table of objects. *)
CallPut(p) == /\ put[p] = NoCall
              /\ \E k \in Requests, b \in BOOLEAN :
                    \E s \in [1 .. k -> Items] :
                       put' = [put EXCEPT ![p] = [objs |-> s, bulk |-> b]]
              /\ UNCHANGED <<queue, get, taken>>

(* The call takes effect: a bulk call adds its whole table, a burst call a  *)
(* non-empty prefix of it, contiguously and at the end of the queue.        *)
Put(p) == /\ put[p] # NoCall
          /\ \E k \in 1 .. Len(put[p].objs) :
                /\ put[p].bulk => k = Len(put[p].objs)
                /\ Len(queue) + k <= Capacity
                /\ queue' = queue \o SubSeq(put[p].objs, 1, k)
          /\ put' = [put EXCEPT ![p] = NoCall]
          /\ UNCHANGED <<get, taken>>

(* The call fails and adds nothing. *)
RefusePut(p) == /\ put[p] # NoCall
                /\ put' = [put EXCEPT ![p] = NoCall]
                /\ UNCHANGED <<queue, get, taken>>

CallGet(c) == /\ get[c] = NoCall
              /\ \E k \in Requests, b \in BOOLEAN :
                    get' = [get EXCEPT ![c] = [count |-> k, bulk |-> b]]
              /\ UNCHANGED <<queue, put, taken>>

(* A dequeue takes effect: it removes the oldest entries, exactly as many   *)
(* as were asked for when the call is a bulk call.                          *)
Get(c) == /\ get[c] # NoCall
          /\ taken[c] = <<>>
          /\ \E k \in 1 .. Len(queue) :
                /\ k <= get[c].count
                /\ get[c].bulk => k = get[c].count
                /\ taken' = [taken EXCEPT ![c] = SubSeq(queue, 1, k)]
                /\ queue' = SubSeq(queue, k + 1, Len(queue))
          /\ UNCHANGED <<put, get>>

(* The call returns with exactly what it removed, or with nothing. *)
ReturnGet(c) == /\ get[c] # NoCall
                /\ get' = [get EXCEPT ![c] = NoCall]
                /\ taken' = [taken EXCEPT ![c] = <<>>]
                /\ UNCHANGED <<queue, put>>

(* Every step of a call changes the call's own record, so that what Next     *)
(* says of it first adds nothing: it lets the model checker see at once     *)
(* that a step which changes no record is a stuttering one.                 *)
Next == \/ put' # put /\ \E p \in Producers : CallPut(p) \/ Put(p) \/ RefusePut(p)
        \/ get' # get /\ \E c \in Consumers : CallGet(c) \/ ReturnGet(c)
        \/ taken' # taken /\ \E c \in Consumers : Get(c)

Spec == Init /\ [][Next]_vars
=============================================================================
