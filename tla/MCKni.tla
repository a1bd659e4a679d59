------------------------------- MODULE MCKni -------------------------------
(***************************************************************************)
(* Values for model checking Kni: packets in both directions with few       *)
(* mbufs, packets in each direction with more, and requests, three of two   *)
(* callers, of which one may time out.                                      *)
(***************************************************************************)
EXTENDS Kni

CONSTANT Two  \* of the mbufs
Both == {"ingress", "egress"}
Packets(threads, mbufs) ==
  [polls |-> threads, slots |-> 2, mbufs |-> mbufs, requests |-> 0, timeouts |-> 0]
Requests(n, lost) ==
  [polls |-> {"ingress"}, slots |-> 4, mbufs |-> {}, requests |-> n, timeouts |-> lost]
Kinds == {Packets(Both, Two), Packets({"ingress"}, Mbufs), Packets({"egress"}, Mbufs),
          Requests(3, 0), Requests(3, 1)}
=============================================================================
