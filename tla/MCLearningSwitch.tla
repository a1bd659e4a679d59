-------------------------- MODULE MCLearningSwitch --------------------------
(***************************************************************************)
(* Values for model checking LearningSwitch: lcores l1, l2; ports 0 and 1;  *)
(* host h1 behind port 0 and host h2 behind port 1.                         *)
(***************************************************************************)
EXTENDS LearningSwitch, TLC

CONSTANTS l1, l2, h1, h2, ip

OnePort == [l \in Lcores |-> IF l = l1 THEN <<0>> ELSE <<>>]
OneLcore == [l \in Lcores |-> IF l = l1 THEN <<0, 1>> ELSE <<>>]
TwoLcores == (l1 :> <<0>>) @@ (l2 :> <<1>>)
AllMbufs == PacketMbufs \cup HeaderMbufs

From(p, src, dsts, flows) == [port : {p}, src : {src}, dst : dsts, flow : flows]
Conf(lists, frames, bytes, max) ==
  [rx_queue_list |-> lists, frames |-> frames, upper_bytes |-> bytes, max_frames |-> max]

(* Unicast traffic of both flows, to the other host and to oneself. *)
Unicast == From(0, h1, {h1, h2}, {ip}) \cup From(1, h2, {h1}, {ip, Forbidden})
(* Broadcasts of one host and answers of the other. *)
Flooding == From(0, h1, {Broadcast}, {ip}) \cup From(1, h2, {h1}, {ip})
(* Broadcasts only. *)
Broadcasts == From(0, h1, {Broadcast}, {ip})
(* A host seen on both ports at once. *)
Moving == From(0, h1, {h1}, {ip, Forbidden}) \cup From(1, h1, {h1}, {ip, Forbidden})

(* One lcore with unicast traffic; one that floods, and one with a host on  *)
(* two ports, both of which sometimes read something else than 0 in the     *)
(* unwritten bytes; two lcores that learn one host at the same time.        *)
Paths == {Conf(OneLcore, Unicast, {0}, 5),
          Conf(OneLcore, Flooding, {0, 1}, 3),
          Conf(OneLcore, Moving, {0, 1}, 3),
          Conf(TwoLcores, Moving, {0}, 2)}
Quiet == {Conf(OneLcore, Unicast, {0}, 3)}
Shared == {Conf(TwoLcores, Flooding, {0}, 3)}
Bursts == {Conf(OnePort, Broadcasts, {0}, 4)}

Symmetry == Permutations(PacketMbufs) \cup Permutations(HeaderMbufs)
=============================================================================
