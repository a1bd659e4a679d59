------------------------------- MODULE MCMain -------------------------------
(***************************************************************************)
(* Values for model checking Main: three lcores, any of them enabled; no    *)
(* device, fewer than MAX_PORTS or more; masks with holes, of ports that do *)
(* not exist, and of more bits than a mask holds; numbers at each limit.    *)
(***************************************************************************)
EXTENDS Main

AnyLcores == SUBSET Lcores \ {{}}
Masks == {Malformed, {}, {0}, {1, 3}, {0, 2, 3}, {0, 1, 2, 3}, {4}, {5}}
Nqueues == {Malformed} \cup 0 .. MAX_RX_QUEUE_PER_LCORE
Timers == {Malformed, -1, 0, MAX_TIMER_PERIOD - 1, MAX_TIMER_PERIOD}
=============================================================================
