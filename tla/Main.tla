-------------------------------- MODULE Main --------------------------------
(***************************************************************************)
(* MAIN of learning-switch/main.c: rte_eal_init, which ends with a dummy    *)
(* launch that shows that every slave is ready (Launch), the options and    *)
(* the ports (Startup), and the launch of main_loop on every lcore.  The    *)
(* answer of that launch is not looked at.                                  *)
(***************************************************************************)
EXTENDS Startup

VARIABLES created, state, f, m2s, s2m, spc, mpc, todo, answer,
          phase    \* where MAIN is, apart from parse_args and init_ports

Eal == INSTANCE Launch
launch == <<created, state, f, m2s, s2m, spc, mpc, todo, answer>>
allvars == <<vars, launch, phase>>

MainInit == Init /\ Eal!Init /\ phase = "create"

(* rte_eal_init: the threads, the dummy launch and the wait. *)
EalCreate == /\ phase = "create"
             /\ Eal!CreateThread
             /\ UNCHANGED <<vars, phase>>
EalSync == /\ phase = "create"
           /\ created = Eal!Slaves
           /\ Eal!MpRemoteLaunch("sync_func")
           /\ phase' = "sync"
           /\ UNCHANGED vars
EalWait == /\ phase = "sync"
           /\ Eal!MpWaitLcore
           /\ phase' = "ready"
           /\ UNCHANGED vars

(* parse_args, init_eal and init_ports, up to where they exit or return. *)
Configure == /\ phase = "ready" /\ mpc = "user"
             /\ Next
             /\ UNCHANGED <<launch, phase>>

(* rte_eal_mp_remote_launch(launch_one_lcore, NULL, CALL_MASTER).  If it    *)
(* says -EBUSY, MAIN goes on to wait for the slaves and ends.               *)
LaunchLcores == /\ phase = "ready" /\ pc = "main_loop"
                /\ Eal!MpRemoteLaunch("main_loop")
                /\ phase' = "launch"
                /\ UNCHANGED vars

MasterStep == /\ Eal!Master \/ Eal!Launched(phase = "launch")
              /\ UNCHANGED <<vars, phase>>
SlaveStep(l) == Eal!Slave(l) /\ UNCHANGED <<vars, phase>>

MasterNext == \/ EalCreate \/ EalSync \/ EalWait \/ Configure \/ LaunchLcores
              \/ MasterStep
MainNext == MasterNext \/ \E l \in Eal!Slaves : SlaveStep(l)

(* Every thread is scheduled; the options come to an end. *)
MainSpec == /\ MainInit /\ [][MainNext]_allvars
            /\ WF_allvars(MasterNext)
            /\ \A l \in Lcores : WF_allvars(l \in Eal!Slaves /\ SlaveStep(l))

-----------------------------------------------------------------------------
(* rte_eal_init returns, and the program is configured, only while every    *)
(* slave is ready: rte_eal_mp_wait_lcore never returns before the function  *)
(* it waits for, although a slave that has not yet read its command looks   *)
(* like one that has been waited for.                                       *)
SlavesReady ==
  (phase = "ready" /\ mpc = "user") =>
    created = Eal!Slaves /\ \A l \in Eal!Slaves : Eal!AtRest(l)

(* The states tell the truth: except for the slave the master is waiting an *)
(* answer of, one that is in WAIT has nothing to do, so that no function is *)
(* overwritten before its slave has read it.                                *)
StatesTrue ==
  \A l \in Eal!Slaves :
    state[l] = "WAIT" => Eal!AtRest(l) \/ (mpc = "ack" /\ Eal!First(l, todo))

(* Once the ports are started, every enabled lcore comes to main_loop, so   *)
(* that every enabled port is polled, although MAIN would go on without     *)
(* them if the launch said -EBUSY.                                          *)
InLoop(l) == IF l = Eal!master_lcore THEN mpc = "main_loop" ELSE spc[l] = "main_loop"
EveryLcoreLoops ==
  (pc = "main_loop") ~> \A l \in enabled_lcores : InLoop(l)
=============================================================================
