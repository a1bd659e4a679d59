------------------------------- MODULE Launch -------------------------------
(***************************************************************************)
(* lib/librte_eal: how the master lcore makes the slaves call a function    *)
(* (eal_common_launch.c, linuxapp/eal/eal_thread.c).  The state of a slave  *)
(* in lcore_config is written by both sides without a lock: what keeps them *)
(* apart is a byte through a pipe to the slave and one back.                *)
(*                                                                         *)
(* A read or write that a signal interrupts is tried again, which is the    *)
(* step not being taken.  Failing system calls panic and are left out.      *)
(***************************************************************************)
EXTENDS Naturals, FiniteSets

VARIABLES
  enabled_lcores,
  created,   \* the slaves whose pipes and thread exist
  state,     \* lcore_config[].state
  f,         \* lcore_config[].f
  m2s,       \* bytes in pipe_master2slave
  s2m,       \* bytes in pipe_slave2master
  spc,       \* what each slave does next
  mpc,       \* what the master does next; "user" between calls
  todo,      \* the slaves its loop has not visited
  answer     \* the function of the last rte_eal_mp_remote_launch, or "EBUSY"

config == <<state, f>>
pipes == <<m2s, s2m>>
master == <<mpc, todo, answer>>
vars == <<created, config, pipes, spc, master>>

(* RTE_LCORE_FOREACH_SLAVE visits the slaves in their order.                *)
First(l, S) == l \in S /\ \A k \in S : l <= k

(* The first bit of the core mask is the master. *)
master_lcore == CHOOSE l \in enabled_lcores : First(l, enabled_lcores)
Slaves == enabled_lcores \ {master_lcore}

Init ==
  /\ created = {}
  /\ state = [l \in enabled_lcores |-> "WAIT"]
  /\ f = [l \in enabled_lcores |-> "NULL"]
  /\ m2s = [l \in enabled_lcores |-> 0]
  /\ s2m = [l \in enabled_lcores |-> 0]
  /\ spc = [l \in enabled_lcores |-> "read"]
  /\ mpc = "user"
  /\ todo = {}
  /\ answer = "none"

(* rte_eal_init creates the slaves in their order; each may run at once.    *)
CreateThread ==
  /\ mpc = "user"
  /\ \E l \in Slaves : /\ First(l, Slaves \ created)
                       /\ created' = created \cup {l}
  /\ UNCHANGED <<config, pipes, spc, master>>

-----------------------------------------------------------------------------
(* rte_eal_mp_remote_launch of a function on the slaves, in their order.    *)
MpRemoteLaunch(fct) ==
  /\ mpc = "user"
  /\ IF \A l \in Slaves : state[l] = "WAIT"
       THEN /\ answer' = fct
            /\ todo' = Slaves
            /\ mpc' = "launch"
       ELSE /\ answer' = "EBUSY"
            /\ UNCHANGED <<mpc, todo>>
  /\ UNCHANGED <<created, config, pipes, spc>>

(* rte_eal_remote_launch: the function, then the byte ...  A slave that is  *)
(* not in WAIT is passed over, whatever the call answers.                   *)
MutantSend(l) ==  \* mutant: does not wait for the answer
  /\ mpc = "launch"
  /\ First(l, todo)
  /\ f' = [f EXCEPT ![l] = answer]
  /\ m2s' = [m2s EXCEPT ![l] = @ + 1]
  /\ todo' = todo \ {l}
  /\ UNCHANGED <<created, state, s2m, spc, mpc, answer>>
Send(l) ==
  /\ mpc = "launch"
  /\ First(l, todo)
  /\ IF state[l] = "WAIT"
       THEN /\ f' = [f EXCEPT ![l] = answer]
            /\ m2s' = [m2s EXCEPT ![l] = @ + 1]
            /\ mpc' = "ack"
            /\ UNCHANGED todo
       ELSE /\ todo' = todo \ {l}
            /\ UNCHANGED <<f, m2s, mpc>>
  /\ UNCHANGED <<created, state, s2m, spc, answer>>

(* ... and then the answer of the slave.                                    *)
Acknowledged(l) ==
  /\ mpc = "ack"
  /\ First(l, todo)
  /\ s2m[l] > 0
  /\ s2m' = [s2m EXCEPT ![l] = @ - 1]
  /\ todo' = todo \ {l}
  /\ mpc' = "launch"
  /\ UNCHANGED <<created, config, m2s, spc, answer>>

(* The call returns (SKIP_MASTER), or the master calls the function, which  *)
(* is main_loop and does not return.                                        *)
Launched(call_master) ==
  /\ mpc = "launch"
  /\ todo = {}
  /\ mpc' = IF call_master THEN "main_loop" ELSE "user"
  /\ UNCHANGED <<created, config, pipes, spc, todo, answer>>

(* rte_eal_mp_wait_lcore: rte_eal_wait_lcore for every slave, which returns *)
(* at once if the slave is in WAIT and spins until it is in FINISHED.       *)
MpWaitLcore ==
  /\ mpc = "user"
  /\ todo' = Slaves
  /\ mpc' = "wait"
  /\ UNCHANGED <<created, config, pipes, spc, answer>>

MutantWaitLcore(l) ==  \* mutant: leaves the slave in FINISHED
  /\ mpc = "wait"
  /\ First(l, todo)
  /\ state[l] \in {"WAIT", "FINISHED"}
  /\ todo' = todo \ {l}
  /\ UNCHANGED <<created, config, pipes, spc, mpc, answer>>
WaitLcore(l) ==
  /\ mpc = "wait"
  /\ First(l, todo)
  /\ state[l] \in {"WAIT", "FINISHED"}
  /\ state' = [state EXCEPT ![l] = "WAIT"]
  /\ todo' = todo \ {l}
  /\ UNCHANGED <<created, f, pipes, spc, mpc, answer>>

Waited ==
  /\ mpc = "wait"
  /\ todo = {}
  /\ mpc' = "user"
  /\ UNCHANGED <<created, config, pipes, spc, todo, answer>>

-----------------------------------------------------------------------------
(* eal_thread_loop on a slave.                                              *)
MutantReadCommand(l) ==  \* mutant: is not RUNNING
  /\ l \in created
  /\ spc[l] = "read"
  /\ m2s[l] > 0
  /\ m2s' = [m2s EXCEPT ![l] = @ - 1]
  /\ spc' = [spc EXCEPT ![l] = "ack"]
  /\ UNCHANGED <<created, config, s2m, master>>
ReadCommand(l) ==
  /\ l \in created
  /\ spc[l] = "read"
  /\ m2s[l] > 0
  /\ m2s' = [m2s EXCEPT ![l] = @ - 1]
  /\ state' = [state EXCEPT ![l] = "RUNNING"]
  /\ spc' = [spc EXCEPT ![l] = "ack"]
  /\ UNCHANGED <<created, f, s2m, master>>

SendAck(l) ==
  /\ spc[l] = "ack"
  /\ s2m' = [s2m EXCEPT ![l] = @ + 1]
  /\ spc' = [spc EXCEPT ![l] = "call"]
  /\ UNCHANGED <<created, config, m2s, master>>

(* The function is read after the answer, when the master has gone on.      *)
CallFunction(l) ==
  /\ spc[l] = "call"
  /\ spc' = [spc EXCEPT ![l] = f[l]]
  /\ UNCHANGED <<created, config, pipes, master>>

(* sync_func returns; main_loop does not.                                   *)
SyncReturns(l) ==
  /\ spc[l] = "sync_func"
  /\ state' = [state EXCEPT ![l] = "FINISHED"]
  /\ spc' = [spc EXCEPT ![l] = "read"]
  /\ UNCHANGED <<created, f, pipes, master>>

Slave(l) == ReadCommand(l) \/ SendAck(l) \/ CallFunction(l) \/ SyncReturns(l)
Master == Waited \/ \E l \in todo : Send(l) \/ Acknowledged(l) \/ WaitLcore(l)

(* A slave that nobody has given a function to, or that has been waited     *)
(* for, is back at its pipe, in WAIT, and both pipes are empty.             *)
AtRest(l) == /\ spc[l] = "read" /\ state[l] = "WAIT"
             /\ m2s[l] = 0 /\ s2m[l] = 0
=============================================================================
