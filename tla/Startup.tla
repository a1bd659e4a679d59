------------------------------ MODULE Startup ------------------------------
(***************************************************************************)
(* From the command line to the packet path: parse_args (sdn-v2/lib_parse)  *)
(* reads the options, init_ports (sdn-v2/lib_setup) gives every enabled     *)
(* port to a lcore and starts it, and check_all_ports_link_status waits a   *)
(* while for the links.  What results, rx_queue_list, is a constant of      *)
(* LearningSwitch.                                                          *)
(*                                                                         *)
(* An argument stands for the number it denotes, a port mask for the set of *)
(* its bits; Malformed is a text that is not a number.                      *)
(***************************************************************************)
EXTENDS Integers, Sequences, FiniteSets

CONSTANTS
  RTE_MAX_LCORE,           \* lcores are 0 .. RTE_MAX_LCORE - 1
  MaskBits,                \* bits of a uint32_t, 0 .. 31
  MAX_PORTS,
  MAX_RX_QUEUE_PER_LCORE,
  MAX_TIMER_PERIOD,
  MAX_CHECK_TIME,
  LcoreSets,               \* the sets of lcores the EAL may have enabled
  DeviceCounts,            \* what rte_eth_dev_count may return
  MaskArgs,                \* arguments of -p
  NqueueArgs,              \* arguments of -q
  TimerArgs,               \* arguments of -T
  Malformed

ASSUME LcoresAssumption == /\ RTE_MAX_LCORE \in Nat \ {0}
                           /\ {} \notin LcoreSets  \* the master lcore is enabled
                           /\ LcoreSets \subseteq SUBSET (0 .. RTE_MAX_LCORE - 1)
ASSUME PortsAssumption == /\ MAX_PORTS \in Nat
                          /\ 0 .. MAX_PORTS - 1 \subseteq MaskBits
                          /\ DeviceCounts \subseteq Nat
ASSUME LimitsAssumption == /\ MAX_RX_QUEUE_PER_LCORE \in Nat \ {0, 1}
                           /\ MAX_CHECK_TIME \in Nat \ {0}
ASSUME ArgsAssumption == /\ NqueueArgs \subseteq Nat \cup {Malformed}  \* strtoul
                         /\ TimerArgs \subseteq Int \cup {Malformed}

VARIABLES
  enabled_lcores,      \* rte_lcore_is_enabled
  devices,             \* rte_eth_dev_count()
  enabled_port_mask,
  rx_queue_per_lcore,
  timer_period,        \* in seconds
  rx_queue_list,       \* lcore_queue_conf[].rx_queue_list; n_rx_queue is its length
  portid,
  rx_lcore_id,
  count,               \* rounds of the link check
  print_flag,
  reported,            \* the ports whose link status has been printed
  pc                   \* where the program is, or why it has ended

options == <<enabled_port_mask, rx_queue_per_lcore, timer_period>>
assignment == <<rx_queue_list, portid, rx_lcore_id>>
links == <<count, print_flag, reported>>
vars == <<enabled_lcores, devices, options, assignment, links, pc>>

Lcores == 0 .. RTE_MAX_LCORE - 1
nb_ports == IF devices > MAX_PORTS THEN MAX_PORTS ELSE devices
EnabledPorts == enabled_port_mask \cap 0 .. nb_ports - 1

Init ==
  /\ enabled_lcores \in LcoreSets
  /\ devices \in DeviceCounts
  /\ enabled_port_mask = {}
  /\ rx_queue_per_lcore = 1
  /\ timer_period = 10
  /\ rx_queue_list = [l \in Lcores |-> <<>>]
  /\ portid = 0
  /\ rx_lcore_id = 0
  /\ count = 0
  /\ print_flag = FALSE
  /\ reported = {}
  /\ pc = "options"

-----------------------------------------------------------------------------
(* parse_args *)

(* parse_portmask fails with -1, which is stored in the mask as all bits;   *)
(* only a mask of more than 32 bits, the low ones 0, is found to be 0.      *)
PortMask(arg) == IF arg = Malformed \/ arg = {} THEN MaskBits ELSE arg \cap MaskBits
OptionP ==
  /\ pc = "options"
  /\ \E arg \in MaskArgs :
       /\ enabled_port_mask' = PortMask(arg)
       /\ pc' = IF PortMask(arg) = {} THEN "usage" ELSE "options"
  /\ UNCHANGED <<enabled_lcores, devices, rx_queue_per_lcore, timer_period, assignment,
                 links>>

(* parse_nqueue fails with 0 *)
Nqueue(arg) == IF arg = Malformed \/ arg >= MAX_RX_QUEUE_PER_LCORE THEN 0 ELSE arg
OptionQ ==
  /\ pc = "options"
  /\ \E arg \in NqueueArgs :
       /\ rx_queue_per_lcore' = Nqueue(arg)
       /\ pc' = IF Nqueue(arg) = 0 THEN "usage" ELSE "options"
  /\ UNCHANGED <<enabled_lcores, devices, enabled_port_mask, timer_period, assignment,
                 links>>

(* parse_timer_period fails with -1, which stays negative when multiplied *)
TimerPeriod(arg) == IF arg = Malformed \/ arg >= MAX_TIMER_PERIOD THEN -1 ELSE arg
OptionT ==
  /\ pc = "options"
  /\ \E arg \in TimerArgs :
       /\ timer_period' = TimerPeriod(arg)
       /\ pc' = IF TimerPeriod(arg) < 0 THEN "usage" ELSE "options"
  /\ UNCHANGED <<enabled_lcores, devices, enabled_port_mask, rx_queue_per_lcore,
                 assignment, links>>

(* an option that is not one of these *)
OptionUnknown ==
  /\ pc = "options"
  /\ pc' = "usage"
  /\ UNCHANGED <<enabled_lcores, devices, options, assignment, links>>

OptionsEnd ==
  /\ pc = "options"
  /\ pc' = IF devices = 0 THEN "no_ports" ELSE "assign"
  /\ UNCHANGED <<enabled_lcores, devices, options, assignment, links>>

-----------------------------------------------------------------------------
(* init_ports: the ports in order, each to the first lcore with room *)

SkipPort ==
  /\ pc = "assign"
  /\ portid < nb_ports
  /\ portid \notin enabled_port_mask
  /\ portid' = portid + 1
  /\ UNCHANGED <<enabled_lcores, devices, options, rx_queue_list, rx_lcore_id, links, pc>>

Unusable(l) == l \notin enabled_lcores \/ Len(rx_queue_list[l]) = rx_queue_per_lcore

MutantNextLcore ==  \* mutant: the last lcore is given up too early
  /\ pc = "assign"
  /\ portid < nb_ports
  /\ portid \in enabled_port_mask
  /\ Unusable(rx_lcore_id)
  /\ rx_lcore_id' = rx_lcore_id + 1
  /\ pc' = IF rx_lcore_id + 1 >= RTE_MAX_LCORE - 1 THEN "not_enough_cores" ELSE "assign"
  /\ UNCHANGED <<enabled_lcores, devices, options, rx_queue_list, portid, links>>

NextLcore ==
  /\ pc = "assign"
  /\ portid < nb_ports
  /\ portid \in enabled_port_mask
  /\ Unusable(rx_lcore_id)
  /\ rx_lcore_id' = rx_lcore_id + 1
  /\ pc' = IF rx_lcore_id + 1 >= RTE_MAX_LCORE THEN "not_enough_cores" ELSE "assign"
  /\ UNCHANGED <<enabled_lcores, devices, options, rx_queue_list, portid, links>>

MutantAssignPort ==  \* mutant: a lcore's list is started again
  /\ pc = "assign"
  /\ portid < nb_ports
  /\ portid \in enabled_port_mask
  /\ ~Unusable(rx_lcore_id)
  /\ rx_queue_list' = [rx_queue_list EXCEPT ![rx_lcore_id] = <<portid>>]
  /\ portid' = portid + 1
  /\ UNCHANGED <<enabled_lcores, devices, options, rx_lcore_id, links, pc>>

AssignPort ==
  /\ pc = "assign"
  /\ portid < nb_ports
  /\ portid \in enabled_port_mask
  /\ ~Unusable(rx_lcore_id)
  /\ rx_queue_list' = [rx_queue_list EXCEPT ![rx_lcore_id] = Append(@, portid)]
  /\ portid' = portid + 1
  /\ UNCHANGED <<enabled_lcores, devices, options, rx_lcore_id, links, pc>>

(* The ports are configured and started; if one cannot be, that is the end. *)
StartPorts ==
  /\ pc = "assign"
  /\ portid = nb_ports
  /\ \/ pc' = "links"
     \/ EnabledPorts # {} /\ pc' = "port_failure"
  /\ UNCHANGED <<enabled_lcores, devices, options, assignment, links>>

-----------------------------------------------------------------------------
(* check_all_ports_link_status *)

(* A round that looks at the links, until one is down ... *)
MutantCheckLinks ==  \* mutant: the limit of the loop is off by one
  /\ pc = "links"
  /\ count <= MAX_CHECK_TIME
  /\ ~print_flag
  /\ \E all_ports_up \in BOOLEAN :
       /\ EnabledPorts = {} => all_ports_up
       /\ print_flag' = (all_ports_up \/ count = MAX_CHECK_TIME)
  /\ count' = count + 1
  /\ UNCHANGED <<enabled_lcores, devices, options, assignment, reported, pc>>

CheckLinks ==
  /\ pc = "links"
  /\ count <= MAX_CHECK_TIME
  /\ ~print_flag
  /\ \E all_ports_up \in BOOLEAN :
       /\ EnabledPorts = {} => all_ports_up
       /\ print_flag' = (all_ports_up \/ count = MAX_CHECK_TIME - 1)
  /\ count' = count + 1
  /\ UNCHANGED <<enabled_lcores, devices, options, assignment, reported, pc>>

(* ... and one that prints them and leaves the loop; its end also leaves.   *)
ReportLinks ==
  /\ pc = "links"
  /\ \/ /\ count <= MAX_CHECK_TIME
        /\ print_flag
        /\ reported' = EnabledPorts
     \/ count > MAX_CHECK_TIME /\ UNCHANGED reported
  /\ pc' = "main_loop"
  /\ UNCHANGED <<enabled_lcores, devices, options, assignment, count, print_flag>>

-----------------------------------------------------------------------------
Next == \/ OptionP \/ OptionQ \/ OptionT \/ OptionUnknown \/ OptionsEnd
        \/ SkipPort \/ NextLcore \/ AssignPort \/ StartPorts
        \/ CheckLinks \/ ReportLinks
-----------------------------------------------------------------------------
(* Types; the loop over the lcores never looks past the last one.           *)
TypeOK ==
  /\ enabled_lcores \subseteq Lcores
  /\ devices \in Nat
  /\ enabled_port_mask \subseteq MaskBits
  /\ rx_queue_per_lcore \in Nat
  /\ timer_period \in Int
  /\ rx_queue_list \in [Lcores -> Seq(MaskBits)]
  /\ portid \in 0 .. nb_ports
  /\ rx_lcore_id \in 0 .. RTE_MAX_LCORE
  /\ pc # "not_enough_cores" => rx_lcore_id \in Lcores
  /\ count \in 0 .. MAX_CHECK_TIME + 1
  /\ print_flag \in BOOLEAN
  /\ reported \subseteq MaskBits
  /\ pc \in {"options", "usage", "no_ports", "assign", "not_enough_cores",
             "port_failure", "links", "main_loop"}

(* When the lcores are launched, each enabled port is polled by one lcore,  *)
(* an enabled one, through one entry of its list, and no other port is:     *)
(* the receive queue of a port is never polled by two lcores.               *)
Polls == {q \in Lcores \X (1 .. MAX_RX_QUEUE_PER_LCORE) : q[2] \in DOMAIN rx_queue_list[q[1]]}
EveryPortPolledOnce ==
  pc \in {"links", "main_loop"} =>
    /\ \A p \in EnabledPorts : \E q \in Polls :
         /\ q[1] \in enabled_lcores
         /\ \A r \in Polls : rx_queue_list[r[1]][r[2]] = p <=> r = q
    /\ Cardinality(Polls) = Cardinality(EnabledPorts)

(* No list is longer than the array rx_queue_list is.                       *)
ListsInBounds == \A l \in Lcores : Len(rx_queue_list[l]) < MAX_RX_QUEUE_PER_LCORE

(* "Not enough cores" is true: the enabled lcores, each with the number of  *)
(* queues that was asked for, are fewer than the enabled ports need.        *)
RefusalIsRight ==
  pc = "not_enough_cores" =>
    Cardinality(enabled_lcores) * rx_queue_per_lcore < Cardinality(EnabledPorts)

(* Whether the links come up or not, their status is printed before the     *)
(* packet path starts.                                                      *)
LinksReported == pc = "main_loop" => reported = EnabledPorts
=============================================================================
