----------------------------- MODULE MainProofs -----------------------------
(***************************************************************************)
(* Proofs about Main for every set of lcores, number of devices, options    *)
(* and limits: the ports are dealt out right and the link status is always  *)
(* printed; the hand-shake through the pipes keeps the master and its       *)
(* slaves apart.                                                            *)
(***************************************************************************)
EXTENDS Main, FiniteSetTheorems, FunctionTheorems, TLAPS

(* Start-up: options, assignment of the ports, link check.                  *)
Types ==
  /\ devices \in Nat
  /\ enabled_lcores \subseteq Lcores
  /\ rx_queue_list \in [Lcores -> Seq(Nat)]
  /\ portid \in Nat
  /\ rx_queue_per_lcore \in Nat
  /\ enabled_port_mask \subseteq MaskBits
  /\ timer_period \in Int
  /\ rx_queue_list \in [Lcores -> Seq(MaskBits)]
  /\ rx_lcore_id \in 0 .. RTE_MAX_LCORE
  /\ reported \subseteq MaskBits
  /\ count \in Nat /\ count <= MAX_CHECK_TIME
  /\ print_flag \in BOOLEAN
  /\ pc \in {"options", "usage", "no_ports", "assign", "not_enough_cores",
             "port_failure", "links", "main_loop"}

(* Nothing is assigned before the options have been read; the search for a  *)
(* lcore is not past the last one while it goes on; and when it has ended,  *)
(* every port has been looked at.                                           *)
Progress ==
  /\ pc = "options" => /\ portid = 0 /\ rx_lcore_id = 0
                       /\ \A l \in Lcores : rx_queue_list[l] = <<>>
  /\ pc # "not_enough_cores" => rx_lcore_id \in Lcores
  /\ portid <= nb_ports
  /\ pc \in {"links", "main_loop"} => portid = nb_ports

(* The lcores that have been passed over are of no use, and when all have   *)
(* been, there is a port left.                                              *)
Passed ==
  /\ \A l \in Lcores : l < rx_lcore_id => Unusable(l)
  /\ pc = "not_enough_cores" => /\ rx_lcore_id = RTE_MAX_LCORE
                                /\ portid < nb_ports /\ portid \in enabled_port_mask

(* No lcore has more ports than were asked for, nor than there is room for. *)
Lengths ==
  /\ rx_queue_per_lcore < MAX_RX_QUEUE_PER_LCORE
  /\ \A l \in Lcores : Len(rx_queue_list[l]) <= rx_queue_per_lcore

(* The enabled ports that have been looked at, and where they are.          *)
Dealt == enabled_port_mask \cap 0 .. portid - 1
Entries == {q \in Lcores \X Nat : q[2] \in DOMAIN rx_queue_list[q[1]]}
PortOf(q) == rx_queue_list[q[1]][q[2]]

Assigned ==
  /\ \A q \in Entries : PortOf(q) \in Dealt /\ q[1] \in enabled_lcores
  /\ \A q, r \in Entries : PortOf(q) = PortOf(r) => q = r
  /\ \A p \in Dealt : \E q \in Entries : PortOf(q) = p

(* Until the flag is set, the loop over the links has a round to go.        *)
Rounds ==
  /\ pc \in {"options", "assign"} => count = 0 /\ ~print_flag
  /\ pc = "links" => /\ count <= MAX_CHECK_TIME
                     /\ ~print_flag => count < MAX_CHECK_TIME
  /\ pc = "main_loop" => reported = EnabledPorts

IInv == Types /\ Progress /\ Passed /\ Lengths /\ Assigned /\ Rounds

-----------------------------------------------------------------------------
(* The number of ports is a number. *)
LEMMA PortsType == devices \in Nat => nb_ports \in Nat
  BY PortsAssumption DEF nb_ports

LEMMA InitIInv == MainInit => IInv
<1> SUFFICES ASSUME Init PROVE IInv
  BY DEF MainInit
<1>1. Types
  <2>1. devices \in Nat /\ enabled_lcores \subseteq Lcores
    BY LcoresAssumption, PortsAssumption DEF Init, Lcores
  <2>2. rx_queue_list \in [Lcores -> Seq(Nat)]
    BY DEF Init
  <2>3. rx_queue_list \in [Lcores -> Seq(MaskBits)]
    BY DEF Init
  <2>4. /\ rx_lcore_id \in 0 .. RTE_MAX_LCORE /\ portid \in Nat
        /\ count \in Nat /\ count <= MAX_CHECK_TIME
        /\ rx_queue_per_lcore \in Nat /\ timer_period \in Int
    BY LcoresAssumption, LimitsAssumption DEF Init
  <2>5. /\ enabled_port_mask \subseteq MaskBits /\ reported \subseteq MaskBits
        /\ print_flag \in BOOLEAN /\ pc = "options"
    BY DEF Init
  <2>. QED BY <2>1, <2>2, <2>3, <2>4, <2>5 DEF Types
<1>2. Progress
  BY <1>1, LcoresAssumption, PortsType DEF Init, Types, Progress, Lcores
<1>3. Lengths
  BY LimitsAssumption DEF Init, Lengths
<1>7. Passed
  BY DEF Init, Passed, Lcores
<1>4. Entries = {} /\ Dealt = {}
  BY DEF Init, Entries, Dealt
<1>5. Assigned
  BY <1>4 DEF Assigned
<1>6. Rounds
  BY DEF Init, Rounds
<1>. QED BY <1>1, <1>2, <1>3, <1>5, <1>6, <1>7 DEF IInv

(* An option changes numbers while no list has an entry. *)
LEMMA OptionIInv ==
  ASSUME IInv, OptionP \/ OptionQ \/ OptionT \/ OptionUnknown \/ OptionsEnd
  PROVE  IInv'
<1> USE DEF IInv
<1>1. /\ pc = "options" /\ pc' \in {"options", "usage", "no_ports", "assign"}
      /\ UNCHANGED <<enabled_lcores, devices, assignment, links>>
  BY DEF OptionP, OptionQ, OptionT, OptionUnknown, OptionsEnd, options
<1>2. rx_queue_per_lcore' \in Nat /\ rx_queue_per_lcore' < MAX_RX_QUEUE_PER_LCORE
  <2>1. CASE OptionQ
    <3>1. PICK arg \in NqueueArgs : rx_queue_per_lcore' = Nqueue(arg)
      BY <2>1 DEF OptionQ
    <3>. QED BY <3>1, ArgsAssumption, LimitsAssumption DEF Nqueue
  <2>2. CASE ~OptionQ
    BY <2>2 DEF OptionP, OptionT, OptionUnknown, OptionsEnd, options, Types, Lengths
  <2>. QED BY <2>1, <2>2
<1>3. /\ \A l \in Lcores : rx_queue_list'[l] = <<>> /\ rx_queue_list[l] = <<>>
      /\ portid' = 0 /\ Entries' = {} /\ Dealt' = {}
  <2>1. portid' = 0 /\ portid = 0 /\ rx_queue_list' = rx_queue_list
        /\ \A l \in Lcores : rx_queue_list[l] = <<>>
    BY <1>1 DEF Progress, assignment
  <2>2. Entries' = {}
    BY <2>1 DEF Entries
  <2>3. Dealt' = {}
    BY <2>1 DEF Dealt
  <2>. QED BY <2>1, <2>2, <2>3
<1>9. enabled_port_mask' \subseteq MaskBits /\ timer_period' \in Int
  <2>1. CASE OptionP
    BY <2>1 DEF OptionP, PortMask, Types
  <2>2. CASE OptionT
    <3>1. PICK arg \in TimerArgs : timer_period' = TimerPeriod(arg)
      BY <2>2 DEF OptionT
    <3>2. enabled_port_mask' = enabled_port_mask
      BY <2>2 DEF OptionT
    <3>3. arg \in Int \/ arg = Malformed
      BY ArgsAssumption
    <3>4. TimerPeriod(arg) \in Int
      BY <3>3 DEF TimerPeriod
    <3>. QED BY <3>1, <3>2, <3>4 DEF Types
  <2>3. CASE OptionQ \/ OptionUnknown \/ OptionsEnd
    BY <2>3 DEF OptionQ, OptionUnknown, OptionsEnd, options, Types
  <2>. QED BY <2>1, <2>2, <2>3
<1>4. Types'
  <2>1. UNCHANGED <<rx_queue_list, portid, rx_lcore_id, count, print_flag, reported>>
    BY <1>1 DEF assignment, links
  <2>. QED BY <1>1, <1>2, <1>9, <2>1 DEF Types
<1>10. Passed'
  <2>1. rx_lcore_id' = 0 /\ pc' # "not_enough_cores"
    BY <1>1 DEF Progress, assignment
  <2>2. \A l \in Lcores : ~(l < 0)
    BY DEF Lcores
  <2>. QED BY <2>1, <2>2 DEF Passed
<1>5. Progress'
  BY <1>1, <1>3 DEF Progress, assignment, nb_ports
<1>6. Lengths'
  BY <1>2, <1>3 DEF Lengths
<1>7. Assigned'
  BY <1>3 DEF Assigned
<1>8. Rounds'
  BY <1>1 DEF Rounds, links
<1>. QED BY <1>4, <1>5, <1>6, <1>7, <1>8, <1>10

(* A port that is not enabled, or a lcore that has no room, is passed over. *)
LEMMA SkipIInv ==
  ASSUME IInv, SkipPort \/ NextLcore \/ StartPorts
  PROVE  IInv'
<1> USE DEF IInv
<1>1. /\ pc = "assign"
      /\ UNCHANGED <<enabled_lcores, devices, options, rx_queue_list, links>>
  BY DEF SkipPort, NextLcore, StartPorts, assignment
<1>2. portid \in Nat /\ nb_ports \in Nat /\ nb_ports' = nb_ports
  BY <1>1, PortsType DEF Types, nb_ports
<1>3. /\ portid' \in Nat /\ portid' <= nb_ports
      /\ pc' \in {"assign", "not_enough_cores", "links", "port_failure"}
      /\ pc' # "not_enough_cores" => rx_lcore_id' \in Lcores
      /\ rx_lcore_id' \in 0 .. RTE_MAX_LCORE
      /\ pc' = "links" => portid' = nb_ports
      /\ pc' = "not_enough_cores" => /\ rx_lcore_id' = RTE_MAX_LCORE
                                     /\ portid' < nb_ports /\ portid' \in enabled_port_mask
      /\ \A l \in Lcores : l < rx_lcore_id' => Unusable(l)
  <2>1. CASE SkipPort
    BY <2>1, <1>1, <1>2 DEF SkipPort, Progress, Passed, Types
  <2>2. CASE NextLcore
    <3>1. rx_lcore_id \in 0 .. RTE_MAX_LCORE - 1 /\ RTE_MAX_LCORE \in Nat
      BY <1>1, LcoresAssumption DEF Progress, Lcores
    <3>2. rx_lcore_id' = rx_lcore_id + 1 /\ portid' = portid
      BY <2>2 DEF NextLcore
    <3>6. /\ Unusable(rx_lcore_id)
          /\ portid < nb_ports /\ portid \in enabled_port_mask
      BY <2>2 DEF NextLcore
    <3>3. /\ pc' # "not_enough_cores" => rx_lcore_id' \in Lcores
          /\ pc' = "not_enough_cores" => rx_lcore_id' = RTE_MAX_LCORE
          /\ rx_lcore_id' \in 0 .. RTE_MAX_LCORE
          /\ pc' \in {"assign", "not_enough_cores"}
      <4>1. CASE rx_lcore_id + 1 >= RTE_MAX_LCORE
        <5>1. pc' = "not_enough_cores"
          BY <2>2, <4>1 DEF NextLcore
        <5>2. rx_lcore_id' = RTE_MAX_LCORE
          BY <3>1, <3>2, <4>1
        <5>3. rx_lcore_id' \in 0 .. RTE_MAX_LCORE
          BY <5>2, <3>1
        <5>. QED BY <5>1, <5>2, <5>3
      <4>2. CASE ~(rx_lcore_id + 1 >= RTE_MAX_LCORE)
        <5>1. pc' = "assign"
          BY <2>2, <4>2 DEF NextLcore
        <5>2. rx_lcore_id' \in 0 .. RTE_MAX_LCORE - 1
          BY <3>1, <3>2, <4>2
        <5>. QED BY <5>1, <5>2, <3>1 DEF Lcores
      <4>. QED BY <4>1, <4>2
    <3>4. ASSUME NEW l \in Lcores, l < rx_lcore_id' PROVE Unusable(l)
      <4>2. l \in Nat
        BY DEF Lcores
      <4>1. l < rx_lcore_id \/ l = rx_lcore_id
        BY <3>1, <3>2, <3>4, <4>2
      <4>. QED BY <4>1, <3>6 DEF Passed
    <3>5. enabled_port_mask' = enabled_port_mask /\ portid <= nb_ports
      BY <1>1 DEF options, Progress
    <3>. QED BY <1>2, <3>2, <3>3, <3>4, <3>5, <3>6
  <2>3. CASE StartPorts
    BY <2>3, <1>1, <1>2 DEF StartPorts, Progress, Passed, Types, assignment
  <2>. QED BY <2>1, <2>2, <2>3
<1>4. Entries' = Entries /\ \A q : PortOf(q)' = PortOf(q)
  BY <1>1 DEF Entries, PortOf
<1>5. Dealt' = Dealt
  <2>1. CASE SkipPort
    BY <2>1, <1>1, <1>2 DEF SkipPort, Dealt, options
  <2>2. CASE portid' = portid
    BY <2>2, <1>1 DEF Dealt, options
  <2>. QED BY <2>1, <2>2 DEF NextLcore, StartPorts, assignment
<1>6. Types'
  BY <1>1, <1>3 DEF Types, options, links
<1>7. Progress'
  BY <1>2, <1>3 DEF Progress
<1>8. Lengths'
  BY <1>1 DEF Lengths, options
<1>11. Passed'
  BY <1>1, <1>2, <1>3 DEF Passed, Unusable, options
<1>9. Assigned'
  BY <1>1, <1>4, <1>5 DEF Assigned
<1>10. Rounds'
  <2>1. count' = count /\ print_flag' = print_flag /\ count = 0 /\ ~print_flag
    BY <1>1 DEF Rounds, links
  <2>2. pc' # "main_loop"
    BY <1>3
  <2>3. 0 < MAX_CHECK_TIME /\ 0 <= MAX_CHECK_TIME
    BY LimitsAssumption
  <2>. QED BY <2>1, <2>2, <2>3 DEF Rounds
<1>. QED BY <1>6, <1>7, <1>8, <1>9, <1>10, <1>11

(* The port goes to the end of the list of a lcore with room for it.        *)
LEMMA AssignIInv ==
  ASSUME IInv, AssignPort
  PROVE  IInv'
<1> DEFINE l == rx_lcore_id
           s == rx_queue_list[l]
<1> USE DEF IInv
<1>1. /\ pc = "assign" /\ pc' = "assign" /\ portid < nb_ports
      /\ portid \in enabled_port_mask
      /\ l \in enabled_lcores /\ Len(s) # rx_queue_per_lcore
      /\ rx_queue_list' = [rx_queue_list EXCEPT ![l] = Append(s, portid)]
      /\ portid' = portid + 1
      /\ UNCHANGED <<enabled_lcores, devices, options, rx_lcore_id, links>>
  BY DEF AssignPort, Unusable
<1>2. /\ l \in Lcores /\ s \in Seq(Nat) /\ portid \in Nat /\ Len(s) \in Nat
      /\ nb_ports \in Nat /\ nb_ports' = nb_ports
  BY <1>1, PortsType DEF Types, nb_ports
<1>3. /\ Append(s, portid) \in Seq(Nat) /\ Len(Append(s, portid)) = Len(s) + 1
      /\ \A k \in 1 .. Len(s) : Append(s, portid)[k] = s[k]
      /\ Append(s, portid)[Len(s) + 1] = portid
  BY <1>2
<1>4. /\ rx_queue_list'[l] = Append(s, portid)
      /\ \A o \in Lcores \ {l} : rx_queue_list'[o] = rx_queue_list[o]
  BY <1>1, <1>2 DEF Types
<1>b. portid \in MaskBits /\ Append(s, portid) \in Seq(MaskBits)
  <2>1. nb_ports <= MAX_PORTS /\ MAX_PORTS \in Nat
    <3>1. devices \in Nat /\ MAX_PORTS \in Nat
      BY PortsAssumption DEF IInv, Types
    <3>. QED BY <3>1 DEF nb_ports
  <2>2. portid \in 0 .. MAX_PORTS - 1
    BY <1>1, <1>2, <2>1
  <2>3. s \in Seq(MaskBits)
    BY <1>2 DEF Types
  <2>. QED BY <2>2, <2>3, PortsAssumption
<1>5. Types'
  BY <1>1, <1>2, <1>3, <1>b DEF Types, options, links
<1>6. Progress'
  BY <1>1, <1>2 DEF Progress
<1>12. Passed'
  <2>1. rx_lcore_id \in Nat
    BY <1>2 DEF Lcores
  <2>. QED BY <1>1, <1>2, <1>4, <2>1 DEF Passed, Unusable, options, Lcores
<1>7. Lengths'
  <2> SUFFICES ASSUME NEW o \in Lcores PROVE Len(rx_queue_list'[o]) <= rx_queue_per_lcore
    BY <1>1 DEF Lengths, options
  <2>1. Len(rx_queue_list[o]) <= rx_queue_per_lcore /\ rx_queue_per_lcore \in Nat
    BY DEF Lengths, Types
  <2>2. CASE o = l
    BY <2>1, <2>2, <1>1, <1>2, <1>3, <1>4
  <2>3. CASE o # l
    BY <2>1, <2>3, <1>4
  <2>. QED BY <2>2, <2>3
<1>8. Dealt' = Dealt \cup {portid} /\ portid \notin Dealt
  BY <1>1, <1>2 DEF Dealt, options
<1>a. PICK new \in Lcores \X Nat : new = <<l, Len(s) + 1>>
  <2>1. Len(s) + 1 \in Nat
    BY <1>2
  <2>2. <<l, Len(s) + 1>> \in Lcores \X Nat
    BY <1>2, <2>1
  <2>. QED BY <2>2
<1>9. /\ Entries' = Entries \cup {new}
      /\ PortOf(new)' = portid
      /\ \A q \in Entries : PortOf(q)' = PortOf(q)
  <2>1. DOMAIN Append(s, portid) = (DOMAIN s) \cup {Len(s) + 1}
    BY <1>2, <1>3
  <2>2. \A q \in Lcores \X Nat : q \in Entries' <=> q \in Entries \/ q = new
    BY <1>a, <1>2, <1>4, <2>1 DEF Entries
  <2>3. Entries' = Entries \cup {new}
    BY <2>2 DEF Entries
  <2>4. PortOf(new)' = portid
    BY <1>a, <1>3, <1>4 DEF PortOf
  <2>5. ASSUME NEW q \in Entries PROVE PortOf(q)' = PortOf(q)
    <3>1. q[1] \in Lcores /\ q[2] \in DOMAIN rx_queue_list[q[1]]
      BY DEF Entries
    <3>2. CASE q[1] = l
      BY <3>1, <3>2, <1>2, <1>3, <1>4 DEF PortOf
    <3>3. CASE q[1] # l
      BY <3>1, <3>3, <1>4 DEF PortOf
    <3>. QED BY <3>2, <3>3
  <2>. QED BY <2>3, <2>4, <2>5
<1>10. Assigned'
  <2>1. \A q \in Entries : PortOf(q) \in Dealt /\ q[1] \in enabled_lcores
    BY DEF Assigned
  <2>2. \A q, r \in Entries : PortOf(q) = PortOf(r) => q = r
    BY DEF Assigned
  <2>3. \A p \in Dealt : \E q \in Entries : PortOf(q) = p
    BY DEF Assigned
  <2>4. new[1] \in enabled_lcores
    BY <1>a, <1>1
  <2>5. \A q \in Entries' : PortOf(q)' \in Dealt' /\ q[1] \in enabled_lcores'
    BY <1>1, <1>8, <1>9, <2>1, <2>4
  <2>6. \A q, r \in Entries' : PortOf(q)' = PortOf(r)' => q = r
    BY <1>8, <1>9, <2>1, <2>2
  <2>7. \A p \in Dealt' : \E q \in Entries' : PortOf(q)' = p
    BY <1>8, <1>9, <2>3
  <2>. QED BY <2>5, <2>6, <2>7 DEF Assigned
<1>11. Rounds'
  BY <1>1 DEF Rounds, links
<1>. QED BY <1>5, <1>6, <1>7, <1>10, <1>11, <1>12

(* The rounds of the link check leave the ports where they are, and the     *)
(* last of them sets the flag.                                              *)
LEMMA LinksIInv ==
  ASSUME IInv, CheckLinks \/ ReportLinks
  PROVE  IInv'
<1> USE DEF IInv
<1>1. /\ pc = "links" /\ pc' \in {"links", "main_loop"}
      /\ UNCHANGED <<enabled_lcores, devices, options, assignment>>
  BY DEF CheckLinks, ReportLinks
<1>2. /\ count \in Nat /\ MAX_CHECK_TIME \in Nat /\ count <= MAX_CHECK_TIME
      /\ ~print_flag => count < MAX_CHECK_TIME
  BY <1>1, LimitsAssumption DEF Types, Rounds
<1>3. nb_ports' = nb_ports /\ EnabledPorts' = EnabledPorts
  BY <1>1 DEF nb_ports, EnabledPorts, options
<1>4. count' \in Nat /\ count' <= MAX_CHECK_TIME /\ print_flag' \in BOOLEAN /\ Rounds'
  <2>1. CASE CheckLinks
    <3>1. /\ pc' = "links" /\ ~print_flag /\ count' = count + 1
          /\ print_flag' \in BOOLEAN
          /\ ~print_flag' => count # MAX_CHECK_TIME - 1
      BY <2>1, <1>1 DEF CheckLinks
    <3>. QED BY <3>1, <1>2 DEF Rounds
  <2>2. CASE ReportLinks
    <3>1. ~(count > MAX_CHECK_TIME)
      BY <1>2
    <3>2. /\ pc' = "main_loop" /\ reported' = EnabledPorts
          /\ count' = count /\ print_flag' = print_flag
      BY <2>2, <3>1 DEF ReportLinks
    <3>. QED BY <3>2, <1>2, <1>3 DEF Rounds, Types
  <2>. QED BY <2>1, <2>2
<1>5. Types'
  <2>1. reported' \subseteq MaskBits
    BY DEF CheckLinks, ReportLinks, Types, EnabledPorts
  <2>. QED BY <1>1, <1>4, <2>1 DEF Types, options, assignment
<1>6. Progress'
  BY <1>1, <1>3 DEF Progress, assignment
<1>10. Passed'
  BY <1>1 DEF Passed, Unusable, options, assignment
<1>7. Lengths'
  BY <1>1 DEF Lengths, options, assignment
<1>8. Entries' = Entries /\ Dealt' = Dealt /\ \A q : PortOf(q)' = PortOf(q)
  BY <1>1 DEF Entries, Dealt, PortOf, options, assignment
<1>9. Assigned'
  BY <1>1, <1>8 DEF Assigned
<1>. QED BY <1>4, <1>5, <1>6, <1>7, <1>9, <1>10

(* The launches have nothing to do with the ports.                          *)
LEMMA QuietStep ==
  ASSUME IInv, UNCHANGED vars
  PROVE  IInv'
<1> USE DEF IInv
<1>1. UNCHANGED <<enabled_lcores, devices, enabled_port_mask, rx_queue_per_lcore,
                  timer_period, rx_queue_list, portid, rx_lcore_id, count, print_flag, reported, pc>>
  BY DEF vars, options, assignment, links
<1>2. nb_ports' = nb_ports /\ EnabledPorts' = EnabledPorts
  BY <1>1 DEF nb_ports, EnabledPorts
<1>3. Entries' = Entries /\ Dealt' = Dealt /\ \A q : PortOf(q)' = PortOf(q)
  BY <1>1 DEF Entries, Dealt, PortOf
<1>4. Types' /\ Progress' /\ Lengths' /\ Passed'
  BY <1>1, <1>2 DEF Types, Progress, Lengths, Passed, Unusable
<1>5. Assigned'
  BY <1>1, <1>3 DEF Assigned
<1>6. Rounds'
  BY <1>1, <1>2 DEF Rounds
<1>. QED BY <1>4, <1>5, <1>6

(* Every step preserves the invariant.                                      *)
LEMMA NextIInv == IInv /\ [MainNext]_allvars => IInv'
<1> SUFFICES ASSUME IInv, [MainNext]_allvars PROVE IInv'
  OBVIOUS
<1>1. CASE Configure
  <2>1. Next
    BY <1>1 DEF Configure
  <2>. QED BY <2>1, OptionIInv, SkipIInv, AssignIInv, LinksIInv DEF Next
<1>2. CASE UNCHANGED allvars
  BY <1>2, QuietStep DEF allvars
<1>3. CASE MainNext /\ ~Configure
  <2>1. UNCHANGED vars
    BY <1>3 DEF MainNext, MasterNext, EalCreate, EalSync, EalWait, LaunchLcores,
       MasterStep, SlaveStep
  <2>. QED BY <2>1, QuietStep
<1>. QED BY <1>1, <1>2, <1>3

(* The invariant holds in every reachable state. *)
THEOREM SpecIInv == MainSpec => []IInv
  BY InitIInv, NextIInv, PTL DEF MainSpec

(* Every variable keeps its type, and the search for a lcore never looks    *)
(* past the last one, unless to say that there are not enough.              *)
THEOREM TypeSafe == MainSpec => []TypeOK
<1>1. IInv => TypeOK
  <2> SUFFICES ASSUME IInv PROVE TypeOK
    OBVIOUS
  <2>1. portid \in 0 .. nb_ports
    <3>1. portid \in Nat /\ devices \in Nat /\ portid <= nb_ports
      BY DEF IInv, Types, Progress
    <3>. QED BY <3>1, PortsType
  <2>2. count \in 0 .. MAX_CHECK_TIME + 1
    <3>1. count \in Nat /\ count <= MAX_CHECK_TIME
      BY DEF IInv, Types
    <3>. QED BY <3>1, LimitsAssumption
  <2>. QED BY <2>1, <2>2 DEF IInv, Types, Progress, TypeOK
<1>. QED BY <1>1, SpecIInv, PTL

(* rx_queue_list is never written past its end, whatever -q says.           *)
THEOREM ListsBounded == MainSpec => []ListsInBounds
<1>1. IInv => ListsInBounds
  <2> SUFFICES ASSUME IInv, NEW l \in Lcores
               PROVE  Len(rx_queue_list[l]) < MAX_RX_QUEUE_PER_LCORE
    BY DEF ListsInBounds
  <2>1. rx_queue_list[l] \in Seq(Nat) /\ rx_queue_per_lcore \in Nat
    BY DEF IInv, Types
  <2>2. Len(rx_queue_list[l]) \in Nat
    BY <2>1
  <2>. QED BY <2>1, <2>2, LimitsAssumption DEF IInv, Lengths
<1>. QED BY <1>1, SpecIInv, PTL

(* The packet path does not start before the link status has been printed.  *)
THEOREM LinksAreReported == MainSpec => []LinksReported
<1>1. IInv => LinksReported
  BY DEF IInv, Rounds, LinksReported
<1>. QED BY <1>1, SpecIInv, PTL

(* There are finitely many ports to assign.                                 *)
LEMMA EnabledFinite ==
  ASSUME IInv
  PROVE  IsFiniteSet(EnabledPorts)
<1>1. nb_ports - 1 \in Int
  <2>1. devices \in Nat
    BY DEF IInv, Types
  <2>2. nb_ports \in Nat
    BY <2>1, PortsType
  <2>. QED BY <2>2
<1>2. IsFiniteSet(0 .. nb_ports - 1)
  BY <1>1, FS_Interval
<1>3. EnabledPorts \in SUBSET (0 .. nb_ports - 1)
  BY DEF EnabledPorts
<1>. QED BY <1>2, <1>3, FS_Subset

(* The entries of the lists and the enabled ports are as many.              *)
LEMMA AsManyEntries ==
  ASSUME IInv, portid = nb_ports
  PROVE  Cardinality(Entries) = Cardinality(EnabledPorts)
<1> DEFINE F == [q \in Entries |-> PortOf(q)]
<1>1. EnabledPorts = Dealt
  BY DEF EnabledPorts, Dealt
<1>2. IsFiniteSet(EnabledPorts)
  BY EnabledFinite
<1>3. F \in [Entries -> EnabledPorts]
  BY <1>1 DEF IInv, Assigned
<1>4. \A q, r \in Entries : F[q] = F[r] => q = r
  BY DEF IInv, Assigned
<1>5. \A p \in EnabledPorts : \E q \in Entries : F[q] = p
  BY <1>1 DEF IInv, Assigned
<1>6. F \in Bijection(Entries, EnabledPorts)
  BY <1>3, <1>4, <1>5, Fun_IsBij
<1>7. ExistsBijection(EnabledPorts, Entries)
  BY <1>6, Fun_ExistsBijSymmetric DEF ExistsBijection
<1>. QED BY <1>2, <1>7, FS_Bijection

(* An interval from one has as many members as its end says.                *)
LEMMA CountTo ==
  ASSUME NEW n \in Nat
  PROVE  Cardinality(1 .. n) = n
<1>1. Cardinality(1 .. n) = IF 1 > n THEN 0 ELSE n - 1 + 1
  BY FS_Interval
<1>2. (IF 1 > n THEN 0 ELSE n - 1 + 1) = n
  OBVIOUS
<1>. QED BY <1>1, <1>2

(* The search for a lcore ends at a port that has none.                     *)
LEMMA PortLeft ==
  ASSUME IInv, pc = "not_enough_cores"
  PROVE  portid \in EnabledPorts /\ portid \notin Dealt /\ Dealt \subseteq EnabledPorts
<1>1. portid < nb_ports /\ portid \in enabled_port_mask
  BY DEF IInv, Passed
<1>2. portid \in Nat /\ devices \in Nat
  BY DEF IInv, Types
<1>3. nb_ports \in Nat
  BY <1>2, PortsType
<1>4. portid \in 0 .. nb_ports - 1 /\ portid \notin 0 .. portid - 1
  BY <1>1, <1>2, <1>3
<1>5. 0 .. portid - 1 \subseteq 0 .. nb_ports - 1
  BY <1>1, <1>2, <1>3
<1>. QED BY <1>1, <1>4, <1>5, Zenon DEF EnabledPorts, Dealt

(* All the enabled lcores then have as many ports as were asked for.        *)
LEMMA AllFull ==
  ASSUME IInv, pc = "not_enough_cores", NEW l \in enabled_lcores
  PROVE  Len(rx_queue_list[l]) = rx_queue_per_lcore
<1>1. l \in Lcores /\ rx_lcore_id = RTE_MAX_LCORE
  BY DEF IInv, Types, Passed
<1>2. l < RTE_MAX_LCORE
  BY <1>1, LcoresAssumption DEF Lcores
<1>3. l < rx_lcore_id
  BY <1>1, <1>2
<1>4. Unusable(l)
  BY <1>1, <1>3 DEF IInv, Passed
<1>. QED BY <1>4 DEF Unusable

(* Their entries are fewer than the enabled ports.                          *)
LEMMA FewerEntries ==
  ASSUME IInv, pc = "not_enough_cores"
  PROVE  Cardinality(enabled_lcores \X (1 .. rx_queue_per_lcore)) < Cardinality(EnabledPorts)
<1> DEFINE Full == enabled_lcores \X (1 .. rx_queue_per_lcore)
           F == [q \in Full |-> PortOf(q)]
           Others == EnabledPorts \ {portid}
<1>1. ASSUME NEW l \in enabled_lcores, NEW k \in 1 .. rx_queue_per_lcore
      PROVE  <<l, k>> \in Entries
  <2>1. l \in Lcores /\ rx_queue_list[l] \in Seq(Nat) /\ rx_queue_per_lcore \in Nat
    BY DEF IInv, Types
  <2>2. DOMAIN rx_queue_list[l] = 1 .. Len(rx_queue_list[l])
    BY <2>1
  <2>3. k \in DOMAIN rx_queue_list[l]
    BY <2>2, AllFull
  <2>4. k \in Nat
    BY <2>1
  <2>. QED BY <2>1, <2>3, <2>4 DEF Entries
<1>2. \A q \in Full : q \in Entries
  BY <1>1
<1>3. \A q \in Full : PortOf(q) \in Others
  BY <1>2, PortLeft DEF IInv, Assigned
<1>4. \A q, r \in Full : PortOf(q) = PortOf(r) => q = r
  BY <1>2 DEF IInv, Assigned
<1> HIDE DEF Full, Others
<1>5. F \in [Full -> Others]
  BY <1>3
<1>6. \A q, r \in Full : F[q] = F[r] => q = r
  BY <1>4
<1>7. F \in Injection(Full, Others)
  BY <1>5, <1>6, Fun_IsInj
<1>8. IsFiniteSet(Others) /\ Cardinality(Others) = Cardinality(EnabledPorts) - 1
  BY PortLeft, EnabledFinite, FS_RemoveElement DEF Others
<1> HIDE DEF F
<1>9. IsFiniteSet(Full) /\ Cardinality(Full) <= Cardinality(Others)
  BY <1>7, <1>8, FS_Injection
<1>10. Cardinality(Full) \in Nat /\ Cardinality(EnabledPorts) \in Nat
  BY <1>9, EnabledFinite, FS_CardinalityType
<1>11. Cardinality(Full) < Cardinality(EnabledPorts)
  BY <1>8, <1>9, <1>10
<1>. QED BY <1>11 DEF Full

(* They are the number that RefusalIsRight says.                            *)
LEMMA CountFull ==
  ASSUME IInv
  PROVE  Cardinality(enabled_lcores \X (1 .. rx_queue_per_lcore))
           = Cardinality(enabled_lcores) * rx_queue_per_lcore
<1>1. enabled_lcores \subseteq Lcores /\ rx_queue_per_lcore \in Nat
  BY DEF IInv, Types
<1>2. 0 \in Int /\ RTE_MAX_LCORE - 1 \in Int
  BY LcoresAssumption
<1>3. IsFiniteSet(Lcores)
  BY <1>2, FS_Interval DEF Lcores
<1>4. IsFiniteSet(enabled_lcores)
  BY <1>1, <1>3, FS_Subset
<1>5. 1 \in Int /\ rx_queue_per_lcore \in Int
  BY <1>1
<1>6. IsFiniteSet(1 .. rx_queue_per_lcore)
  BY <1>5, FS_Interval
<1>7. Cardinality(1 .. rx_queue_per_lcore) = rx_queue_per_lcore
  BY <1>1, CountTo
<1>8. Cardinality(enabled_lcores \X (1 .. rx_queue_per_lcore))
        = Cardinality(enabled_lcores) * Cardinality(1 .. rx_queue_per_lcore)
  BY <1>4, <1>6, FS_Product, Zenon
<1>. QED BY <1>7, <1>8, Zenon

(* "Not enough cores" is the truth: all lcores are full, each with as many   *)
(* entries as were asked for, and at least one enabled port has none.       *)
THEOREM RefusalsAreRight == MainSpec => []RefusalIsRight
<1>1. IInv => RefusalIsRight
  BY FewerEntries, CountFull, Zenon DEF RefusalIsRight
<1>. QED BY <1>1, SpecIInv, PTL

(* Whatever the options, the devices and the lcores: each enabled port is   *)
(* polled by one enabled lcore, through one entry, and no other port is.    *)
THEOREM PortsPolledOnce == MainSpec => []EveryPortPolledOnce
<1>1. IInv => EveryPortPolledOnce
  <2> SUFFICES ASSUME IInv, pc \in {"links", "main_loop"}
               PROVE  /\ \A p \in EnabledPorts : \E q \in Polls :
                           /\ q[1] \in enabled_lcores
                           /\ \A r \in Polls : rx_queue_list[r[1]][r[2]] = p <=> r = q
                      /\ Cardinality(Polls) = Cardinality(EnabledPorts)
    BY DEF EveryPortPolledOnce
  <2>1. portid = nb_ports /\ EnabledPorts = Dealt
    BY DEF IInv, Progress, EnabledPorts, Dealt
  <2>2. Polls = Entries
    <3>1. \A l \in Lcores, k \in Nat :
            k \in DOMAIN rx_queue_list[l] => k \in 1 .. MAX_RX_QUEUE_PER_LCORE
      <4> SUFFICES ASSUME NEW l \in Lcores, NEW k \in Nat, k \in DOMAIN rx_queue_list[l]
                   PROVE  k \in 1 .. MAX_RX_QUEUE_PER_LCORE
        OBVIOUS
      <4>1. rx_queue_list[l] \in Seq(Nat) /\ rx_queue_per_lcore \in Nat
        BY DEF IInv, Types
      <4>2. /\ Len(rx_queue_list[l]) \in Nat /\ k \in 1 .. Len(rx_queue_list[l])
            /\ Len(rx_queue_list[l]) <= rx_queue_per_lcore
        BY <4>1 DEF IInv, Lengths
      <4>. QED BY <4>1, <4>2, LimitsAssumption DEF IInv, Lengths
    <3>2. 1 .. MAX_RX_QUEUE_PER_LCORE \subseteq Nat
      BY LimitsAssumption
    <3>3. Entries \subseteq Polls
      BY <3>1 DEF Polls, Entries
    <3>4. Polls \subseteq Entries
      BY <3>2 DEF Polls, Entries
    <3>. QED BY <3>3, <3>4
  <2>3. ASSUME NEW p \in EnabledPorts
        PROVE  \E q \in Polls :
                 /\ q[1] \in enabled_lcores
                 /\ \A r \in Polls : rx_queue_list[r[1]][r[2]] = p <=> r = q
    <3>1. PICK q \in Entries : PortOf(q) = p
      BY <2>1 DEF IInv, Assigned
    <3>2. q[1] \in enabled_lcores /\ \A r \in Entries : PortOf(r) = p <=> r = q
      BY <3>1 DEF IInv, Assigned
    <3>3. \A r \in Polls : rx_queue_list[r[1]][r[2]] = p <=> r = q
      BY <3>2, <2>2 DEF PortOf
    <3>. QED BY <3>2, <3>3, <2>2
  <2>4. Cardinality(Polls) = Cardinality(EnabledPorts)
    BY <2>1, <2>2, AsManyEntries
  <2>. QED BY <2>3, <2>4
<1>. QED BY <1>1, SpecIInv, PTL

-----------------------------------------------------------------------------
(* The launch of the lcores. *)
Functions == {"sync_func", "main_loop"}

HandshakeTypes ==
  /\ enabled_lcores \subseteq Lcores
  /\ created \subseteq Eal!Slaves
  /\ todo \subseteq Eal!Slaves
  /\ state \in [enabled_lcores -> {"WAIT", "RUNNING", "FINISHED"}]
  /\ f \in [enabled_lcores -> Functions \cup {"NULL"}]
  /\ m2s \in [enabled_lcores -> Nat]
  /\ s2m \in [enabled_lcores -> Nat]
  /\ spc \in [enabled_lcores -> Functions \cup {"read", "ack", "call"}]
  /\ mpc \in {"user", "launch", "ack", "wait", "main_loop"}
  /\ mpc \in {"launch", "ack"} => answer \in Functions
  /\ phase \in {"create", "sync", "ready", "launch"}

(* The slave has answered: it is about to call the function, in it, or back *)
(* from it and not yet waited for.                                          *)
Working(l) ==
  \/ spc[l] = "call" /\ state[l] = "RUNNING" /\ f[l] \in Functions
  \/ spc[l] \in Functions /\ state[l] = "RUNNING"
  \/ spc[l] = "read" /\ state[l] = "FINISHED"

(* The master is in rte_eal_remote_launch of the slave: the byte is on its  *)
(* way, has been read, or has been answered.                                *)
Called(l) ==
  \/ spc[l] = "read" /\ state[l] = "WAIT" /\ f[l] \in Functions /\ m2s[l] = 1 /\ s2m[l] = 0
  \/ spc[l] = "ack" /\ state[l] = "RUNNING" /\ f[l] \in Functions /\ m2s[l] = 0 /\ s2m[l] = 0
  \/ Working(l) /\ m2s[l] = 0 /\ s2m[l] = 1

Underway(l) == Working(l) /\ m2s[l] = 0 /\ s2m[l] = 0

Resting(l) == Eal!AtRest(l)

(* Each slave is at rest, called or under way; the master calls one at a    *)
(* time, and those it has yet to call are at rest.                          *)
Protocol ==
  \A l \in Eal!Slaves :
    /\ Resting(l) \/ Underway(l) \/ Called(l)
    /\ Called(l) => mpc = "ack" /\ Eal!First(l, todo)
    /\ mpc \in {"launch", "ack"} /\ l \in todo => Resting(l) \/ Called(l)

(* What rte_eal_init has achieved: all slaves are at rest until the dummy   *)
(* launch, under way when it returns, and at rest again when the wait does. *)
Phases ==
  /\ phase = "create" => mpc = "user" /\ \A l \in Eal!Slaves : Resting(l)
  /\ phase = "sync" =>
       /\ created = Eal!Slaves
       /\ mpc \in {"user", "launch", "ack"}
       /\ \A l \in Eal!Slaves : mpc = "user" \/ l \notin todo => Underway(l)
  /\ phase = "ready" =>
       /\ created = Eal!Slaves
       /\ mpc \in {"user", "wait"}
       /\ \A l \in Eal!Slaves :
            IF mpc = "wait" /\ l \in todo THEN Underway(l) ELSE Resting(l)

HandshakeInv == HandshakeTypes /\ Protocol /\ Phases

-----------------------------------------------------------------------------
(* The slaves are numbers, so that only one of a set is its first. *)
LEMMA OneFirst ==
  ASSUME HandshakeTypes, NEW l \in Eal!Slaves, NEW o \in Eal!Slaves,
         Eal!First(l, todo), Eal!First(o, todo)
  PROVE  l = o
<1>1. l \in Int /\ o \in Int /\ l <= o /\ o <= l
  BY LcoresAssumption DEF HandshakeTypes, Eal!Slaves, Eal!First, Lcores
<1>. QED BY <1>1

(* At rest, under way and called exclude each other. *)
LEMMA Exclusive ==
  ASSUME NEW l
  PROVE  /\ ~(Resting(l) /\ Underway(l))
         /\ ~(Resting(l) /\ Called(l))
         /\ ~(Underway(l) /\ Called(l))
  BY DEF Resting, Underway, Called, Working, Eal!AtRest, Functions

LEMMA InitHandshake == MainInit => HandshakeInv
<1> SUFFICES ASSUME MainInit PROVE HandshakeInv
  OBVIOUS
<1>1. HandshakeTypes
  BY LcoresAssumption DEF MainInit, Init, Eal!Init, HandshakeTypes, Lcores, Functions, Eal!Slaves
<1>2. \A l \in Eal!Slaves : Resting(l)
  BY DEF MainInit, Eal!Init, Resting, Eal!AtRest, Eal!Slaves
<1>3. phase = "create" /\ mpc = "user"
  BY DEF MainInit, Eal!Init
<1>. QED BY <1>1, <1>2, <1>3, Exclusive DEF HandshakeInv, Protocol, Phases

(* A step that leaves the master where it is and every slave at rest, under *)
(* way or called as it was.                                                 *)
LEMMA SameView ==
  ASSUME HandshakeInv, HandshakeTypes', UNCHANGED <<enabled_lcores, created, todo, mpc, phase>>,
         \A l \in Eal!Slaves : /\ Resting(l)' <=> Resting(l)
                               /\ Underway(l)' <=> Underway(l)
                               /\ Called(l)' <=> Called(l)
  PROVE  HandshakeInv'
<1> USE DEF HandshakeInv
<1>1. Eal!Slaves' = Eal!Slaves /\ \A l : Eal!First(l, todo)' <=> Eal!First(l, todo)
  BY DEF Eal!Slaves, Eal!master_lcore, Eal!First
<1>2. Protocol'
  BY <1>1 DEF Protocol
<1>3. Phases'
  BY <1>1 DEF Phases
<1>. QED BY <1>2, <1>3

(* The options, the ports and the links have nothing to do with launching.  *)
LEMMA QuietHandshake ==
  ASSUME HandshakeInv, UNCHANGED <<enabled_lcores, launch, phase>>
  PROVE  HandshakeInv'
<1>1. Eal!Slaves' = Eal!Slaves
  BY DEF Eal!Slaves, Eal!master_lcore, Eal!First
<1>2. HandshakeTypes'
  BY <1>1 DEF HandshakeInv, HandshakeTypes, launch
<1>3. \A l : /\ Resting(l)' <=> Resting(l)
             /\ Underway(l)' <=> Underway(l)
             /\ Called(l)' <=> Called(l)
  BY DEF launch, Resting, Underway, Called, Working, Eal!AtRest
<1>. QED BY <1>2, <1>3, SameView DEF launch

(* A slave moves only if it is called or under way, and stays so.           *)
LEMMA SlaveIInv ==
  ASSUME HandshakeInv, NEW l \in Eal!Slaves, SlaveStep(l)
  PROVE  HandshakeInv'
<1> USE DEF HandshakeInv
<1>1. /\ l \in enabled_lcores
      /\ UNCHANGED <<enabled_lcores, created, todo, mpc, answer, phase, f>>
      /\ Eal!Slaves' = Eal!Slaves
  BY DEF SlaveStep, vars, Eal!Slave, Eal!ReadCommand, Eal!SendAck, Eal!CallFunction,
         Eal!SyncReturns, Eal!master, Eal!config, Eal!pipes, Eal!Slaves, Eal!master_lcore,
         Eal!First
<1>2. Resting(l) \/ Underway(l) \/ Called(l)
  BY DEF Protocol
<1>3. \A o \in Eal!Slaves \ {l} : UNCHANGED <<state[o], m2s[o], s2m[o], spc[o]>>
  BY DEF SlaveStep, HandshakeTypes, Eal!Slave, Eal!ReadCommand, Eal!SendAck, Eal!CallFunction,
         Eal!SyncReturns, Eal!config, Eal!pipes, Eal!Slaves
<1>4. \A o \in Eal!Slaves \ {l} : /\ Resting(o)' <=> Resting(o)
                                  /\ Underway(o)' <=> Underway(o)
                                  /\ Called(o)' <=> Called(o)
  BY <1>1, <1>3 DEF Resting, Underway, Called, Working, Eal!AtRest
<1>5. CASE Eal!ReadCommand(l)
  <2>1. /\ HandshakeTypes' /\ ~Resting(l) /\ ~Resting(l)' /\ ~Underway(l) /\ ~Underway(l)'
        /\ Called(l) /\ Called(l)'
    BY <1>1, <1>2, <1>5 DEF Eal!ReadCommand, HandshakeTypes, Resting, Underway, Called, Working,
       Eal!AtRest, Functions, Eal!Slaves
  <2>. QED BY <1>1, <1>4, <2>1, SameView
<1>6. CASE Eal!SendAck(l)
  <2>1. /\ HandshakeTypes' /\ ~Resting(l) /\ ~Resting(l)' /\ ~Underway(l) /\ ~Underway(l)'
        /\ Called(l) /\ Called(l)'
    BY <1>1, <1>2, <1>6 DEF Eal!SendAck, Eal!config, HandshakeTypes, Resting, Underway, Called, Working,
       Eal!AtRest, Functions, Eal!Slaves
  <2>. QED BY <1>1, <1>4, <2>1, SameView
<1>7. CASE Eal!CallFunction(l)
  <2>1. /\ HandshakeTypes' /\ ~Resting(l) /\ ~Resting(l)'
        /\ Underway(l)' <=> Underway(l)
        /\ Called(l)' <=> Called(l)
    BY <1>1, <1>2, <1>7 DEF Eal!CallFunction, Eal!config, Eal!pipes, HandshakeTypes, Resting, Underway,
       Called, Working, Eal!AtRest, Functions, Eal!Slaves
  <2>. QED BY <1>1, <1>4, <2>1, SameView
<1>8. CASE Eal!SyncReturns(l)
  <2>1. /\ HandshakeTypes' /\ ~Resting(l) /\ ~Resting(l)'
        /\ Underway(l)' <=> Underway(l)
        /\ Called(l)' <=> Called(l)
    BY <1>1, <1>2, <1>8 DEF Eal!SyncReturns, Eal!pipes, HandshakeTypes, Resting, Underway, Called,
       Working, Eal!AtRest, Functions, Eal!Slaves
  <2>. QED BY <1>1, <1>4, <2>1, SameView
<1>. QED BY <1>5, <1>6, <1>7, <1>8 DEF SlaveStep, Eal!Slave

-----------------------------------------------------------------------------
(* The steps of the master.  None but Send, Acknowledged and WaitLcore      *)
(* touches a slave.                                                         *)
LEMMA MasterView ==
  ASSUME UNCHANGED <<state, f, m2s, s2m, spc>>
  PROVE  \A l : /\ Resting(l)' <=> Resting(l)
                /\ Underway(l)' <=> Underway(l)
                /\ Called(l)' <=> Called(l)
  BY DEF Resting, Underway, Called, Working, Eal!AtRest

(* Threads are created, with all slaves at rest.                            *)
LEMMA EalCreateIInv ==
  ASSUME HandshakeInv, EalCreate
  PROVE  HandshakeInv'
<1> USE DEF HandshakeInv
<1>1. /\ UNCHANGED <<enabled_lcores, state, f, m2s, s2m, spc, mpc, todo, answer, phase>>
      /\ Eal!Slaves' = Eal!Slaves /\ created' \subseteq Eal!Slaves
      /\ phase = "create"
  BY DEF EalCreate, Eal!CreateThread, Eal!config, Eal!pipes, Eal!master, vars, HandshakeTypes,
         Eal!Slaves, Eal!master_lcore, Eal!First
<1>2. HandshakeTypes'
  BY <1>1 DEF HandshakeTypes
<1>3. Protocol'
  BY <1>1, MasterView DEF Protocol, Eal!First
<1>4. Phases'
  BY <1>1, MasterView DEF Phases
<1>. QED BY <1>2, <1>3, <1>4

(* A launch begins when all slaves are at rest.                             *)
LEMMA LaunchIInv ==
  ASSUME HandshakeInv, EalSync \/ LaunchLcores
  PROVE  HandshakeInv'
<1> USE DEF HandshakeInv
<1>1. /\ UNCHANGED <<enabled_lcores, created, state, f, m2s, s2m, spc>>
      /\ Eal!Slaves' = Eal!Slaves /\ mpc = "user"
  BY DEF EalSync, LaunchLcores, Eal!MpRemoteLaunch, Eal!config, Eal!pipes, vars,
         Eal!Slaves, Eal!master_lcore, Eal!First
<1>2. /\ \A l \in Eal!Slaves : Resting(l)
      /\ created = Eal!Slaves
      /\ phase' \in {"sync", "launch"}
  BY <1>1 DEF EalSync, LaunchLcores, Phases
<1>3. \A l \in Eal!Slaves : state[l] = "WAIT"
  BY <1>2 DEF Resting, Eal!AtRest
<1>4. mpc' = "launch" /\ todo' = Eal!Slaves /\ answer' \in Functions
  BY <1>3 DEF EalSync, LaunchLcores, Eal!MpRemoteLaunch, Functions
<1>5. HandshakeTypes'
  BY <1>1, <1>2, <1>4 DEF HandshakeTypes
<1>6. Protocol'
  BY <1>1, <1>2, <1>4, Exclusive, MasterView DEF Protocol
<1>7. Phases'
  BY <1>1, <1>2, <1>4 DEF Phases
<1>. QED BY <1>5, <1>6, <1>7

(* The wait begins when all slaves are under way.                           *)
LEMMA EalWaitIInv ==
  ASSUME HandshakeInv, EalWait
  PROVE  HandshakeInv'
<1> USE DEF HandshakeInv
<1>1. /\ UNCHANGED <<enabled_lcores, created, state, f, m2s, s2m, spc>>
      /\ Eal!Slaves' = Eal!Slaves /\ mpc = "user" /\ phase = "sync"
      /\ mpc' = "wait" /\ todo' = Eal!Slaves /\ phase' = "ready"
  BY DEF EalWait, Eal!MpWaitLcore, Eal!config, Eal!pipes, vars,
         Eal!Slaves, Eal!master_lcore, Eal!First
<1>2. created = Eal!Slaves /\ \A l \in Eal!Slaves : Underway(l)
  BY <1>1 DEF Phases
<1>3. HandshakeTypes'
  BY <1>1 DEF HandshakeTypes
<1>4. Protocol'
  BY <1>1, <1>2, Exclusive, MasterView DEF Protocol
<1>5. Phases'
  BY <1>1, <1>2, MasterView DEF Phases
<1>. QED BY <1>3, <1>4, <1>5

(* What changes for one slave changes for no other.                         *)
LEMMA OneSlave ==
  ASSUME HandshakeTypes, NEW l \in Eal!Slaves, NEW o \in Eal!Slaves \ {l},
         state' = [state EXCEPT ![l] = state'[l]], f' = [f EXCEPT ![l] = f'[l]],
         m2s' = [m2s EXCEPT ![l] = m2s'[l]], s2m' = [s2m EXCEPT ![l] = s2m'[l]],
         UNCHANGED spc
  PROVE  /\ Resting(o)' <=> Resting(o)
         /\ Underway(o)' <=> Underway(o)
         /\ Called(o)' <=> Called(o)
<1>1. UNCHANGED <<state[o], f[o], m2s[o], s2m[o], spc[o]>>
  BY DEF HandshakeTypes, Eal!Slaves
<1>. QED BY <1>1 DEF Resting, Underway, Called, Working, Eal!AtRest

(* The master calls a slave that is at rest.                                *)
LEMMA SendIInv ==
  ASSUME HandshakeInv, NEW l \in todo, Eal!Send(l), UNCHANGED <<vars, phase>>
  PROVE  HandshakeInv'
<1> USE DEF HandshakeInv
<1>1. /\ l \in Eal!Slaves /\ l \in enabled_lcores
      /\ UNCHANGED <<enabled_lcores, created, state, s2m, spc, answer, phase>>
      /\ Eal!Slaves' = Eal!Slaves /\ mpc = "launch" /\ Eal!First(l, todo)
  BY DEF Eal!Send, vars, HandshakeTypes, Eal!Slaves, Eal!master_lcore, Eal!First
<1>2. Resting(l)
  BY <1>1 DEF Protocol
<1>3. /\ f' = [f EXCEPT ![l] = answer]
      /\ m2s' = [m2s EXCEPT ![l] = m2s[l] + 1]
      /\ mpc' = "ack" /\ todo' = todo
  BY <1>2 DEF Eal!Send, Resting, Eal!AtRest
<1>4. HandshakeTypes'
  BY <1>1, <1>3 DEF HandshakeTypes
<1>5. ~Resting(l)' /\ ~Underway(l)' /\ Called(l)'
  BY <1>1, <1>2, <1>3 DEF HandshakeTypes, Resting, Underway, Called, Working, Eal!AtRest, Functions
<1>6. \A o \in Eal!Slaves \ {l} : /\ Resting(o)' <=> Resting(o)
                                  /\ Underway(o)' <=> Underway(o)
                                  /\ Called(o)' <=> Called(o)
  BY <1>1, <1>3, OneSlave DEF HandshakeTypes
<1>7. Eal!First(l, todo)'
  BY <1>1, <1>3 DEF Eal!First
<1>8. Protocol'
  BY <1>1, <1>3, <1>5, <1>6, <1>7 DEF Protocol
<1>9. Phases'
  BY <1>1, <1>3, <1>6 DEF Phases
<1>. QED BY <1>4, <1>8, <1>9

(* The slave has answered: it is under way, and the others of todo are at   *)
(* rest.                                                                    *)
LEMMA AcknowledgedIInv ==
  ASSUME HandshakeInv, NEW l \in todo, Eal!Acknowledged(l), UNCHANGED <<vars, phase>>
  PROVE  HandshakeInv'
<1> USE DEF HandshakeInv
<1>1. /\ l \in Eal!Slaves /\ l \in enabled_lcores
      /\ UNCHANGED <<enabled_lcores, created, state, f, m2s, spc, answer, phase>>
      /\ Eal!Slaves' = Eal!Slaves /\ mpc = "ack" /\ Eal!First(l, todo)
      /\ s2m[l] > 0 /\ s2m' = [s2m EXCEPT ![l] = s2m[l] - 1]
      /\ mpc' = "launch" /\ todo' = todo \ {l}
  BY DEF Eal!Acknowledged, Eal!config, vars, HandshakeTypes, Eal!Slaves, Eal!master_lcore, Eal!First
<1>2. Called(l)
  BY <1>1 DEF Protocol, Resting, Underway, Eal!AtRest
<1>3. HandshakeTypes' /\ ~Resting(l)' /\ Underway(l)' /\ ~Called(l)'
  BY <1>1, <1>2 DEF HandshakeTypes, Resting, Underway, Called, Working, Eal!AtRest, Functions
<1>4. \A o \in Eal!Slaves \ {l} : /\ Resting(o)' <=> Resting(o)
                                  /\ Underway(o)' <=> Underway(o)
                                  /\ Called(o)' <=> Called(o)
  BY <1>1, OneSlave DEF HandshakeTypes
<1>5. \A o \in Eal!Slaves \ {l} : ~Called(o)
  BY <1>1, OneFirst DEF Protocol
<1>6. Protocol'
  BY <1>1, <1>3, <1>4, <1>5 DEF Protocol
<1>7. Phases'
  BY <1>1, <1>3, <1>4 DEF Phases
<1>. QED BY <1>3, <1>6, <1>7

(* A slave that was under way and is in FINISHED is at rest again.          *)
LEMMA WaitLcoreIInv ==
  ASSUME HandshakeInv, NEW l \in todo, Eal!WaitLcore(l), UNCHANGED <<vars, phase>>
  PROVE  HandshakeInv'
<1> USE DEF HandshakeInv
<1>1. /\ l \in Eal!Slaves /\ l \in enabled_lcores
      /\ UNCHANGED <<enabled_lcores, created, f, m2s, s2m, spc, mpc, answer, phase>>
      /\ Eal!Slaves' = Eal!Slaves /\ mpc = "wait"
      /\ state[l] \in {"WAIT", "FINISHED"}
      /\ state' = [state EXCEPT ![l] = "WAIT"]
      /\ todo' = todo \ {l}
  BY DEF Eal!WaitLcore, Eal!pipes, vars, HandshakeTypes, Eal!Slaves, Eal!master_lcore, Eal!First
<1>2. ~Called(l) /\ (Resting(l) \/ Underway(l))
  BY <1>1 DEF Protocol
<1>3. HandshakeTypes' /\ Resting(l)' /\ ~Underway(l)' /\ ~Called(l)'
  BY <1>1, <1>2 DEF HandshakeTypes, Resting, Underway, Called, Working, Eal!AtRest, Functions
<1>4. \A o \in Eal!Slaves \ {l} : /\ Resting(o)' <=> Resting(o)
                                  /\ Underway(o)' <=> Underway(o)
                                  /\ Called(o)' <=> Called(o)
  BY <1>1, OneSlave DEF HandshakeTypes
<1>5. Protocol'
  BY <1>1, <1>3, <1>4 DEF Protocol
<1>6. Phases'
  BY <1>1, <1>3, <1>4 DEF Phases
<1>. QED BY <1>3, <1>5, <1>6

(* The loops of the master come to their end.                               *)
LEMMA EndIInv ==
  ASSUME HandshakeInv, Eal!Waited \/ Eal!Launched(phase = "launch"), UNCHANGED <<vars, phase>>
  PROVE  HandshakeInv'
<1> USE DEF HandshakeInv
<1>1. /\ UNCHANGED <<enabled_lcores, created, state, f, m2s, s2m, spc, todo, answer, phase>>
      /\ Eal!Slaves' = Eal!Slaves /\ todo = {}
      /\ mpc' \in {"user", "main_loop"}
      /\ \/ mpc = "wait" /\ mpc' = "user"
         \/ mpc = "launch" /\ (phase # "launch" => mpc' = "user")
  BY DEF Eal!Waited, Eal!Launched, Eal!config, Eal!pipes, vars, Eal!Slaves,
         Eal!master_lcore, Eal!First
<1>2. HandshakeTypes'
  BY <1>1 DEF HandshakeTypes
<1>3. Protocol'
  BY <1>1, MasterView DEF Protocol
<1>4. Phases'
  BY <1>1, MasterView DEF Phases
<1>. QED BY <1>2, <1>3, <1>4

-----------------------------------------------------------------------------
(* Every step preserves the invariant.                                      *)
LEMMA NextHandshake == HandshakeInv /\ [MainNext]_allvars => HandshakeInv'
<1> SUFFICES ASSUME HandshakeInv, [MainNext]_allvars PROVE HandshakeInv'
  OBVIOUS
<1>1. CASE Configure \/ UNCHANGED allvars
  <2>1. UNCHANGED <<enabled_lcores, launch, phase>>
    BY <1>1 DEF Configure, allvars, vars, Next, OptionP, OptionQ, OptionT, OptionUnknown,
       OptionsEnd, SkipPort, NextLcore, AssignPort, StartPorts, CheckLinks, ReportLinks
  <2>. QED BY <2>1, QuietHandshake
<1>2. CASE MasterStep
  BY <1>2, SendIInv, AcknowledgedIInv, WaitLcoreIInv, EndIInv DEF MasterStep, Eal!Master
<1>3. ASSUME NEW l \in Eal!Slaves, SlaveStep(l) PROVE HandshakeInv'
  BY <1>3, SlaveIInv
<1>. QED
  BY <1>1, <1>2, <1>3, EalCreateIInv, LaunchIInv, EalWaitIInv DEF MainNext, MasterNext

(* The invariant holds in every reachable state. *)
THEOREM SpecHandshake == MainSpec => []HandshakeInv
  BY InitHandshake, NextHandshake, PTL DEF MainSpec

(* A slave that looks idle is idle, but for the one the master is calling.  *)
THEOREM StatesAreTrue == MainSpec => []StatesTrue
<1>1. HandshakeInv => StatesTrue
  BY DEF HandshakeInv, Protocol, StatesTrue, Resting, Underway, Working
<1>. QED BY <1>1, SpecHandshake, PTL

(* rte_eal_init returns when every slave exists and is back at its pipe,    *)
(* however many there are.                                                  *)
THEOREM SlavesAreReady == MainSpec => []SlavesReady
<1>1. HandshakeInv => SlavesReady
  BY DEF HandshakeInv, Phases, SlavesReady, Resting
<1>. QED BY <1>1, SpecHandshake, PTL
=============================================================================
