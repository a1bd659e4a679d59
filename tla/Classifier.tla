----------------------------- MODULE Classifier -----------------------------
(***************************************************************************)
(* The rule table of sdn-v2/lib_classifier, filled by pipeline_init, which  *)
(* every lcore calls at the start of main_loop while others may already be  *)
(* running the pipeline.  Nothing in it is locked.                          *)
(*                                                                         *)
(* A rule is one value per field.  Classifier<...>::add_rule enters the     *)
(* number of the rule in the hash map of each field, the last field first,  *)
(* increments rule_counter_ and returns the rule's entry of action_table_,  *)
(* in which the caller then stores its callback.  Classifier<...>::find     *)
(* intersects, over the fields, the numbers found for the packet's values.  *)
(***************************************************************************)
EXTENDS Integers, Sequences, FiniteSets

CONSTANTS
  Lcores,
  Fields,    \* the match fields 1, 2, ... of the classifier
  Values,    \* the values a field can have
  Rules,     \* the rules that may be added: functions from Fields to Values
  MaxRules,  \* bound: calls of add_rule in a behaviour
  None       \* no entry, no rule

ASSUME LcoresAssumption == IsFiniteSet(Lcores)
ASSUME FieldsAssumption == /\ IsFiniteSet(Fields) /\ Fields # {}
                           /\ Fields = 1 .. Cardinality(Fields)
ASSUME RulesAssumption == Rules \subseteq [Fields -> Values]
ASSUME MaxRulesAssumption == MaxRules \in Nat \ {0}
ASSUME NoneAssumption == /\ None \notin Rules \cup Int
                         /\ \A S \in SUBSET (0 .. MaxRules - 1) : S # None

VARIABLES
  rule_counter_,
  map_,           \* map_[f][v]: index_set_ of value v in field f, or None
  action_table_,  \* callback_ of each entry: that of the n-th call, NULL, or None
  pc,             \* what each lcore does next
  rule,           \* argument of the call in progress
  callback,       \* what its caller is to store: the callback of the n-th call
  rule_nb,        \* its parameter rule_nb
  field,          \* the field being entered
  loaded,         \* rule_counter_ as the increment has read it
  damaged,        \* two lcores have changed one container at once
  crashed,        \* the process has died
  added,          \* the rules passed to add_rule, in the order of the calls
  disturbed       \* the calls that were in progress while another was

table == <<rule_counter_, map_, action_table_>>
call == <<rule, callback, rule_nb, field, loaded>>
ghosts == <<added, disturbed>>
vars == <<table, pc, call, damaged, crashed, ghosts>>

Numbers == 0 .. MaxRules - 1
NULL == 0  \* an entry exists, and its callback is not set

At(l, label) == ~crashed /\ pc[l] = label
Goto(l, label) == pc' = [pc EXCEPT ![l] = label]
Adding(l) == pc[l] # "pipeline"

Init ==
  /\ rule_counter_ = 0
  /\ map_ = [f \in Fields |-> [v \in Values |-> None]]
  /\ action_table_ = [k \in Numbers |-> None]
  /\ pc = [l \in Lcores |-> "pipeline"]
  /\ rule = [l \in Lcores |-> None]
  /\ callback = [l \in Lcores |-> 0]
  /\ rule_nb = [l \in Lcores |-> 0]
  /\ field = [l \in Lcores |-> 0]
  /\ loaded = [l \in Lcores |-> 0]
  /\ damaged = FALSE
  /\ crashed = FALSE
  /\ added = <<>>
  /\ disturbed = {}

-----------------------------------------------------------------------------
(* add_rule *)

(* _add_rule(rule_counter_, ...) goes down to the last field *)
AddRule(l) ==
  /\ At(l, "pipeline")
  /\ Len(added) < MaxRules
  /\ \E r \in Rules :
       /\ rule' = [rule EXCEPT ![l] = r]
       /\ added' = Append(added, r)
  /\ callback' = [callback EXCEPT ![l] = Len(added) + 1]
  /\ rule_nb' = [rule_nb EXCEPT ![l] = rule_counter_]
  /\ field' = [field EXCEPT ![l] = Cardinality(Fields)]
  /\ LET others == {callback[k] : k \in {k \in Lcores : Adding(k)}}
     IN disturbed' = IF others = {} THEN disturbed
                     ELSE disturbed \cup others \cup {Len(added) + 1}
  /\ Goto(l, "find")
  /\ UNCHANGED <<table, loaded, damaged, crashed>>

(* Another lcore changes the container l is in: the hash map of the field,  *)
(* the index_set_ of one value of it, or action_table_.  Two changes at     *)
(* once may link two nodes for one key, and a rehash or a rebalancing may   *)
(* unlink any others; from then on nothing is sure about the containers.    *)
Value(l) == rule[l][field[l]]
Changing(l, label) ==
  \E k \in Lcores \ {l} : /\ pc[k] = label
                          /\ label # "action" => field[k] = field[l]
                          /\ label = "number" => Value(k) = Value(l)
Unsafe(l, label) == damaged \/ Changing(l, label)
Damage == damaged' = TRUE

(* MatchExact::add_rule: map_.find(field), which may miss the node while    *)
(* another lcore inserts one ...                                            *)
FindField(l) ==
  /\ At(l, "find")
  /\ \/ Goto(l, IF map_[field[l]][Value(l)] = None THEN "node" ELSE "number")
     \/ Unsafe(l, "node") /\ Goto(l, "node")
  /\ UNCHANGED <<table, call, damaged, crashed, ghosts>>

(* ... a node for a new value ...                                           *)
InsertNode(l) ==
  /\ At(l, "node")
  /\ LET f == field[l]
         linked == [map_[f] EXCEPT ![Value(l)] = IF @ = None THEN {} ELSE @]
     IN \/ map_' = [map_ EXCEPT ![f] = linked] /\ UNCHANGED damaged
        \/ /\ Unsafe(l, "node") /\ Damage
           /\ \E gone \in SUBSET Values :
                map_' = [map_ EXCEPT ![f] = [v \in Values |-> IF v \in gone THEN None
                                                              ELSE linked[v]]]
  /\ Goto(l, "number")
  /\ UNCHANGED <<rule_counter_, action_table_, call, crashed, ghosts>>

(* ... and the number of the rule, to no avail if the node is unlinked;     *)
(* then the field before it                                                 *)
InsertNumber(l) ==
  /\ At(l, "number")
  /\ LET f == field[l]
         v == Value(l)
         numbers == map_[f][v] \cup {rule_nb[l]}
     IN /\ IF map_[f][v] = None
             THEN UNCHANGED <<map_, damaged>>
             ELSE \/ map_' = [map_ EXCEPT ![f][v] = numbers] /\ UNCHANGED damaged
                  \/ /\ Unsafe(l, "number") /\ Damage
                     /\ \E part \in SUBSET numbers : map_' = [map_ EXCEPT ![f][v] = part]
        /\ field' = [field EXCEPT ![l] = f - 1]
        /\ Goto(l, IF f = 1 THEN "load" ELSE "find")
  /\ UNCHANGED <<rule_counter_, action_table_, rule, callback, rule_nb, loaded, crashed,
                 ghosts>>

(* rule_counter_++ is a load ... *)
LoadCounter(l) ==
  /\ At(l, "load")
  /\ loaded' = [loaded EXCEPT ![l] = rule_counter_]
  /\ Goto(l, "store")
  /\ UNCHANGED <<table, rule, callback, rule_nb, field, damaged, crashed, ghosts>>

(* ... and a store *)
StoreCounter(l) ==
  /\ At(l, "store")
  /\ rule_counter_' = loaded[l] + 1
  /\ Goto(l, "action")
  /\ UNCHANGED <<map_, action_table_, call, damaged, crashed, ghosts>>

(* The number of the rule added last. *)
MutantLastNumber == rule_counter_  \* mutant: the number of the next
LastNumber == rule_counter_ - 1

(* &action_table_[rule_counter_ - 1], which makes the entry if there is none *)
TakeAction(l) ==
  /\ At(l, "action")
  /\ LET linked == [action_table_ EXCEPT ![LastNumber] = IF @ = None THEN NULL ELSE @]
     IN /\ rule_nb' = [rule_nb EXCEPT ![l] = LastNumber]
        /\ \/ action_table_' = linked /\ UNCHANGED damaged
           \/ /\ Unsafe(l, "action") /\ Damage
              /\ \E gone \in SUBSET Numbers :
                   action_table_' = [k \in Numbers |-> IF k \in gone THEN None ELSE linked[k]]
  /\ Goto(l, "callback")
  /\ UNCHANGED <<rule_counter_, map_, rule, callback, field, loaded, crashed, ghosts>>

(* component_ethane_init: action->callback_ = ..., in an entry that may be  *)
(* unlinked                                                                 *)
SetCallback(l) ==
  /\ At(l, "callback")
  /\ \/ action_table_' = [action_table_ EXCEPT ![rule_nb[l]] =
                             IF @ = None THEN None ELSE callback[l]]
     \/ damaged /\ UNCHANGED action_table_
  /\ rule' = [rule EXCEPT ![l] = None]
  /\ callback' = [callback EXCEPT ![l] = 0]
  /\ rule_nb' = [rule_nb EXCEPT ![l] = 0]
  /\ loaded' = [loaded EXCEPT ![l] = 0]
  /\ Goto(l, "pipeline")
  /\ UNCHANGED <<rule_counter_, map_, field, damaged, crashed, ghosts>>

-----------------------------------------------------------------------------
(* find: the numbers all fields agree on, and the first of them *)
IndexSet(f, v) == IF map_[f][v] = None THEN {} ELSE map_[f][v]
Matching(pkt) == {k \in 0 .. rule_counter_ - 1 : \A f \in Fields : k \in IndexSet(f, pkt[f])}
MutantFind(pkt) ==  \* mutant: the last rule that matches
  IF Matching(pkt) = {} THEN None
  ELSE CHOOSE k \in Matching(pkt) : \A j \in Matching(pkt) : j <= k
Find(pkt) == IF Matching(pkt) = {} THEN None
             ELSE CHOOSE k \in Matching(pkt) : \A j \in Matching(pkt) : k <= j

(* Classify::component calls the callback of the entry find returns, which  *)
(* makes the entry if there is none: a callback that is not set is a call   *)
(* of address 0.  Without an entry the packet is allowed and nothing        *)
(* changes.  The table is read at once: what a read torn by an insertion,   *)
(* or of a damaged container, can do besides is to miss an entry, which     *)
(* changes nothing, or TornTable.                                           *)
Classify(l) ==
  /\ At(l, "pipeline")
  /\ \E pkt \in [Fields -> Values] :
       LET k == Find(pkt)
       IN /\ k # None
          /\ action_table_' = [action_table_ EXCEPT ![k] = IF @ = None THEN NULL ELSE @]
          /\ crashed' = (action_table_'[k] = NULL)
  /\ UNCHANGED <<rule_counter_, map_, pc, call, damaged, ghosts>>

(* Any of these containers used while another lcore changes it, or after    *)
(* two have.                                                                *)
TornTable(l) ==
  /\ ~crashed
  /\ damaged \/ \E k \in Lcores \ {l} : Adding(k)
  /\ crashed' = TRUE
  /\ UNCHANGED <<table, pc, call, damaged, ghosts>>

AddStep(l) == \/ AddRule(l) \/ FindField(l) \/ InsertNode(l) \/ InsertNumber(l)
              \/ LoadCounter(l) \/ StoreCounter(l) \/ TakeAction(l) \/ SetCallback(l)
Next == \E l \in Lcores : AddStep(l) \/ Classify(l) \/ TornTable(l)

Spec == Init /\ [][Next]_vars
-----------------------------------------------------------------------------
Quiet == ~crashed /\ \A l \in Lcores : ~Adding(l)

(* Types; every rule number stays below the number of calls of add_rule.    *)
TypeOK ==
  /\ rule_counter_ \in 0 .. MaxRules
  /\ map_ \in [Fields -> [Values -> (SUBSET Numbers) \cup {None}]]
  /\ action_table_ \in [Numbers -> {None} \cup 0 .. MaxRules]
  /\ pc \in [Lcores -> {"pipeline", "find", "node", "number", "load", "store", "action",
                        "callback"}]
  /\ rule \in [Lcores -> Rules \cup {None}]
  /\ callback \in [Lcores -> 0 .. MaxRules]
  /\ rule_nb \in [Lcores -> Numbers]
  /\ field \in [Lcores -> 0 .. Cardinality(Fields)]
  /\ loaded \in [Lcores -> 0 .. MaxRules]
  /\ damaged \in BOOLEAN
  /\ crashed \in BOOLEAN
  /\ added \in Seq(Rules)
  /\ disturbed \subseteq 1 .. MaxRules

(* If calls of add_rule never overlap, the intersection of the index sets   *)
(* gives the first rule that was added among those that match in every      *)
(* field, and the callback its caller has set.                              *)
Matched(pkt) == {k \in DOMAIN added : added[k] = pkt}
FirstMatch ==
  Quiet /\ disturbed = {} =>
    \A pkt \in [Fields -> Values] :
      IF Matched(pkt) = {}
        THEN Find(pkt) = None
        ELSE /\ Find(pkt) # None
             /\ action_table_[Find(pkt)] \in Matched(pkt)
             /\ \A k \in Matched(pkt) : action_table_[Find(pkt)] <= k

(* A rule whose call overlapped no other call is found for good, under the  *)
(* number that has its callback, however many calls overlap later, as long  *)
(* as no two of them are in one container at once: although they load and   *)
(* store the counter, look up and insert in any order, none takes its       *)
(* number, nor moves the counter back below it.  Calls that overlap promise *)
(* nothing, not even if all of them add one rule.                           *)
Done(n) == \A l \in Lcores : callback[l] # n
RuleKept ==
  ~damaged => \A n \in DOMAIN added \ disturbed :
    Done(n) => \E k \in Matching(added[n]) : action_table_[k] = n
=============================================================================
