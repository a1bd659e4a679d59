-------------------------- MODULE ClassifierProofs --------------------------
(***************************************************************************)
(* Proofs about Classifier, for any number of lcores, fields, values and    *)
(* calls: the numbers stay in the table, and a rule that was added while no *)
(* other was is found, until two lcores change one container at once.       *)
(***************************************************************************)
EXTENDS Classifier, FiniteSetTheorems, TLAPS

NF == Cardinality(Fields)

Types ==
  /\ rule_counter_ \in Nat
  /\ map_ \in [Fields -> [Values -> (SUBSET Numbers) \cup {None}]]
  /\ action_table_ \in [Numbers -> {None} \cup 0 .. MaxRules]
  /\ pc \in [Lcores -> {"pipeline", "find", "node", "number", "load", "store", "action",
                        "callback"}]
  /\ rule \in [Lcores -> Rules \cup {None}]
  /\ callback \in [Lcores -> Nat]
  /\ rule_nb \in [Lcores -> Numbers]
  /\ field \in [Lcores -> 0 .. NF]
  /\ loaded \in [Lcores -> Nat]
  /\ damaged \in BOOLEAN
  /\ crashed \in BOOLEAN
  /\ added \in Seq(Rules)
  /\ disturbed \subseteq Nat \ {0}

(* Each call in progress has a callback of its own, and its rule.           *)
Calls ==
  /\ \A l \in Lcores : Adding(l) <=> callback[l] # 0
  /\ \A l \in Lcores : callback[l] <= Len(added)
  /\ \A l \in Lcores : Adding(l) => rule[l] \in Rules /\ rule[l] = added[callback[l]]
  /\ \A l, k \in Lcores : Adding(l) /\ callback[l] = callback[k] => l = k
  /\ \A n \in disturbed : n <= Len(added)

Entering(l) == pc[l] \in {"find", "node", "number"}

(* As long as nothing is damaged a number is entered in a node that exists. *)
Nodes ==
  \A l \in Lcores :
    /\ Entering(l) => field[l] \in Fields
    /\ pc[l] = "number" /\ ~damaged => map_[field[l]][Value(l)] # None

(* The calls that have not stored the counter yet.  The counter, and what   *)
(* any of them is to store, leave room for them below the number of calls.  *)
Unstored == {l \in Lcores : Entering(l) \/ pc[l] \in {"load", "store"}}
Counted ==
  /\ Len(added) <= MaxRules
  /\ rule_counter_ + Cardinality(Unstored) <= Len(added)
  /\ \A l \in Lcores : pc[l] = "store" => loaded[l] + Cardinality(Unstored) <= Len(added)
  /\ \A l \in Lcores : pc[l] = "action" => rule_counter_ > 0
  /\ \A l \in Lcores : loaded[l] <= Len(added)

(* The n-th rule is in the table under number k, and no call in progress    *)
(* will store a counter, or take an entry, that is not above k: as long as  *)
(* nothing is damaged.                                                      *)
Under(n, k) ==
  /\ k < rule_counter_
  /\ action_table_[k] = n
  /\ \A f \in Fields : k \in IndexSet(f, added[n][f])
  /\ \A l \in Lcores : /\ pc[l] = "store" => loaded[l] > k
                       /\ pc[l] = "action" => rule_counter_ > k + 1
                       /\ pc[l] = "callback" => rule_nb[l] > k
Kept == ~damaged => \A n \in DOMAIN added \ disturbed :
                      Done(n) => \E k \in Numbers : Under(n, k)

(* What a call has done so far, if no other overlaps it.                    *)
Entered(l, f) == rule_nb[l] \in IndexSet(f, rule[l][f])
Alone ==
  ~damaged => \A l \in Lcores : Adding(l) /\ callback[l] \notin disturbed =>
    /\ \A k \in Lcores \ {l} : ~Adding(k)
    /\ Entering(l) => \A f \in Fields : f > field[l] => Entered(l, f)
    /\ ~Entering(l) => \A f \in Fields : Entered(l, f)
    /\ Entering(l) \/ pc[l] \in {"load", "store"} => rule_counter_ = rule_nb[l]
    /\ pc[l] = "store" => loaded[l] = rule_nb[l]
    /\ pc[l] \in {"action", "callback"} => rule_counter_ = rule_nb[l] + 1
    /\ pc[l] = "callback" => action_table_[rule_nb[l]] # None

(* Only calls that overlap damage anything.                                 *)
Damaging == damaged => disturbed # {}

IInv == Types /\ Calls /\ Nodes /\ Counted /\ Kept /\ Alone /\ Damaging

-----------------------------------------------------------------------------
(* The fields are numbered from one. *)
LEMMA FieldNumbers == NF \in Nat \ {0} /\ Fields = 1 .. NF
<1>1. NF \in Nat
  BY FieldsAssumption, FS_CardinalityType DEF NF
<1>2. Fields = 1 .. NF
  BY FieldsAssumption DEF NF
<1>3. NF # 0
  BY <1>2, FieldsAssumption
<1>. QED BY <1>1, <1>2, <1>3

(* A rule has a value in each field. *)
LEMMA RuleValues == \A r \in Rules, f \in Fields : r[f] \in Values
  BY RulesAssumption

(* None is not the index set of an entry. *)
LEMMA NoneNoSet == \A S \in SUBSET Numbers : S # None
  BY NoneAssumption DEF Numbers

(* Some of the lcores are a finite number. *)
LEMMA UnstoredCount ==
  /\ IsFiniteSet(Unstored)
  /\ Cardinality(Unstored) \in Nat
  /\ Unstored = {} => Cardinality(Unstored) = 0
  /\ \A l \in Unstored : Cardinality(Unstored) > 0
<1>1. IsFiniteSet(Unstored)
  BY LcoresAssumption, FS_Subset DEF Unstored
<1>2. Cardinality(Unstored) \in Nat
  BY <1>1, FS_CardinalityType
<1>3. Cardinality(Unstored) = 0 <=> Unstored = {}
  BY <1>1, FS_EmptySet
<1>. QED BY <1>1, <1>2, <1>3

LEMMA InitIInv == Init => IInv
<1> SUFFICES ASSUME Init PROVE IInv
  OBVIOUS
<1> USE DEF Init, Adding, Entering
<1>1. Types
  <2>1. 0 \in Numbers /\ 0 \in 0 .. NF
    BY FieldNumbers, MaxRulesAssumption DEF Numbers
  <2>2. <<>> \in Seq(Rules)
    OBVIOUS
  <2>3. map_ \in [Fields -> [Values -> (SUBSET Numbers) \cup {None}]]
    <3>1. [v \in Values |-> None] \in [Values -> (SUBSET Numbers) \cup {None}]
      OBVIOUS
    <3>2. map_ = [f \in Fields |-> [v \in Values |-> None]]
      OBVIOUS
    <3>. QED BY <3>1, <3>2, Zenon
  <2>4. /\ callback \in [Lcores -> Nat] /\ loaded \in [Lcores -> Nat]
        /\ rule_nb \in [Lcores -> Numbers] /\ field \in [Lcores -> 0 .. NF]
        /\ rule \in [Lcores -> Rules \cup {None}]
    BY <2>1
  <2>5. action_table_ \in [Numbers -> {None} \cup 0 .. MaxRules]
    OBVIOUS
  <2>. QED BY <2>2, <2>3, <2>4, <2>5 DEF Types
<1>2. Calls /\ Nodes /\ Alone /\ Damaging
  BY DEF Calls, Nodes, Alone, Damaging
<1>3. Counted
  <2>1. Unstored = {}
    BY DEF Unstored
  <2>. QED BY <2>1, UnstoredCount, MaxRulesAssumption DEF Counted
<1>4. Kept
  BY DEF Kept
<1>. QED BY <1>1, <1>2, <1>3, <1>4 DEF IInv

(* What a step must leave alone for the rules that are kept.                *)
LEMMA KeptStep ==
  ASSUME IInv, UNCHANGED <<added, disturbed, callback>>, damaged => damaged',
         ~damaged' => \A n \in DOMAIN added, k \in Numbers : Under(n, k) => Under(n, k)'
  PROVE  Kept'
  BY DEF IInv, Kept, Done

(* A call that no other overlaps changes no container another changes.      *)
LEMMA Undisturbed ==
  ASSUME IInv, NEW l \in Lcores, Adding(l), ~damaged, NEW label, label # "pipeline",
         callback[l] \notin disturbed \/ disturbed = {}
  PROVE  ~Unsafe(l, label)
  BY DEF IInv, Alone, Adding, Changing, Unsafe

(* So whatever a step of a call damages, some call is disturbed.            *)
LEMMA DamagingStep ==
  ASSUME IInv, NEW l \in Lcores, Adding(l), NEW label, label # "pipeline",
         damaged' => damaged \/ Unsafe(l, label), UNCHANGED disturbed
  PROVE  Damaging'
  BY Undisturbed DEF IInv, Damaging

(* The number of a rule that is kept is one of the table's, its action too. *)
LEMMA UnderTypes ==
  ASSUME IInv, NEW n \in DOMAIN added
  PROVE  n \in Nat /\ n # 0 /\ n # None /\ added[n] \in Rules
  BY NoneAssumption DEF IInv, Types

(* What makes an entry changes no other.                                    *)
LEMMA TableStep ==
  ASSUME IInv, NEW k, action_table_' = [action_table_ EXCEPT ![k] = IF @ = None THEN NULL ELSE @]
  PROVE  /\ action_table_' \in [Numbers -> {None} \cup 0 .. MaxRules]
         /\ \A j \in Numbers : action_table_'[j] = action_table_[j] \/ action_table_[j] = None
<1>1. NULL \in 0 .. MaxRules
  BY MaxRulesAssumption DEF NULL
<1>2. action_table_ \in [Numbers -> {None} \cup 0 .. MaxRules]
  BY DEF IInv, Types
<1>. QED BY <1>1, <1>2

(* map_.find *)
LEMMA FindFieldIInv ==
  ASSUME IInv, NEW l \in Lcores, FindField(l)
  PROVE  IInv'
<1> USE DEF IInv, Adding, Entering
<1>1. /\ pc[l] = "find" /\ UNCHANGED <<table, call, damaged, crashed, ghosts>>
      /\ \E label \in {"node", "number"} :
           /\ pc' = [pc EXCEPT ![l] = label]
           /\ label = "number" => map_[field[l]][Value(l)] # None
  BY DEF FindField, At, Goto
<1> USE DEF table, call, ghosts
<1>2. Types'
  BY <1>1 DEF Types
<1>3. Calls'
  BY <1>1 DEF Calls, Types
<1>4. Nodes'
  BY <1>1 DEF Nodes, Types, Value
<1>5. Counted'
  <2>1. Unstored' = Unstored
    BY <1>1 DEF Unstored, Types
  <2>. QED BY <1>1, <2>1 DEF Counted, Types
<1>6. Kept'
  <2>1. \A n \in DOMAIN added, k \in Numbers : Under(n, k) => Under(n, k)'
    BY <1>1 DEF Under, Types, IndexSet
  <2>. QED BY <1>1, <2>1, KeptStep
<1>7. Alone' /\ Damaging'
  BY <1>1 DEF Alone, Damaging, Types, Entered, IndexSet
<1>. QED BY <1>2, <1>3, <1>4, <1>5, <1>6, <1>7

(* One entry of one map is given a set S.                                   *)
LEMMA MapStep ==
  ASSUME Types, NEW f \in Fields, NEW v \in Values, NEW S \in SUBSET Numbers,
         map_' = [map_ EXCEPT ![f][v] = S]
  PROVE  /\ map_' \in [Fields -> [Values -> (SUBSET Numbers) \cup {None}]]
         /\ map_'[f][v] = S
         /\ \A g \in Fields, w \in Values : map_'[g][w] = map_[g][w] \/ (g = f /\ w = v)
<1>1. map_[f] \in [Values -> (SUBSET Numbers) \cup {None}]
  BY DEF Types
<1>2. [map_[f] EXCEPT ![v] = S] \in [Values -> (SUBSET Numbers) \cup {None}]
  BY <1>1
<1>3. map_' = [map_ EXCEPT ![f] = [map_[f] EXCEPT ![v] = S]]
  OBVIOUS
<1>. QED BY <1>1, <1>2, <1>3 DEF Types

(* What an insertion leaves of the nodes and numbers, unless it damages     *)
(* them.                                                                    *)
LEMMA NodeStep ==
  ASSUME IInv, NEW l \in Lcores, InsertNode(l)
  PROVE  /\ field[l] \in Fields /\ Value(l) \in Values /\ damaged' \in BOOLEAN
         /\ map_' \in [Fields -> [Values -> (SUBSET Numbers) \cup {None}]]
         /\ damaged => damaged'
         /\ damaged' => damaged \/ Unsafe(l, "node")
         /\ damaged' \/ (/\ map_'[field[l]][Value(l)] # None
                         /\ \A g \in Fields, w \in Values :
                             \/ map_'[g][w] = map_[g][w]
                             \/ map_[g][w] = None /\ map_'[g][w] = {})
<1> DEFINE f == field[l]
           v == Value(l)
           linked == [map_[f] EXCEPT ![v] = IF @ = None THEN {} ELSE @]
           Left(gone) == [w \in Values |-> IF w \in gone THEN None ELSE linked[w]]
           Node == (SUBSET Numbers) \cup {None}
<1>1. f \in Fields /\ v \in Values
  BY RuleValues DEF IInv, Calls, Nodes, InsertNode, At, Adding, Entering, Value
<1>2. \/ map_' = [map_ EXCEPT ![f] = linked] /\ UNCHANGED damaged
      \/ /\ Unsafe(l, "node") /\ damaged' = TRUE
         /\ \E gone \in SUBSET Values : map_' = [map_ EXCEPT ![f] = Left(gone)]
  BY DEF InsertNode, Damage
<1>3. map_ \in [Fields -> [Values -> Node]] /\ damaged \in BOOLEAN
  BY DEF IInv, Types
<1>4. /\ linked \in [Values -> Node] /\ linked[v] # None
      /\ \A w \in Values : \/ linked[w] = map_[f][w]
                           \/ map_[f][w] = None /\ linked[w] = {}
  <2>1. map_[f] \in [Values -> Node] /\ {} \in Node /\ {} # None
    BY <1>1, <1>3, NoneNoSet
  <2> HIDE DEF f, v, Node
  <2>. QED BY <1>1, <2>1
<1> HIDE DEF f, v, linked
<1>5. CASE map_' = [map_ EXCEPT ![f] = linked] /\ UNCHANGED damaged
  <2>1. map_' \in [Fields -> [Values -> Node]]
    <3> HIDE DEF Node
    <3>. QED BY <1>3, <1>4, <1>5
  <2>2. \A g \in Fields : map_'[g] = IF g = f THEN linked ELSE map_[g]
    BY <1>3, <1>5
  <2>. QED BY <1>1, <1>3, <1>4, <1>5, <2>1, <2>2 DEF f, v
<1>6. CASE /\ Unsafe(l, "node") /\ damaged' = TRUE
           /\ \E gone \in SUBSET Values : map_' = [map_ EXCEPT ![f] = Left(gone)]
  <2>1. PICK gone \in SUBSET Values : map_' = [map_ EXCEPT ![f] = Left(gone)]
    BY <1>6
  <2>2. Left(gone) \in [Values -> Node]
    BY <1>4
  <2>3. map_' \in [Fields -> [Values -> Node]]
    <3> HIDE DEF Node, Left
    <3>. QED BY <1>3, <2>1, <2>2
  <2>. QED BY <1>1, <1>3, <1>6, <2>3 DEF f, v
<1>. QED BY <1>2, <1>5, <1>6

LEMMA NumberStep ==
  ASSUME IInv, NEW l \in Lcores, InsertNumber(l)
  PROVE  /\ field[l] \in Fields /\ Value(l) \in Values /\ damaged' \in BOOLEAN
         /\ map_' \in [Fields -> [Values -> (SUBSET Numbers) \cup {None}]]
         /\ damaged => damaged'
         /\ damaged' => damaged \/ Unsafe(l, "number")
         /\ damaged' \/ (\A g \in Fields, w \in Values :
                           /\ map_[g][w] # None => map_'[g][w] # None
                           /\ IndexSet(g, w)' =
                                IF g = field[l] /\ w = Value(l)
                                  THEN IndexSet(g, w) \cup {rule_nb[l]} ELSE IndexSet(g, w))
<1> DEFINE f == field[l]
           v == Value(l)
           numbers == map_[f][v] \cup {rule_nb[l]}
<1>1. f \in Fields /\ v \in Values /\ pc[l] = "number"
  BY RuleValues DEF IInv, Calls, Nodes, InsertNumber, At, Adding, Entering, Value
<1>2. IF map_[f][v] = None THEN UNCHANGED <<map_, damaged>>
      ELSE \/ map_' = [map_ EXCEPT ![f][v] = numbers] /\ UNCHANGED damaged
           \/ /\ Unsafe(l, "number") /\ damaged' = TRUE
              /\ \E part \in SUBSET numbers : map_' = [map_ EXCEPT ![f][v] = part]
  BY DEF InsertNumber, Damage
<1>3. /\ map_ \in [Fields -> [Values -> (SUBSET Numbers) \cup {None}]]
      /\ damaged \in BOOLEAN /\ rule_nb[l] \in Numbers /\ Types
      /\ map_[f][v] = None => damaged
  BY <1>1 DEF IInv, Types, Nodes
<1>4. map_[f][v] # None => numbers \in SUBSET Numbers
  <2>1. map_[f][v] \in (SUBSET Numbers) \cup {None}
    BY <1>1, <1>3
  <2> HIDE DEF f, v
  <2>. QED BY <1>3, <2>1
<1> HIDE DEF f, v, numbers
<1>5. CASE map_[f][v] = None
  BY <1>1, <1>2, <1>3, <1>5 DEF f, v
<1>6. CASE map_[f][v] # None /\ map_' = [map_ EXCEPT ![f][v] = numbers] /\ UNCHANGED damaged
  <2>1. /\ map_' \in [Fields -> [Values -> (SUBSET Numbers) \cup {None}]]
        /\ map_'[f][v] = numbers
        /\ \A g \in Fields, w \in Values : map_'[g][w] = map_[g][w] \/ (g = f /\ w = v)
    BY <1>1, <1>3, <1>4, <1>6, MapStep
  <2>2. numbers # None /\ numbers = IndexSet(f, v) \cup {rule_nb[l]}
    BY <1>4, <1>6, NoneNoSet DEF numbers, IndexSet
  <2>3. \A g \in Fields, w \in Values :
          /\ map_[g][w] # None => map_'[g][w] # None
          /\ IndexSet(g, w)' = IF g = f /\ w = v THEN IndexSet(g, w) \cup {rule_nb[l]}
                                                ELSE IndexSet(g, w)
    BY <2>1, <2>2 DEF IndexSet
  <2>. QED BY <1>1, <1>3, <1>6, <2>1, <2>3 DEF f, v
<1>7. CASE /\ map_[f][v] # None /\ Unsafe(l, "number") /\ damaged' = TRUE
           /\ \E part \in SUBSET numbers : map_' = [map_ EXCEPT ![f][v] = part]
  <2>1. PICK part \in SUBSET numbers : map_' = [map_ EXCEPT ![f][v] = part]
    BY <1>7
  <2>2. part \in SUBSET Numbers
    BY <1>4, <1>7
  <2>3. map_' \in [Fields -> [Values -> (SUBSET Numbers) \cup {None}]]
    BY <1>1, <1>3, <2>1, <2>2, MapStep
  <2>. QED BY <1>1, <1>3, <1>7, <2>3 DEF f, v
<1>. QED BY <1>2, <1>5, <1>6, <1>7

(* map_.insert *)
LEMMA InsertNodeIInv ==
  ASSUME IInv, NEW l \in Lcores, InsertNode(l)
  PROVE  IInv'
<1> USE DEF IInv, Adding, Entering
<1>1. /\ pc[l] = "node" /\ pc' = [pc EXCEPT ![l] = "number"]
      /\ UNCHANGED <<rule_counter_, action_table_, rule, callback, rule_nb, field, loaded,
                     crashed, added, disturbed>>
  BY DEF InsertNode, At, Goto, call, ghosts
<1>2. \A g \in Fields, w \in Values : ~damaged' => IndexSet(g, w)' = IndexSet(g, w)
  BY NodeStep DEF IndexSet
<1>3. Types'
  BY <1>1, NodeStep DEF Types
<1>4. Calls'
  BY <1>1 DEF Calls, Types
<1>5. Nodes'
  <2>1. ~damaged' => \A g \in Fields, w \in Values : map_[g][w] # None => map_'[g][w] # None
    BY NodeStep, NoneNoSet
  <2>2. \A k \in Lcores : Adding(k) => \A g \in Fields : rule[k][g] \in Values
    BY RuleValues DEF Calls
  <2>3. \A k \in Lcores \ {l} : pc'[k] = pc[k]
    BY <1>1 DEF Types
  <2>4. pc'[l] = "number" /\ \A k \in Lcores : Value(k)' = Value(k)
    BY <1>1 DEF Types, Value
  <2>. QED BY <1>1, <2>1, <2>2, <2>3, <2>4, NodeStep DEF Nodes, Value
<1>6. Counted'
  <2>1. Unstored' = Unstored
    BY <1>1 DEF Unstored, Types
  <2>. QED BY <1>1, <2>1 DEF Counted, Types
<1>7. Kept'
  <2>1. ASSUME ~damaged', NEW n \in DOMAIN added, NEW k \in Numbers, Under(n, k)
        PROVE  Under(n, k)'
    BY <2>1, <1>1, <1>2, UnderTypes, RuleValues DEF Under, Types
  <2>. QED BY <1>1, <2>1, NodeStep, KeptStep
<1>8. Alone'
  <2>1. \A k \in Lcores, g \in Fields : ~damaged' /\ Adding(k) => (Entered(k, g)' <=> Entered(k, g))
    BY <1>1, <1>2, RuleValues DEF Entered, Calls
  <2>. QED BY <1>1, <2>1, NodeStep DEF Alone, Types
<1>9. Damaging'
  BY <1>1, NodeStep, DamagingStep
<1>. QED BY <1>3, <1>4, <1>5, <1>6, <1>7, <1>8, <1>9

(* index_set_.insert *)
LEMMA InsertNumberIInv ==
  ASSUME IInv, NEW l \in Lcores, InsertNumber(l)
  PROVE  IInv'
<1> USE DEF IInv, Adding, Entering
<1> DEFINE f == field[l]
<1>1. /\ pc[l] = "number"
      /\ pc' = [pc EXCEPT ![l] = IF f = 1 THEN "load" ELSE "find"]
      /\ field' = [field EXCEPT ![l] = f - 1]
      /\ UNCHANGED <<rule_counter_, action_table_, rule, callback, rule_nb, loaded,
                     crashed, added, disturbed>>
  BY DEF InsertNumber, At, Goto, ghosts
<1>2. /\ f \in Fields /\ Value(l) = rule[l][f] /\ rule[l][f] \in Values
      /\ ~damaged' => ~damaged
      /\ \A g \in Fields, w \in Values : ~damaged' => IndexSet(g, w) \subseteq IndexSet(g, w)'
      /\ \A g \in Fields, w \in Values :
           ~damaged' /\ g = f /\ w = rule[l][f] => rule_nb[l] \in IndexSet(g, w)'
  <2>1. f \in Fields /\ Value(l) = rule[l][f] /\ rule[l][f] \in Values /\ (~damaged' => ~damaged)
    BY NumberStep DEF Value
  <2>2. ASSUME ~damaged', NEW g \in Fields, NEW w \in Values
        PROVE  IndexSet(g, w)' = IF g = f /\ w = rule[l][f] THEN IndexSet(g, w) \cup {rule_nb[l]}
                                                         ELSE IndexSet(g, w)
    BY <2>1, <2>2, NumberStep
  <2>. QED BY <2>1, <2>2
<1>5. NF \in Nat /\ Fields = 1 .. NF
  BY FieldNumbers
<1>6. Types'
  <2>1. f - 1 \in 0 .. NF
    BY <1>2, <1>5
  <2>. QED BY <1>1, <2>1, NumberStep DEF Types
<1>7. Calls'
  BY <1>1 DEF Calls, Types
<1>8. Nodes'
  <2>1. f # 1 => f - 1 \in Fields
    BY <1>2, <1>5
  <2>2. /\ pc'[l] # "number" /\ field'[l] = f - 1 /\ pc'[l] \in {"load", "find"}
        /\ pc'[l] = "find" => f # 1
    BY <1>1 DEF Types
  <2>3. \A k \in Lcores \ {l} : pc'[k] = pc[k] /\ field'[k] = field[k] /\ Value(k)' = Value(k)
    BY <1>1 DEF Types, Value
  <2>4. \A k \in Lcores : Entering(k) => field[k] \in Fields /\ Value(k) \in Values
    BY RuleValues DEF Nodes, Calls, Value
  <2>5. ~damaged' => \A g \in Fields, w \in Values : map_[g][w] # None => map_'[g][w] # None
    BY NumberStep
  <2>. QED BY <1>2, <2>1, <2>2, <2>3, <2>4, <2>5 DEF Nodes
<1>9. Counted'
  <2>1. Unstored' = Unstored
    BY <1>1 DEF Unstored, Types
  <2>. QED BY <1>1, <2>1 DEF Counted, Types
<1>10. Kept'
  <2>1. ASSUME ~damaged', NEW n \in DOMAIN added, NEW k \in Numbers, Under(n, k)
        PROVE  Under(n, k)'
    BY <2>1, <1>1, <1>2, UnderTypes, RuleValues DEF Under, Types
  <2>. QED BY <1>1, <1>2, <2>1, KeptStep DEF Types
<1>11. Alone'
  <2>1. \A g \in Fields : /\ g > f - 1 => g > f \/ g = f
                          /\ f = 1 => g > f \/ g = f
    BY <1>2, <1>5
  <2>2. \A g \in Fields : ~damaged' /\ Entered(l, g) => Entered(l, g)'
    BY <1>1, <1>2, RuleValues DEF Entered, Calls
  <2>3. \A g \in Fields : ~damaged' /\ g = f => Entered(l, g)'
    BY <1>1, <1>2 DEF Entered
  <2>4. /\ field'[l] = f - 1 /\ pc'[l] = IF f = 1 THEN "load" ELSE "find"
        /\ \A k \in Lcores \ {l} : pc'[k] = pc[k]
    BY <1>1 DEF Types
  <2> SUFFICES ASSUME ~damaged', NEW k \in Lcores, Adding(k)', callback[k] \notin disturbed
               PROVE  /\ \A j \in Lcores \ {k} : ~Adding(j)'
                      /\ Entering(k)' => \A g \in Fields : g > field'[k] => Entered(k, g)'
                      /\ ~Entering(k)' => \A g \in Fields : Entered(k, g)'
                      /\ Entering(k)' \/ pc'[k] \in {"load", "store"} => rule_counter_ = rule_nb[k]
                      /\ pc'[k] = "store" => loaded[k] = rule_nb[k]
                      /\ pc'[k] \in {"action", "callback"} => rule_counter_ = rule_nb[k] + 1
                      /\ pc'[k] = "callback" => action_table_[rule_nb[k]] # None
    BY <1>1 DEF Alone
  <2>5. k = l /\ \A j \in Lcores \ {l} : ~Adding(j)'
    BY <1>1, <1>2, <2>4 DEF Alone
  <2>6. \A g \in Fields : (g > f \/ g = f) => Entered(l, g)'
    <3>1. \A g \in Fields : g > f => Entered(l, g)
      BY <1>1, <1>2, <2>5 DEF Alone
    <3>. QED BY <2>2, <2>3, <3>1
  <2>. QED BY <1>1, <1>2, <2>1, <2>4, <2>5, <2>6 DEF Alone
<1>12. Damaging'
  BY <1>1, NumberStep, DamagingStep DEF Types
<1>. QED BY <1>6, <1>7, <1>8, <1>9, <1>10, <1>11, <1>12

(* rule_counter_++ is read *)
LEMMA LoadCounterIInv ==
  ASSUME IInv, NEW l \in Lcores, LoadCounter(l)
  PROVE  IInv'
<1> USE DEF IInv, LoadCounter, At, Goto, table, ghosts, Adding, Entering
<1>1. Types'
  BY DEF Types
<1>2. Calls'
  BY DEF Calls, Types
<1>3. Nodes'
  BY DEF Nodes, Types, Value
<1>4. Counted'
  <2>1. Unstored' = Unstored
    BY DEF Unstored, Types
  <2>2. rule_counter_ \in Nat /\ rule_counter_ <= Len(added)
    <3>1. /\ rule_counter_ \in Nat /\ Len(added) \in Nat
          /\ rule_counter_ + Cardinality(Unstored) <= Len(added)
      BY DEF Counted, Types
    <3>. QED BY <3>1, UnstoredCount
  <2>. QED BY <2>1, <2>2 DEF Counted, Types
<1>5. Kept'
  <2>1. \A n \in DOMAIN added, k \in Numbers : Under(n, k) => Under(n, k)'
    BY DEF Under, Types, IndexSet
  <2>. QED BY <2>1, KeptStep
<1>6. Alone' /\ Damaging'
  BY DEF Alone, Damaging, Types, Entered, IndexSet
<1>. QED BY <1>1, <1>2, <1>3, <1>4, <1>5, <1>6

(* ... and stored; the call leaves Unstored *)
LEMMA StoreCounterIInv ==
  ASSUME IInv, NEW l \in Lcores, StoreCounter(l)
  PROVE  IInv'
<1> USE DEF IInv, Adding, Entering
<1>1. /\ pc[l] = "store" /\ pc' = [pc EXCEPT ![l] = "action"]
      /\ rule_counter_' = loaded[l] + 1 /\ loaded[l] \in Nat
      /\ UNCHANGED <<map_, action_table_, rule, callback, rule_nb, field, loaded,
                     damaged, crashed, added, disturbed>>
  BY DEF StoreCounter, At, Goto, call, ghosts, Types
<1>2. Types'
  BY <1>1 DEF Types
<1>3. Calls'
  BY <1>1 DEF Calls, Types
<1>4. Nodes'
  BY <1>1 DEF Nodes, Types, Value
<1>5. Counted'
  <2>1. Unstored' = Unstored \ {l} /\ l \in Unstored
    BY <1>1 DEF Unstored, Types
  <2>2. Cardinality(Unstored') = Cardinality(Unstored) - 1 /\ Cardinality(Unstored) \in Nat
    BY <2>1, UnstoredCount, FS_RemoveElement
  <2>3. Len(added) \in Nat
    BY DEF Types
  <2>. QED BY <1>1, <2>2, <2>3 DEF Counted, Types
<1>6. Kept'
  <2>1. ASSUME NEW n \in DOMAIN added, NEW k \in Numbers, Under(n, k) PROVE Under(n, k)'
    <3>1. k \in Nat /\ loaded[l] > k
      BY <1>1, <2>1 DEF Under, Numbers
    <3>2. rule_counter_' > k + 1 /\ k < rule_counter_'
      BY <1>1, <3>1
    <3>. QED BY <2>1, <1>1, <3>2 DEF Under, Types, IndexSet
  <2>. QED BY <1>1, <2>1, KeptStep
<1>7. Alone' /\ Damaging'
  BY <1>1 DEF Alone, Damaging, Types, Entered, IndexSet
<1>. QED BY <1>2, <1>3, <1>4, <1>5, <1>6, <1>7

(* What taking an entry leaves of the others, unless it damages them.       *)
LEMMA ActionStep ==
  ASSUME IInv, NEW l \in Lcores, TakeAction(l)
  PROVE  /\ LastNumber \in Numbers /\ LastNumber = rule_counter_ - 1
         /\ damaged' \in BOOLEAN
         /\ action_table_' \in [Numbers -> {None} \cup 0 .. MaxRules]
         /\ damaged => damaged'
         /\ damaged' => damaged \/ Unsafe(l, "action")
         /\ damaged' \/ (/\ action_table_'[LastNumber] # None
                         /\ \A k \in Numbers :
                             \/ action_table_'[k] = action_table_[k]
                             \/ action_table_[k] = None /\ action_table_'[k] = NULL)
<1> DEFINE n == LastNumber
           linked == [action_table_ EXCEPT ![n] = IF @ = None THEN NULL ELSE @]
           Left(gone) == [k \in Numbers |-> IF k \in gone THEN None ELSE linked[k]]
           Entry == {None} \cup 0 .. MaxRules
<1>1. n \in Numbers /\ n = rule_counter_ - 1
  <2>1. /\ rule_counter_ \in Nat /\ rule_counter_ > 0 /\ Len(added) \in Nat
        /\ rule_counter_ + Cardinality(Unstored) <= Len(added) /\ Len(added) <= MaxRules
    BY DEF IInv, Counted, Types, TakeAction, At
  <2>. QED BY <2>1, UnstoredCount, MaxRulesAssumption DEF LastNumber, Numbers
<1>2. \/ action_table_' = linked /\ UNCHANGED damaged
      \/ /\ Unsafe(l, "action") /\ damaged' = TRUE
         /\ \E gone \in SUBSET Numbers : action_table_' = Left(gone)
  BY DEF TakeAction, Damage
<1>3. /\ action_table_ \in [Numbers -> Entry] /\ damaged \in BOOLEAN
      /\ NULL \in Entry /\ NULL # None
  BY NoneAssumption, MaxRulesAssumption DEF IInv, Types, NULL
<1>4. /\ linked \in [Numbers -> Entry] /\ linked[n] # None
      /\ \A k \in Numbers : \/ linked[k] = action_table_[k]
                            \/ action_table_[k] = None /\ linked[k] = NULL
  <2> HIDE DEF n, Entry
  <2>. QED BY <1>1, <1>3
<1> HIDE DEF linked
<1>5. CASE action_table_' = linked /\ UNCHANGED damaged
  BY <1>1, <1>3, <1>4, <1>5
<1>6. CASE /\ Unsafe(l, "action") /\ damaged' = TRUE
           /\ \E gone \in SUBSET Numbers : action_table_' = Left(gone)
  <2>1. action_table_' \in [Numbers -> Entry]
    <3> HIDE DEF n
    <3>. QED BY <1>4, <1>6
  <2>. QED BY <1>1, <1>6, <2>1
<1>. QED BY <1>2, <1>5, <1>6

(* &action_table_[rule_counter_ - 1]: above the number of every rule kept   *)
LEMMA TakeActionIInv ==
  ASSUME IInv, NEW l \in Lcores, TakeAction(l)
  PROVE  IInv'
<1> USE DEF IInv, Adding, Entering
<1>1. /\ pc[l] = "action" /\ pc' = [pc EXCEPT ![l] = "callback"]
      /\ rule_nb' = [rule_nb EXCEPT ![l] = LastNumber]
      /\ UNCHANGED <<rule_counter_, map_, rule, callback, field, loaded, crashed, added, disturbed>>
  BY DEF TakeAction, At, Goto, ghosts
<1>2. LastNumber \in Numbers /\ LastNumber = rule_counter_ - 1 /\ (~damaged' => ~damaged)
  BY ActionStep
<1> HIDE DEF LastNumber
<1>3. Types'
  <2>1. pc' \in [Lcores -> {"pipeline", "find", "node", "number", "load", "store", "action",
                           "callback"}]
    BY <1>1 DEF Types
  <2>2. /\ rule_counter_' \in Nat /\ rule' \in [Lcores -> Rules \cup {None}]
        /\ map_' \in [Fields -> [Values -> (SUBSET Numbers) \cup {None}]]
        /\ callback' \in [Lcores -> Nat]
        /\ field' \in [Lcores -> 0 .. NF] /\ loaded' \in [Lcores -> Nat]
        /\ crashed' \in BOOLEAN /\ added' \in Seq(Rules) /\ disturbed' \subseteq Nat \ {0}
    BY <1>1 DEF Types
  <2>3. rule_nb' \in [Lcores -> Numbers]
    BY <1>1, <1>2 DEF Types
  <2>4. /\ action_table_' \in [Numbers -> {None} \cup 0 .. MaxRules]
        /\ damaged' \in BOOLEAN
    BY ActionStep
  <2>. QED BY <2>1, <2>2, <2>3, <2>4, Zenon DEF Types
<1>4. Calls'
  BY <1>1 DEF Calls, Types
<1>5. Nodes'
  <2>1. pc'[l] = "callback" /\ \A k \in Lcores \ {l} : pc'[k] = pc[k]
    BY <1>1 DEF Types
  <2>. QED BY <1>1, <1>2, <2>1 DEF Nodes, Value
<1>6. Counted'
  <2>1. Unstored' = Unstored
    BY <1>1 DEF Unstored, Types
  <2>. QED BY <1>1, <2>1 DEF Counted, Types
<1>7. Kept'
  <2>1. ASSUME ~damaged', NEW n \in DOMAIN added, NEW k \in Numbers, Under(n, k)
        PROVE  Under(n, k)'
    <3>1. k \in Nat /\ rule_counter_ \in Nat /\ rule_counter_ > k + 1
      BY <1>1, <2>1 DEF Under, Numbers, Types
    <3>2. LastNumber > k
      BY <1>2, <3>1
    <3>3. action_table_'[k] = n
      BY <2>1, ActionStep, UnderTypes DEF Under
    <3>4. /\ pc'[l] = "callback" /\ rule_nb'[l] > k
          /\ \A j \in Lcores \ {l} : pc'[j] = pc[j] /\ rule_nb'[j] = rule_nb[j]
      BY <1>1, <3>2 DEF Types
    <3>5. \A j \in Lcores :
            /\ pc'[j] = "store" => loaded'[j] > k
            /\ pc'[j] = "action" => rule_counter_' > k + 1
            /\ pc'[j] = "callback" => rule_nb'[j] > k
      BY <1>1, <2>1, <3>4 DEF Under
    <3>6. k < rule_counter_' /\ \A f \in Fields : k \in IndexSet(f, added[n][f])'
      BY <1>1, <2>1 DEF Under, IndexSet
    <3>. QED BY <3>3, <3>5, <3>6 DEF Under
  <2>. QED BY <1>1, <2>1, ActionStep, KeptStep
<1>8. Alone'
  <2> SUFFICES ASSUME ~damaged' PROVE Alone'
    BY DEF Alone
  <2>1. callback[l] \notin disturbed => LastNumber = rule_nb[l]
    <3>1. callback[l] \notin disturbed => rule_counter_ = rule_nb[l] + 1
      BY <1>1, <1>2 DEF Alone
    <3>2. rule_nb[l] \in Nat
      BY DEF Types, Numbers
    <3>. QED BY <1>2, <3>1, <3>2
  <2>2. callback[l] \notin disturbed => /\ rule_nb' = rule_nb
                                         /\ action_table_'[rule_nb[l]] # None
    BY <1>1, <2>1, ActionStep DEF Types
  <2>3. \A k \in Lcores \ {l} : pc'[k] = pc[k] /\ rule_nb'[k] = rule_nb[k]
    BY <1>1 DEF Types
  <2>. QED BY <1>1, <1>2, <2>2, <2>3 DEF Alone, Types, Entered, IndexSet
<1>9. Damaging'
  BY <1>1, ActionStep, DamagingStep
<1>. QED BY <1>3, <1>4, <1>5, <1>6, <1>7, <1>8, <1>9

(* The call ends: if it was alone, its rule is kept from now on.            *)
LEMMA SetCallbackIInv ==
  ASSUME IInv, NEW l \in Lcores, SetCallback(l)
  PROVE  IInv'
<1> USE DEF IInv, Adding, Entering
<1>1. /\ pc[l] = "callback" /\ pc' = [pc EXCEPT ![l] = "pipeline"]
      /\ \/ action_table_' = [action_table_ EXCEPT ![rule_nb[l]] =
                                 IF @ = None THEN None ELSE callback[l]]
         \/ damaged /\ action_table_' = action_table_
      /\ rule' = [rule EXCEPT ![l] = None]
      /\ callback' = [callback EXCEPT ![l] = 0]
      /\ rule_nb' = [rule_nb EXCEPT ![l] = 0]
      /\ loaded' = [loaded EXCEPT ![l] = 0]
      /\ UNCHANGED <<rule_counter_, map_, field, damaged, crashed, added, disturbed>>
  BY DEF SetCallback, At, Goto, ghosts
<1>2. /\ callback[l] \in DOMAIN added /\ callback[l] \in 0 .. MaxRules
      /\ rule_nb[l] \in Numbers /\ 0 \in Numbers
  <2>1. callback[l] \in Nat /\ callback[l] # 0 /\ callback[l] <= Len(added) /\ Len(added) \in Nat
    BY <1>1 DEF Calls, Types
  <2>2. DOMAIN added = 1 .. Len(added)
    BY DEF Types
  <2>3. callback[l] \in DOMAIN added
    BY <2>1, <2>2
  <2>4. callback[l] \in 0 .. MaxRules
    BY <2>1, MaxRulesAssumption DEF Counted
  <2>. QED BY <2>3, <2>4, MaxRulesAssumption DEF Types, Numbers
<1>9. /\ action_table_' \in [Numbers -> {None} \cup 0 .. MaxRules]
      /\ \A k \in Numbers \ {rule_nb[l]} : action_table_'[k] = action_table_[k]
      /\ ~damaged /\ action_table_[rule_nb[l]] # None => action_table_'[rule_nb[l]] = callback[l]
  <2>1. action_table_ \in [Numbers -> {None} \cup 0 .. MaxRules]
    BY DEF Types
  <2>. QED BY <1>1, <1>2, <2>1
<1>3. Types'
  <2>1. /\ pc' \in [Lcores -> {"pipeline", "find", "node", "number", "load", "store", "action",
                              "callback"}]
        /\ rule' \in [Lcores -> Rules \cup {None}] /\ callback' \in [Lcores -> Nat]
        /\ rule_nb' \in [Lcores -> Numbers] /\ loaded' \in [Lcores -> Nat]
    BY <1>1, <1>2 DEF Types
  <2>. QED BY <1>1, <1>9, <2>1 DEF Types
<1>4. Calls'
  BY <1>1 DEF Calls, Types
<1>5. Nodes'
  BY <1>1 DEF Nodes, Types, Value
<1>6. Counted'
  <2>1. Unstored' = Unstored
    BY <1>1 DEF Unstored, Types
  <2>. QED BY <1>1, <2>1 DEF Counted, Types
<1>7. Kept'
  <2> SUFFICES ASSUME ~damaged, NEW n \in DOMAIN added \ disturbed, Done(n)'
               PROVE  \E k \in Numbers : Under(n, k)'
    BY <1>1 DEF Kept
  <2>1. CASE n = callback[l]
    <3>1. /\ \A k \in Lcores \ {l} : ~Adding(k)
          /\ action_table_[rule_nb[l]] # None /\ rule_counter_ = rule_nb[l] + 1
          /\ \A f \in Fields : Entered(l, f)
      BY <1>1, <2>1 DEF Alone
    <3>2. rule[l] = added[n]
      BY <1>1, <2>1 DEF Calls
    <3>3. rule_nb[l] \in Nat
      BY <1>2 DEF Numbers
    <3>4. action_table_'[rule_nb[l]] = n
      BY <1>9, <2>1, <3>1
    <3>5. \A k \in Lcores : pc'[k] = "pipeline"
      BY <1>1, <3>1 DEF Types
    <3> DEFINE j == rule_nb[l]
    <3>6. \A f \in Fields : j \in IndexSet(f, added[n][f])
      BY <3>1, <3>2 DEF Entered
    <3>7. j < rule_counter_ /\ j \in Numbers /\ action_table_'[j] = n
      BY <3>1, <3>3, <3>4, <1>2
    <3> HIDE DEF j
    <3>8. /\ j < rule_counter_' /\ \A f \in Fields : j \in IndexSet(f, added[n][f])'
      BY <1>1, <3>6, <3>7 DEF IndexSet
    <3>. QED BY <3>5, <3>7, <3>8, <1>1 DEF Under, IndexSet
  <2>2. CASE n # callback[l]
    <3>1. Done(n)
      BY <1>1, <2>2 DEF Done, Types
    <3>2. PICK k \in Numbers : Under(n, k)
      BY <3>1 DEF Kept
    <3>3. rule_nb[l] > k /\ k \in Nat
      BY <1>1, <3>2 DEF Under, Numbers
    <3>4. action_table_'[k] = n
      BY <1>2, <1>9, <3>2, <3>3 DEF Under, Numbers
    <3>5. \A o \in Lcores : \/ pc'[o] = pc[o] /\ rule_nb'[o] = rule_nb[o] /\ loaded'[o] = loaded[o]
                            \/ pc'[o] = "pipeline"
      BY <1>1 DEF Types
    <3>. QED BY <1>1, <3>2, <3>4, <3>5 DEF Under, IndexSet
  <2>. QED BY <2>1, <2>2
<1>8. Alone' /\ Damaging'
  <2>1. /\ ~Adding(l)'
        /\ \A k \in Lcores \ {l} : /\ pc'[k] = pc[k] /\ callback'[k] = callback[k]
                                   /\ rule'[k] = rule[k] /\ rule_nb'[k] = rule_nb[k]
                                   /\ loaded'[k] = loaded[k]
    BY <1>1 DEF Types
  <2>2. ~damaged => \A k \in Lcores \ {l} : Adding(k) => callback[k] \in disturbed
    BY <1>1 DEF Alone
  <2>. QED BY <1>1, <2>1, <2>2 DEF Alone, Damaging
<1>. QED BY <1>3, <1>4, <1>5, <1>6, <1>7, <1>8

(* A call begins: those that are in progress are disturbed by it.           *)
LEMMA AddRuleIInv ==
  ASSUME IInv, NEW l \in Lcores, AddRule(l)
  PROVE  IInv'
<1> USE DEF IInv, Adding, Entering
<1> DEFINE new == Len(added) + 1
           others == {callback[k] : k \in {k \in Lcores : Adding(k)}}
<1>1. PICK r \in Rules : rule' = [rule EXCEPT ![l] = r] /\ added' = Append(added, r)
  BY DEF AddRule
<1>2. /\ pc[l] = "pipeline" /\ pc' = [pc EXCEPT ![l] = "find"]
      /\ Len(added) < MaxRules
      /\ callback' = [callback EXCEPT ![l] = new]
      /\ rule_nb' = [rule_nb EXCEPT ![l] = rule_counter_]
      /\ field' = [field EXCEPT ![l] = NF]
      /\ disturbed' = IF others = {} THEN disturbed ELSE disturbed \cup others \cup {new}
      /\ UNCHANGED <<rule_counter_, map_, action_table_, loaded, damaged, crashed>>
  BY DEF AddRule, At, Goto, table, NF
<1>3. /\ Len(added) \in Nat /\ new \in Nat /\ Len(added') = new
      /\ added' \in Seq(Rules) /\ DOMAIN added' = 1 .. new /\ DOMAIN added = 1 .. Len(added)
      /\ added'[new] = r /\ \A n \in DOMAIN added : added'[n] = added[n]
  BY <1>1 DEF Types
<1> HIDE DEF new
<1>4. NF \in Fields /\ NF \in 0 .. NF
  BY FieldNumbers
<1>5. rule_counter_ \in Numbers
  <2>1. rule_counter_ \in Nat /\ rule_counter_ + Cardinality(Unstored) <= Len(added)
    BY DEF Types, Counted
  <2>. QED BY <2>1, <1>2, <1>3, UnstoredCount, MaxRulesAssumption DEF Numbers
<1>6. /\ pc'[l] = "find" /\ \A k \in Lcores \ {l} : pc'[k] = pc[k]
      /\ rule'[l] = r /\ \A k \in Lcores \ {l} : rule'[k] = rule[k]
      /\ callback'[l] = new /\ \A k \in Lcores \ {l} : callback'[k] = callback[k]
      /\ rule_nb'[l] = rule_counter_ /\ \A k \in Lcores \ {l} : rule_nb'[k] = rule_nb[k]
      /\ field'[l] = NF /\ \A k \in Lcores \ {l} : field'[k] = field[k]
  BY <1>1, <1>2 DEF Types
<1>7. \A k \in Lcores : callback[k] \in Nat /\ callback[k] <= Len(added) /\ callback[k] # new
  <2>1. \A k \in Lcores : callback[k] \in Nat /\ callback[k] <= Len(added)
    BY DEF Calls, Types
  <2>. QED BY <2>1, <1>3 DEF new
<1>8. Types'
  <2>1. disturbed' \subseteq Nat \ {0}
    <3>1. others \subseteq Nat \ {0}
      BY <1>7 DEF Calls
    <3>2. new \in Nat \ {0}
      BY <1>3 DEF new
    <3> HIDE DEF others
    <3>. QED BY <1>2, <3>1, <3>2 DEF Types
  <2>. QED BY <1>1, <1>2, <1>3, <1>4, <1>5, <2>1 DEF Types
<1>9. Calls'
  <2>1. \A k \in Lcores : callback'[k] <= Len(added')
    <3>1. Len(added) <= new /\ new <= new
      BY <1>3 DEF new
    <3>. QED BY <1>3, <1>6, <1>7, <3>1
  <2>2. \A k \in Lcores : Adding(k)' <=> callback'[k] # 0
    BY <1>2, <1>3, <1>6 DEF Calls, new
  <2>3. \A k \in Lcores : Adding(k) => callback[k] \in DOMAIN added
    BY <1>3, <1>7 DEF Calls
  <2>4. \A k \in Lcores : Adding(k)' => rule'[k] \in Rules /\ rule'[k] = added'[callback'[k]]
    BY <1>3, <1>6, <2>3 DEF Calls
  <2>5. \A k, j \in Lcores : Adding(k)' /\ callback'[k] = callback'[j] => k = j
    BY <1>6, <1>7 DEF Calls
  <2>6. \A n \in disturbed' : n <= Len(added')
    <3>1. \A n \in disturbed : n \in Nat /\ n <= Len(added)
      BY DEF Calls, Types
    <3>2. \A n \in disturbed' : n \in disturbed \/ n \in others \/ n = new
      BY <1>2
    <3>3. \A n \in others : n \in Nat /\ n <= Len(added)
      BY <1>7
    <3> HIDE DEF others
    <3>4. \A n \in Nat : n <= Len(added) => n <= new
      BY <1>3 DEF new
    <3>. QED BY <1>3, <3>1, <3>2, <3>3, <3>4
  <2>. QED BY <2>1, <2>2, <2>4, <2>5, <2>6 DEF Calls
<1>10. Nodes'
  <2>1. \A k \in Lcores \ {l} : Value(k)' = Value(k)
    BY <1>6 DEF Value
  <2>. QED BY <1>2, <1>4, <1>6, <2>1 DEF Nodes
<1>11. Counted'
  <2>1. Unstored' = Unstored \cup {l} /\ l \notin Unstored
    BY <1>2, <1>6 DEF Unstored
  <2>2. Cardinality(Unstored') = Cardinality(Unstored) + 1 /\ Cardinality(Unstored) \in Nat
    BY <2>1, UnstoredCount, FS_AddElement
  <2>3. new <= MaxRules
    BY <1>2, <1>3, MaxRulesAssumption DEF new
  <2>4. \A k \in Lcores : pc'[k] = "store" => loaded[k] + Cardinality(Unstored') <= new
    <3>1. ASSUME NEW k \in Lcores, pc[k] = "store"
          PROVE  loaded[k] \in Nat /\ loaded[k] + Cardinality(Unstored) <= Len(added)
      BY <3>1 DEF Counted, Types
    <3>. QED BY <3>1, <2>2, <1>3, <1>6 DEF new
  <2>5. rule_counter_ + Cardinality(Unstored') <= new
    <3>1. rule_counter_ \in Nat /\ rule_counter_ + Cardinality(Unstored) <= Len(added)
      BY DEF Counted, Types
    <3>. QED BY <3>1, <2>2, <1>3 DEF new
  <2>6. \A k \in Lcores : pc'[k] = "action" => rule_counter_ > 0
    BY <1>6 DEF Counted
  <2>7. \A k \in Lcores : loaded[k] <= new
    <3>1. \A k \in Lcores : loaded[k] \in Nat /\ loaded[k] <= Len(added)
      BY DEF Counted, Types
    <3>. QED BY <3>1, <1>3 DEF new
  <2>. QED BY <1>2, <1>3, <2>3, <2>4, <2>5, <2>6, <2>7 DEF Counted
<1>12. Kept'
  <2> SUFFICES ASSUME ~damaged, NEW n \in DOMAIN added', n \notin disturbed', Done(n)'
               PROVE  \E k \in Numbers : Under(n, k)'
    BY <1>2 DEF Kept
  <2>1. n # new /\ n \in DOMAIN added
    BY <1>3, <1>6 DEF Done, new
  <2>2. Done(n) /\ n \notin disturbed
    <3>1. callback[l] # n
      BY <1>2, <2>1, <1>3 DEF Calls
    <3>. QED BY <1>2, <1>6, <3>1 DEF Done
  <2>3. PICK k \in Numbers : Under(n, k)
    BY <2>1, <2>2 DEF Kept
  <2>4. /\ k < rule_counter_' /\ action_table_'[k] = n
    BY <1>2, <2>3 DEF Under
  <2>5. \A f \in Fields : k \in IndexSet(f, added[n][f])'
    <3>1. added'[n] = added[n] /\ map_' = map_
      BY <1>2, <1>3, <2>1
    <3>2. \A f \in Fields : k \in IndexSet(f, added[n][f])
      BY <2>3 DEF Under
    <3>. QED BY <3>1, <3>2 DEF IndexSet
  <2>6. \A o \in Lcores : \/ pc'[o] = pc[o] /\ rule_nb'[o] = rule_nb[o] /\ loaded'[o] = loaded[o]
                          \/ pc'[o] = "find"
    BY <1>2, <1>6
  <2>7. \A o \in Lcores : /\ pc'[o] = "store" => loaded'[o] > k
                          /\ pc'[o] = "action" => rule_counter_' > k + 1
                          /\ pc'[o] = "callback" => rule_nb'[o] > k
    BY <1>2, <2>3, <2>6 DEF Under
  <2>8. Under(n, k)'
    BY <2>4, <2>5, <2>7 DEF Under
  <2>. QED BY <2>8
<1>13. Alone'
  <2> SUFFICES ASSUME NEW k \in Lcores, Adding(k)', callback'[k] \notin disturbed'
               PROVE  /\ k = l /\ \A j \in Lcores \ {l} : ~Adding(j)'
    <3>1. \A f \in Fields : ~(f > NF)
      BY FieldNumbers
    <3>2. /\ \A f \in Fields : ~(f > field'[l])
          /\ pc'[l] = "find" /\ rule_counter_' = rule_nb'[l]
      BY <3>1, <1>2, <1>6
    <3>. QED BY <3>2 DEF Alone
  <2>1. others = {}
    <3>1. CASE k = l
      <4>1. callback'[l] = new /\ new \notin disturbed'
        BY <3>1, <1>6
      <4> HIDE DEF others
      <4>. QED BY <4>1, <1>2
    <3>2. CASE k # l
      <4>1. callback[k] \in others /\ callback'[k] = callback[k]
        BY <3>2, <1>6
      <4> HIDE DEF others
      <4>. QED BY <4>1, <1>2
    <3>. QED BY <3>1, <3>2
  <2>2. \A j \in Lcores : ~Adding(j)
    BY <2>1
  <2>. QED BY <1>6, <2>2
<1>14. Damaging'
  <2>1. disturbed \subseteq disturbed'
    <3> HIDE DEF others
    <3>. QED BY <1>2
  <2>. QED BY <1>2, <2>1 DEF Damaging
<1>. QED BY <1>8, <1>9, <1>10, <1>11, <1>12, <1>13, <1>14

(* A packet changes nothing but an entry that does not exist.               *)
LEMMA ClassifyIInv ==
  ASSUME IInv, NEW l \in Lcores, Classify(l)
  PROVE  IInv'
<1> USE DEF IInv, Adding, Entering
<1>1. /\ UNCHANGED <<rule_counter_, map_, pc, rule, callback, rule_nb, field, loaded,
                     damaged, added, disturbed>>
      /\ crashed' \in BOOLEAN
      /\ \E k : action_table_' = [action_table_ EXCEPT ![k] = IF @ = None THEN NULL ELSE @]
  <2>1. PICK pkt \in [Fields -> Values] :
          /\ action_table_' = [action_table_ EXCEPT ![Find(pkt)] = IF @ = None THEN NULL ELSE @]
          /\ crashed' = (action_table_'[Find(pkt)] = NULL)
    BY Zenon DEF Classify
  <2>. QED BY <2>1, Zenon DEF Classify, call, ghosts
<1>2. /\ action_table_' \in [Numbers -> {None} \cup 0 .. MaxRules]
      /\ \A k \in Numbers : action_table_'[k] = action_table_[k] \/ action_table_[k] = None
  BY <1>1, TableStep
<1>3. Types' /\ Calls' /\ Nodes' /\ Damaging'
  BY <1>1, <1>2 DEF Types, Calls, Nodes, Damaging, Value
<1>6. Alone'
  <2>1. \A k \in Numbers : action_table_[k] # None => action_table_'[k] # None
    BY <1>2
  <2>. QED BY <1>1, <2>1 DEF Types, Alone, Entered, IndexSet
<1>4. Counted'
  <2>1. Unstored' = Unstored
    BY <1>1 DEF Unstored
  <2>. QED BY <1>1, <2>1 DEF Counted
<1>5. Kept'
  <2>1. ASSUME NEW n \in DOMAIN added, NEW k \in Numbers, Under(n, k) PROVE Under(n, k)'
    <3>1. action_table_'[k] = n
      BY <1>2, <2>1, UnderTypes DEF Under
    <3>. QED BY <1>1, <2>1, <3>1 DEF Under, IndexSet
  <2>. QED BY <1>1, <2>1, KeptStep
<1>. QED BY <1>3, <1>4, <1>5, <1>6

(* Nothing that the invariant speaks of changes.                            *)
LEMMA CrashIInv ==
  ASSUME IInv, UNCHANGED <<table, pc, call, damaged, ghosts>>, crashed' \in BOOLEAN
  PROVE  IInv'
<1> USE DEF IInv, Adding, Entering, table, call, ghosts
<1>1. Types' /\ Calls' /\ Nodes' /\ Alone' /\ Damaging'
  BY DEF Types, Calls, Nodes, Alone, Damaging, Entered, IndexSet, Value
<1>2. Counted'
  <2>1. Unstored' = Unstored
    BY DEF Unstored
  <2>. QED BY <2>1 DEF Counted
<1>3. Kept'
  <2>1. \A n \in DOMAIN added, k \in Numbers : Under(n, k) => Under(n, k)'
    BY DEF Under, IndexSet
  <2>. QED BY <2>1, KeptStep
<1>. QED BY <1>1, <1>2, <1>3

LEMMA NextIInv == IInv /\ [Next]_vars => IInv'
<1> SUFFICES ASSUME IInv, [Next]_vars PROVE IInv'
  OBVIOUS
<1>1. ASSUME NEW l \in Lcores, AddStep(l) PROVE IInv'
  BY <1>1, AddRuleIInv, FindFieldIInv, InsertNodeIInv, InsertNumberIInv, LoadCounterIInv,
     StoreCounterIInv, TakeActionIInv, SetCallbackIInv DEF AddStep
<1>2. ASSUME NEW l \in Lcores, Classify(l) PROVE IInv'
  BY <1>2, ClassifyIInv
<1>3. ASSUME NEW l \in Lcores, TornTable(l) PROVE IInv'
  BY <1>3, CrashIInv DEF TornTable
<1>4. CASE UNCHANGED vars
  BY <1>4, CrashIInv DEF vars, IInv, Types
<1>. QED BY <1>1, <1>2, <1>3, <1>4 DEF Next

-----------------------------------------------------------------------------
(* The invariant holds in every reachable state. *)
THEOREM SpecIInv == Spec => []IInv
  BY InitIInv, NextIInv, PTL DEF Spec

(* However the calls overlap, every number stays below the number of calls, *)
(* and so does the counter.                                                 *)
THEOREM TypeSafe == Spec => []TypeOK
<1>1. IInv => TypeOK
  <2> SUFFICES ASSUME IInv PROVE TypeOK
    OBVIOUS
  <2> USE DEF IInv
  <2>1. Len(added) \in Nat /\ Len(added) <= MaxRules
    BY DEF Types, Counted
  <2>2. rule_counter_ \in 0 .. MaxRules
    <3>1. rule_counter_ \in Nat /\ rule_counter_ + Cardinality(Unstored) <= Len(added)
      BY DEF Types, Counted
    <3>. QED BY <3>1, <2>1, UnstoredCount, MaxRulesAssumption
  <2>3. \A l \in Lcores : callback[l] \in 0 .. MaxRules
    <3>1. \A l \in Lcores : callback[l] \in Nat /\ callback[l] <= Len(added)
      BY DEF Types, Calls
    <3>. QED BY <3>1, <2>1, MaxRulesAssumption
  <2>4. disturbed \subseteq 1 .. MaxRules
    <3>1. \A n \in disturbed : n \in Nat \ {0} /\ n <= Len(added)
      BY DEF Types, Calls
    <3>. QED BY <3>1, <2>1, MaxRulesAssumption
  <2>5. \A l \in Lcores : loaded[l] \in 0 .. MaxRules
    <3>1. \A l \in Lcores : loaded[l] \in Nat /\ loaded[l] <= Len(added)
      BY DEF Types, Counted
    <3>. QED BY <3>1, <2>1, MaxRulesAssumption
  <2>. QED BY <2>2, <2>3, <2>4, <2>5 DEF Types, TypeOK, NF
<1>. QED BY <1>1, SpecIInv, PTL

(* Whatever is added later, by however many lcores at once, but in no       *)
(* container at once: a rule that was added alone is found under the number *)
(* that has its callback.                                                   *)
THEOREM RulesAreKept == Spec => []RuleKept
<1>1. IInv => RuleKept
  <2> SUFFICES ASSUME IInv, ~damaged, NEW n \in DOMAIN added \ disturbed, Done(n)
               PROVE  \E k \in Matching(added[n]) : action_table_[k] = n
    BY DEF RuleKept
  <2>1. PICK k \in Numbers : Under(n, k)
    BY DEF IInv, Kept
  <2>2. k \in 0 .. rule_counter_ - 1
    BY <2>1 DEF Under, IInv, Types, Numbers
  <2>. QED BY <2>1, <2>2 DEF Under, Matching
<1>. QED BY <1>1, SpecIInv, PTL

-----------------------------------------------------------------------------
(* The rules' numbers while no call has overlapped another: the n-th rule   *)
(* has number n - 1, in every table it is in.                               *)
NumbersTrue == \A f \in Fields, v \in Values : \A k \in IndexSet(f, v) :
                 k + 1 \in DOMAIN added /\ added[k + 1][f] = v
LastCall == \A l \in Lcores : Adding(l) => /\ callback[l] = Len(added)
                                           /\ rule_nb[l] = Len(added) - 1
NextNumber == (\A l \in Lcores : ~Adding(l)) => rule_counter_ = Len(added)
OwnEntries == \A k \in Numbers : action_table_[k] \in {None, NULL, k + 1}
Numbered == disturbed = {} => NumbersTrue /\ LastCall /\ NextNumber /\ OwnEntries

(* Where the n-th rule is, once its call is done.                           *)
LEMMA KeptUnder ==
  ASSUME IInv, Numbered, disturbed = {}, NEW n \in DOMAIN added, Done(n)
  PROVE  n - 1 \in Numbers /\ Under(n, n - 1)
<1>1. PICK k \in Numbers : Under(n, k)
  BY DEF IInv, Damaging, Kept
<1>2. action_table_[k] = n /\ n \in Nat /\ n # 0 /\ n # None
  BY <1>1, UnderTypes DEF Under
<1>3. action_table_[k] \in {None, NULL, k + 1}
  BY DEF Numbered, OwnEntries
<1>4. n = k + 1
  BY <1>2, <1>3 DEF NULL
<1>5. k = n - 1
  BY <1>2, <1>4 DEF Numbers
<1>. QED BY <1>1, <1>5

(* A step that leaves the calls and the tables as they are.                 *)
LEMMA NumberedKept ==
  ASSUME Numbered, UNCHANGED <<rule_counter_, map_, callback, rule_nb, added, disturbed>>,
         \A l \in Lcores : Adding(l)' <=> Adding(l),
         \A k \in Numbers : action_table_'[k] \in {action_table_[k], NULL}
  PROVE  Numbered'
<1> SUFFICES ASSUME disturbed = {} PROVE (NumbersTrue /\ LastCall /\ NextNumber /\ OwnEntries)'
  BY DEF Numbered
<1>1. NumbersTrue'
  BY DEF Numbered, NumbersTrue, IndexSet
<1>2. LastCall' /\ NextNumber'
  BY DEF Numbered, LastCall, NextNumber
<1>3. OwnEntries'
  BY DEF Numbered, OwnEntries
<1>. QED BY <1>1, <1>2, <1>3

(* The call gets the number of calls before it. *)
LEMMA AddRuleNumbered ==
  ASSUME IInv, Numbered, NEW l \in Lcores, AddRule(l)
  PROVE  Numbered'
<1> SUFFICES ASSUME disturbed' = {} PROVE (NumbersTrue /\ LastCall /\ NextNumber /\ OwnEntries)'
  BY DEF Numbered
<1> DEFINE new == Len(added) + 1
           others == {callback[k] : k \in {k \in Lcores : Adding(k)}}
<1>1. PICK r \in Rules : added' = Append(added, r)
  BY DEF AddRule
<1>2. /\ pc' = [pc EXCEPT ![l] = "find"]
      /\ callback' = [callback EXCEPT ![l] = new]
      /\ rule_nb' = [rule_nb EXCEPT ![l] = rule_counter_]
      /\ disturbed' = IF others = {} THEN disturbed ELSE disturbed \cup others \cup {new}
      /\ UNCHANGED <<rule_counter_, map_, action_table_>>
  BY DEF AddRule, Goto, table
<1>3. /\ Len(added) \in Nat /\ Len(added') = new /\ DOMAIN added' = 1 .. new
      /\ DOMAIN added = 1 .. Len(added) /\ \A n \in DOMAIN added : added'[n] = added[n]
  BY <1>1 DEF IInv, Types
<1>4. disturbed = {} /\ \A k \in Lcores : ~Adding(k)
  <2>1. others = {} /\ disturbed = {}
    <3> HIDE DEF others
    <3>. QED BY <1>2
  <2>. QED BY <2>1
<1>5. rule_counter_ = Len(added)
  BY <1>4 DEF Numbered, NextNumber
<1>6. NumbersTrue'
  <2> SUFFICES ASSUME NEW f \in Fields, NEW v \in Values, NEW k \in IndexSet(f, v)
               PROVE  k + 1 \in DOMAIN added' /\ added'[k + 1][f] = v
    BY <1>2 DEF NumbersTrue, IndexSet
  <2>1. k + 1 \in DOMAIN added /\ added[k + 1][f] = v
    BY <1>4 DEF Numbered, NumbersTrue
  <2>. QED BY <1>3, <2>1
<1>7. /\ callback'[l] = new /\ rule_nb'[l] = rule_counter_ /\ Adding(l)'
      /\ \A k \in Lcores \ {l} : ~Adding(k)'
  BY <1>2, <1>4 DEF IInv, Types, Adding
<1>8. LastCall'
  <2>1. Len(added) = new - 1
    BY <1>3
  <2>. QED BY <1>3, <1>5, <1>7, <2>1 DEF LastCall
<1>9. NextNumber' /\ OwnEntries'
  BY <1>2, <1>4, <1>7 DEF NextNumber, Numbered, OwnEntries
<1>. QED BY <1>6, <1>8, <1>9

(* A node that is new has no number. *)
LEMMA InsertNodeNumbered ==
  ASSUME IInv, Numbered, NEW l \in Lcores, InsertNode(l)
  PROVE  Numbered'
<1> SUFFICES ASSUME disturbed = {} PROVE (NumbersTrue /\ LastCall /\ NextNumber /\ OwnEntries)'
  BY DEF Numbered, InsertNode, ghosts
<1>1. /\ pc[l] = "node" /\ pc' = [pc EXCEPT ![l] = "number"]
      /\ UNCHANGED <<rule_counter_, action_table_, callback, rule_nb, added, disturbed>>
  BY DEF InsertNode, At, Goto, call, ghosts
<1>2. ~damaged'
  <2>1. ~damaged /\ Adding(l)
    BY <1>1 DEF IInv, Damaging, Adding
  <2>2. ~Unsafe(l, "node")
    BY <2>1, Undisturbed
  <2>. QED BY <2>1, <2>2, NodeStep
<1>3. \A g \in Fields, w \in Values : IndexSet(g, w)' = IndexSet(g, w)
  BY <1>2, NodeStep DEF IndexSet
<1>4. \A k \in Lcores : Adding(k)' <=> Adding(k)
  BY <1>1 DEF IInv, Types, Adding
<1>5. NumbersTrue'
  BY <1>1, <1>3 DEF Numbered, NumbersTrue
<1>6. LastCall' /\ NextNumber' /\ OwnEntries'
  BY <1>1, <1>4 DEF Numbered, LastCall, NextNumber, OwnEntries
<1>. QED BY <1>5, <1>6

(* The number goes to the values of the rule that was added last.           *)
LEMMA InsertNumberNumbered ==
  ASSUME IInv, Numbered, NEW l \in Lcores, InsertNumber(l)
  PROVE  Numbered'
<1> SUFFICES ASSUME disturbed = {} PROVE (NumbersTrue /\ LastCall /\ NextNumber /\ OwnEntries)'
  BY DEF Numbered, InsertNumber, ghosts
<1> DEFINE f == field[l]
           v == Value(l)
<1>1. /\ pc[l] = "number"
      /\ pc' = [pc EXCEPT ![l] = IF f = 1 THEN "load" ELSE "find"]
      /\ UNCHANGED <<rule_counter_, action_table_, callback, rule_nb, added, disturbed>>
  BY DEF InsertNumber, At, Goto, ghosts
<1>2. ~damaged'
  <2>1. ~damaged /\ Adding(l)
    BY <1>1 DEF IInv, Damaging, Adding
  <2>2. ~Unsafe(l, "number")
    BY <2>1, Undisturbed
  <2>. QED BY <2>1, <2>2, NumberStep
<1>3. /\ rule_nb[l] + 1 = Len(added) /\ Len(added) \in DOMAIN added
      /\ added[Len(added)][f] = v
  <2>1. callback[l] = Len(added) /\ rule_nb[l] = Len(added) - 1 /\ Len(added) \in Nat
    BY <1>1 DEF Numbered, LastCall, Adding, IInv, Types
  <2>2. callback[l] # 0 /\ rule[l] = added[callback[l]]
    BY <1>1 DEF IInv, Calls, Adding
  <2>3. DOMAIN added = 1 .. Len(added)
    BY DEF IInv, Types
  <2>4. Len(added) \in 1 .. Len(added) /\ rule_nb[l] + 1 = Len(added)
    BY <2>1, <2>2
  <2>. QED BY <2>1, <2>2, <2>3, <2>4 DEF Value
<1>4. \A g \in Fields, w \in Values : \A k \in IndexSet(g, w)' :
        k \in IndexSet(g, w) \/ (g = f /\ w = v /\ k = rule_nb[l])
  BY <1>2, NumberStep
<1>5. \A k \in Lcores : Adding(k)' <=> Adding(k)
  BY <1>1 DEF IInv, Types, Adding
<1>6. NumbersTrue'
  <2> SUFFICES ASSUME NEW g \in Fields, NEW w \in Values, NEW k \in IndexSet(g, w)'
               PROVE  k + 1 \in DOMAIN added /\ added[k + 1][g] = w
    BY <1>1 DEF NumbersTrue
  <2>1. CASE k \in IndexSet(g, w)
    BY <2>1 DEF Numbered, NumbersTrue
  <2>2. CASE g = f /\ w = v /\ k = rule_nb[l]
    BY <2>2, <1>3
  <2>. QED BY <1>4, <2>1, <2>2
<1>7. LastCall' /\ NextNumber' /\ OwnEntries'
  BY <1>1, <1>5 DEF Numbered, LastCall, NextNumber, OwnEntries
<1>. QED BY <1>6, <1>7

(* The counter is not the next number while the call is in progress.        *)
LEMMA StoreCounterNumbered ==
  ASSUME IInv, Numbered, NEW l \in Lcores, StoreCounter(l)
  PROVE  Numbered'
<1>1. /\ pc[l] = "store" /\ pc' = [pc EXCEPT ![l] = "action"]
      /\ UNCHANGED <<map_, action_table_, callback, rule_nb, added, disturbed>>
  BY DEF StoreCounter, At, Goto, call, ghosts
<1>2. \A k \in Lcores : Adding(k)' <=> Adding(k)
  BY <1>1 DEF IInv, Types, Adding
<1>3. Adding(l)
  BY <1>1 DEF Adding
<1> SUFFICES ASSUME disturbed = {} PROVE (NumbersTrue /\ LastCall /\ NextNumber /\ OwnEntries)'
  BY <1>1 DEF Numbered
<1>4. NumbersTrue'
  BY <1>1 DEF Numbered, NumbersTrue, IndexSet
<1>5. LastCall' /\ NextNumber' /\ OwnEntries'
  BY <1>1, <1>2, <1>3 DEF Numbered, LastCall, NextNumber, OwnEntries
<1>. QED BY <1>4, <1>5

(* A call that is alone takes the entry of the number it has entered.       *)
LEMMA TakeActionNumbered ==
  ASSUME IInv, Numbered, NEW l \in Lcores, TakeAction(l)
  PROVE  Numbered'
<1>1. /\ pc[l] = "action" /\ pc' = [pc EXCEPT ![l] = "callback"]
      /\ rule_nb' = [rule_nb EXCEPT ![l] = LastNumber]
      /\ UNCHANGED <<rule_counter_, map_, callback, added, disturbed>>
  BY DEF TakeAction, At, Goto, ghosts
<1> SUFFICES ASSUME disturbed = {} PROVE Numbered'
  BY <1>1 DEF Numbered
<1>2. rule_nb[l] \in Nat /\ rule_counter_ = rule_nb[l] + 1
  BY <1>1 DEF IInv, Damaging, Alone, Adding, Types, Numbers
<1>3. LastNumber = rule_nb[l]
  BY <1>2 DEF LastNumber
<1>4. rule_nb' = rule_nb
  BY <1>1, <1>3 DEF IInv, Types
<1>5. \A k \in Lcores : Adding(k)' <=> Adding(k)
  BY <1>1 DEF IInv, Types, Adding
<1>6. \A k \in Numbers : action_table_'[k] \in {action_table_[k], NULL}
  <2>1. ~damaged /\ Adding(l)
    BY <1>1 DEF IInv, Damaging, Adding
  <2>2. ~Unsafe(l, "action")
    BY <2>1, Undisturbed
  <2>. QED BY <2>1, <2>2, ActionStep
<1>. QED BY <1>1, <1>4, <1>5, <1>6, NumberedKept

(* The call ends with its callback in the entry of its number.              *)
LEMMA SetCallbackNumbered ==
  ASSUME IInv, Numbered, NEW l \in Lcores, SetCallback(l)
  PROVE  Numbered'
<1>1. /\ pc[l] = "callback" /\ pc' = [pc EXCEPT ![l] = "pipeline"]
      /\ \/ action_table_' = [action_table_ EXCEPT ![rule_nb[l]] =
                                 IF @ = None THEN None ELSE callback[l]]
         \/ action_table_' = action_table_
      /\ callback' = [callback EXCEPT ![l] = 0]
      /\ rule_nb' = [rule_nb EXCEPT ![l] = 0]
      /\ UNCHANGED <<rule_counter_, map_, added, disturbed>>
  BY DEF SetCallback, At, Goto, ghosts
<1> SUFFICES ASSUME disturbed = {} PROVE (NumbersTrue /\ LastCall /\ NextNumber /\ OwnEntries)'
  BY <1>1 DEF Numbered
<1>2. /\ \A k \in Lcores \ {l} : ~Adding(k)
      /\ rule_counter_ = rule_nb[l] + 1 /\ rule_nb[l] \in Nat
  BY <1>1 DEF IInv, Damaging, Alone, Adding, Types, Numbers
<1>3. callback[l] = Len(added) /\ rule_nb[l] = Len(added) - 1 /\ Len(added) \in Nat
  BY <1>1 DEF Numbered, LastCall, Adding, IInv, Types
<1>4. \A k \in Lcores : ~Adding(k)'
  BY <1>1, <1>2 DEF IInv, Types, Adding
<1>5. NumbersTrue'
  BY <1>1 DEF Numbered, NumbersTrue, IndexSet
<1>6. LastCall' /\ NextNumber'
  BY <1>1, <1>2, <1>3, <1>4 DEF LastCall, NextNumber
<1>7. OwnEntries'
  <2>1. callback[l] = rule_nb[l] + 1
    BY <1>2, <1>3
  <2>2. action_table_ \in [Numbers -> {None} \cup 0 .. MaxRules]
    BY DEF IInv, Types
  <2>3. \A k \in Numbers : \/ action_table_'[k] = action_table_[k]
                           \/ k = rule_nb[l] /\ action_table_'[k] = callback[l]
    BY <1>1, <2>2
  <2>. QED BY <2>1, <2>3 DEF Numbered, OwnEntries
<1>. QED BY <1>5, <1>6, <1>7

(* Every other step leaves the numbers as they are.                         *)
LEMMA OtherNumbered ==
  ASSUME IInv, Numbered, NEW l \in Lcores,
         FindField(l) \/ LoadCounter(l) \/ Classify(l) \/ TornTable(l)
  PROVE  Numbered'
<1>1. UNCHANGED <<rule_counter_, map_, callback, rule_nb, added, disturbed>>
  BY DEF FindField, LoadCounter, Classify, TornTable, table, call, ghosts
<1>2. \A k \in Lcores : Adding(k)' <=> Adding(k)
  BY DEF FindField, LoadCounter, Classify, TornTable, At, Goto, Adding, IInv, Types
<1>3. action_table_ \in [Numbers -> {None} \cup 0 .. MaxRules]
  BY DEF IInv, Types
<1>4. \/ action_table_' = action_table_
      \/ \E k : action_table_' = [action_table_ EXCEPT ![k] = IF @ = None THEN NULL ELSE @]
  <2>1. CASE FindField(l) \/ LoadCounter(l) \/ TornTable(l)
    BY <2>1 DEF FindField, LoadCounter, TornTable, table
  <2>2. CASE Classify(l)
    <3>1. PICK pkt \in [Fields -> Values] :
            action_table_' = [action_table_ EXCEPT ![Find(pkt)] = IF @ = None THEN NULL ELSE @]
      BY <2>2, Zenon DEF Classify
    <3>. QED BY <3>1, Zenon
  <2>. QED BY <2>1, <2>2
<1>5. \A k \in Numbers : action_table_'[k] \in {action_table_[k], NULL}
  BY <1>3, <1>4
<1>. QED BY <1>1, <1>2, <1>5, NumberedKept

LEMMA InitNumbered == Init => Numbered
  BY DEF Init, Numbered, NumbersTrue, LastCall, NextNumber, OwnEntries, IndexSet, Adding

LEMMA NextNumbered == IInv /\ Numbered /\ [Next]_vars => Numbered'
<1> SUFFICES ASSUME IInv, Numbered, [Next]_vars PROVE Numbered'
  OBVIOUS
<1>1. ASSUME NEW l \in Lcores, AddStep(l) PROVE Numbered'
  BY <1>1, AddRuleNumbered, OtherNumbered, InsertNodeNumbered, InsertNumberNumbered,
     StoreCounterNumbered, TakeActionNumbered, SetCallbackNumbered DEF AddStep
<1>2. ASSUME NEW l \in Lcores, Classify(l) \/ TornTable(l) PROVE Numbered'
  BY <1>2, OtherNumbered
<1>3. CASE UNCHANGED vars
  BY <1>3, NumberedKept DEF vars, table, call, ghosts, Adding
<1>. QED BY <1>1, <1>2, <1>3 DEF Next

(* A set of numbers has a least one: otherwise, what is not below all of it *)
(* and at most n could be mapped one to one to a smaller set.               *)
LEMMA LeastNumber ==
  ASSUME NEW S \in SUBSET Nat, NEW n \in S
  PROVE  \E k \in S : \A j \in S : k <= j
<1> SUFFICES ASSUME \A k \in S : \E j \in S : j < k PROVE FALSE
  OBVIOUS
<1> DEFINE T == {x \in 0 .. n : \E s \in S : s <= x}
           f == [x \in T |-> x - 1]
<1>1. \A x \in T : x - 1 \in T \ {n}
  <2> SUFFICES ASSUME NEW x \in 0 .. n, NEW s \in S, s <= x PROVE x - 1 \in T \ {n}
    OBVIOUS
  <2>1. PICK j \in S : j < s
    OBVIOUS
  <2>. QED BY <2>1
<1>2. f \in Injection(T, T \ {n})
  <2>1. f \in [T -> T \ {n}]
    BY <1>1
  <2>2. \A x, y \in T : f[x] = f[y] => x = y
    OBVIOUS
  <2>. QED BY <2>1, <2>2 DEF Injection, IsInjective
<1>3. n \in T
  OBVIOUS
<1>4. IsFiniteSet(T)
  <2>1. IsFiniteSet(0 .. n)
    BY FS_Interval
  <2>2. T \subseteq 0 .. n
    OBVIOUS
  <2>. QED BY <2>1, <2>2, FS_Subset
<1> HIDE DEF T, f
<1>5. Cardinality(T) <= Cardinality(T \ {n})
  <2>1. IsFiniteSet(T \ {n})
    BY <1>4, FS_Subset
  <2>. QED BY <1>2, <2>1, FS_Injection
<1>6. Cardinality(T \ {n}) = Cardinality(T) - 1 /\ Cardinality(T) \in Nat
  BY <1>3, <1>4, FS_RemoveElement, FS_CardinalityType
<1>. QED BY <1>5, <1>6

(* As long as no call overlaps another, find gives the first rule added     *)
(* that the packet matches in every field, with the callback of its caller. *)
THEOREM FirstRuleIsFound == Spec => []FirstMatch
<1>1. IInv /\ Numbered => FirstMatch
  <2> SUFFICES ASSUME IInv, Numbered, Quiet, disturbed = {}, NEW pkt \in [Fields -> Values]
               PROVE  IF Matched(pkt) = {} THEN Find(pkt) = None
                      ELSE /\ Find(pkt) # None
                           /\ action_table_[Find(pkt)] \in Matched(pkt)
                           /\ \A k \in Matched(pkt) : action_table_[Find(pkt)] <= k
    BY DEF FirstMatch
  <2>0. \A n \in DOMAIN added : n \in Nat /\ n # 0
    BY UnderTypes
  <2>1. \A n \in DOMAIN added : Done(n)
    BY <2>0 DEF Quiet, Done, IInv, Calls
  <2>2. \A n \in Matched(pkt) : n - 1 \in Matching(pkt)
    <3> SUFFICES ASSUME NEW n \in DOMAIN added, added[n] = pkt PROVE n - 1 \in Matching(pkt)
      BY DEF Matched
    <3>1. n - 1 \in Numbers /\ Under(n, n - 1)
      BY <2>1, KeptUnder
    <3>2. rule_counter_ \in Nat /\ n - 1 \in Nat /\ n - 1 < rule_counter_
      BY <3>1 DEF Under, Numbers, IInv, Types
    <3>. QED BY <3>1, <3>2 DEF Under, Matching
  <2>3. \A k \in Matching(pkt) : k \in Nat /\ k + 1 \in Matched(pkt)
    <3> SUFFICES ASSUME NEW k \in Matching(pkt) PROVE k \in Nat /\ k + 1 \in Matched(pkt)
      OBVIOUS
    <3>1. k \in Nat /\ \A f \in Fields : k \in IndexSet(f, pkt[f])
      BY DEF Matching
    <3>2. \A f \in Fields : k + 1 \in DOMAIN added /\ added[k + 1][f] = pkt[f]
      BY <3>1 DEF Numbered, NumbersTrue
    <3>3. k + 1 \in DOMAIN added
      BY <3>2, FieldsAssumption
    <3>4. added[k + 1] \in [Fields -> Values]
      BY <3>3, RulesAssumption DEF IInv, Types
    <3>. QED BY <3>1, <3>2, <3>3, <3>4 DEF Matched
  <2>4. CASE Matched(pkt) = {}
    <3>1. Matching(pkt) = {}
      BY <2>3, <2>4
    <3>. QED BY <2>4, <3>1 DEF Find
  <2>5. CASE Matched(pkt) # {}
    <3>1. Matching(pkt) # {} /\ Matching(pkt) \in SUBSET Nat
      BY <2>2, <2>3, <2>5
    <3> DEFINE k == Find(pkt)
    <3>2. k \in Matching(pkt) /\ \A j \in Matching(pkt) : k <= j
      <4>1. \E m \in Matching(pkt) : \A j \in Matching(pkt) : m <= j
        BY <3>1, LeastNumber
      <4>2. Find(pkt) = CHOOSE m \in Matching(pkt) : \A j \in Matching(pkt) : m <= j
        BY <3>1, Zenon DEF Find
      <4>. QED BY <4>1, <4>2, Zenon
    <3> HIDE DEF k
    <3>3. k \in Nat /\ k + 1 \in Matched(pkt) /\ k + 1 \in DOMAIN added
      BY <2>3, <3>2 DEF Matched
    <3>4. k # None
      BY <3>3, NoneAssumption
    <3>5. action_table_[k] = k + 1
      <4>1. Under(k + 1, (k + 1) - 1) /\ (k + 1) - 1 = k
        BY <2>1, <3>3, KeptUnder
      <4>. QED BY <4>1 DEF Under
    <3>6. \A n \in Matched(pkt) : k + 1 <= n
      <4> SUFFICES ASSUME NEW n \in Matched(pkt) PROVE k + 1 <= n
        OBVIOUS
      <4>1. n \in Nat /\ k <= n - 1
        BY <2>0, <2>2, <3>2 DEF Matched
      <4>. QED BY <3>3, <4>1
    <3>. QED BY <2>5, <3>3, <3>4, <3>5, <3>6 DEF k
  <2>. QED BY <2>4, <2>5
<1>2. Spec => []Numbered
  <2>1. Numbered /\ IInv /\ [Next]_vars => Numbered'
    BY NextNumbered
  <2>. QED BY <2>1, InitNumbered, SpecIInv, PTL DEF Spec
<1>. QED BY <1>1, <1>2, SpecIInv, PTL
=============================================================================
