---------------------------- MODULE MCClassifier ----------------------------
(***************************************************************************)
(* Values for model checking Classifier: source and destination address,    *)
(* two addresses.                                                           *)
(***************************************************************************)
EXTENDS Classifier, TLC

CONSTANTS a, b

SrcDst == {1, 2}
(* From one address to either. *)
RulesFromA == {r \in [SrcDst -> Values] : r[1] = a}

Symmetry == Permutations(Lcores)
=============================================================================
