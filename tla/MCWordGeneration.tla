-------------------------- MODULE MCWordGeneration --------------------------
(***************************************************************************)
(* Instances of WordGeneration for TLC: three words, one of them curated;  *)
(* another is of its group, or of its lemma only.                          *)
(***************************************************************************)
EXTENDS WordGeneration, TLC
CONSTANTS listed, variant, other, noGroup
MCWords == {listed, variant, other}
Ungrouped == [w \in MCWords |-> noGroup]
MCVocabularies ==
  {[lemma |-> listed :> 1 @@ variant :> 2 @@ other :> 3,
    group |-> [Ungrouped EXCEPT ![listed] = 1, ![variant] = 1], curated |-> {listed}],
   [lemma |-> listed :> 1 @@ variant :> 1 @@ other :> 3,
    group |-> Ungrouped, curated |-> {listed}]}
=============================================================================
