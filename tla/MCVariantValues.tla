--------------------------- MODULE MCVariantValues ---------------------------
(* Instances of VariantValues for TLC: two cci_values and a cci_value_list.   *)
EXTENDS VariantValues, TLC

CONSTANTS v1, v2, l1

Classes == v1 :> "any" @@ v2 :> "any" @@ l1 :> "list"

\* Cells, references and the two cci_values are interchangeable.
Interchangeable ==
  Permutations(Cell) \cup Permutations(Ref) \cup Permutations({v1, v2})
=============================================================================
