----------------------------- MODULE MCCciParam -----------------------------
(* Instances of CciParam for TLC.                                             *)
EXTENDS CciParamContract

CONSTANTS v0, v1, own, oth

\* The configurations a broker may have been given before construction.
AnyPreset == {NoPreset, [value |-> v1, orig |-> oth]}
=============================================================================
