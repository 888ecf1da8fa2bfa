--------------------------- MODULE MCParameterRpc ---------------------------
(* Instances of ParameterRpc for TLC: the values are in the .cfg files.     *)
EXTENDS ParameterRpc, TLC

Symmetry == Permutations(Params)
=============================================================================
