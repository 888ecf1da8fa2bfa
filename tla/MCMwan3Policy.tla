--------------------------- MODULE MCMwan3Policy ---------------------------
(***************************************************************************)
(* Small instances of Mwan3Policy for TLC.                                 *)
(***************************************************************************)
EXTENDS Mwan3Policy, TLC

\* The interfaces are interchangeable.
IfaceSymmetry == Permutations(Ifaces)
============================================================================
