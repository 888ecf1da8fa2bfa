--------------------------- MODULE MCMwan3Track ---------------------------
(***************************************************************************)
(* Small instances of Mwan3Track for TLC.                                  *)
(***************************************************************************)
EXTENDS Mwan3Track, TLC

\* Two interfaces are interchangeable.
IfaceSymmetry == Permutations(Ifaces)
============================================================================
