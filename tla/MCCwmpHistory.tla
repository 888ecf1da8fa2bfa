--------------------------- MODULE MCCwmpHistory ---------------------------
(***************************************************************************)
(* CwmpHistory for TLC, with the choices of MCEasyCwmp.                    *)
(***************************************************************************)
EXTENDS CwmpHistory

\* Command keys are interchangeable.
Symmetry == Permutations(Keys)
============================================================================
