---------------------------- MODULE MCEasyCwmp ----------------------------
(***************************************************************************)
(* EasyCwmp for TLC.  Command keys and URLs are model values; a run chooses *)
(* the stimuli it is about and leaves the others out, so that the          *)
(* permutations of unrelated events do not multiply.                       *)
(***************************************************************************)
EXTENDS EasyCwmp

\* Command keys are interchangeable.
Symmetry == Permutations(Keys)
============================================================================
