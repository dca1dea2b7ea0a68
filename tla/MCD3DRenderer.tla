--------------------------- MODULE MCD3DRenderer ---------------------------
(***************************************************************************)
(* One buffer and one texture, two handles for targets.                    *)
(***************************************************************************)
EXTENDS D3DRenderer, TLC

\* A new target takes either free handle.
Handles == Permutations(Target)
=============================================================================
