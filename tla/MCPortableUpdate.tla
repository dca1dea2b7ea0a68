-------------------------- MODULE MCPortableUpdate --------------------------
(***************************************************************************)
(* One managed file beside share and noctty.exe, three processes.          *)
(***************************************************************************)
EXTENDS PortableUpdate, TLC

\* A process that starts takes any free place.
Places == Permutations(Procs)
=============================================================================
