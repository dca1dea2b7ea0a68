-------------------------- MODULE MCSurfaceThreads --------------------------
(* Instances of SurfaceThreads for TLC: which happenings each run allows.  *)
EXTENDS SurfaceThreads

Slots == [q \in Queues |-> IF q = "ren" THEN 2 ELSE 1]

Endings     == {"search", "output", "child_exit", "io_fail", "health"}
Undisturbed == {"output", "timers", "adopted_eof", "handler_error"}
=============================================================================
