------------------------ MODULE MCStructuralHistory -------------------------
(* Model checking structural undo and redo: three panes, three tabs and two   *)
(* entries of history; what is new goes to the right of a pane that is split  *)
(* and to the left of one that a tab is dropped on.                           *)
EXTENDS StructuralHistory

RightOnly == {"right"}
LeftOnly == {"left"}
=============================================================================
