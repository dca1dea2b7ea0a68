--------------------------- MODULE MCModalMailbox ---------------------------
(* Instances of ModalMailbox for TLC.                                       *)
EXTENDS ModalMailbox

CONSTANTS s1, u1, u2, quit

FourMessages == {s1, u1, u2, quit}
=============================================================================
