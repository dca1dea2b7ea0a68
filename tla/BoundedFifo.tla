---------------------------- MODULE BoundedFifo ----------------------------
(***************************************************************************)
(* What a mailbox promises to its producers and its consumer: a value that *)
(* is accepted goes to the end of a bounded buffer, and the consumer is    *)
(* handed the accepted values in that order, each of them once.  The ring  *)
(* indices, the mutex and the condition variable are details of the        *)
(* implementation, see BlockingQueue.                                      *)
(***************************************************************************)
EXTENDS Naturals, Sequences

CONSTANTS Values, Capacity

VARIABLES accepted,   \* every value a push has accepted, in order
          delivered   \* every value the consumer was handed, in order

vars == <<accepted, delivered>>

Init ==
  /\ accepted = <<>>
  /\ delivered = <<>>

Accept(v) ==
  /\ Len(accepted) < Len(delivered) + Capacity
  /\ accepted' = Append(accepted, v)
  /\ UNCHANGED delivered

Deliver ==
  /\ Len(delivered) < Len(accepted)
  /\ delivered' = Append(delivered, accepted[Len(delivered) + 1])
  /\ UNCHANGED accepted

Next == Deliver \/ \E v \in Values : Accept(v)

Spec == Init /\ [][Next]_vars

=============================================================================
