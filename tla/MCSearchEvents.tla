--------------------------- MODULE MCSearchEvents ---------------------------
(* Instances of SearchEvents for TLC: "a" has matches, "b" has none, and    *)
(* "[" is not a pattern.                                                    *)
EXTENDS SearchEvents

A == {"a"}
AB == {"a", "b"}
Bracket == {"["}
Nobody == {}
EndOnly == {"end"}
AllActs == {"end", "invalidate"}
=============================================================================
