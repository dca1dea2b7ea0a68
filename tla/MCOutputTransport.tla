------------------------- MODULE MCOutputTransport -------------------------
(* An instance of OutputTransport for TLC.                                   *)
EXTENDS OutputTransport

\* Text alone, text cut short, a reset before text, one between bytes, one at
\* their end, one alone, and more text than is left of the ring.
Read(h, r, t, c) == [head |-> h, reset |-> r, tail |-> t, cut |-> c]
SomeReads == { Read(0, FALSE, 1, FALSE), Read(0, FALSE, 1, TRUE),
               Read(0, TRUE, 1, FALSE),  Read(1, TRUE, 1, FALSE),
               Read(1, TRUE, 0, FALSE),  Read(0, TRUE, 0, FALSE),
               Read(0, FALSE, 2, FALSE) }
=============================================================================
