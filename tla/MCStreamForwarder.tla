------------------------- MODULE MCStreamForwarder -------------------------
(* Small instances of StreamForwarder. *)
EXTENDS StreamForwarder

CONSTANTS p1, p2

TwoPools == {p1, p2}
OnePool == {p1}
Once == 1..1
Twice == 1..2
=============================================================================
