----------------------------- MODULE MCEndToEnd -----------------------------
(* A small instance of EndToEnd: two socket objects, so that a second one    *)
(* made while the connection of the first is alive would show.               *)
EXTENDS EndToEnd

CONSTANTS s1, s2
=============================================================================
