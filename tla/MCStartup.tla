----------------------------- MODULE MCStartup -----------------------------
(* Small instances of Startup.                                             *)
EXTENDS Startup

CONSTANTS p1, p2

TwoPortals == {p1, p2}
=============================================================================
