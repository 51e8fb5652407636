----------------------------- MODULE MCCleanup -----------------------------
(***************************************************************************)
(* A small instance of Cleanup: two edge ports, any of them with a         *)
(* completed endpoint, and one stale VLAN.                                 *)
(***************************************************************************)
EXTENDS Cleanup

CONSTANTS p1, p2, v1

MCEdge == {p1, p2}
MCStale == {v1}
=============================================================================
