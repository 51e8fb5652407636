---------------------------- MODULE MCPhaseWrite ----------------------------
(***************************************************************************)
(* Small instances of PhaseWrite: one statement of each kind, and the      *)
(* silent ports the configuration file names.                              *)
(***************************************************************************)
EXTENDS PhaseWrite

CONSTANTS hostname, transit, foreign, p1, p2

MCRendered == {hostname}
MCTransit == {transit}
MCForeign == {foreign}
MCOnePort == {p1}
MCPorts == {p1, p2}
=============================================================================
