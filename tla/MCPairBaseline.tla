--------------------------- MODULE MCPairBaseline ---------------------------
(***************************************************************************)
(* Small instances of PairBaseline: two ports, one of them open to an      *)
(* administrator; the pair is blank, or one port already carries the LAG   *)
(* that site-stage is to use, or the open port is in use on one side.      *)
(***************************************************************************)
EXTENDS PairBaseline, TLC

CONSTANTS p1, p2

MCPort == {p1, p2}
MCOpen == {p2}
Blank == [r \in Role |-> {}]
Provisioned == [r \in Role |-> {Lag(p1)}]
OneSided == [r \in Role |-> IF r = "qfx-a" THEN {Other(p2)} ELSE {}]
MCInitial == {Blank, Provisioned, OneSided}
MCBlank == {Blank}
=============================================================================
