------------------------ MODULE MCOutOfBandBaseline ------------------------
(***************************************************************************)
(* A small instance of OutOfBandBaseline: two migrations whose shells      *)
(* overlap, two replacement switches in every way of cabling them, and two *)
(* addresses.  One of the migrations goes on to pre-stage: the workflows   *)
(* of two migrations have no state in common.                              *)
(***************************************************************************)
EXTENDS OutOfBandBaseline, TLC

CONSTANTS north, south, s1, s2, ip1, ip2

MCMigration == {north, south}
MCGuided == {north}
MCSwitch == {s1, s2}
MCIp == {ip1, ip2}

Symmetry == Permutations(MCSwitch) \cup Permutations(MCIp)
=============================================================================
