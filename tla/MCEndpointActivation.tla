------------------------ MODULE MCEndpointActivation ------------------------
(***************************************************************************)
(* A small instance of EndpointActivation: two approved interfaces, one of *)
(* them with a description, two edge ports, two data VLANs in every        *)
(* assignment to the interfaces.                                           *)
(***************************************************************************)
EXTENDS EndpointActivation, TLC

CONSTANTS desk, phone, left, right, blue, green

MCIntent == {desk, phone}
MCPort == {left, right}
MCVlan == {blue, green}
MCDescribed == {desk}
PortSymmetry == Permutations(MCPort) \cup Permutations(MCVlan)
=============================================================================
