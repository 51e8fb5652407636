-------------------------- MODULE MCGuidedWorkflow --------------------------
(***************************************************************************)
(* Small instances of GuidedWorkflow: two ports and two clients.  A        *)
(* discovery finds the network as it is, with a client that stays silent,  *)
(* with the clients exchanged, with a silent port that has no VLAN, with a *)
(* port that is a trunk and a silent one, with a new VLAN, with another    *)
(* management, or is rejected by the policy.                               *)
(***************************************************************************)
EXTENDS GuidedWorkflow

CONSTANTS p1, p2, m1, m2, v1, v2

MCPort == {p1, p2}
MCMac == {m1, m2}
MCVlan == {v1, v2}

Plain == [mode |-> [p \in MCPort |-> "access"],
          learned |-> (m1 :> p1 @@ m2 :> p2),
          vlans |-> {v1}, management |-> "one", eligible |-> TRUE]
Quiet == [Plain EXCEPT !.learned[m2] = Nowhere]
Swapped == [Plain EXCEPT !.learned = (m1 :> p2 @@ m2 :> p1)]
Spare == [Quiet EXCEPT !.mode[p2] = "unassigned"]
Trunked == [Plain EXCEPT !.mode[p2] = "uplink", !.learned[m1] = Nowhere]
NewVlan == [Plain EXCEPT !.vlans = {v1, v2}]
Renumbered == [Plain EXCEPT !.management = "other"]
Short == [Plain EXCEPT !.eligible = FALSE]

MCObservation == {Plain, Quiet, Swapped, Spare, Trunked, NewVlan, Renumbered, Short}
MCHarmless == {Plain, NewVlan}
=============================================================================
