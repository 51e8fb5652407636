--------------------------- MODULE EndpointLedger ---------------------------
(***************************************************************************)
(* What endpoint activation promises, whatever it takes to get there: a    *)
(* ledger of completed endpoints, old interface to new interface, that     *)
(* only grows, gives an old interface one new one, and no new interface to *)
(* two old ones.  It is what committed_endpoint_state insists on when it   *)
(* reads the history back.                                                 *)
(***************************************************************************)
CONSTANTS Intent, Port

VARIABLES ledger,
          void     \* somebody has interfered; nothing is promised from then on

Row == Intent \X Port

OneToOne(rows) == \A r, q \in rows : r[1] = q[1] <=> r[2] = q[2]

TypeOK == ledger \subseteq Row /\ void \in BOOLEAN

Init == ledger = {} /\ void = FALSE

Complete(rows) == /\ OneToOne(ledger \cup rows)
                  /\ ledger' = ledger \cup rows

(* A completed port is changed behind the ledger's back.                   *)
Interfere == ledger' \subseteq Row /\ void' = TRUE

Next == \/ \E rows \in SUBSET Row : Complete(rows) /\ UNCHANGED void
        \/ Interfere

Spec == Init /\ [][Next]_<<ledger, void>>
=============================================================================
