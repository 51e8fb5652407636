----------------------------- MODULE PairChange -----------------------------
(***************************************************************************)
(* What a coordinated change of the QFX pair promises, whatever steps it   *)
(* takes.  A device runs its own configuration ("base"), the new one under *)
(* a commit-confirmed timer ("trial"), or the new one for good ("kept").   *)
(* Nothing is kept unless the whole pair runs the change at that moment:   *)
(* the safety record's "final_confirmation_requires_both_valid".           *)
(***************************************************************************)
CONSTANT Device

VARIABLES state,
          void     \* somebody has interfered; nothing is promised from then on

States == [Device -> {"base", "trial", "kept"}]

TypeOK == state \in States /\ void \in BOOLEAN

Init == state = [d \in Device |-> "base"] /\ void = FALSE

(* A commit confirmed starts the trial of the change on one device.        *)
Try(d) == /\ state[d] = "base"
          /\ state' = [state EXCEPT ![d] = "trial"]

(* The trial ends in the old configuration: explicit rollback or timer.    *)
Abandon(d) == /\ state[d] = "trial"
              /\ state' = [state EXCEPT ![d] = "base"]

(* The trial ends in the new configuration, which the whole pair runs.     *)
Keep(d) == /\ state[d] = "trial"
           /\ \A e \in Device : state[e] # "base"
           /\ state' = [state EXCEPT ![d] = "kept"]

(* A kept change is taken back only by a compensating commit.              *)
Compensate(d) == /\ state[d] = "kept"
                 /\ state' = [state EXCEPT ![d] = "base"]

Change == \E d \in Device : Try(d) \/ Abandon(d) \/ Keep(d) \/ Compensate(d)

(* A commit the tool did not make, or a timer that overtakes it.           *)
Interfere == state' \in States /\ void' = TRUE

Next == (Change /\ UNCHANGED void) \/ Interfere

Spec == Init /\ [][Next]_<<state, void>>
=============================================================================
