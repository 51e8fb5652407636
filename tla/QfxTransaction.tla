--------------------------- MODULE QfxTransaction ---------------------------
(***************************************************************************)
(* The coordinated dual-QFX VLAN transaction: qfx_stage_cli.run with       *)
(* _rollback_pair, the plan of qfx_stage and the record of                 *)
(* qfx_transaction, against two Junos devices.                             *)
(*                                                                         *)
(* One run at a time walks the pair through lock, load, commit-check,      *)
(* approval, commit confirmed, validation and final confirmation, and      *)
(* keeps a record on disk.  A configuration is the set of VLANs of the     *)
(* bound aggregate.  Runs may be repeated for ever.                        *)
(***************************************************************************)
EXTENDS Junos

CONSTANTS
    Baseline,   \* VLANs the site policy expects on the aggregate
    Required,   \* VLANs the approved plan adds
    Foreign,    \* VLANs an administrator adds outside the tool
    Faults      \* what may go wrong

Fault == {"rpc",     \* an RPC raises and the device did nothing
          "lost",    \* an RPC raises although the device did its work
          "disk",    \* persisting the record raises
          "crash",   \* the process dies or is interrupted at the keyboard
          "timer",   \* the confirm window closes while the run is at work
          "admin"}   \* an administrator edits or commits on an unlocked device

ASSUME ConfigAssumption ==
    /\ Required # {}
    /\ Required \cap Baseline = {}  \* derive_required_qfx_vlans leaves out management
    /\ Foreign \cap (Baseline \cup Required) = {}
ASSUME FaultsAssumption == Faults \subseteq Fault

Role == {"qfx-a", "qfx-b"}
Vlan == Baseline \cup Required \cup Foreign
Staged == Baseline \cup Required

(* The loops visit qfx-a before qfx-b; the rollback goes the other way.    *)
IsNext(r, done) == r \notin done /\ (r = "qfx-b" => "qfx-a" \in done)
IsNextBack(r, done) == r \notin done /\ (r = "qfx-a" => "qfx-b" \in done)

VARIABLES
    device,     \* the two switches
    pc,         \* where the run is; "idle" between runs
    locked,     \* locked_roles
    committed,  \* committed_roles
    confirmed,  \* final_confirmed_roles
    undone,     \* roles _rollback_pair has dealt with
    answerLost, \* history: some device has acted on an RPC that raised
    tx,         \* the transaction in memory
    record,     \* transaction.json and whether integrity.json agrees with it
    disturbed   \* history: the confirm window closed on a run at work, or an
                \* administrator committed

run == <<pc, locked, committed, confirmed, undone, answerLost>>
vars == <<device, pc, locked, committed, confirmed, undone, answerLost, tx,
          record, disturbed>>

TxStatus == {"NONE", "APPROVED_PENDING_COMMIT",
             "COMMIT_CONFIRMED_PENDING_VALIDATION",
             "VALIDATED_PENDING_FINAL_CONFIRMATION",
             "COMMITTED_AND_CONFIRMED", "ROLLED_BACK", "ROLLBACK_INCOMPLETE"}
CommitStatus == {"NOT_STARTED", "CONFIRMED_PENDING_VALIDATION",
                 "COMMITTED_AND_CONFIRMED", "ROLLED_BACK",
                 "COMPENSATING_ROLLBACK_COMMITTED", "CANDIDATE_ROLLED_BACK",
                 "ROLLBACK_FAILED"}
Transaction == [status : TxStatus, validation : {"PENDING", "PASS", "FAIL"},
                commit_status : [Role -> CommitStatus]]

NewTransaction(status) ==
    [status |-> status, validation |-> "PENDING",
     commit_status |-> [r \in Role |-> "NOT_STARTED"]]
NoTransaction == NewTransaction("NONE")

PersistPoint == {"persist-approved", "persist-trial", "persist-validated",
                 "persist-kept", "persist-done", "persist-rollback"}
RpcPoint == {"lock", "revalidate", "load", "check", "prompt", "commit",
             "validate", "confirm"}

-----------------------------------------------------------------------------
(* load(..., format="set", merge=True) of the plan and of its inverse      *)
LoadPlan(d) == Merge(d, Required)
LoadInverse(d) == Remove(d, Required)

(* unlock() and close() give up whatever the candidate still holds         *)
Released == [r \in Role |-> IF r \in locked THEN Discard(device[r])
                                            ELSE device[r]]

-----------------------------------------------------------------------------
Init == /\ device = [r \in Role |-> NewDevice(Baseline)]
        /\ pc = "idle"
        /\ locked = {} /\ committed = {} /\ confirmed = {} /\ undone = {}
        /\ answerLost = FALSE
        /\ tx = NoTransaction
        /\ record = [tx |-> NoTransaction, intact |-> TRUE]
        /\ disturbed = FALSE

(* The run returns or raises: its memory is gone, locks and sessions too.  *)
EndRun == /\ device' = Released
          /\ pc' = "idle"
          /\ locked' = {} /\ committed' = {} /\ confirmed' = {} /\ undone' = {}
          /\ tx' = NoTransaction
          /\ UNCHANGED answerLost

Goto(point) == /\ pc' = point
               /\ UNCHANGED <<locked, committed, confirmed, undone, answerLost>>

(* baseline_vlans_exact on both devices                                    *)
PlanPasses == \A r \in Role : device[r].running = Baseline

StartRun == /\ pc = "idle"
            /\ PlanPasses
            /\ Goto("lock")
            /\ UNCHANGED <<device, tx, record>>

(* The plan fails, or --plan-only was asked for: nothing is written.       *)
PlanOnly == pc = "idle" /\ UNCHANGED vars

(* lock(), then diff(): a candidate that is not clean is refused, by Junos *)
(* or by the run, and then also given up by the error path.                *)
LockRole(r) == /\ pc = "lock"
               /\ IsNext(r, locked)
               /\ \/ /\ locked' = locked \cup {r}
                     /\ pc' = IF ~Clean(device[r]) THEN "failed"
                              ELSE IF locked' = Role THEN "revalidate" ELSE "lock"
                  \/ /\ ~Clean(device[r])
                     /\ pc' = "failed"
                     /\ UNCHANGED locked
               /\ UNCHANGED <<device, committed, confirmed, undone, answerLost,
                              tx, record>>

(* Mutant: the plan is not rebuilt under the locks.                        *)
RevalidateSkipped == /\ pc = "revalidate"
                     /\ Goto("load")
                     /\ UNCHANGED <<device, tx, record>>

Revalidate == /\ pc = "revalidate"
              /\ Goto(IF PlanPasses THEN "load" ELSE "failed")
              /\ UNCHANGED <<device, tx, record>>

LoadCandidates == /\ pc = "load"
                  /\ device' = [r \in Role |-> LoadPlan(device[r])]
                  /\ Goto("check")
                  /\ UNCHANGED <<tx, record>>

(* commit_check() and diff(): neither diff empty, both diffs the same      *)
CheckCandidates ==
    /\ pc = "check"
    /\ Goto(IF /\ \A r \in Role : ~Clean(device[r])
               /\ Diff(device["qfx-a"]) = Diff(device["qfx-b"])
            THEN "prompt" ELSE "failed")
    /\ UNCHANGED <<device, tx, record>>

Approve == /\ pc = "prompt"
           /\ tx' = NewTransaction("APPROVED_PENDING_COMMIT")
           /\ Goto("persist-approved")
           /\ UNCHANGED <<device, record>>

Deny == /\ pc = "prompt"
        /\ EndRun
        /\ UNCHANGED record

(* Mutant: the confirm argument is missing, the first commit is for good.  *)
TrialCommitForGood(r) ==
    /\ pc = "commit"
    /\ IsNext(r, committed)
    /\ device' = [device EXCEPT ![r] = Commit(@)]
    /\ committed' = committed \cup {r}
    /\ tx' = [tx EXCEPT !.commit_status[r] = "CONFIRMED_PENDING_VALIDATION"]
    /\ pc' = "persist-trial"
    /\ UNCHANGED <<locked, confirmed, undone, answerLost, record>>

(* commit(confirm=...): the answer arrives, or it is lost on the way       *)
TrialCommit(r) ==
    /\ pc = "commit"
    /\ IsNext(r, committed)
    /\ device' = [device EXCEPT ![r] = CommitConfirmed(@)]
    /\ \/ /\ committed' = committed \cup {r}
          /\ tx' = [tx EXCEPT !.commit_status[r] = "CONFIRMED_PENDING_VALIDATION",
                              !.status = "COMMIT_CONFIRMED_PENDING_VALIDATION"]
          /\ pc' = "persist-trial"
          /\ UNCHANGED answerLost
       \/ /\ "lost" \in Faults
          /\ pc' = "failed"
          /\ answerLost' = TRUE
          /\ UNCHANGED <<committed, tx>>
    /\ UNCHANGED <<locked, confirmed, undone, record>>

(* Mutant: the validation result is not saved before the final commits.    *)
ValidateUnsaved ==
    /\ pc = "validate"
    /\ \A r \in Role : Required \subseteq device[r].running
    /\ tx' = [tx EXCEPT !.validation = "PASS"]
    /\ Goto("confirm")
    /\ UNCHANGED <<device, record>>

(* LLDP, LACP and the host keys may always disappoint; the configuration   *)
(* read back must hold the planned statements on both devices.             *)
Validate == /\ pc = "validate"
            /\ \E result \in {"PASS", "FAIL"} :
                 /\ result = "PASS" =>
                      \A r \in Role : Required \subseteq device[r].running
                 /\ tx' = [tx EXCEPT !.validation = result,
                             !.status = IF result = "PASS"
                               THEN "VALIDATED_PENDING_FINAL_CONFIRMATION" ELSE @]
                 /\ Goto(IF result = "PASS" THEN "persist-validated" ELSE "failed")
            /\ UNCHANGED <<device, record>>

(* Mutant: the transaction is called complete after either device.         *)
FinalCommitEarlyVerdict(r) ==
    /\ pc = "confirm"
    /\ IsNext(r, confirmed)
    /\ device' = [device EXCEPT ![r] = Commit(@)]
    /\ confirmed' = confirmed \cup {r}
    /\ tx' = [tx EXCEPT !.status = "COMMITTED_AND_CONFIRMED"]
    /\ pc' = "persist-kept"
    /\ UNCHANGED <<locked, committed, undone, answerLost, record>>

(* The final commit() confirms whatever the device runs by then.           *)
FinalCommit(r) ==
    /\ pc = "confirm"
    /\ IsNext(r, confirmed)
    /\ device' = [device EXCEPT ![r] = Commit(@)]
    /\ \/ /\ confirmed' = confirmed \cup {r}
          /\ tx' = [tx EXCEPT !.commit_status[r] = "COMMITTED_AND_CONFIRMED"]
          /\ pc' = "persist-kept"
          /\ UNCHANGED answerLost
       \/ /\ "lost" \in Faults
          /\ pc' = "failed"
          /\ answerLost' = TRUE
          /\ UNCHANGED <<confirmed, tx>>
    /\ UNCHANGED <<locked, committed, undone, record>>

-----------------------------------------------------------------------------
(* persist_transaction, called at six places                               *)

(* Mutant: the loop of final confirmations ends one device too soon.       *)
AfterPersistOneConfirmed ==
    CASE pc = "persist-approved"  -> "commit"
      [] pc = "persist-trial"     -> IF committed = Role THEN "validate" ELSE "commit"
      [] pc = "persist-validated" -> "confirm"
      [] pc = "persist-kept"      -> "persist-done"
      [] OTHER                    -> "idle"

AfterPersist ==
    CASE pc = "persist-approved"  -> "commit"
      [] pc = "persist-trial"     -> IF committed = Role THEN "validate" ELSE "commit"
      [] pc = "persist-validated" -> "confirm"
      [] pc = "persist-kept"      -> IF confirmed = Role THEN "persist-done" ELSE "confirm"
      [] OTHER                    -> "idle"

Persist ==
    /\ pc \in PersistPoint
    /\ record' = [tx |-> tx, intact |-> TRUE]
    /\ \/ /\ AfterPersist = "idle"
          /\ EndRun
       \/ /\ AfterPersist # "idle"
          /\ Goto(AfterPersist)
          /\ tx' = IF AfterPersist = "persist-done"
                   THEN [tx EXCEPT !.status = "COMMITTED_AND_CONFIRMED"] ELSE tx
          /\ UNCHANGED device

(* Stopped half way, transaction.json may be new and integrity.json old.   *)
TornRecord == \/ UNCHANGED record
              \/ record' = [tx |-> tx, intact |-> FALSE]

(* An OSError from it is caught like any other, except inside the handler. *)
PersistFails ==
    /\ "disk" \in Faults
    /\ pc \in PersistPoint
    /\ TornRecord
    /\ \/ /\ pc = "persist-rollback"
          /\ EndRun
       \/ /\ pc # "persist-rollback"
          /\ Goto("failed")
          /\ UNCHANGED <<device, tx>>

RpcFails == /\ "rpc" \in Faults
            /\ pc \in RpcPoint
            /\ Goto("failed")
            /\ UNCHANGED <<device, tx, record>>

-----------------------------------------------------------------------------
(* The two except clauses                                                  *)

(* Nothing was committed as far as the run knows: candidates only.         *)
AbandonCandidates == /\ pc = "failed"
                     /\ committed = {}
                     /\ EndRun
                     /\ UNCHANGED record

(* Mutant: a confirmed device is rolled back like an unconfirmed one.      *)
UndoDeviceNoInverse(r) == IF r \in committed THEN Commit(LoadRollback1(device[r]))
                          ELSE Discard(device[r])
(* Mutant: a status outside the record's schema.                           *)
UndoStatusUnknown(r) == IF r \in committed THEN "REVERTED" ELSE "CANDIDATE_ROLLED_BACK"

UndoDevice(r) == IF r \in confirmed THEN Commit(LoadInverse(device[r]))
                 ELSE IF r \in committed THEN Commit(LoadRollback1(device[r]))
                 ELSE Discard(device[r])
UndoStatus(r) == IF r \in confirmed THEN "COMPENSATING_ROLLBACK_COMMITTED"
                 ELSE IF r \in committed THEN "ROLLED_BACK"
                 ELSE "CANDIDATE_ROLLED_BACK"

(* Mutant: a role whose rollback failed is tried again, for ever.          *)
RollbackRoleRetried(r) ==
    /\ pc = "failed"
    /\ committed # {}
    /\ IsNextBack(r, undone)
    /\ \/ /\ undone' = undone \cup {r}
          /\ tx' = [tx EXCEPT !.commit_status[r] = UndoStatus(r),
                     !.status = IF undone' = Role THEN "ROLLED_BACK" ELSE @]
          /\ UNCHANGED answerLost
       \/ /\ "lost" \in Faults
          /\ answerLost' = TRUE
          /\ UNCHANGED <<undone, tx>>
    /\ device' = [device EXCEPT ![r] = UndoDevice(r)]
    /\ pc' = IF undone' = Role THEN "persist-rollback" ELSE "failed"
    /\ UNCHANGED <<locked, committed, confirmed, record>>

(* One turn of the loop of _rollback_pair.  After the last one the record  *)
(* takes its verdict.                                                      *)
RollbackRole(r) ==
    /\ pc = "failed"
    /\ committed # {}
    /\ IsNextBack(r, undone)
    /\ undone' = undone \cup {r}
    /\ \E status \in {UndoStatus(r), "ROLLBACK_FAILED"} :
         /\ \/ /\ status # "ROLLBACK_FAILED" \/ "lost" \in Faults
               /\ device' = [device EXCEPT ![r] = UndoDevice(r)]
               /\ answerLost' = (answerLost \/ status = "ROLLBACK_FAILED")
            \/ /\ status = "ROLLBACK_FAILED" /\ "rpc" \in Faults
               /\ UNCHANGED <<device, answerLost>>
         /\ LET result == [tx.commit_status EXCEPT ![r] = status]
            IN  tx' = [tx EXCEPT !.commit_status = result,
                         !.status = IF undone' # Role THEN @
                                    ELSE IF \A q \in Role : result[q] # "ROLLBACK_FAILED"
                                    THEN "ROLLED_BACK" ELSE "ROLLBACK_INCOMPLETE"]
    /\ pc' = IF undone' = Role THEN "persist-rollback" ELSE "failed"
    /\ UNCHANGED <<locked, committed, confirmed, record>>

-----------------------------------------------------------------------------
(* The environment                                                         *)

(* KeyboardInterrupt, SIGKILL, power: no handler runs.                     *)
Crash == /\ "crash" \in Faults
         /\ pc # "idle"
         /\ EndRun
         /\ IF pc \in PersistPoint THEN TornRecord ELSE UNCHANGED record

TimerExpires(r) == /\ device[r].pending
                   /\ pc = "idle" \/ "timer" \in Faults
                   /\ device' = [device EXCEPT ![r] = AutoRollback(@)]
                   /\ disturbed' = (disturbed \/ pc # "idle")
                   /\ UNCHANGED <<run, tx, record>>

(* Somebody else works in the shared candidate of an unlocked device.      *)
AdminEdits(r) == /\ "admin" \in Faults
                 /\ r \notin locked
                 /\ \E candidate \in {device[r].running,
                                      device[r].running \cup Foreign} :
                      device' = [device EXCEPT ![r].candidate = candidate]
                 /\ UNCHANGED <<run, tx, record>>

AdminCommits(r) == /\ "admin" \in Faults
                   /\ r \notin locked
                   /\ device' = [device EXCEPT ![r] = Commit(@)]
                   /\ disturbed' = TRUE
                   /\ UNCHANGED <<run, tx, record>>

-----------------------------------------------------------------------------
RunStep ==
    /\ UNCHANGED disturbed
    /\ \/ Revalidate \/ LoadCandidates \/ CheckCandidates \/ Validate
       \/ Persist \/ PersistFails \/ RpcFails \/ AbandonCandidates
       \/ \E r \in Role : LockRole(r) \/ TrialCommit(r) \/ FinalCommit(r)
                          \/ RollbackRole(r)

Next == \/ /\ UNCHANGED disturbed
           /\ \/ StartRun \/ PlanOnly \/ Approve \/ Deny \/ Crash
              \/ \E r \in Role : AdminEdits(r)
        \/ RunStep
        \/ \E r \in Role : TimerExpires(r) \/ AdminCommits(r)

Spec == Init /\ [][Next]_vars

(* The process computes on and every RPC has a timeout; a device's timer   *)
(* fires.  Nobody has to start a run, answer the prompt, crash or edit.    *)
Fairness == /\ WF_vars(RunStep)
            /\ \A r \in Role : WF_vars(TimerExpires(r))

FairSpec == Spec /\ Fairness

-----------------------------------------------------------------------------
(* Properties                                                              *)

Device == DeviceType(Vlan)

TypeOK == /\ device \in [Role -> Device]
          /\ pc \in {"idle", "failed"} \cup PersistPoint \cup RpcPoint
          /\ locked \subseteq Role /\ committed \subseteq Role
          /\ confirmed \subseteq Role /\ undone \subseteq Role
          /\ answerLost \in BOOLEAN
          /\ tx \in Transaction
          /\ record \in [tx : Transaction, intact : BOOLEAN]
          /\ disturbed \in BOOLEAN

(* The change is live on r, and live for good.                             *)
Live(r) == Required \subseteq device[r].running
Kept(r) == Live(r) /\ ~device[r].pending

AtRest == pc = "idle" /\ \A r \in Role : ~device[r].pending

(* While the commit-confirmed timer of a device runs, the device holds     *)
(* exactly the approved statements over exactly the site baseline, and the *)
(* timer will restore that baseline: nothing an administrator left in a    *)
(* candidate, or committed between the plan and the locks, rides along     *)
(* (clean-candidate check, revalidation under both locks).                 *)
TrialOverBaseline ==
    \A r \in Role : device[r].pending => /\ device[r].running = Staged
                                         /\ device[r].prior = Baseline

(* A device keeps the change for good only after both devices passed       *)
(* post-commit validation, and the record on disk said so before: a crash  *)
(* can never leave an irrevocable change the record knows nothing about.   *)
(* Holds until a confirm window closes on a run or somebody else commits.  *)
KeptOnlyAfterValidation ==
    disturbed \/ \A r \in Role : Kept(r) => record.tx.validation = "PASS"

(* Readers skip a record whose integrity file disagrees with it.           *)
Reads(status) == record.intact /\ record.tx.status = status

(* A record that says COMMITTED_AND_CONFIRMED is never wrong: both devices *)
(* run the change and no timer is left that could take it away (until      *)
(* somebody disturbs the pair).                                            *)
ConfirmedRecordIsTrue ==
    disturbed \/ (Reads("COMMITTED_AND_CONFIRMED") => \A r \in Role : Kept(r))

(* "rollback_both_on_failure": a record that says ROLLED_BACK is never     *)
(* wrong, both devices run the baseline again, whichever mix of candidate, *)
(* rollback 1 and compensating rollbacks the pair needed.                  *)
RollbackClaimHolds ==
    Reads("ROLLED_BACK") => \A r \in Role : device[r].running = Baseline

(* The same, as long as no device acted on an RPC whose answer was lost    *)
(* and nobody disturbed the pair.                                          *)
RolledBackRecordIsTrue == answerLost \/ disturbed \/ RollbackClaimHolds

(* One device with the change and one without, at rest, is never silent:   *)
(* the record still waits for the final confirmation or reports an         *)
(* incomplete rollback, never success, never a rollback.                   *)
OneSidedIsVisible ==
    AtRest /\ record.intact /\ (\E r, q \in Role : Live(r) /\ ~Live(q)) =>
        \/ answerLost \/ disturbed
        \/ record.tx.status \in {"VALIDATED_PENDING_FINAL_CONFIRMATION",
                                 "ROLLBACK_INCOMPLETE"}

(* A run that has started to commit comes to its end with the pair at      *)
(* rest: no error path loops or waits for an operator.                     *)
CommitRunEnds == committed # {} ~> AtRest

(* The pair transaction implements the abstract change: no device keeps    *)
(* the change unless the whole pair runs it at that moment, until somebody *)
(* interferes from outside the tool.                                       *)
pairState == [r \in Role |-> IF ~Live(r) THEN "base"
                             ELSE IF device[r].pending THEN "trial" ELSE "kept"]
Pair == INSTANCE PairChange WITH Device <- Role, state <- pairState,
                                 void <- disturbed
PairSpec == Pair!Spec
=============================================================================
