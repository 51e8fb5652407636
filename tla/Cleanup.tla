------------------------------ MODULE Cleanup ------------------------------
(***************************************************************************)
(* The final cleanup of the EX4400: recovery_cleanup_cli.run with          *)
(* _rollback_all, the plan and the record of recovery_cleanup and the      *)
(* checks of access_hardening.                                             *)
(*                                                                         *)
(* Ports without an endpoint are disabled, the uplink's "all" becomes the  *)
(* production VLANs, data VLANs nobody uses are deleted.  The two QFX      *)
(* switches are only read: recovery_required is always FALSE, so their     *)
(* statements are none and the EX4400 is the only role that is written.    *)
(***************************************************************************)
EXTENDS Junos

CONSTANTS
    Edge,    \* access ports of the template's edge range
    Stale,   \* configured data VLANs that the QFX plan does not require
    Faults   \* what may go wrong

Fault == {"rpc",    \* an RPC raises and the device did nothing
          "lost",   \* an RPC raises although the device did its work
          "disk",   \* persisting a record raises
          "crash",  \* the process dies or is interrupted at the keyboard
          "timer",  \* the confirm window closes on the run that opened it
          "edits",  \* somebody leaves uncommitted edits on the unlocked switch
          "admin"}  \* an administrator commits

ASSUME FaultsAssumption == Faults \subseteq Fault

(* Statements, as far as the cleanup looks at them.  "member" puts a port  *)
(* into a production VLAN, "uses" is any reference to a stale VLAN.        *)
Disable(p) == <<"disable", p>>
Member(p) == <<"member", p>>
Vlan(v) == <<"vlan", v>>
Uses(v) == <<"uses", v>>
Uplink(members) == <<"uplink", members>>
Statement == {Disable(p) : p \in Edge} \cup {Member(p) : p \in Edge}
               \cup {Vlan(v) : v \in Stale} \cup {Uses(v) : v \in Stale}
               \cup {Uplink(m) : m \in {"all", "production"}}

VARIABLES
    device,     \* the EX4400
    completed,  \* new ports of the endpoints the history says are complete
    up,         \* ports with a link or a learned client
    talking,    \* stale VLANs with a learned client
    pc,         \* where the run is; "idle" between runs
    config,     \* ex_config: the configuration the run read
    delete,     \* deleted_vlan_names
    tx,         \* the transaction in memory
    plans,      \* cleanup plans on disk
    record,     \* the newest transaction on disk
    disturbed   \* history: the confirm window closed on a run at work, or an
                \* administrator's commit confirmed a trial

network == <<completed, up, talking>>
memory == <<config, delete>>
vars == <<device, network, pc, memory, tx, plans, record, disturbed>>

Status == {"NONE", "APPROVED_PENDING_COMMIT", "COMMIT_CONFIRMED_PENDING_VALIDATION",
           "VALIDATED_PENDING_FINAL_CONFIRMATION", "COMMITTED_AND_CONFIRMED",
           "ROLLED_BACK", "ROLLBACK_INCOMPLETE"}
Transaction == [status : Status, validation : {"PENDING", "PASS", "FAIL"},
                delete : SUBSET Stale]
NewTransaction(deleted) == [status |-> "APPROVED_PENDING_COMMIT",
                            validation |-> "PENDING", delete |-> deleted]
NoTransaction == [NewTransaction({}) EXCEPT !.status = "NONE"]

RpcPoint == {"lock", "recheck", "load", "check", "prompt", "commit", "validate", "confirm"}
PersistPoint == {"persist-approved", "persist-trial", "persist-validated",
                 "persist-kept", "persist-done", "persist-rollback"}
TrialPoint == {"persist-trial", "validate", "persist-validated", "confirm", "rollback"}

-----------------------------------------------------------------------------
(* Checks over the configuration                                           *)

Unused == Edge \ completed
EndpointsLive == \A p \in completed : Member(p) \in device.running

(* classify_final_ports: an endpoint's port must be enabled, every other   *)
(* one silent; it is then disabled.                                        *)
PortsPass == /\ \A p \in completed : Disable(p) \notin device.running
             /\ up \cap Unused = {}

(* validate_pre_hardening_config                                           *)
ConfigPasses == /\ {m \in {"all", "production"} : Uplink(m) \in device.running} = {"all"}
                /\ \A p \in Unused : Member(p) \notin device.running

(* stale_vlan_cleanup: no reference, and no client that talks.             *)
Deletable(read) == {v \in Stale : /\ Vlan(v) \in read
                                  /\ Uses(v) \notin read
                                  /\ v \notin talking}

Added == {Disable(p) : p \in Unused} \cup {Uplink("production")}
Removed(deleted) == {Uplink("all")} \cup {Vlan(v) : v \in deleted}

(* validate_final_hardening                                                *)
Hardened(deleted) == /\ Added \subseteq device.running
                     /\ Removed(deleted) \cap device.running = {}
                     /\ \A p \in completed : Disable(p) \notin device.running

-----------------------------------------------------------------------------
Init == /\ completed \in SUBSET Edge
        /\ device = NewDevice({Member(p) : p \in completed} \cup {Uplink("all")}
                                \cup {Vlan(v) : v \in Stale})
        /\ up = completed /\ talking = {}
        /\ pc = "idle"
        /\ config = {} /\ delete = {}
        /\ tx = NoTransaction
        /\ plans = [deleted \in SUBSET Stale |-> "none"]
        /\ record = [tx |-> NoTransaction, intact |-> TRUE]
        /\ disturbed = FALSE

Goto(point) == pc' = point /\ UNCHANGED memory

EndRun(d) == /\ device' = d
             /\ pc' = "idle"
             /\ config' = {} /\ delete' = {}
             /\ tx' = NoTransaction

(* The lock is held from here on; unlock() and close() give up whatever    *)
(* the candidate still holds.                                              *)
Unlocked == {"idle", "plan", "lock"}
Release == IF pc \in Unlocked THEN device ELSE Discard(device)

-----------------------------------------------------------------------------
Success == record.intact /\ record.tx.status = "COMMITTED_AND_CONFIRMED"

(* Everything is read once and must pass; without that nothing is written. *)
Start == /\ pc = "idle" /\ ~Success
         /\ EndpointsLive /\ PortsPass /\ ConfigPasses
         /\ config' = device.running
         /\ delete' = Deletable(device.running)
         /\ pc' = "plan"
         /\ UNCHANGED <<device, network, tx, plans, record>>

(* write_cleanup_plan: the directory is named by the plan's content and    *)
(* made only once; one that was left half written can not be used again.   *)
WritePlan == /\ pc = "plan"
             /\ IF plans[delete] = "torn"
                THEN UNCHANGED plans /\ EndRun(device)
                ELSE /\ plans' = [plans EXCEPT ![delete] = "whole"]
                     /\ Goto("lock")
                     /\ UNCHANGED <<device, tx>>
             /\ UNCHANGED <<network, record>>

PlanOnly == /\ pc = "lock"
            /\ EndRun(device)
            /\ UNCHANGED <<network, plans, record>>

Lock == /\ pc = "lock"
        /\ \/ Clean(device) /\ Goto("recheck") /\ UNCHANGED <<device, tx>>
           \/ ~Clean(device) /\ EndRun(device)           \* refused by Junos
           \/ ~Clean(device) /\ EndRun(Discard(device))  \* refused by diff()
        /\ UNCHANGED <<network, plans, record>>

(* Mutant: nothing is looked at again under the lock.                      *)
RecheckSkipped == /\ pc = "recheck"
                  /\ Goto("load")
                  /\ UNCHANGED <<device, network, tx, plans, record>>

(* Under the lock endpoints, port states and learned clients are read      *)
(* again; the references to stale VLANs are taken from the old reading.    *)
Recheck == /\ pc = "recheck"
           /\ Goto(IF EndpointsLive /\ PortsPass /\ Deletable(config) = delete
                   THEN "load" ELSE "failed")
           /\ UNCHANGED <<device, network, tx, plans, record>>

Load == /\ pc = "load"
        /\ device' = Merge(Remove(device, Removed(delete)), Added)
        /\ Goto("check")
        /\ UNCHANGED <<network, tx, plans, record>>

(* commit_check() and a diff that is not empty.  Junos refuses a candidate *)
(* in which a port refers to a VLAN that is gone, as far as it sees it.    *)
Check == /\ pc = "check"
         /\ \/ ~Clean(device) /\ Goto("prompt")
            \/ /\ \E v \in delete : Uses(v) \in device.candidate
               /\ Goto("failed")
         /\ UNCHANGED <<device, network, tx, plans, record>>

Approve == /\ pc = "prompt"
           /\ tx' = NewTransaction(delete)
           /\ Goto("persist-approved")
           /\ UNCHANGED <<device, network, plans, record>>

Deny == /\ pc = "prompt"
        /\ EndRun(Release)
        /\ UNCHANGED <<network, plans, record>>

TrialCommit ==
    /\ pc = "commit"
    /\ device' = CommitConfirmed(device)
    /\ \/ /\ tx' = [tx EXCEPT !.status = "COMMIT_CONFIRMED_PENDING_VALIDATION"]
          /\ Goto("persist-trial")
       \/ "lost" \in Faults /\ Goto("failed") /\ UNCHANGED tx
    /\ UNCHANGED <<network, plans, record>>

(* Mutant: the verdict is saved together with the final confirmation.      *)
ValidateUnsaved == /\ pc = "validate"
                   /\ EndpointsLive /\ Hardened(delete)
                   /\ tx' = [tx EXCEPT !.validation = "PASS",
                               !.status = "VALIDATED_PENDING_FINAL_CONFIRMATION"]
                   /\ Goto("confirm")
                   /\ UNCHANGED <<device, network, plans, record>>

(* Identity, endpoints, configuration and the QFX pair; any may disappoint.*)
Validate == /\ pc = "validate"
            /\ \/ /\ EndpointsLive /\ Hardened(delete)
                  /\ tx' = [tx EXCEPT !.validation = "PASS",
                              !.status = "VALIDATED_PENDING_FINAL_CONFIRMATION"]
                  /\ Goto("persist-validated")
               \/ /\ tx' = [tx EXCEPT !.validation = "FAIL"]
                  /\ Goto("rollback")
            /\ UNCHANGED <<device, network, plans, record>>

(* Mutant: success is claimed and the trial left unconfirmed.              *)
ConfirmForgotten == /\ pc = "confirm"
                    /\ Goto("persist-kept")
                    /\ UNCHANGED <<device, network, tx, plans, record>>

Confirm == /\ pc = "confirm"
           /\ device' = Commit(device)
           /\ \/ Goto("persist-kept")
              \/ "lost" \in Faults /\ Goto("failed")
           /\ UNCHANGED <<network, tx, plans, record>>

-----------------------------------------------------------------------------
(* persist_cleanup_transaction                                             *)

AfterPersist == CASE pc = "persist-approved"  -> "commit"
                  [] pc = "persist-trial"     -> "validate"
                  [] pc = "persist-validated" -> "confirm"
                  [] pc = "persist-kept"      -> "persist-done"
                  [] OTHER                    -> "idle"

Persist == /\ pc \in PersistPoint
           /\ record' = [tx |-> tx, intact |-> TRUE]
           /\ IF AfterPersist = "idle" THEN EndRun(Release)
              ELSE /\ tx' = IF AfterPersist = "persist-done"
                            THEN [tx EXCEPT !.status = "COMMITTED_AND_CONFIRMED"] ELSE tx
                   /\ Goto(AfterPersist)
                   /\ UNCHANGED device
           /\ UNCHANGED <<network, plans>>

(* Stopped half way, a file may be there and its integrity.json not yet.   *)
Torn == \/ /\ pc = "plan" /\ plans[delete] = "none"
           /\ plans' = [plans EXCEPT ![delete] = "torn"]
           /\ UNCHANGED record
        \/ /\ pc \in PersistPoint
           /\ record' = [tx |-> tx, intact |-> FALSE]
           /\ UNCHANGED plans
        \/ UNCHANGED <<plans, record>>

Fail == IF pc \in Unlocked THEN EndRun(device)
        ELSE Goto("failed") /\ UNCHANGED <<device, tx>>

(* Only a ProvisioningError is rolled back by the run: after an OSError or *)
(* an error of an RPC the open trial is left to its confirm window.        *)
PersistFails == /\ "disk" \in Faults
                /\ pc \in PersistPoint \cup {"plan"}
                /\ Torn
                /\ Fail
                /\ UNCHANGED network

RpcFails == /\ "rpc" \in Faults
            /\ pc \in RpcPoint
            /\ Fail
            /\ UNCHANGED <<network, plans, record>>

Abandon == /\ pc = "failed"
           /\ EndRun(Discard(device))
           /\ UNCHANGED <<network, plans, record>>

(* Mutant: the rollback takes the statements back one by one and forgets   *)
(* that the VLANs were deleted.                                            *)
RollbackByDelete == /\ pc = "rollback"
                    /\ device' = Commit(Merge(Remove(device, Added), {Uplink("all")}))
                    /\ tx' = [tx EXCEPT !.status = "ROLLED_BACK"]
                    /\ Goto("persist-rollback")
                    /\ UNCHANGED <<network, plans, record>>
(* Mutant: a status outside the record's schema.                           *)
RollbackUnknown == /\ pc = "rollback"
                   /\ device' = Commit(LoadRollback1(device))
                   /\ tx' = [tx EXCEPT !.status = "REVERTED"]
                   /\ Goto("persist-rollback")
                   /\ UNCHANGED <<network, plans, record>>

(* _rollback_all.  It is reached after a failed validation only, with the  *)
(* EX4400 committed and not confirmed: of its branches, rollback 1.        *)
Rollback == /\ pc = "rollback"
            /\ \E status \in {"ROLLED_BACK", "ROLLBACK_INCOMPLETE"} :
                 /\ \/ /\ status = "ROLLED_BACK" \/ "lost" \in Faults
                       /\ device' = Commit(LoadRollback1(device))
                    \/ /\ status = "ROLLBACK_INCOMPLETE" /\ "rpc" \in Faults
                       /\ UNCHANGED device
                 /\ tx' = [tx EXCEPT !.status = status]
            /\ Goto("persist-rollback")
            /\ UNCHANGED <<network, plans, record>>

-----------------------------------------------------------------------------
(* The environment                                                         *)

Crash == /\ "crash" \in Faults
         /\ pc # "idle"
         /\ Torn
         /\ EndRun(Release)
         /\ UNCHANGED network

(* The window may be one minute, an RPC may take two and the validation    *)
(* has no limit: it may close on a run that has yet to confirm or to roll  *)
(* back, and rollback 1 is then the hardening.                             *)
TimerExpires == /\ device.pending
                /\ pc \in TrialPoint => "timer" \in Faults
                /\ device' = AutoRollback(device)
                /\ disturbed' = (disturbed \/ pc \in TrialPoint)
                /\ UNCHANGED <<network, pc, memory, tx, plans, record>>

(* Clients come and go.                                                    *)
NetworkChanges == /\ \/ \E p \in Edge : up' = up \cup {p} /\ UNCHANGED talking
                     \/ \E v \in Stale : talking' = talking \cup {v} /\ UNCHANGED up
                     \/ up' = completed /\ talking' = {}
                  /\ UNCHANGED <<device, completed, pc, memory, tx, plans, record>>

Foreign == {Member(p) : p \in Edge} \cup {Uses(v) : v \in Stale}

SomebodyEdits == /\ "edits" \in Faults
                 /\ pc \in Unlocked
                 /\ \E s \in Foreign : device' = [device EXCEPT !.candidate = @ \cup {s}]
                 /\ UNCHANGED <<network, pc, memory, tx, plans, record>>

(* A port or a VLAN is taken into use, or given up, by hand.  The commit   *)
(* also confirms a trial that a dead run has left to its window.           *)
AdminCommits == /\ "admin" \in Faults
                /\ pc \in Unlocked
                /\ Clean(device)
                /\ disturbed' = (disturbed \/ device.pending)
                /\ \E s \in Foreign :
                     \/ s \notin device.running /\ device' = Commit(Merge(device, {s}))
                     \/ s \in device.running /\ device' = Commit(Remove(device, {s}))
                /\ UNCHANGED <<network, pc, memory, tx, plans, record>>

-----------------------------------------------------------------------------
RunStep == /\ UNCHANGED disturbed
           /\ \/ WritePlan \/ Lock \/ Recheck \/ Load \/ Check \/ TrialCommit
              \/ Validate \/ Confirm \/ Persist \/ PersistFails \/ RpcFails
              \/ Abandon \/ Rollback

Next == \/ /\ UNCHANGED disturbed
           /\ \/ Start \/ PlanOnly \/ Approve \/ Deny \/ Crash
              \/ NetworkChanges \/ SomebodyEdits
        \/ RunStep \/ TimerExpires \/ AdminCommits

Spec == Init /\ [][Next]_vars

-----------------------------------------------------------------------------
(* Properties                                                              *)

TypeOK == /\ device \in DeviceType(Statement)
          /\ completed \subseteq Edge /\ up \subseteq Edge /\ talking \subseteq Stale
          /\ pc \in {"idle", "plan", "failed", "rollback"} \cup RpcPoint \cup PersistPoint
          /\ config \subseteq Statement /\ delete \subseteq Stale
          /\ tx \in Transaction
          /\ plans \in [SUBSET Stale -> {"none", "torn", "whole"}]
          /\ record \in [tx : Transaction, intact : BOOLEAN]
          /\ disturbed \in BOOLEAN

(* What goes on trial is the hardening and nothing else, over a switch     *)
(* whose endpoints are all live under the lock: no edit of other people    *)
(* rides along, and no endpoint's port is among the disabled ones even if  *)
(* configurations changed between the first reading and the lock.          *)
TrialIsHardening ==
    [][device'.pending /\ ~device.pending =>
         /\ device'.running = (device.running \ Removed(delete)) \cup Added
         /\ EndpointsLive]_vars

(* The hardening is kept for good only with a passed validation on disk,   *)
(* whatever failed: the one handler that rolls back does not see the       *)
(* errors of RPCs and of the disk, and leaves those to the window.  Until  *)
(* the window closes on a run at work, whose rollback then commits the     *)
(* hardening again and for good, or somebody else confirms the trial.      *)
KeptIsValidated ==
    disturbed \/ (Uplink("production") \in device.running /\ ~device.pending =>
                    record.tx.validation = "PASS")

(* A record with the status COMMITTED_AND_CONFIRMED, which later runs take *)
(* as the end of the migration, is true: the hardening is live for good.   *)
(* Until disturbed: after its window has closed, the final commit of a run *)
(* is an empty one and is recorded as a success.                           *)
CommittedIsTrue == disturbed \/ (Success => /\ Hardened(record.tx.delete)
                                            /\ ~device.pending)

(* A cleanup that says it was rolled back gave everything back, the        *)
(* deleted VLANs included.  Until disturbed: after its window has closed,  *)
(* rollback 1 is the hardening.                                            *)
RolledBackRestores ==
    ~disturbed /\ record.intact /\ record.tx.status = "ROLLED_BACK" =>
        /\ Removed(record.tx.delete) \subseteq device.running
        /\ Added \cap device.running = {}
=============================================================================
