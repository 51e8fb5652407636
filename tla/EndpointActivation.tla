------------------------- MODULE EndpointActivation -------------------------
(***************************************************************************)
(* Activation of moved endpoints on the replacement EX4400:                *)
(* endpoint_stage_cli.run with the correlation, history and record of      *)
(* endpoint_stage.                                                         *)
(*                                                                         *)
(* An intent is an approved old interface with its historical MACs; after  *)
(* the cable move those MACs are learned on new ports.  A run reads the    *)
(* history of completed intents, reconciles it with the live               *)
(* configuration, correlates the rest and commits what is unambiguous.     *)
(* Runs may be repeated for ever while people move cables: as they may be  *)
(* moved in any way between two runs, and a run may be given an old        *)
(* observation, each run simply finds some ports for each intent.          *)
(***************************************************************************)
EXTENDS Junos, Naturals, FiniteSets

CONSTANTS
    Intent,           \* old interfaces with planned_action CORRELATE_AFTER_CABLE_MOVE
    Port,             \* eligible edge ports of the EX4400
    Vlan,             \* data VLANs of the approved plan
    NoVlan,           \* no usable data VLAN: none, unresolved, infrastructure
    Described,        \* intents that carry a description
    MaxTransactions,  \* bound: transaction records on disk
    Faults            \* what may go wrong

Fault == {"rpc",      \* an RPC raises and the device did nothing
          "lost",     \* an RPC raises although the device did its work
          "disk",     \* persisting the record raises
          "crash",    \* the process dies or is interrupted at the keyboard
          "timer",    \* the confirm window closes while its own run is at work
          "edits",    \* somebody leaves uncommitted edits on the unlocked switch
          "admin"}    \* an administrator commits changes on the unlocked switch

ASSUME PlanAssumption == NoVlan \notin Vlan /\ Described \subseteq Intent
ASSUME BoundAssumption == MaxTransactions \in Nat \ {0}
ASSUME FaultsAssumption == Faults \subseteq Fault

VARIABLES
    plan,         \* the approved data VLAN of each intent
    device,       \* the EX4400
    pc,           \* where the run is; "idle" between runs
    rows,         \* correlation["activated"] of the run
    id,           \* its transaction
    tx,           \* the transaction in memory
    history,      \* endpoint-transactions on disk
    disturbed     \* history: the confirm window closed on its own run, or an
                  \* administrator committed

vars == <<plan, device, pc, rows, id, tx, history, disturbed>>

Row == Intent \X Port
TxId == 1 .. MaxTransactions
Status == {"NONE", "APPROVED_PENDING_COMMIT", "CONFIRMED_PENDING_VALIDATION",
           "VALIDATED_PENDING_FINAL_CONFIRMATION", "COMMITTED_AND_CONFIRMED",
           "ROLLED_BACK_AFTER_VALIDATION_FAILURE", "AUTO_ROLLBACK_PENDING"}
Transaction == [rows : SUBSET Row, status : Status,
                validation : {"PENDING", "PASS", "FAIL"}]
NoTransaction == [rows |-> {}, status |-> "NONE", validation |-> "PENDING"]

-----------------------------------------------------------------------------
(* The configuration of the ports                                          *)

Member(p, v) == [port |-> p, kind |-> "member", value |-> v]
Describe(p, o) == [port |-> p, kind |-> "description", value |-> o]
Statement == [port : Port, kind : {"member", "description"}, value : Vlan \cup Intent]

Statements(r) == {Member(r[2], plan[r[1]])}
                   \cup {Describe(r[2], o) : o \in {r[1]} \cap Described}
Payload(some) == UNION {Statements(r) : r \in some}

(* "set" merges: memberships add up, a description replaces another.       *)
Load(d, statements) ==
    LET replaced(s) == \E t \in statements : /\ s.kind = "description"
                                             /\ t.kind = "description"
                                             /\ s.port = t.port
    IN  [d EXCEPT !.candidate = {s \in d.candidate : ~replaced(s)} \cup statements]

Present(r) == Statements(r) \subseteq device.running
MembersOf(p) == {s.value : s \in {t \in device.running :
                                     t.port = p /\ t.kind = "member"}}

-----------------------------------------------------------------------------
(* committed_endpoint_state and _reconcile_completed_state                 *)

OneToOne(some) == \A r, q \in some : r[1] = q[1] <=> r[2] = q[2]

Historical == UNION {history[i].tx.rows : i \in {j \in TxId :
                        /\ history[j].tx.status = "COMMITTED_AND_CONFIRMED"
                        /\ history[j].tx.validation = "PASS"}}

(* Any torn record, or a mapping that is not one to one, raises.           *)
HistoryReadable == /\ \A i \in TxId : history[i].intact
                   /\ OneToOne(Historical)

(* Completions no longer in the live configuration are opened again.       *)
Completed == {r \in Historical : Present(r)}

(* correlate_endpoint_intent: the MACs of an open intent with a usable     *)
(* VLAN are on one port, which no completed intent holds ...               *)
CandidatesOnAnyPort(evidence, completed) ==      \* mutant: a held port is given again
    {r \in Row : /\ \A q \in completed : q[1] # r[1]
                 /\ evidence[r[1]] = {r[2]}
                 /\ plan[r[1]] # NoVlan}
Candidates(evidence, completed) ==
    {r \in Row : /\ \A q \in completed : q[1] # r[1] /\ q[2] # r[2]
                 /\ evidence[r[1]] = {r[2]}
                 /\ plan[r[1]] # NoVlan}

(* ... and no other candidate is on that port.                             *)
ActivatedWithConflicts(evidence, completed) ==   \* mutant: conflicts are kept
    Candidates(evidence, completed)
Activated(evidence, completed) ==
    LET candidates == Candidates(evidence, completed)
    IN  {r \in candidates : \A q \in candidates : q[2] = r[2] => q = r}

-----------------------------------------------------------------------------
Init == /\ plan \in [Intent -> Vlan \cup {NoVlan}]
        /\ device = NewDevice({})
        /\ pc = "idle"
        /\ rows = {} /\ id = 1 /\ tx = NoTransaction
        /\ history = [i \in TxId |-> [tx |-> NoTransaction, intact |-> TRUE]]
        /\ disturbed = FALSE

(* The run returns or raises.  With the lock go the candidate's edits; a   *)
(* trial stays to its timer.                                               *)
Locked == pc \notin {"idle", "preload", "lock"}
Ended == /\ pc' = "idle"
         /\ rows' = {} /\ id' = 1 /\ tx' = NoTransaction
         /\ UNCHANGED plan
EndRun == Ended /\ device' = IF Locked THEN Discard(device) ELSE device

Goto(point) == /\ pc' = point
               /\ UNCHANGED <<plan, rows, id>>

(* A fresh observation, or a saved one with --observation-id: where the    *)
(* MACs of each intent are learned.  The run ends here when the history    *)
(* cannot be read and when nothing can be activated (or under --plan-only).*)
Correlate(evidence) ==
    /\ pc = "idle"
    /\ rows' = IF HistoryReadable THEN Activated(evidence, Completed) ELSE {}
    /\ pc' = IF rows' = {} THEN "idle" ELSE "preload"
    /\ UNCHANGED <<plan, device, id, tx, history>>

(* Mutant: the memberships the ports already have are not looked at.       *)
PreloadUnchecked == /\ pc = "preload"
                    /\ Goto("lock")
                    /\ UNCHANGED <<device, tx, history>>

(* _validate_preload_port_config, before the lock                          *)
Preload == /\ pc = "preload"
           /\ UNCHANGED history
           /\ IF \A r \in rows : MembersOf(r[2]) \subseteq {plan[r[1]]}
              THEN Goto("lock") /\ UNCHANGED <<device, tx>>
              ELSE EndRun

(* Mutant: the diff before loading is not looked at.                       *)
LockDirty == /\ pc = "lock"
             /\ Goto("load")
             /\ UNCHANGED <<device, tx, history>>

(* A candidate that is not clean is refused by Junos or by the run; the    *)
(* run's error path then also gives it up.                                 *)
Lock == /\ pc = "lock"
        /\ UNCHANGED history
        /\ \/ Clean(device) /\ Goto("load") /\ UNCHANGED <<device, tx>>
           \/ ~Clean(device) /\ Ended /\ device' \in {device, Discard(device)}

(* load, candidate verification, commit_check; an empty diff ends the run  *)
(* with success and no record                                              *)
LoadCandidate ==
    /\ pc = "load"
    /\ UNCHANGED history
    /\ device' \in CommitChecks(Load(device, Payload(rows)))
    /\ IF Clean(device') THEN Ended ELSE Goto("prompt") /\ UNCHANGED tx

(* The transaction is named after correlation and diff: the same evidence  *)
(* leads to the same record, which is then written over.                   *)
Approve == /\ pc = "prompt"
           /\ id' \in {i \in TxId : \/ history[i].tx.rows = {}
                                  \/ /\ history[i].tx.rows = rows
                                     /\ rows \cap Historical = {}}
           /\ tx' = [rows |-> rows, status |-> "APPROVED_PENDING_COMMIT",
                     validation |-> "PENDING"]
           /\ pc' = "persist-approved"
           /\ UNCHANGED <<plan, device, rows, history>>

Deny == pc = "prompt" /\ EndRun /\ UNCHANGED history

TrialCommit ==
    /\ pc = "commit"
    /\ UNCHANGED history
    /\ \/ /\ device' = CommitConfirmed(device)
          /\ tx' = [tx EXCEPT !.status = "CONFIRMED_PENDING_VALIDATION"]
          /\ Goto("persist-trial")
       \/ /\ "lost" \in Faults
          /\ device' = CommitConfirmed(device)
          /\ Ended

(* Mutant: the configuration is not read back.                             *)
ValidateUnread == /\ pc = "validate"
                  /\ UNCHANGED <<device, history>>
                  /\ tx' = [tx EXCEPT !.validation = "PASS",
                              !.status = "VALIDATED_PENDING_FINAL_CONFIRMATION"]
                  /\ Goto("persist-validated")

(* Host key, chassis identity, then every planned statement read back      *)
Validate == /\ pc = "validate"
            /\ UNCHANGED <<device, history>>
            /\ \/ /\ Payload(rows) \subseteq device.running
                  /\ tx' = [tx EXCEPT !.validation = "PASS",
                              !.status = "VALIDATED_PENDING_FINAL_CONFIRMATION"]
                  /\ Goto("persist-validated")
               \/ /\ tx' = [tx EXCEPT !.validation = "FAIL"]
                  /\ Goto("rollback")

FinalCommit ==
    /\ pc = "confirm"
    /\ UNCHANGED history
    /\ device' = Commit(device)
    /\ \/ /\ tx' = [tx EXCEPT !.status = "COMMITTED_AND_CONFIRMED"]
          /\ Goto("persist-kept")
       \/ /\ "lost" \in Faults
          /\ Ended

UndoneAsPair == "ROLLED_BACK"       \* mutant: the word of the QFX transaction
Undone == "ROLLED_BACK_AFTER_VALIDATION_FAILURE"

(* Only a ProvisioningError rolls back; an RPC that raises leaves it to    *)
(* the timer.                                                              *)
Rollback ==
    /\ pc = "rollback"
    /\ UNCHANGED history
    /\ Goto("persist-rollback")
    /\ \/ /\ device' = Commit(LoadRollback1(device))
          /\ tx' = [tx EXCEPT !.status = Undone]
       \/ /\ \/ "lost" \in Faults /\ device' = Commit(LoadRollback1(device))
             \/ "rpc" \in Faults /\ UNCHANGED device
          /\ tx' = [tx EXCEPT !.status = "AUTO_ROLLBACK_PENDING"]

-----------------------------------------------------------------------------
(* persist_endpoint_transaction: transaction.json, then integrity.json     *)

PersistPoint == {"persist-approved", "persist-trial", "persist-validated",
                 "persist-kept", "persist-rollback"}
RpcPoint == {"preload", "lock", "load", "commit", "validate", "confirm"}

AfterPersist == CASE pc = "persist-approved"  -> "commit"
                  [] pc = "persist-trial"     -> "validate"
                  [] pc = "persist-validated" -> "confirm"
                  [] OTHER                    -> "idle"

Persist == /\ pc \in PersistPoint
           /\ history' = [history EXCEPT ![id] = [tx |-> tx, intact |-> TRUE]]
           /\ IF AfterPersist = "idle" THEN EndRun
              ELSE Goto(AfterPersist) /\ UNCHANGED <<device, tx>>

TornRecord == history' \in {history,
                            [history EXCEPT ![id] = [tx |-> tx, intact |-> FALSE]]}

PersistFails == /\ "disk" \in Faults
                /\ pc \in PersistPoint
                /\ TornRecord
                /\ EndRun

RpcFails == /\ "rpc" \in Faults
            /\ pc \in RpcPoint
            /\ EndRun
            /\ UNCHANGED history

Crash == /\ "crash" \in Faults
         /\ pc # "idle"
         /\ EndRun
         /\ IF pc \in PersistPoint THEN TornRecord ELSE UNCHANGED history

-----------------------------------------------------------------------------
(* The environment                                                         *)

OwnTrial == pc \in {"persist-trial", "validate", "persist-validated", "confirm",
                    "rollback", "persist-rollback"}
TimerExpires == /\ device.pending
                /\ ~OwnTrial \/ "timer" \in Faults
                /\ device' = AutoRollback(device)
                /\ disturbed' = (disturbed \/ OwnTrial)
                /\ UNCHANGED <<plan, pc, rows, id, tx, history>>

Unlocked == ~Locked /\ UNCHANGED <<plan, pc, rows, id, tx, history>>

(* Uncommitted edits, left for the next session to find.  Bound: one at a  *)
(* time.                                                                   *)
AdminEdits(p) ==
    /\ "edits" \in Faults
    /\ Unlocked /\ Clean(device)
    /\ \E v \in Vlan : device' = Merge(device, {Member(p, v)})

(* Somebody commits a port cleared, or with one more VLAN.  Bound: not     *)
(* after another disturbance.                                              *)
AdminCommits(p) ==
    /\ "admin" \in Faults
    /\ Unlocked /\ ~disturbed
    /\ \E config \in {{s \in device.running : s.port # p}} \cup
                     {device.running \cup {Member(p, v)} : v \in Vlan} :
         device' = Commit([device EXCEPT !.candidate = config])
    /\ disturbed' = TRUE

-----------------------------------------------------------------------------
Next == \/ /\ UNCHANGED disturbed
           /\ \/ \E evidence \in [Intent -> SUBSET Port] : Correlate(evidence)
              \/ Approve \/ Deny \/ Crash
              \/ Preload \/ Lock \/ LoadCandidate \/ TrialCommit \/ Validate
              \/ FinalCommit \/ Rollback \/ Persist \/ PersistFails \/ RpcFails
              \/ \E p \in Port : AdminEdits(p)
        \/ TimerExpires
        \/ \E p \in Port : AdminCommits(p)

Spec == Init /\ [][Next]_vars

-----------------------------------------------------------------------------
(* Properties.  Those that begin with "disturbed" hold until the confirm    *)
(* window closes on a run or an administrator commits on the switch; the   *)
(* code guards neither.                                                    *)

TypeOK == /\ plan \in [Intent -> Vlan \cup {NoVlan}]
          /\ device \in DeviceType(Statement)
          /\ pc \in {"idle", "prompt", "rollback"} \cup RpcPoint \cup PersistPoint
          /\ rows \subseteq Row /\ id \in TxId /\ tx \in Transaction
          /\ history \in [TxId -> [tx : Transaction, intact : BOOLEAN]]
          /\ disturbed \in BOOLEAN

(* A completed endpoint is configured for good: what the history calls     *)
(* committed and confirmed is on the switch, and no running timer can take *)
(* it away.                                                                *)
RecordedIsLive == disturbed \/ \A r \in Historical :
    /\ Present(r)
    /\ device.pending => Statements(r) \subseteq device.prior

(* The tool never leaves a port in two data VLANs, not even when an        *)
(* earlier run died with its change live and unrecorded and another        *)
(* endpoint has since been plugged in.                                     *)
OneVlanPerPort == disturbed \/ \A p \in Port : Cardinality(MembersOf(p)) <= 1

(* "endpoint VLAN assignment requires unambiguous approved MAC evidence":  *)
(* what a run commits shares its port with no other intent that the run    *)
(* commits or that is complete, at the moment of the commit and not only   *)
(* when it was correlated.                                                 *)
UnambiguousTrial ==
    disturbed \/ (pc = "commit" \/ OwnTrial => OneToOne(rows \cup Completed))

(* A trial holds the approved diff and nothing besides: edits somebody left *)
(* in the shared candidate are never committed with it, under any fault.   *)
TrialIsExact ==
    OwnTrial /\ device.pending => device.running \ device.prior \subseteq Payload(rows)

(* The committed history implements the ledger: whatever runs were made,   *)
(* it grows and stays one to one, so that committed_endpoint_state, which  *)
(* every later command calls first, never raises over it, until somebody   *)
(* interferes from outside the tool.                                       *)
Ledger == INSTANCE EndpointLedger WITH ledger <- Historical, void <- disturbed
LedgerSpec == Ledger!Spec
=============================================================================
