----------------------------- MODULE PhaseWrite -----------------------------
(***************************************************************************)
(* The three commands that write to one switch before the cutover, over    *)
(* the two switches they write to:                                         *)
(*   run         pre-stages the EX4400 (cli_base._run)                     *)
(*   recovery    configures temporary management on the old EX4300         *)
(*               (stage-old-recovery, temp_management_cli.main)            *)
(*   probe       disables and enables the old switch's silent ports        *)
(*               (pre-cutover-probe, precutover_probe_cli.run)             *)
(* The first two commit with a confirm window, validate and confirm; the   *)
(* probe commits twice for good and undoes the first by the second.  One   *)
(* command at a time, each repeated for ever.                              *)
(***************************************************************************)
EXTENDS Junos

CONSTANTS
    Rendered,  \* statements of the pre-stage render, the host name among them
    Transit,   \* temporary management: VLAN, reserved port, trunk member
    Port,      \* silent ports of the approved plan; p stands for
               \* "interfaces p disable" in a configuration
    Foreign,   \* statements of other people
    Faults     \* what may go wrong

Fault == {"rpc",    \* an RPC raises and the device did nothing
          "lost",   \* an RPC raises although the device did its work
          "disk",   \* persisting a record raises
          "crash",  \* the process dies or is interrupted at the keyboard
          "timer",  \* the confirm window closes on the command that opened it
          "edits",  \* somebody leaves uncommitted edits on an unlocked switch
          "rebind"} \* identify is run again, by hand, on a configured EX4400

ASSUME PayloadAssumption == Rendered # {} /\ Transit # {} /\ Port # {}
ASSUME DisjointAssumption ==
    /\ Rendered \cap (Transit \cup Port \cup Foreign) = {}
    /\ Transit \cap (Port \cup Foreign) = {} /\ Port \cap Foreign = {}
ASSUME FaultsAssumption == Faults \subseteq Fault

Switch == {"ex4400", "ex4300"}
Command == {"run", "recovery", "probe"}
Statement == Rendered \cup Transit \cup Port \cup Foreign

VARIABLES
    device,     \* the two switches
    bound,      \* host name of the newest bootstrap identity
    command,    \* the command at work; "run" between commands
    pc,         \* where it is; "idle" between commands
    locked,     \* it holds the lock of its switch
    ports,      \* the probe's ports: approved, then locked_interfaces
    disabled,   \* disabled_by_probe
    tx,         \* the transaction in memory
    record,     \* newest transaction of run and of recovery, on disk
    succeeded,  \* commands with an older transaction that says success
    outcome,    \* how the last command ended: it told success or failure,
                \* told that ports are "not restored", or was "killed"
    overtaken   \* history: commands on whose trial the confirm window
                \* closed while they were still at work on it

memory == <<command, ports, disabled>>
disk == <<record, succeeded>>
vars == <<device, bound, pc, locked, memory, tx, disk, outcome, overtaken>>

Status == {"NONE", "APPROVED", "TRIAL", "ROLLED_BACK",
           "AUTO_ROLLBACK_PENDING", "COMMITTED_AND_CONFIRMED"}
Change == (SUBSET Statement) \X (SUBSET Statement)
Transaction == [status : Status, validation : {"PENDING", "PASS", "FAIL"},
                diff : Change]
NewTransaction(diff) == [status |-> "APPROVED", validation |-> "PENDING", diff |-> diff]
NoTransaction == [status |-> "NONE", validation |-> "PENDING", diff |-> <<{}, {}>>]

Target(c) == IF c = "run" THEN "ex4400" ELSE "ex4300"
sw == Target(command)
Payload(c) == IF c = "run" THEN Rendered ELSE Transit
HostName == IF Rendered \subseteq device["ex4400"].running THEN "planned" ELSE "bootstrap"

(* What the switch must look like: for a validation to pass, for recovery  *)
(* to start (_candidate_statements), and for a port to be bounced (a port  *)
(* may at any time have a client, be down or not be an access port).       *)
RunIsValid == Rendered \subseteq device["ex4400"].running
RecoveryIsValid == Transit \subseteq device["ex4300"].running
RecoveryPortEmpty == Transit \cap device["ex4300"].running = {}
Eligible(some) == SUBSET (some \ device["ex4300"].running)

PersistPoint == {"persist-approved", "persist-trial", "persist-validated",
                 "persist-rollback", "persist-done"}
RpcPoint == {"lock", "recheck", "load", "check", "prompt", "commit", "validate",
             "confirm", "disable", "enable-load", "enable-check", "enable", "observe"}

-----------------------------------------------------------------------------
Init == /\ device = [s \in Switch |-> NewDevice({})]
        /\ bound = "bootstrap"
        /\ command = "run" /\ pc = "idle" /\ locked = FALSE
        /\ ports = {} /\ disabled = {}
        /\ tx = NoTransaction
        /\ record = [c \in {"run", "recovery"} |-> [tx |-> NoTransaction, intact |-> TRUE]]
        /\ succeeded = {}
        /\ outcome = "told"
        /\ overtaken = {}

Set(d) == device' = [device EXCEPT ![sw] = d]
Goto(point) == pc' = point /\ UNCHANGED <<bound, locked, memory, outcome>>

(* The command returns, raises or dies.  unlock() and close() give up      *)
(* whatever the candidate still holds.                                     *)
EndAs(how, d) == /\ Set(IF locked THEN Discard(d) ELSE d)
                 /\ pc' = "idle" /\ locked' = FALSE
                 /\ command' = "run" /\ ports' = {} /\ disabled' = {}
                 /\ tx' = NoTransaction
                 /\ outcome' = how
                 /\ UNCHANGED bound

Start(c, chosen) == /\ pc = "idle"
                    /\ command' = c /\ ports' = chosen
                    /\ pc' = "lock" /\ outcome' = "told"
                    /\ UNCHANGED <<device, bound, locked, disabled, tx, disk>>

(* The target must still carry the host name its identity was bound with.  *)
StartRun == HostName = bound /\ Start("run", {})

(* The switch is read before it is locked.                                 *)
StartRecovery == RecoveryPortEmpty /\ Start("recovery", {})

(* The operator approves the ports that are up and silent now.             *)
StartProbe == \E chosen \in Eligible(Port) \ {{}} : Start("probe", chosen)

Identify == /\ "rebind" \in Faults /\ pc = "idle"
            /\ bound' = HostName
            /\ UNCHANGED <<device, pc, locked, memory, tx, disk, outcome>>

-----------------------------------------------------------------------------
(* Lock, load, check                                                       *)

(* Mutant: the candidate is edited without the lock.                       *)
LockNever == /\ pc = "lock"
             /\ pc' = IF command # "run" /\ ~Clean(device[sw]) THEN "failed"
                      ELSE IF command = "probe" THEN "recheck" ELSE "load"
             /\ UNCHANGED <<device, bound, locked, memory, tx, disk, outcome>>
(* Mutant: the old switch's candidate is not looked at.                    *)
LockDirty == /\ pc = "lock"
             /\ locked' = TRUE
             /\ pc' = IF command = "probe" THEN "recheck" ELSE "load"
             /\ UNCHANGED <<device, bound, memory, tx, disk, outcome>>

(* A candidate with edits is refused by Junos, or by the command's own     *)
(* diff(); run has no such check and goes on with the edits in it.         *)
Lock == /\ pc = "lock"
        /\ \/ /\ locked' = TRUE
              /\ pc' = IF command # "run" /\ ~Clean(device[sw]) THEN "failed"
                       ELSE IF command = "probe" THEN "recheck" ELSE "load"
           \/ ~Clean(device[sw]) /\ pc' = "failed" /\ UNCHANGED locked
        /\ UNCHANGED <<device, bound, memory, tx, disk, outcome>>

(* Under the lock only the approved ports that are still silent stay.      *)
Recheck == /\ pc = "recheck"
           /\ \E still \in Eligible(ports) :
                IF still = {} THEN EndAs("told", device[sw])
                ELSE /\ ports' = still /\ pc' = "load"
                     /\ UNCHANGED <<device, bound, command, locked, disabled, tx, outcome>>
           /\ UNCHANGED disk

Load == /\ pc = "load"
        /\ Set(Merge(device[sw], IF command = "probe" THEN ports ELSE Payload(command)))
        /\ Goto("check")
        /\ UNCHANGED <<tx, disk>>

(* commit_check() and diff().  With an empty diff run validates what is    *)
(* there and ends without a transaction; recovery's payload was absent     *)
(* when the command started, so its own branch for that is never taken.    *)
Check == /\ pc = "check"
         /\ \E d \in CommitChecks(device[sw]) :
              IF Clean(d) THEN EndAs("told", d)
              ELSE Set(d) /\ Goto(IF command = "probe" THEN "disable" ELSE "prompt")
                   /\ UNCHANGED tx
         /\ UNCHANGED disk

Approve == /\ pc = "prompt"
           /\ tx' = NewTransaction(Diff(device[sw]))
           /\ Goto("persist-approved")
           /\ UNCHANGED <<device, disk>>

Deny == /\ pc = "prompt"
        /\ EndAs("told", device[sw])
        /\ UNCHANGED disk

-----------------------------------------------------------------------------
(* run and recovery: commit confirmed, validate, confirm                   *)

TrialCommit == /\ pc = "commit"
               /\ Set(CommitConfirmed(device[sw]))
               /\ \/ /\ tx' = IF command = "run" THEN [tx EXCEPT !.status = "TRIAL"] ELSE tx
                     /\ Goto(IF command = "run" THEN "persist-trial" ELSE "validate")
                  \/ "lost" \in Faults /\ Goto("failed") /\ UNCHANGED tx
               /\ UNCHANGED disk

(* Identity, host key and the statements read back.  A failure is rolled   *)
(* back by run; recovery leaves it to the confirm window.                  *)
Validate == /\ pc = "validate"
            /\ \/ /\ IF command = "run" THEN RunIsValid ELSE RecoveryIsValid
                  /\ tx' = [tx EXCEPT !.validation = "PASS"]
                  /\ Goto(IF command = "run" THEN "persist-validated" ELSE "confirm")
               \/ /\ command = "run" /\ Goto("rollback") /\ UNCHANGED tx
               \/ /\ command = "recovery" /\ Goto("failed") /\ UNCHANGED tx
            /\ UNCHANGED <<device, disk>>

(* Mutant: the rollback is loaded and never committed.                     *)
RollbackUncommitted ==
    /\ pc = "rollback"
    /\ Set(LoadRollback1(device[sw]))
    /\ tx' = [tx EXCEPT !.validation = "FAIL", !.status = "ROLLED_BACK"]
    /\ Goto("persist-rollback")
    /\ UNCHANGED disk

(* Mutant: a status outside the record's schema.                           *)
RollbackUnknown == /\ pc = "rollback"
                   /\ Set(Commit(LoadRollback1(device[sw])))
                   /\ tx' = [tx EXCEPT !.validation = "FAIL", !.status = "REVERTED"]
                   /\ Goto("persist-rollback")
                   /\ UNCHANGED disk

Rollback == /\ pc = "rollback"
            /\ \E status \in {"ROLLED_BACK", "AUTO_ROLLBACK_PENDING"} :
                 /\ \/ /\ status = "ROLLED_BACK" \/ "lost" \in Faults
                       /\ Set(Commit(LoadRollback1(device[sw])))
                    \/ /\ status = "AUTO_ROLLBACK_PENDING" /\ "rpc" \in Faults
                       /\ UNCHANGED device
                 /\ tx' = [tx EXCEPT !.validation = "FAIL", !.status = status]
            /\ Goto("persist-rollback")
            /\ UNCHANGED disk

(* Mutant: success is claimed and the trial left unconfirmed.              *)
ConfirmForgotten == /\ pc = "confirm"
                    /\ tx' = [tx EXCEPT !.status = "COMMITTED_AND_CONFIRMED"]
                    /\ Goto("persist-done")
                    /\ UNCHANGED <<device, disk>>

Confirm == /\ pc = "confirm"
           /\ Set(Commit(device[sw]))
           /\ \/ /\ tx' = [tx EXCEPT !.status = "COMMITTED_AND_CONFIRMED"]
                 /\ Goto("persist-done")
              \/ "lost" \in Faults /\ Goto("failed") /\ UNCHANGED tx
           /\ UNCHANGED disk

-----------------------------------------------------------------------------
(* The record: run's transactions each have a directory of their own       *)

Success(r) == r.intact /\ r.tx.status = "COMMITTED_AND_CONFIRMED"
Write(r) == /\ record' = [record EXCEPT ![command] = r]
            /\ succeeded' = IF pc = "persist-approved" /\ Success(record[command])
                            THEN succeeded \cup {command} ELSE succeeded

AfterPersist == CASE pc = "persist-approved"  -> "commit"
                  [] pc = "persist-trial"     -> "validate"
                  [] pc = "persist-validated" -> "confirm"
                  [] OTHER                    -> "idle"

Persist == /\ pc \in PersistPoint
           /\ Write([tx |-> tx, intact |-> TRUE])
           /\ IF AfterPersist = "idle"
              THEN EndAs("told", device[sw])
              ELSE Goto(AfterPersist) /\ UNCHANGED <<device, tx>>

(* Stopped half way, the body may be there and integrity.json not.         *)
Torn == Write([tx |-> tx, intact |-> FALSE]) \/ UNCHANGED disk

(* Saving the verdict is part of the guarded validation of run.            *)
PersistFails == /\ "disk" \in Faults
                /\ pc \in PersistPoint
                /\ Torn
                /\ Goto(IF pc = "persist-validated" THEN "rollback" ELSE "failed")
                /\ UNCHANGED <<device, tx>>

-----------------------------------------------------------------------------
(* probe: disable, wait, enable, observe                                   *)

Disable == /\ pc = "disable"
           /\ Set(Commit(device[sw]))
           /\ \/ /\ disabled' = ports /\ pc' = "enable-load"
              \/ /\ "lost" \in Faults /\ pc' = "failed" /\ UNCHANGED disabled
           /\ UNCHANGED <<bound, locked, command, ports, tx, disk, outcome>>

LoadEnable == /\ pc = "enable-load"
              /\ Set(Remove(device[sw], ports))
              /\ Goto("enable-check")
              /\ UNCHANGED <<tx, disk>>

CheckEnable == /\ pc = "enable-check"
               /\ Goto("enable")
               /\ UNCHANGED <<device, tx, disk>>

(* After the second commit the switch is unlocked, then watched.           *)
Enable == /\ pc = "enable"
          /\ Set(Commit(device[sw]))
          /\ \/ /\ disabled' = {} /\ pc' = "observe" /\ locked' = FALSE
             \/ /\ "lost" \in Faults /\ pc' = "failed" /\ UNCHANGED <<disabled, locked>>
          /\ UNCHANGED <<bound, command, ports, tx, disk, outcome>>

(* A collection and the probe's record; neither writes to the switch.      *)
Observe == /\ pc = "observe"
           /\ EndAs("told", device[sw])
           /\ UNCHANGED disk

-----------------------------------------------------------------------------
(* The except clauses                                                      *)

RpcFails == /\ "rpc" \in Faults
            /\ pc \in RpcPoint
            /\ Goto(IF command = "run" /\ pc = "validate" THEN "rollback" ELSE "failed")
            /\ UNCHANGED <<device, tx, disk>>

(* A trial is left to its window; a candidate is rolled back.              *)
Abandon == /\ pc = "failed" /\ disabled = {}
           /\ EndAs("told", device[sw])
           /\ UNCHANGED disk

(* Mutant: the emergency restore is only a rollback of the candidate.      *)
RestoreCandidate == /\ pc = "failed" /\ disabled # {}
                    /\ EndAs("told", Discard(device[sw]))
                    /\ UNCHANGED disk

(* _restore_enabled                                                        *)
Restore == /\ pc = "failed" /\ disabled # {}
           /\ \/ EndAs("told", Commit(Remove(Discard(device[sw]), disabled)))
              \/ /\ "lost" \in Faults
                 /\ EndAs("not restored", Commit(Remove(Discard(device[sw]), disabled)))
              \/ "rpc" \in Faults /\ EndAs("not restored", device[sw])
           /\ UNCHANGED disk

-----------------------------------------------------------------------------
(* The environment                                                         *)

Crash == /\ "crash" \in Faults
         /\ pc # "idle"
         /\ EndAs("killed", device[sw])
         /\ IF pc \in PersistPoint THEN Torn ELSE UNCHANGED disk

(* The window may be one minute, an RPC may take two and the validation    *)
(* has no limit: it may close on a command that has yet to confirm or to   *)
(* roll back, and rollback 1 is then what was on trial.                    *)
TrialPoint == {"persist-trial", "validate", "persist-validated", "confirm", "rollback"}
TimerExpires(s) ==
    LET atWork == sw = s /\ pc \in TrialPoint
    IN  /\ device[s].pending
        /\ atWork => "timer" \in Faults
        /\ device' = [device EXCEPT ![s] = AutoRollback(@)]
        /\ overtaken' = IF atWork THEN overtaken \cup {command} ELSE overtaken
        /\ UNCHANGED <<bound, pc, locked, memory, tx, disk, outcome>>

SomebodyEdits(s) == /\ "edits" \in Faults
                    /\ pc = "idle" \/ (sw = s /\ ~locked)
                    /\ device' = [device EXCEPT ![s].candidate = @ \cup Foreign]
                    /\ UNCHANGED <<bound, pc, locked, memory, tx, disk, outcome>>

-----------------------------------------------------------------------------
CommandStep == /\ UNCHANGED overtaken
               /\ \/ Lock \/ Recheck \/ Load \/ Check \/ TrialCommit \/ Validate
                  \/ Rollback \/ Confirm \/ Persist \/ PersistFails
                  \/ Disable \/ LoadEnable \/ CheckEnable \/ Enable \/ Observe
                  \/ RpcFails \/ Abandon \/ Restore

Next == \/ /\ UNCHANGED overtaken
           /\ \/ StartRun \/ StartRecovery \/ StartProbe \/ Identify
              \/ Approve \/ Deny \/ Crash
              \/ \E s \in Switch : SomebodyEdits(s)
        \/ CommandStep
        \/ \E s \in Switch : TimerExpires(s)

Spec == Init /\ [][Next]_vars

(* A command computes on, and its RPCs have timeouts.                      *)
FairSpec == Spec /\ WF_vars(CommandStep)

-----------------------------------------------------------------------------
(* Properties                                                              *)

TypeOK == /\ device \in [Switch -> DeviceType(Statement)]
          /\ bound \in {"bootstrap", "planned"}
          /\ command \in Command
          /\ pc \in {"idle", "failed", "rollback"} \cup RpcPoint \cup PersistPoint
          /\ locked \in BOOLEAN
          /\ ports \subseteq Port /\ disabled \subseteq ports
          /\ tx \in Transaction
          /\ record \in [{"run", "recovery"} -> [tx : Transaction, intact : BOOLEAN]]
          /\ succeeded \subseteq {"run", "recovery"}
          /\ outcome \in {"told", "not restored", "killed"}
          /\ overtaken \subseteq {"run", "recovery"}

(* What goes on trial is exactly the diff that the operator approved and   *)
(* that is on disk by then: nothing slips into the candidate between the   *)
(* prompt and the commit, and no commit precedes its record.               *)
TrialIsApproved ==
    [][\A c \in {"run", "recovery"} :
         LET old == device[Target(c)]
             new == device'[Target(c)]
         IN  new.pending /\ new.running # old.running =>
               record[c].tx.diff = <<new.running \ old.running,
                                     old.running \ new.running>>]_vars

(* A transaction that says COMMITTED_AND_CONFIRMED, the newest or an older *)
(* one, is true whatever the commands did since: its statements are live,  *)
(* and still live should a later trial be taken away.  The code does not   *)
(* notice that its window has closed: the final commit is then an empty    *)
(* one and is taken for a success.  So this is claimed of a command until  *)
(* a window has overtaken it.                                              *)
SuccessIsLive ==
    \A c \in {"run", "recovery"} \ overtaken :
        Success(record[c]) \/ c \in succeeded =>
            LET d == device[Target(c)]
            IN  /\ Payload(c) \subseteq d.running
                /\ d.pending => Payload(c) \subseteq d.prior

(* A transaction that says its change was rolled back after a failed       *)
(* validation is true: none of the render's statements it added is live.   *)
(* Until a window has overtaken the run: rollback 1 is then the render,    *)
(* which the rollback commits for good.                                    *)
RolledBackIsGone ==
    LET r == record["run"]
    IN  "run" \notin overtaken /\ r.intact /\ r.tx.status = "ROLLED_BACK" =>
          r.tx.diff[1] \cap Rendered \cap device["ex4400"].running = {}

(* The probe and the temporary management never carry other people's       *)
(* uncommitted edits into the old switch.                                  *)
OldSwitchOnlyPayload == [][device'["ex4300"].running \cap Foreign
                             = device["ex4300"].running \cap Foreign]_vars

(* "Every touched port will then be re-enabled": each port the probe knows *)
(* it disabled is enabled in the end, unless the process is killed or the  *)
(* command says that the emergency restore failed.                         *)
TouchedPortsComeBack ==
    \A p \in Port : p \in disabled ~> \/ p \notin device["ex4300"].running
                                      \/ outcome \in {"killed", "not restored"}

(* The same promise as the operator reads it: between commands no silent   *)
(* port is left disabled.                                                  *)
NoPortLeftDisabled == pc = "idle" => Port \cap device["ex4300"].running = {}
=============================================================================
