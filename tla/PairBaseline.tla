---------------------------- MODULE PairBaseline ----------------------------
(***************************************************************************)
(* The two commands that prepare the QFX pair before any migration:        *)
(* ex-migration-qfx-bootstrap, which creates ESI-LAGs on ports both        *)
(* switches have free, and migrate site-stage, which adds the management   *)
(* VLAN to the LAGs of an approved site discovery and publishes the        *)
(* inventory and the active policy every migration binds to.               *)
(*                                                                         *)
(* Both write the pair with commit confirmed; neither keeps a record of    *)
(* the attempt.  A port stands for an ET interface and its AE.             *)
(***************************************************************************)
EXTENDS Junos, Naturals, Sequences

CONSTANTS
    Port,            \* candidate ET interfaces with their deterministic AE
    Open,            \* ports an administrator may change
    Initial,         \* configurations the pair may start from
    MaxDiscoveries,  \* bound: approved site discoveries
    Faults           \* what may go wrong

Fault == {"rpc",    \* an RPC raises and the device did nothing
          "lost",   \* an RPC raises although the device did its work
          "disk",   \* writing the inventory raises
          "crash",  \* the process dies or is interrupted at the keyboard
          "timer",  \* a confirm window closes while its own run is at work
          "early",  \* a command starts while a trial of the last one waits
          "admin"}  \* an administrator edits or commits on an unlocked switch

Role == {"qfx-a", "qfx-b"}

Lag(p) == [port |-> p, kind |-> "esi-lag"]
Member(p) == [port |-> p, kind |-> "management"]
Other(p) == [port |-> p, kind |-> "other"]    \* another VLAN, another use
Statement == [port : Port, kind : {"esi-lag", "management", "other"}]

ASSUME InitialAssumption == Initial \subseteq [Role -> SUBSET Statement]
ASSUME OpenAssumption == Open \subseteq Port
ASSUME DiscoveriesAssumption == MaxDiscoveries \in Nat
ASSUME FaultsAssumption == Faults \subseteq Fault

VARIABLES
    device,       \* the two switches
    command,      \* the command at work; "none" between commands
    pc,           \* where it is
    payload,      \* ports it writes
    locked,       \* locked / configs
    committed,    \* committed
    confirmed,    \* final confirmations done
    undone,       \* roles the rollback loop has dealt with
    discoveries,  \* approved site discoveries, oldest first, each with the
                  \* directory its inventory is written to
    policy,       \* ports of the active policy
    meddled       \* history: ports an administrator has changed

run == <<command, pc, payload, locked, committed, confirmed, undone>>
disk == <<discoveries, policy>>
vars == <<device, run, disk, meddled>>

Directory == {"absent", "claimed", "body", "whole"}  \* mkdir, inventory.json, integrity.json
Point == {"idle", "lock", "recheck", "load", "prompt", "commit", "validate",
          "confirm", "inventory", "policy", "failed"}

IsNext(r, done) == r \notin done /\ (r = "qfx-b" => "qfx-a" \in done)
IsNextBack(r, done) == r \notin done /\ (r = "qfx-a" => "qfx-b" \in done)

-----------------------------------------------------------------------------
Used(r, p) == \E s \in device[r].running : s.port = p

(* build_pair_preflight: CREATE where both sides are free; a port free on  *)
(* one side only fails the whole preflight.                                *)
Create == {p \in Port : \A r \in Role : ~Used(r, p)}
PreflightPasses == \A p \in Port : Used("qfx-a", p) <=> Used("qfx-b", p)

(* _build_site_discovery: the same LAG on both sides, no VLAN but the      *)
(* management VLAN on it.                                                  *)
Sound(r, p) == Lag(p) \in device[r].running /\ Other(p) \notin device[r].running
Attachments == {p \in Port : \A r \in Role : Sound(r, p)}

(* A discovery is named by the LAGs it found and by those that carry the   *)
(* management VLAN already, switch by switch.  (The reasons why the other  *)
(* ports are blocked, also part of the name, are left out.)                *)
Managed == {rp \in Role \X Attachments : Member(rp[2]) \in device[rp[1]].running}

(* render_esi_lag and _stage_statements                                    *)
Statements == IF command = "bootstrap"
              THEN {Lag(p) : p \in payload} \cup {Member(p) : p \in payload}
              ELSE {Member(p) : p \in payload}

Released == [r \in Role |-> IF r \in locked THEN Discard(device[r]) ELSE device[r]]

Init == /\ device \in {[r \in Role |-> NewDevice(c[r])] : c \in Initial}
        /\ command = "none" /\ pc = "idle" /\ payload = {}
        /\ locked = {} /\ committed = {} /\ confirmed = {} /\ undone = {}
        /\ discoveries = <<>>
        /\ policy = {}
        /\ meddled = {}

Goto(point) == /\ pc' = point
               /\ UNCHANGED <<command, payload, locked, committed, confirmed, undone>>

(* finally: unlock and close                                               *)
EndRun == /\ device' = Released
          /\ command' = "none" /\ pc' = "idle" /\ payload' = {}
          /\ locked' = {} /\ committed' = {} /\ confirmed' = {} /\ undone' = {}
          /\ UNCHANGED meddled

-----------------------------------------------------------------------------
(* The start of the commands                                               *)

Settled == \A r \in Role : ~device[r].pending
MayStart == pc = "idle" /\ (Settled \/ "early" \in Faults)

Start(name, ports) ==
    /\ MayStart
    /\ command' = name /\ pc' = "lock" /\ payload' = ports
    /\ UNCHANGED <<device, locked, committed, confirmed, undone, disk, meddled>>

(* The run also ends before the locks when the preflight fails, when there *)
(* is nothing to create, and under --dry-run.                              *)
Bootstrap == PreflightPasses /\ Create # {} /\ Start("bootstrap", Create)

Last == discoveries[Len(discoveries)]
SiteStage == discoveries # <<>> /\ Start("site-stage", Last.ports)

(* site-discover.  The same observation has the same identity: approved a  *)
(* second time it keeps its old record, and its old date.                  *)
SiteDiscover ==
    /\ MayStart
    /\ Attachments # {}
    /\ Len(discoveries) < MaxDiscoveries
    /\ \A i \in DOMAIN discoveries : <<discoveries[i].ports, discoveries[i].managed>> # <<Attachments, Managed>>
    /\ discoveries' = Append(discoveries, [ports |-> Attachments, managed |-> Managed,
                                          inventory |-> "absent"])
    /\ UNCHANGED <<device, run, policy, meddled>>

-----------------------------------------------------------------------------
(* Locks and candidates                                                    *)

Refused(r) == ~Clean(device[r]) /\ locked' \in {locked, locked \cup {r}} /\ pc' = "failed"

BootstrapLockDirty(r) ==               \* mutant: the diff is not looked at
    /\ command = "bootstrap" /\ pc = "lock"
    /\ IsNext(r, locked)
    /\ locked' = locked \cup {r}
    /\ pc' = IF locked' = Role THEN "recheck" ELSE "lock"
    /\ UNCHANGED <<device, command, payload, committed, confirmed, undone, disk, meddled>>
BootstrapLock(r) ==
    /\ command = "bootstrap" /\ pc = "lock"
    /\ IsNext(r, locked)
    /\ \/ Refused(r)
       \/ /\ Clean(device[r])
          /\ locked' = locked \cup {r}
          /\ pc' = IF locked' = Role THEN "recheck" ELSE "lock"
    /\ UNCHANGED <<device, command, payload, committed, confirmed, undone, disk, meddled>>

(* Mutant: the observations made before the locks are relied on.           *)
RecheckSkipped == pc = "recheck" /\ Goto("load") /\ UNCHANGED <<device, disk, meddled>>

(* The preflight again, under both locks                                   *)
Recheck == /\ pc = "recheck"
           /\ Goto(IF PreflightPasses /\ Create = payload THEN "load" ELSE "failed")
           /\ UNCHANGED <<device, disk, meddled>>

(* load, commit_check; diffs not empty and equal                           *)
BootstrapLoad ==
    /\ pc = "load"
    /\ \E a \in CommitChecks(Merge(device["qfx-a"], Statements)),
          b \in CommitChecks(Merge(device["qfx-b"], Statements)) :
         device' = [r \in Role |-> IF r = "qfx-a" THEN a ELSE b]
    /\ Goto(IF /\ \A r \in Role : ~Clean(device'[r])
               /\ Diff(device'["qfx-a"]) = Diff(device'["qfx-b"])
            THEN "prompt" ELSE "failed")
    /\ UNCHANGED <<disk, meddled>>

(* site-stage locks, loads and checks one switch after the other; with     *)
(* nothing to change on either it goes straight to validation.             *)
SiteLock(r) ==
    /\ command = "site-stage" /\ pc = "lock"
    /\ IsNext(r, locked)
    /\ \/ Refused(r) /\ UNCHANGED device
       \/ /\ Clean(device[r])
          /\ locked' = locked \cup {r}
          /\ \E d \in CommitChecks(Merge(device[r], Statements)) :
               device' = [device EXCEPT ![r] = d]
          /\ pc' = IF locked' # Role THEN "lock"
                   ELSE IF \A q \in Role : Clean(device'[q]) THEN "validate" ELSE "prompt"
    /\ UNCHANGED <<command, payload, committed, confirmed, undone, disk, meddled>>

Approve == pc = "prompt" /\ Goto("commit") /\ UNCHANGED <<device, disk, meddled>>
Deny == pc = "prompt" /\ EndRun /\ UNCHANGED disk

-----------------------------------------------------------------------------
(* Trial, validation, final confirmation                                   *)

TrialCommit(r) ==
    /\ pc = "commit"
    /\ IsNext(r, committed)
    /\ device' = [device EXCEPT ![r] = CommitConfirmed(@)]
    /\ \/ /\ committed' = committed \cup {r}
          /\ pc' = IF committed' = Role THEN "validate" ELSE "commit"
       \/ /\ "lost" \in Faults
          /\ pc' = "failed"
          /\ UNCHANGED committed
    /\ UNCHANGED <<command, payload, locked, confirmed, undone, disk, meddled>>

(* The bootstrap preflights again and wants each physical port configured  *)
(* on both sides; site-stage wants LAG and exact membership on both.       *)
ValidSite == \A r \in Role, p \in payload :
    Sound(r, p) /\ Member(p) \in device[r].running
ValidBootstrap == PreflightPasses /\ \A r \in Role, p \in payload : Used(r, p)

Valid == IF command = "bootstrap" THEN ValidBootstrap ELSE ValidSite

AfterValidateUnknown == "publish"        \* mutant: a step that does not exist
AfterValidateUnconfirmed == "inventory"  \* mutant: published before the final commits
AfterValidate == IF committed # {} THEN "confirm" ELSE "inventory"

Validate == /\ pc = "validate"
            /\ Goto(IF Valid THEN AfterValidate ELSE "failed")
            /\ UNCHANGED <<device, disk, meddled>>

FinalCommit(r) ==
    /\ pc = "confirm"
    /\ IsNext(r, confirmed)
    /\ device' = [device EXCEPT ![r] = Commit(@)]
    /\ \/ /\ confirmed' = confirmed \cup {r}
          /\ pc' = IF confirmed' = Role THEN "inventory" ELSE "confirm"
       \/ /\ "lost" \in Faults
          /\ pc' = "failed"
          /\ UNCHANGED confirmed
    /\ UNCHANGED <<command, payload, locked, committed, undone, disk, meddled>>

(* The bootstrap prints its success and is done.                           *)
FinishBootstrap == /\ command = "bootstrap" /\ pc = "inventory"
                   /\ EndRun
                   /\ UNCHANGED disk

(* write_site_inventory: an existing directory must hold a whole record.   *)
(* It is named by the discovery, and the discovery chosen is the last one. *)
Inventory(is) == discoveries' = [discoveries EXCEPT ![Len(discoveries)].inventory = is]
WriteInventory ==
    /\ command = "site-stage" /\ pc = "inventory"
    /\ \/ Last.inventory \in {"absent", "whole"} /\ Inventory("whole") /\ Goto("policy")
       \/ /\ Last.inventory \in {"claimed", "body"}
          /\ Goto("failed")
          /\ UNCHANGED discoveries
    /\ UNCHANGED <<device, policy, meddled>>

(* Stopped half way, the new directory holds none, one or both files.      *)
HalfWritten ==
    IF command = "site-stage" /\ pc = "inventory" /\ Last.inventory = "absent"
    THEN \E is \in Directory : Inventory(is)
    ELSE UNCHANGED discoveries

(* write_active_policy                                                     *)
WritePolicy == /\ pc = "policy"
               /\ policy' = payload
               /\ EndRun
               /\ UNCHANGED discoveries

-----------------------------------------------------------------------------
(* Failures                                                                *)

RpcFails == /\ "rpc" \in Faults
            /\ pc \in {"lock", "recheck", "load", "commit", "validate", "confirm"}
            /\ Goto("failed")
            /\ UNCHANGED <<device, disk, meddled>>

DiskFails == /\ "disk" \in Faults
             /\ command = "site-stage" /\ pc \in {"inventory", "policy"}
             /\ HalfWritten
             /\ Goto("failed")
             /\ UNCHANGED <<device, policy, meddled>>

(* site-stage rolls back when commit_confirmed is set: from the second     *)
(* commit to the last confirmation.  The bootstrap always rolls back what  *)
(* it has locked.                                                          *)
RollsBack == IF command = "bootstrap" THEN locked
             ELSE IF committed = Role /\ confirmed # Role THEN committed ELSE {}

(* A commit that is already confirmed is rolled back like the others.      *)
Undo(r) == IF r \in committed THEN Commit(LoadRollback1(device[r]))
                              ELSE Discard(device[r])

(* Mutant: the loop does not remember whom it has dealt with.              *)
RollbackRoleForgets(r) ==
    /\ pc = "failed"
    /\ r \in RollsBack
    /\ IsNextBack(r, undone \cup (Role \ RollsBack))
    /\ \/ device' = [device EXCEPT ![r] = Undo(r)]
       \/ "rpc" \in Faults /\ UNCHANGED device
    /\ UNCHANGED <<run, disk, meddled>>

RollbackRole(r) ==
    /\ pc = "failed"
    /\ r \in RollsBack
    /\ IsNextBack(r, undone \cup (Role \ RollsBack))
    /\ undone' = undone \cup {r}
    /\ \/ device' = [device EXCEPT ![r] = Undo(r)]
       \/ "rpc" \in Faults /\ UNCHANGED device
    /\ UNCHANGED <<command, pc, payload, locked, committed, confirmed, disk, meddled>>

Raise == /\ pc = "failed"
         /\ RollsBack \subseteq undone
         /\ EndRun
         /\ UNCHANGED disk

(* KeyboardInterrupt, SIGKILL, power: no handler runs.                     *)
Crash == /\ "crash" \in Faults
         /\ pc # "idle"
         /\ EndRun
         /\ HalfWritten
         /\ UNCHANGED policy

-----------------------------------------------------------------------------
(* The environment                                                         *)

TimerExpires(r) == /\ device[r].pending
                   /\ pc = "idle" \/ "timer" \in Faults
                   /\ device' = [device EXCEPT ![r] = AutoRollback(@)]
                   /\ UNCHANGED <<run, disk, meddled>>

(* Somebody else puts a port of an unlocked switch to another use, leaves  *)
(* it in the candidate or commits it, or clears the port.                  *)
Admin(r, p) ==
    /\ "admin" \in Faults
    /\ r \notin locked /\ ~device[r].pending
    /\ \E config \in {device[r].running \cup {Other(p)},
                      {s \in device[r].running : s.port # p}} :
         LET edited == [device[r] EXCEPT !.candidate = config]
         IN  device' \in {[device EXCEPT ![r] = d] : d \in {edited, Commit(edited), Discard(edited)}}
    /\ meddled' = meddled \cup {p}
    /\ UNCHANGED <<run, disk>>

-----------------------------------------------------------------------------
RunStep == \/ Recheck \/ BootstrapLoad \/ Validate \/ FinishBootstrap
           \/ WriteInventory \/ WritePolicy \/ RpcFails \/ DiskFails \/ Raise
           \/ \E r \in Role : BootstrapLock(r) \/ SiteLock(r) \/ TrialCommit(r)
                              \/ FinalCommit(r) \/ RollbackRole(r)

Next == \/ Bootstrap \/ SiteStage \/ SiteDiscover \/ Approve \/ Deny
        \/ RunStep \/ Crash
        \/ \E r \in Role : TimerExpires(r) \/ \E p \in Open : Admin(r, p)

Spec == Init /\ [][Next]_vars

(* The process computes on, RPCs time out, the switches' timers fire.      *)
Fairness == WF_vars(RunStep) /\ \A r \in Role : WF_vars(TimerExpires(r))
FairSpec == Spec /\ Fairness

-----------------------------------------------------------------------------
(* Properties                                                              *)

Discovery == [ports : SUBSET Port, managed : SUBSET (Role \X Port), inventory : Directory]

TypeOK == /\ device \in [Role -> DeviceType(Statement)]
          /\ command \in {"none", "bootstrap", "site-stage"}
          /\ pc \in Point
          /\ payload \subseteq Port /\ policy \subseteq Port /\ meddled \subseteq Port
          /\ locked \subseteq Role /\ committed \subseteq Role
          /\ confirmed \subseteq Role /\ undone \subseteq Role
          /\ discoveries \in Seq(Discovery) /\ Len(discoveries) <= MaxDiscoveries

(* What the active policy offers to migrations is there on both switches   *)
(* and stays there: whatever attempts of either command failed or died     *)
(* since, no timer can take it away.  (Ports an administrator has changed  *)
(* are his.)                                                               *)
PolicyIsLive ==
    \A r \in Role, p \in policy \ meddled :
        /\ {Lag(p), Member(p)} \subseteq device[r].running
        /\ device[r].pending => {Lag(p), Member(p)} \subseteq device[r].prior

(* The bootstrap writes only ports that were free on both switches at the  *)
(* moment of its commit, whatever was committed between its preflight and  *)
(* its locks.                                                              *)
CreatesOnFreePorts ==
    command = "bootstrap" =>
        \A r \in committed, p \in payload :
            device[r].pending => \A s \in device[r].prior : s.port # p

(* What is on trial on a switch is what the run was approved to write:     *)
(* nothing left in its candidate by others rides along.                    *)
TrialIsPayload ==
    \A r \in committed : device[r].pending =>
        device[r].running \ device[r].prior \subseteq Statements

(* qfx5700-esi-bootstrap.md: on an exception "the utility attempts to roll *)
(* back both QFXs".  Between commands no port has its LAG on one side only.*)
NoOneSidedLag ==
    pc = "idle" /\ Settled =>
        \A p \in Port : Lag(p) \in device["qfx-a"].running
                          <=> Lag(p) \in device["qfx-b"].running

(* Every command that starts to write ends with the pair at rest.          *)
WriteEnds == committed # {} ~> (pc = "idle" /\ Settled)
=============================================================================
