---------------------------- MODULE CleanupProofs ----------------------------
(***************************************************************************)
(* Proofs about the final cleanup, for all edge ports and stale VLANs and  *)
(* every choice of completed endpoints.                                    *)
(***************************************************************************)
EXTENDS Cleanup, Integers, TLAPS

-----------------------------------------------------------------------------
(* The typing of the state                                                 *)

LEMMA StatementTyping ==
    TypeOK => /\ Added \in SUBSET Statement /\ Foreign \in SUBSET Statement
              /\ \A deleted \in SUBSET Stale : Removed(deleted) \in SUBSET Statement
              /\ \A read : Deletable(read) \in SUBSET Stale
BY DEF TypeOK, Added, Unused, Foreign, Removed, Statement, Deletable

LEMMA JunosTyping ==
    ASSUME NEW d \in DeviceType(Statement)
    PROVE  /\ Commit(d) \in DeviceType(Statement)
           /\ CommitConfirmed(d) \in DeviceType(Statement)
           /\ LoadRollback1(d) \in DeviceType(Statement)
           /\ Discard(d) \in DeviceType(Statement)
           /\ Commit(LoadRollback1(d)) \in DeviceType(Statement)
           /\ \A some \in SUBSET Statement : Merge(d, some) \in DeviceType(Statement)
           /\ \A any : Remove(d, any) \in DeviceType(Statement)
BY DEF DeviceType, Commit, CommitConfirmed, LoadRollback1, Discard, Merge, Remove

LEMMA TransactionTyping ==
    /\ NoTransaction \in Transaction
    /\ \A deleted \in SUBSET Stale : NewTransaction(deleted) \in Transaction
BY DEF NoTransaction, NewTransaction, Transaction, Status

LEMMA EndRunTyping ==
    ASSUME TypeOK, NEW d \in DeviceType(Statement), EndRun(d)
    PROVE  /\ device' \in DeviceType(Statement) /\ pc' = "idle"
           /\ config' \subseteq Statement /\ delete' \subseteq Stale
           /\ tx' \in Transaction
BY TransactionTyping DEF EndRun

LEMMA TornTyping ==
    ASSUME TypeOK, Torn
    PROVE  /\ plans' \in [SUBSET Stale -> {"none", "torn", "whole"}]
           /\ record' \in [tx : Transaction, intact : BOOLEAN]
<1>1. CASE UNCHANGED <<plans, record>>
  BY <1>1 DEF TypeOK
<1>2. CASE plans' = [plans EXCEPT ![delete] = "torn"] /\ UNCHANGED record
  BY <1>2 DEF TypeOK
<1>3. CASE record' = [tx |-> tx, intact |-> FALSE] /\ UNCHANGED plans
  BY <1>3 DEF TypeOK
<1>4. QED
  BY <1>1, <1>2, <1>3 DEF Torn

LEMMA ReleaseTyping ==
    TypeOK => Release \in DeviceType(Statement) /\ Discard(device) \in DeviceType(Statement)
BY JunosTyping DEF TypeOK, Release

LEMMA StepTyping == TypeOK /\ [Next]_vars => TypeOK'
<1> SUFFICES ASSUME TypeOK, [Next]_vars PROVE TypeOK'
  OBVIOUS
<1> USE DEF TypeOK, PersistPoint, RpcPoint, network, memory
<1>0. disturbed' \in BOOLEAN
  BY DEF Next, RunStep, TimerExpires, AdminCommits, vars
<1> USE <1>0
<1>1. CASE Start
  BY <1>1, StatementTyping DEF Start, DeviceType
<1>2. CASE WritePlan
  <2>1. plans' \in [SUBSET Stale -> {"none", "torn", "whole"}]
    BY <1>2 DEF WritePlan
  <2>2. CASE EndRun(device)
    BY <1>2, <2>1, <2>2, EndRunTyping DEF WritePlan
  <2>3. CASE Goto("lock") /\ UNCHANGED <<device, tx>>
    BY <1>2, <2>1, <2>3 DEF WritePlan, Goto
  <2>4. QED
    BY <1>2, <2>2, <2>3 DEF WritePlan
<1>3. CASE PlanOnly \/ Lock \/ Abandon \/ Deny
  <2>1. EndRun(device) \/ EndRun(Discard(device)) \/ EndRun(Release)
        \/ (Goto("recheck") /\ UNCHANGED <<device, tx>>)
    BY <1>3 DEF PlanOnly, Lock, Abandon, Deny
  <2>2. UNCHANGED <<completed, up, talking, plans, record>>
    BY <1>3 DEF PlanOnly, Lock, Abandon, Deny
  <2>3. QED
    BY <2>1, <2>2, EndRunTyping, ReleaseTyping DEF Goto
<1>4. CASE Recheck \/ Check \/ RpcFails \/ PersistFails
  <2>1. EndRun(device) \/ (/\ pc' \in {"load", "failed", "prompt"}
                           /\ UNCHANGED <<device, tx, config, delete>>)
    BY <1>4 DEF Recheck, Check, RpcFails, PersistFails, Fail, Goto
  <2>2. /\ UNCHANGED <<completed, up, talking>>
        /\ plans' \in [SUBSET Stale -> {"none", "torn", "whole"}]
        /\ record' \in [tx : Transaction, intact : BOOLEAN]
    BY <1>4, TornTyping DEF Recheck, Check, RpcFails, PersistFails
  <2>3. QED
    BY <2>1, <2>2, EndRunTyping
<1>5. CASE Load
  BY <1>5, StatementTyping, JunosTyping DEF Load, Goto
<1>6. CASE Approve
  BY <1>6, TransactionTyping DEF Approve, Goto
<1>7. CASE TrialCommit \/ Validate \/ Confirm
  <2>1. tx' \in Transaction
    BY <1>7 DEF TrialCommit, Validate, Confirm, Transaction, Status
  <2>2. device' \in DeviceType(Statement)
    BY <1>7, JunosTyping DEF TrialCommit, Validate, Confirm
  <2>3. QED
    BY <1>7, <2>1, <2>2 DEF TrialCommit, Validate, Confirm, Goto
<1>8. CASE Persist
  <2>1. record' \in [tx : Transaction, intact : BOOLEAN]
    BY <1>8 DEF Persist
  <2>2. CASE EndRun(Release)
    BY <1>8, <2>1, <2>2, EndRunTyping, ReleaseTyping DEF Persist
  <2>3. CASE /\ tx' = IF AfterPersist = "persist-done"
                      THEN [tx EXCEPT !.status = "COMMITTED_AND_CONFIRMED"] ELSE tx
             /\ Goto(AfterPersist)
             /\ UNCHANGED device
    <3>1. tx' \in Transaction
      BY <2>3 DEF Transaction, Status
    <3>2. AfterPersist \in {"idle", "failed", "rollback"} \cup RpcPoint \cup PersistPoint
      BY DEF AfterPersist
    <3>3. QED
      BY <1>8, <2>1, <2>3, <3>1, <3>2 DEF Persist, Goto
  <2>4. QED
    BY <1>8, <2>2, <2>3 DEF Persist
<1>9. CASE Rollback
  <2>1. tx' \in Transaction
    BY <1>9 DEF Rollback, Transaction, Status
  <2>2. device' \in DeviceType(Statement)
    BY <1>9, JunosTyping DEF Rollback
  <2>3. QED
    BY <1>9, <2>1, <2>2 DEF Rollback, Goto
<1>10. CASE Crash
  BY <1>10, EndRunTyping, TornTyping, ReleaseTyping DEF Crash
<1>11. CASE TimerExpires
  BY <1>11, JunosTyping DEF TimerExpires, AutoRollback
<1>12. CASE NetworkChanges
  BY <1>12 DEF NetworkChanges
<1>13. CASE SomebodyEdits \/ AdminCommits
  <2>1. device' \in DeviceType(Statement)
    <3>1. CASE SomebodyEdits
      BY <3>1, StatementTyping DEF SomebodyEdits, DeviceType
    <3>2. CASE AdminCommits
      <4>1. PICK s \in Foreign : \/ device' = Commit(Merge(device, {s}))
                                 \/ device' = Commit(Remove(device, {s}))
        BY <3>2 DEF AdminCommits
      <4>2. {s} \in SUBSET Statement
        BY <4>1, StatementTyping
      <4>3. DEFINE merged == Merge(device, {s})
                   removed == Remove(device, {s})
      <4>4. device \in DeviceType(Statement)
        BY DEF TypeOK
      <4>5. merged \in DeviceType(Statement) /\ removed \in DeviceType(Statement)
        BY <4>2, <4>4, JunosTyping
      <4>6. Commit(merged) \in DeviceType(Statement) /\ Commit(removed) \in DeviceType(Statement)
        <5> HIDE DEF merged, removed
        <5> QED  BY <4>5, JunosTyping
      <4>7. QED
        BY <4>1, <4>6
    <3>3. QED
      BY <1>13, <3>1, <3>2
  <2>2. QED
    BY <1>13, <2>1 DEF SomebodyEdits, AdminCommits
<1>14. CASE UNCHANGED vars
  BY <1>14 DEF vars
<1>15. QED
  BY <1>1, <1>2, <1>3, <1>4, <1>5, <1>6, <1>7, <1>8, <1>9, <1>10, <1>11, <1>12,
     <1>13, <1>14 DEF Next, RunStep

(* Every reachable state is well typed: the two statements of a            *)
(* transaction, its plan and the switch never leave their schema.          *)
THEOREM TypeCorrect == Spec => []TypeOK
<1>1. Init => TypeOK
  <2> SUFFICES ASSUME Init PROVE TypeOK
    OBVIOUS
  <2>1. {Member(p) : p \in completed} \cup {Uplink("all")} \cup {Vlan(v) : v \in Stale}
          \in SUBSET Statement
    BY DEF Init, Statement
  <2>2. QED
    BY <2>1, TransactionTyping DEF Init, NewDevice, DeviceType, TypeOK
<1>2. QED
  BY <1>1, StepTyping, PTL DEF Spec

-----------------------------------------------------------------------------
(* The two shapes a configuration of the EX4400 can have                   *)

Live == Uplink("production") \in device.running

(* Before the cleanup: every VLAN is there, the uplink carries all, and    *)
(* nothing of the hardening.                                               *)
Base(c) == /\ Uplink("all") \in c
           /\ \A v \in Stale : Vlan(v) \in c
           /\ Added \cap c = {}

(* Where the run stands decides what is loaded.  This holds whatever else  *)
(* happens: a run is past its checks only while no trial is open, and the  *)
(* lock keeps everybody else from the candidate.                           *)
Early == {"plan", "lock", "recheck", "load", "check", "prompt", "persist-approved", "commit"}
Loaded == {"check", "prompt", "persist-approved", "commit"}
Kept == {"persist-kept", "persist-done"}

LoadInv ==
    /\ device.pending => Live
    /\ pc \in Early => ~device.pending
    /\ pc \in {"recheck", "load"} \cup TrialPoint \cup Kept => Clean(device)
    /\ pc \in Loaded => device.candidate = (device.running \ Removed(delete)) \cup Added
    /\ pc \in {"load"} \cup Loaded => EndpointsLive

(* What the switch runs and what its timer would restore, and how far the  *)
(* run has come with it: until the pair of them is disturbed.              *)
DeviceInv == /\ Base(device.running) \/ Live
             /\ device.pending => Base(device.prior)

RunInv ==
    /\ pc \in Early => Base(device.running)
    /\ pc \in TrialPoint \cup Kept => Live
    /\ pc \in TrialPoint => device.pending
    /\ pc \in Kept => ~device.pending
    /\ pc \in {"persist-validated", "confirm"} \cup Kept => Hardened(delete)
    /\ pc = "persist-rollback" => device.pending \/ Base(device.running)

LEMMA StatementFacts ==
    /\ Uplink("all") # Uplink("production")
    /\ Uplink("all") \notin Foreign /\ Uplink("production") \notin Foreign
    /\ \A v : Vlan(v) \notin Foreign /\ Vlan(v) # Uplink("all") /\ Vlan(v) \notin Added
    /\ Uplink("production") \in Added /\ Uplink("all") \notin Added
    /\ Foreign \cap Added = {}
    /\ \A deleted : Uplink("all") \in Removed(deleted) /\ Added \cap Removed(deleted) = {}
    /\ \A deleted : Foreign \cap Removed(deleted) = {}
    /\ \A p, s : s \in Foreign => s # Disable(p)
BY DEF Uplink, Vlan, Member, Uses, Disable, Foreign, Added, Removed

(* The hardening is not there before the cleanup and there after it.       *)
LEMMA BaseOrLive == ASSUME Base(device.running) PROVE ~Live
BY StatementFacts DEF Base, Live

(* A disturbance is never taken back, and without one the timers and the   *)
(* administrators leave the trial of a run at work alone.                  *)
LEMMA Undisturbed ==
    ASSUME TypeOK, [Next]_vars, ~disturbed'
    PROVE  /\ ~disturbed
           /\ TimerExpires => pc \notin TrialPoint
           /\ AdminCommits => ~device.pending
BY DEF Next, RunStep, TimerExpires, AdminCommits, vars, TypeOK

(* An administrator changes nothing that the cleanup writes.               *)
LEMMA AdminKeeps ==
    ASSUME TypeOK, AdminCommits
    PROVE  /\ ~device'.pending /\ Clean(device')
           /\ Live' <=> Live
           /\ Base(device.running) => Base(device.running)'
           /\ \A deleted : Hardened(deleted) => Hardened(deleted)'
<1>0. PICK s \in Foreign : \/ device' = Commit(Merge(device, {s}))
                           \/ device' = Commit(Remove(device, {s}))
  BY DEF AdminCommits
<1>1. device'.running \in {device.running \cup {s}, device.running \ {s}}
  <2>1. device.candidate = device.running
    BY DEF AdminCommits, Clean
  <2>2. CASE device' = Commit(Merge(device, {s}))
    BY <2>1, <2>2 DEF Commit, Merge, TypeOK, DeviceType
  <2>3. CASE device' = Commit(Remove(device, {s}))
    BY <2>1, <2>3 DEF Commit, Remove, TypeOK, DeviceType
  <2>4. QED
    BY <1>0, <2>2, <2>3
<1>2. UNCHANGED completed
  BY DEF AdminCommits, network
<1>3. ~device'.pending /\ Clean(device')
  BY <1>0 DEF AdminCommits, Commit, Merge, Remove, Clean, TypeOK, DeviceType
<1>4. UNCHANGED Added
  BY <1>2 DEF Added, Unused
<1>5. Live' <=> Live
  BY <1>1, StatementFacts DEF Live
<1>6. Base(device.running) => Base(device.running)'
  BY <1>1, <1>4, StatementFacts DEF Base
<1>7. \A deleted : Hardened(deleted) => Hardened(deleted)'
  BY <1>1, <1>2, <1>4, StatementFacts DEF Hardened, Removed
<1>8. QED
  BY <1>3, <1>5, <1>6, <1>7

LEMMA CompletedStays == [Next]_vars => UNCHANGED <<completed, Added>>
<1>1. [Next]_vars => UNCHANGED completed
  BY DEF Next, RunStep, Start, PlanOnly, Approve, Deny, Crash, TimerExpires, NetworkChanges,
         SomebodyEdits, AdminCommits, WritePlan, Lock, Recheck, Load, Check, TrialCommit,
         Validate, Confirm, Persist, PersistFails, RpcFails, Abandon, Rollback, network, vars
<1>2. QED
  BY <1>1 DEF Added, Unused

LEMMA EndRunKeeps ==
    ASSUME TypeOK, EndRun(device) \/ EndRun(Discard(device)) \/ EndRun(Release)
    PROVE  /\ pc' = "idle"
           /\ UNCHANGED <<device.running, device.prior, device.pending>>
BY DEF EndRun, Release, Discard, TypeOK, DeviceType

-----------------------------------------------------------------------------
(* What goes on trial                                                      *)

LEMMA LoadStep == TypeOK /\ LoadInv /\ [Next]_vars => LoadInv'
<1> SUFFICES ASSUME TypeOK, LoadInv, [Next]_vars PROVE LoadInv'
  OBVIOUS
<1> USE StatementFacts, CompletedStays DEF Early, Loaded, Kept, TrialPoint
<1>1. ASSUME EndRun(device) \/ EndRun(Discard(device)) \/ EndRun(Release) PROVE LoadInv'
  BY <1>1, EndRunKeeps DEF LoadInv, Live
<1>2. ASSUME UNCHANGED <<device, delete>>,
             /\ pc' \in Early => pc \in Early
             /\ pc' \in {"recheck", "load"} \cup TrialPoint \cup Kept => Clean(device)
             /\ pc' \in Loaded => pc \in Loaded
             /\ pc' \in {"load"} \cup Loaded => EndpointsLive
      PROVE  LoadInv'
  BY <1>2 DEF LoadInv, Live, EndpointsLive, Clean
<1>3. CASE Start
  <2>1. ~device.pending /\ pc' = "plan" /\ UNCHANGED device
    BY <1>3 DEF Start, ConfigPasses, LoadInv, Live
  <2>2. QED
    BY <2>1 DEF LoadInv
<1>4. CASE WritePlan \/ Lock \/ PlanOnly \/ Abandon \/ Deny \/ Crash
  <2>1. \/ EndRun(device) \/ EndRun(Discard(device)) \/ EndRun(Release)
        \/ /\ UNCHANGED <<device, delete>>
           /\ \/ pc = "plan" /\ pc' = "lock"
              \/ pc = "lock" /\ pc' = "recheck" /\ Clean(device)
    BY <1>4 DEF WritePlan, Lock, PlanOnly, Abandon, Deny, Crash, Goto, memory
  <2>2. QED
    BY <1>1, <1>2, <2>1
<1>5. CASE Recheck \/ Check \/ Approve \/ Validate \/ RpcFails \/ PersistFails
  <2>1. EndRun(device) \/ (/\ UNCHANGED <<device, delete>>
                           /\ \/ pc' = "failed"
                              \/ pc = "recheck" /\ pc' = "load" /\ EndpointsLive
                              \/ pc = "check" /\ pc' = "prompt"
                              \/ pc = "prompt" /\ pc' = "persist-approved"
                              \/ pc = "validate" /\ pc' \in {"persist-validated", "rollback"})
    BY <1>5 DEF Recheck, Check, Approve, Validate, RpcFails, PersistFails, Fail, Goto, memory
  <2>2. QED
    BY <1>1, <1>2, <2>1 DEF LoadInv
<1>6. CASE Load
  <2>1. /\ pc = "load" /\ pc' = "check" /\ UNCHANGED delete
        /\ UNCHANGED <<device.running, device.pending>>
        /\ device'.candidate = (device.candidate \ Removed(delete)) \cup Added
    BY <1>6 DEF Load, Goto, memory, Merge, Remove, TypeOK, DeviceType
  <2>2. QED
    BY <2>1 DEF LoadInv, Live, EndpointsLive, Clean
<1>7. CASE TrialCommit
  <2>1. pc = "commit" /\ pc' \in {"persist-trial", "failed"}
    BY <1>7 DEF TrialCommit, Goto
  <2>2. device'.running = device.candidate /\ Clean(device')
    BY <1>7 DEF TrialCommit, CommitConfirmed, Commit, Clean, TypeOK, DeviceType
  <2>3. QED
    BY <2>1, <2>2 DEF LoadInv, Live
<1>8. CASE Confirm \/ Rollback
  <2>1. \/ pc' = "persist-rollback" /\ UNCHANGED device
        \/ /\ pc' \in {"persist-kept", "failed", "persist-rollback"}
           /\ ~device'.pending /\ Clean(device')
    <3>1. CASE Confirm
      <4>1. device' = Commit(device) /\ pc' \in {"persist-kept", "failed"}
        BY <3>1 DEF Confirm, Goto
      <4>2. QED
        BY <4>1 DEF Commit, Clean, TypeOK, DeviceType
    <3>2. CASE Rollback
      <4>1. /\ device' = Commit(LoadRollback1(device)) \/ UNCHANGED device
            /\ pc' = "persist-rollback"
        BY <3>2 DEF Rollback, Goto
      <4>2. CASE device' = Commit(LoadRollback1(device))
        BY <4>1, <4>2 DEF Commit, LoadRollback1, Clean, TypeOK, DeviceType
      <4>3. QED
        BY <4>1, <4>2
    <3>3. QED
      BY <1>8, <3>1, <3>2
  <2>2. CASE pc' = "persist-rollback" /\ UNCHANGED device
    BY <2>2 DEF LoadInv, Live, Clean
  <2>3. CASE /\ pc' \in {"persist-kept", "failed", "persist-rollback"}
             /\ ~device'.pending /\ Clean(device')
    BY <2>3 DEF LoadInv
  <2>4. QED
    BY <2>1, <2>2, <2>3
<1>9. CASE Persist
  <2>1. \/ EndRun(Release)
        \/ /\ pc \in {"persist-approved", "persist-trial", "persist-validated", "persist-kept"}
           /\ pc' = AfterPersist /\ UNCHANGED <<device, delete>>
    BY <1>9 DEF Persist, Goto, memory, PersistPoint, AfterPersist
  <2>2. QED
    BY <1>1, <1>2, <2>1 DEF LoadInv, AfterPersist
<1>10. CASE TimerExpires \/ AdminCommits
  <2>1. UNCHANGED pc /\ (device.pending \/ pc \in Unlocked)
    BY <1>10 DEF TimerExpires, AdminCommits
  <2>2. ~device'.pending /\ Clean(device')
    <3>1. CASE TimerExpires
      BY <3>1 DEF TimerExpires, AutoRollback, Commit, LoadRollback1, Clean, TypeOK, DeviceType
    <3>2. CASE AdminCommits
      BY <3>2, AdminKeeps
    <3>3. QED
      BY <1>10, <3>1, <3>2
  <2>3. QED
    BY <2>1, <2>2 DEF LoadInv, Unlocked
<1>11. CASE SomebodyEdits
  <2>1. /\ pc \in Unlocked /\ UNCHANGED pc
        /\ UNCHANGED <<device.running, device.pending>>
    BY <1>11 DEF SomebodyEdits, TypeOK, DeviceType
  <2>2. QED
    BY <2>1 DEF LoadInv, Live, Unlocked
<1>12. CASE NetworkChanges \/ UNCHANGED vars
  BY <1>12 DEF NetworkChanges, vars, network, memory, LoadInv, Live, EndpointsLive, Clean
<1>13. QED
  BY <1>3, <1>4, <1>5, <1>6, <1>7, <1>8, <1>9, <1>10, <1>11, <1>12 DEF Next, RunStep

LEMMA LoadInvariant == Spec => [](TypeOK /\ LoadInv)
<1>1. Init => LoadInv
  BY DEF Init, NewDevice, LoadInv, Early, Loaded, Kept, TrialPoint
<1>2. QED
  BY <1>1, LoadStep, TypeCorrect, PTL DEF Spec

(* What goes on trial is the hardening over a switch whose endpoints are   *)
(* live: between the look at it under the lock and the commit nothing can  *)
(* change what the switch runs or what is loaded, also after a window has  *)
(* overtaken an earlier run.                                               *)
THEOREM TrialSafety == Spec => TrialIsHardening
<1>1. TypeOK /\ LoadInv /\ [Next]_vars =>
        [device'.pending /\ ~device.pending =>
           /\ device'.running = (device.running \ Removed(delete)) \cup Added
           /\ EndpointsLive]_vars
  <2> SUFFICES ASSUME TypeOK, LoadInv, Next, device'.pending, ~device.pending
               PROVE  /\ device'.running = (device.running \ Removed(delete)) \cup Added
                      /\ EndpointsLive
    OBVIOUS
  <2>1. TrialCommit
    <3>1. device' \notin {device, Discard(device), Release, Commit(device),
                          Commit(LoadRollback1(device)), AutoRollback(device),
                          Merge(Remove(device, Removed(delete)), Added)}
      <4>1. \A d \in DeviceType(Statement) : ~Commit(d).pending
        BY DEF Commit, DeviceType
      <4>2. LoadRollback1(device) \in DeviceType(Statement)
        BY JunosTyping DEF TypeOK
      <4>3. ~Discard(device).pending /\ ~Release.pending
        BY DEF Discard, Release, TypeOK, DeviceType
      <4>4. ~Merge(Remove(device, Removed(delete)), Added).pending
        BY DEF Merge, Remove, TypeOK, DeviceType
      <4>5. QED
        BY <4>1, <4>2, <4>3, <4>4 DEF AutoRollback, TypeOK
    <3>2. ~SomebodyEdits /\ ~AdminCommits
      BY AdminKeeps DEF SomebodyEdits, TypeOK, DeviceType
    <3>3. ~EndRun(device) /\ ~EndRun(Discard(device)) /\ ~EndRun(Release)
      BY <3>1 DEF EndRun
    <3>4. ~PersistFails /\ ~RpcFails /\ ~Persist /\ ~WritePlan
      BY <3>1, <3>3 DEF PersistFails, RpcFails, Fail, Persist, WritePlan
    <3>5. QED
      BY <3>1, <3>2, <3>3, <3>4 DEF Next, RunStep, Start, PlanOnly, Approve, Deny, Crash,
         TimerExpires, NetworkChanges, Lock, Recheck, Load, Check, Validate, Confirm,
         Abandon, Rollback
  <2>2. pc = "commit" /\ device'.running = device.candidate
    BY <2>1 DEF TrialCommit, CommitConfirmed, Commit, TypeOK, DeviceType
  <2>3. QED
    BY <2>2 DEF LoadInv, Loaded
<1>2. QED
  BY <1>1, LoadInvariant, PTL DEF Spec, TrialIsHardening

-----------------------------------------------------------------------------
(* What the switch runs, until disturbed                                   *)

LEMMA EndRunInv ==
    ASSUME TypeOK, DeviceInv, [Next]_vars,
           EndRun(device) \/ EndRun(Discard(device)) \/ EndRun(Release)
    PROVE  DeviceInv' /\ RunInv'
BY EndRunKeeps, CompletedStays DEF DeviceInv, RunInv, Base, Live, Early, Kept, TrialPoint

(* Steps that only move the run on, over a switch that stays as it is.     *)
LEMMA QuietInv ==
    ASSUME DeviceInv, RunInv, [Next]_vars, UNCHANGED <<device, delete>>,
           /\ pc' \in Early => pc \in Early
           /\ pc' \in TrialPoint => pc \in TrialPoint
           /\ pc' \in Kept => pc \in Kept
           /\ pc' \in {"persist-validated", "confirm"} \cup Kept => Hardened(delete)
           /\ pc' # "persist-rollback"
    PROVE  DeviceInv' /\ RunInv'
BY CompletedStays DEF DeviceInv, RunInv, Base, Live, Hardened

LEMMA SwitchStep ==
    ASSUME TypeOK, LoadInv, DeviceInv, RunInv, [Next]_vars, ~disturbed'
    PROVE  DeviceInv' /\ RunInv'
<1> USE StatementFacts, CompletedStays DEF Early, Loaded, Kept, TrialPoint
<1>1. CASE Start
  <2>1. Base(device.running) /\ pc' = "plan" /\ UNCHANGED device
    BY <1>1 DEF Start, ConfigPasses, DeviceInv, Live
  <2>2. QED
    BY <2>1 DEF RunInv, DeviceInv, Base, Live
<1>2. CASE WritePlan \/ Lock \/ PlanOnly \/ Abandon \/ Deny \/ Crash
  <2>1. \/ EndRun(device) \/ EndRun(Discard(device)) \/ EndRun(Release)
        \/ /\ UNCHANGED <<device, delete>>
           /\ pc \in {"plan", "lock"} /\ pc' \in {"lock", "recheck"}
    BY <1>2 DEF WritePlan, Lock, PlanOnly, Abandon, Deny, Crash, Goto, memory
  <2>2. QED
    BY <2>1, EndRunInv, QuietInv
<1>3. CASE Recheck \/ Check \/ Approve \/ Validate
  <2>1. /\ UNCHANGED <<device, delete>>
        /\ \/ pc \in Early /\ pc' \in {"load", "prompt", "persist-approved", "failed"}
           \/ pc = "validate" /\ pc' \in {"persist-validated", "rollback"}
        /\ pc' = "persist-validated" => Hardened(delete)
    BY <1>3 DEF Recheck, Check, Approve, Validate, Goto, memory
  <2>2. QED
    BY <2>1, QuietInv
<1>4. CASE PersistFails \/ RpcFails
  <2>1. EndRun(device) \/ (pc' = "failed" /\ UNCHANGED <<device, delete>>)
    BY <1>4 DEF PersistFails, RpcFails, Fail, Goto, memory
  <2>2. QED
    BY <2>1, EndRunInv, QuietInv
<1>5. CASE Load
  <2>1. /\ pc = "load" /\ pc' = "check"
        /\ UNCHANGED <<device.running, device.prior, device.pending>>
    BY <1>5 DEF Load, Goto, Merge, Remove, TypeOK, DeviceType
  <2>2. QED
    BY <2>1 DEF RunInv, DeviceInv, Base, Live
<1>6. CASE TrialCommit
  <2>1. /\ pc = "commit" /\ pc' \in {"persist-trial", "failed"}
        /\ device' = CommitConfirmed(device)
    BY <1>6 DEF TrialCommit, Goto
  <2>2. device'.running = device.candidate /\ device'.prior = device.running /\ device'.pending
    BY <2>1 DEF CommitConfirmed, Commit, TypeOK, DeviceType
  <2>3. Base(device.prior)' /\ Live'
    BY <2>1, <2>2 DEF RunInv, LoadInv, Base, Live
  <2>4. QED
    BY <2>1, <2>2, <2>3 DEF RunInv, DeviceInv
<1>7. CASE Confirm
  <2>1. /\ pc = "confirm" /\ pc' \in {"persist-kept", "failed"}
        /\ device' = Commit(device) /\ UNCHANGED delete
    BY <1>7 DEF Confirm, Goto, memory
  <2>2. device'.running = device.running /\ ~device'.pending
    BY <2>1 DEF LoadInv, Commit, Clean, TypeOK, DeviceType
  <2>3. Live' /\ Hardened(delete)'
    BY <2>1, <2>2 DEF RunInv, Hardened, Live
  <2>4. QED
    BY <2>1, <2>2, <2>3 DEF RunInv, DeviceInv
<1>8. CASE Persist
  <2>1. \/ EndRun(Release)
        \/ /\ pc \in {"persist-approved", "persist-trial", "persist-validated", "persist-kept"}
           /\ pc' = AfterPersist /\ UNCHANGED <<device, delete>>
    BY <1>8 DEF Persist, Goto, memory, PersistPoint, AfterPersist
  <2>2. QED
    BY <2>1, EndRunInv, QuietInv DEF RunInv, AfterPersist
<1>9. CASE Rollback
  <2>1. /\ pc = "rollback" /\ pc' = "persist-rollback"
        /\ device' = Commit(LoadRollback1(device)) \/ UNCHANGED device
    BY <1>9 DEF Rollback, Goto
  <2>2. CASE UNCHANGED device
    BY <2>1, <2>2 DEF RunInv, DeviceInv, Base, Live
  <2>3. CASE device' = Commit(LoadRollback1(device))
    <3>1. device'.running = device.prior /\ ~device'.pending
      BY <2>3 DEF Commit, LoadRollback1, TypeOK, DeviceType
    <3>2. QED
      BY <2>1, <3>1 DEF RunInv, DeviceInv, Base
  <2>4. QED
    BY <2>1, <2>2, <2>3
<1>10. CASE TimerExpires
  <2>1. device'.running = device.prior /\ ~device'.pending /\ device.pending
    BY <1>10 DEF TimerExpires, AutoRollback, Commit, LoadRollback1, TypeOK, DeviceType
  <2>2. pc \notin TrialPoint /\ UNCHANGED <<pc, delete>>
    BY <1>10, Undisturbed DEF TimerExpires, memory
  <2>3. QED
    BY <2>1, <2>2 DEF RunInv, DeviceInv, Base
<1>11. CASE NetworkChanges \/ UNCHANGED vars
  BY <1>11 DEF NetworkChanges, vars, memory, RunInv, DeviceInv, Base, Live, Hardened
<1>12. CASE SomebodyEdits
  <2>1. /\ pc \in Unlocked /\ UNCHANGED pc
        /\ UNCHANGED <<device.running, device.prior, device.pending>>
    BY <1>12 DEF SomebodyEdits, TypeOK, DeviceType
  <2>2. QED
    BY <2>1 DEF RunInv, DeviceInv, Base, Live, Unlocked
<1>13. CASE AdminCommits
  <2>1. pc \in Unlocked /\ UNCHANGED pc
    BY <1>13 DEF AdminCommits
  <2>2. QED
    BY <1>13, <2>1, AdminKeeps DEF RunInv, DeviceInv, Unlocked
<1>14. QED
  BY <1>1, <1>2, <1>3, <1>4, <1>5, <1>6, <1>7, <1>8, <1>9, <1>10, <1>11, <1>12, <1>13
     DEF Next, RunStep

-----------------------------------------------------------------------------
(* What the record says of the switch is true                              *)

(* The transaction in memory.  Its verdict is formed at one point each.    *)
TxInv ==
    /\ pc \in PersistPoint \cup TrialPoint \cup {"commit"} => tx.delete = delete
    /\ pc \in {"persist-validated", "confirm"} \cup Kept => tx.validation = "PASS"
    /\ tx.status = "COMMITTED_AND_CONFIRMED" => pc \in {"persist-done", "failed"}
    /\ tx.status = "ROLLED_BACK" => /\ pc \in {"persist-rollback", "failed"}
                                    /\ ~device.pending /\ Base(device.running)

(* The record on disk.  One that says success ends all runs; one that says *)
(* rolled back is overwritten before the next commit.                      *)
RecordInv ==
    /\ (Live /\ ~device.pending) \/ pc \in {"confirm"} \cup Kept
         => record.tx.validation = "PASS"
    /\ Success => pc = "idle" /\ Hardened(record.tx.delete) /\ ~device.pending
    /\ record.intact /\ record.tx.status = "ROLLED_BACK" =>
         /\ pc \in {"idle", "failed"} \cup (Early \ {"commit"})
         /\ ~device.pending /\ Base(device.running)

LEMMA EndRunTx ==
    ASSUME EndRun(device) \/ EndRun(Discard(device)) \/ EndRun(Release)
    PROVE  TxInv'
BY DEF EndRun, NoTransaction, NewTransaction, TxInv, PersistPoint, TrialPoint, Kept

LEMMA TxStep ==
    ASSUME TypeOK, LoadInv, DeviceInv, RunInv, TxInv, [Next]_vars, ~disturbed'
    PROVE  TxInv'
<1> USE DEF TxInv, PersistPoint, TrialPoint, Kept, memory
<1>0. UNCHANGED completed => UNCHANGED Added
  BY DEF Added, Unused
<1>1. CASE PlanOnly \/ Abandon \/ Deny \/ Crash
  BY <1>1, EndRunTx DEF PlanOnly, Abandon, Deny, Crash
<1>2. CASE WritePlan \/ Lock
  <2>1. \/ EndRun(device) \/ EndRun(Discard(device))
        \/ pc \in Unlocked /\ pc' \in {"lock", "recheck"} /\ UNCHANGED tx
    BY <1>2 DEF WritePlan, Lock, Goto, Unlocked
  <2>2. QED
    BY <2>1, EndRunTx DEF Unlocked
<1>3. CASE Start \/ Recheck \/ Load \/ Check
  BY <1>3 DEF Start, Recheck, Load, Check, Goto
<1>4. CASE Approve
  BY <1>4 DEF Approve, Goto, NewTransaction
<1>5. CASE TrialCommit
  BY <1>5 DEF TrialCommit, Goto, TypeOK, Transaction
<1>6. CASE Validate
  BY <1>6 DEF Validate, Goto, TypeOK, Transaction
<1>7. CASE Confirm
  BY <1>7 DEF Confirm, Goto
<1>8. CASE Persist
  <2>1. CASE EndRun(Release)
    BY <2>1, EndRunTx
  <2>2. CASE /\ AfterPersist # "idle"
             /\ tx' = IF AfterPersist = "persist-done"
                      THEN [tx EXCEPT !.status = "COMMITTED_AND_CONFIRMED"] ELSE tx
             /\ Goto(AfterPersist)
             /\ UNCHANGED device
    <3>1. CASE pc = "persist-kept"
      BY <2>2, <3>1 DEF AfterPersist, Goto, TypeOK, Transaction
    <3>2. CASE pc # "persist-kept"
      BY <1>8, <2>2, <3>2 DEF AfterPersist, Goto, Persist
    <3>3. QED
      BY <3>1, <3>2
  <2>3. QED
    BY <1>8, <2>1, <2>2 DEF Persist
<1>9. CASE PersistFails \/ RpcFails
  <2>1. \/ EndRun(device)
        \/ pc' = "failed" /\ UNCHANGED <<device, tx, completed>>
    BY <1>9 DEF PersistFails, RpcFails, Fail, Goto, network
  <2>2. CASE pc' = "failed" /\ UNCHANGED <<device, tx, completed>>
    BY <1>0, <2>2 DEF Base
  <2>3. QED
    BY <2>1, <2>2, EndRunTx
<1>10. CASE Rollback
  <2>1. PICK status \in {"ROLLED_BACK", "ROLLBACK_INCOMPLETE"} :
          /\ tx' = [tx EXCEPT !.status = status]
          /\ status = "ROLLED_BACK" => device' = Commit(LoadRollback1(device))
    BY <1>10 DEF Rollback
  <2>2. /\ pc = "rollback" /\ pc' = "persist-rollback" /\ UNCHANGED <<completed, delete>>
    BY <1>10 DEF Rollback, Goto, network
  <2>3. status = "ROLLED_BACK" => ~device'.pending /\ Base(device.running)'
    <3>1. Base(device.prior)
      BY <2>2 DEF RunInv, DeviceInv
    <3>2. status = "ROLLED_BACK" => ~device'.pending /\ device'.running = device.prior
      BY <2>1 DEF Commit, LoadRollback1, TypeOK, DeviceType
    <3>3. QED
      BY <1>0, <2>2, <3>1, <3>2 DEF Base
  <2>4. QED
    BY <2>1, <2>2, <2>3 DEF TypeOK, Transaction
<1>11. CASE TimerExpires
  <2>1. device.pending /\ UNCHANGED <<pc, tx, delete>>
    BY <1>11 DEF TimerExpires
  <2>2. QED
    BY <2>1
<1>12. CASE NetworkChanges \/ UNCHANGED vars
  BY <1>0, <1>12 DEF NetworkChanges, vars, network, Base
<1>13. CASE SomebodyEdits
  <2>1. /\ UNCHANGED <<pc, tx, delete, completed>>
        /\ UNCHANGED <<device.running, device.pending>>
    BY <1>13 DEF SomebodyEdits, network, TypeOK, DeviceType
  <2>2. QED
    BY <1>0, <2>1 DEF Base
<1>14. CASE AdminCommits
  <2>1. UNCHANGED <<pc, tx, delete>>
    BY <1>14 DEF AdminCommits
  <2>2. QED
    BY <1>14, <2>1, AdminKeeps, Undisturbed
<1>15. QED
  BY <1>1, <1>2, <1>3, <1>4, <1>5, <1>6, <1>7, <1>8, <1>9, <1>10, <1>11, <1>12, <1>13,
     <1>14 DEF Next, RunStep

(* A record that can be read is written by Persist and by nothing else.    *)
LEMMA RecordChanges ==
    [Next]_vars => \/ Persist
                   \/ UNCHANGED record
                   \/ /\ record' = [tx |-> tx, intact |-> FALSE]
                      /\ pc \in PersistPoint /\ pc' \in {"idle", "failed"}
                      /\ EndRun(Release) \/ UNCHANGED device
BY DEF Next, RunStep, vars, Start, PlanOnly, Approve, Deny, Crash, TimerExpires,
       NetworkChanges, SomebodyEdits, AdminCommits, WritePlan, Lock, Recheck, Load, Check,
       TrialCommit, Validate, Confirm, PersistFails, RpcFails, Abandon, Rollback, Torn,
       Fail, Goto, EndRun, PersistPoint, Unlocked

LEMMA PersistEnds ==
    ASSUME Persist
    PROVE  /\ EndRun(Release) \/ UNCHANGED device
           /\ UNCHANGED completed /\ record'.tx = tx
           /\ pc \in {"persist-done", "persist-rollback"} => EndRun(Release)
           /\ pc \notin {"persist-done", "persist-rollback"} => pc' = AfterPersist
BY DEF Persist, AfterPersist, Goto, network, PersistPoint

LEMMA ReleaseKeeps ==
    ASSUME TypeOK, EndRun(Release) \/ EndRun(device) \/ EndRun(Discard(device))
           \/ UNCHANGED device
    PROVE  UNCHANGED <<device.running, device.pending>>
BY DEF EndRun, Release, Discard, TypeOK, DeviceType

(* What the switch runs changes by a commit of the run, by its timer or by *)
(* an administrator.                                                       *)
LEMMA RunningChanges ==
    ASSUME TypeOK, [Next]_vars
    PROVE  \/ UNCHANGED <<device.running, device.pending, completed>>
           \/ TrialCommit \/ Confirm \/ Rollback \/ TimerExpires \/ AdminCommits
<1>1. CASE \/ Start \/ PlanOnly \/ Approve \/ Deny \/ Crash \/ NetworkChanges
           \/ WritePlan \/ Lock \/ Recheck \/ Check \/ Validate \/ Persist
           \/ PersistFails \/ RpcFails \/ Abandon \/ UNCHANGED vars
  <2>1. UNCHANGED completed
    BY <1>1 DEF Start, PlanOnly, Approve, Deny, Crash, NetworkChanges, WritePlan, Lock,
       Recheck, Check, Validate, Persist, PersistFails, RpcFails, Abandon, vars, network
  <2>2. EndRun(Release) \/ EndRun(device) \/ EndRun(Discard(device)) \/ UNCHANGED device
    BY <1>1 DEF Start, PlanOnly, Approve, Deny, Crash, NetworkChanges, WritePlan, Lock,
       Recheck, Check, Validate, Persist, PersistFails, RpcFails, Fail, Abandon, vars
  <2>3. QED
    BY <2>1, <2>2, ReleaseKeeps
<1>2. CASE Load \/ SomebodyEdits
  BY <1>2 DEF Load, SomebodyEdits, Merge, Remove, network, TypeOK, DeviceType
<1>3. QED
  BY <1>1, <1>2 DEF Next, RunStep

LEMMA KeptPoints ==
    ASSUME [Next]_vars, ~Persist, pc' \in {"confirm"} \cup Kept
    PROVE  UNCHANGED pc \/ Confirm
BY DEF Next, RunStep, vars, Start, PlanOnly, Approve, Deny, Crash, TimerExpires,
       NetworkChanges, SomebodyEdits, AdminCommits, WritePlan, Lock, Recheck, Load, Check,
       TrialCommit, Validate, PersistFails, RpcFails, Abandon, Rollback, Fail, Goto, EndRun,
       Kept

LEMMA LiveAtPersist ==
    ASSUME RunInv, TxInv, pc \in PersistPoint, Live, ~device.pending
    PROVE  tx.validation = "PASS"
BY BaseOrLive DEF RunInv, TxInv, PersistPoint, Early, TrialPoint, Kept

(* A rollback, in time or by the timer, leaves nothing of the hardening.   *)
LEMMA TakenBack ==
    ASSUME TypeOK, DeviceInv, RunInv, Rollback \/ TimerExpires
    PROVE  device'.pending \/ ~Live'
<1> SUFFICES ASSUME ~device'.pending PROVE ~Live'
  OBVIOUS
<1>1. device.pending /\ Base(device.prior)
  BY DEF Rollback, TimerExpires, RunInv, DeviceInv, TrialPoint
<1>2. device'.running = device.prior
  BY <1>1 DEF Rollback, TimerExpires, AutoRollback, Commit, LoadRollback1, TypeOK, DeviceType
<1>3. QED
  BY <1>1, <1>2, StatementFacts DEF Base, Live

(* The hardening is kept only after its verdict is on disk.                *)
LEMMA VerdictStep ==
    ASSUME TypeOK, LoadInv, DeviceInv, RunInv, TxInv, RecordInv, [Next]_vars, ~disturbed',
           (Live /\ ~device.pending)' \/ pc' \in {"confirm"} \cup Kept
    PROVE  record'.tx.validation = "PASS"
<1> USE DEF Kept
<1>1. CASE Persist
  <2>1. pc \in PersistPoint /\ record'.tx = tx
    BY <1>1 DEF Persist
  <2>2. CASE pc' \in {"confirm"} \cup Kept
    <3>1. pc \in {"persist-validated", "persist-kept"}
      BY <1>1, <2>1, <2>2, PersistEnds DEF AfterPersist, PersistPoint, EndRun
    <3>2. QED
      BY <2>1, <3>1 DEF TxInv
  <2>3. CASE (Live /\ ~device.pending)'
    BY <1>1, <2>1, <2>3, PersistEnds, ReleaseKeeps, LiveAtPersist DEF Live
  <2>4. QED
    BY <2>2, <2>3
<1>2. CASE /\ record' = [tx |-> tx, intact |-> FALSE]
           /\ pc \in PersistPoint /\ pc' \in {"idle", "failed"}
           /\ EndRun(Release) \/ UNCHANGED device
  BY <1>2, ReleaseKeeps, LiveAtPersist DEF Live
<1>3. CASE UNCHANGED record /\ ~Persist
  <2>1. CASE pc' \in {"confirm"} \cup Kept
    BY <1>3, <2>1, KeptPoints DEF RecordInv, Confirm
  <2>2. CASE (Live /\ ~device.pending)'
    <3>1. ~TrialCommit
      BY <2>2 DEF TrialCommit, CommitConfirmed, Commit, TypeOK, DeviceType
    <3>2. CASE UNCHANGED <<device.running, device.pending, completed>>
      BY <1>3, <2>2, <3>2 DEF Live, RecordInv
    <3>3. CASE Confirm
      BY <1>3, <3>3 DEF Confirm, RecordInv
    <3>4. CASE AdminCommits
      BY <1>3, <2>2, <3>4, AdminKeeps, Undisturbed DEF RecordInv
    <3>5. QED
      BY <2>2, <3>1, <3>2, <3>3, <3>4, RunningChanges, TakenBack
  <2>3. QED
    BY <2>1, <2>2
<1>4. QED
  BY <1>1, <1>2, <1>3, RecordChanges

(* Between runs only a new one leaves the point where nothing runs.        *)
LEMMA RunStarts ==
    ASSUME [Next]_vars, pc = "idle"
    PROVE  pc' = "idle" \/ Start
BY DEF Next, RunStep, vars, PlanOnly, Approve, Deny, Crash, TimerExpires, NetworkChanges,
       SomebodyEdits, AdminCommits, WritePlan, Lock, Recheck, Load, Check, TrialCommit,
       Validate, Confirm, Persist, PersistFails, RpcFails, Abandon, Rollback, PersistPoint,
       RpcPoint

(* Until its approval is on disk a run only moves on or ends.              *)
LEMMA BeforeApproval ==
    ASSUME [Next]_vars, ~Persist, pc \in {"idle", "failed"} \cup (Early \ {"commit"})
    PROVE  pc' \in {"idle", "failed"} \cup (Early \ {"commit"})
BY DEF Next, RunStep, vars, Start, PlanOnly, Approve, Deny, Crash, TimerExpires,
       NetworkChanges, SomebodyEdits, AdminCommits, WritePlan, Lock, Recheck, Load, Check,
       TrialCommit, Validate, Confirm, PersistFails, RpcFails, Abandon, Rollback, Fail,
       Goto, EndRun, Early

LEMMA SuccessStep ==
    ASSUME TypeOK, DeviceInv, RunInv, TxInv, RecordInv, [Next]_vars, Success'
    PROVE  pc' = "idle" /\ Hardened(record.tx.delete)' /\ ~device'.pending
<1>1. CASE Persist
  <2>1. record'.tx = tx /\ tx.status = "COMMITTED_AND_CONFIRMED" /\ pc = "persist-done"
    BY <1>1 DEF Persist, Success, TxInv, PersistPoint
  <2>2. Hardened(tx.delete) /\ ~device.pending
    BY <2>1 DEF RunInv, TxInv, Kept, PersistPoint
  <2>3. pc' = "idle" /\ UNCHANGED <<device.running, device.pending, completed>>
    BY <1>1, <2>1, PersistEnds, ReleaseKeeps DEF EndRun
  <2>4. QED
    BY <2>1, <2>2, <2>3 DEF Hardened, Added, Unused, Removed
<1>2. CASE UNCHANGED record
  <2>1. pc = "idle" /\ Hardened(record.tx.delete) /\ ~device.pending /\ ~Start
    BY <1>2 DEF RecordInv, Success, Start
  <2>2. pc' = "idle"
    BY <2>1, RunStarts
  <2>3. CASE UNCHANGED <<device.running, device.pending, completed>>
    BY <1>2, <2>1, <2>2, <2>3 DEF Hardened, Added, Unused, Removed
  <2>4. CASE AdminCommits
    BY <1>2, <2>1, <2>2, <2>4, AdminKeeps DEF Hardened, Removed
  <2>5. QED
    BY <2>1, <2>3, <2>4, RunningChanges DEF TrialCommit, Confirm, Rollback, TimerExpires
<1>3. QED
  BY <1>1, <1>2, RecordChanges DEF Success

LEMMA RolledBackStep ==
    ASSUME TypeOK, DeviceInv, RunInv, TxInv, RecordInv, [Next]_vars,
           record'.intact, record'.tx.status = "ROLLED_BACK"
    PROVE  /\ pc' \in {"idle", "failed"} \cup (Early \ {"commit"})
           /\ ~device'.pending /\ Base(device.running)'
<1>0. UNCHANGED completed => UNCHANGED Added
  BY DEF Added, Unused
<1>1. CASE Persist
  <2>1. record'.tx = tx /\ tx.status = "ROLLED_BACK" /\ pc = "persist-rollback"
    BY <1>1 DEF Persist, TxInv, PersistPoint
  <2>2. ~device.pending /\ Base(device.running)
    BY <2>1 DEF TxInv
  <2>3. pc' = "idle" /\ UNCHANGED <<device.running, device.pending, completed>>
    BY <1>1, <2>1, PersistEnds, ReleaseKeeps DEF EndRun
  <2>4. QED
    BY <1>0, <2>2, <2>3 DEF Base
<1>2. CASE UNCHANGED record /\ ~Persist
  <2>1. /\ pc \in {"idle", "failed"} \cup (Early \ {"commit"})
        /\ ~device.pending /\ Base(device.running)
    BY <1>2 DEF RecordInv
  <2>2. pc' \in {"idle", "failed"} \cup (Early \ {"commit"})
    BY <1>2, <2>1, BeforeApproval
  <2>3. ~TrialCommit /\ ~Confirm /\ ~Rollback /\ ~TimerExpires
    BY <2>1 DEF TrialCommit, Confirm, Rollback, TimerExpires, Early
  <2>4. CASE UNCHANGED <<device.running, device.pending, completed>>
    BY <1>0, <2>1, <2>2, <2>4 DEF Base
  <2>5. CASE AdminCommits
    BY <2>1, <2>2, <2>5, AdminKeeps
  <2>6. QED
    BY <2>3, <2>4, <2>5, RunningChanges
<1>3. QED
  BY <1>1, <1>2, RecordChanges

UndisturbedInv == disturbed \/ (DeviceInv /\ RunInv /\ TxInv /\ RecordInv)

LEMMA RecordStep ==
    ASSUME TypeOK, LoadInv, DeviceInv, RunInv, TxInv, RecordInv, [Next]_vars, ~disturbed'
    PROVE  RecordInv'
<1>1. (Live /\ ~device.pending)' \/ pc' \in {"confirm"} \cup Kept
        => record'.tx.validation = "PASS"
  BY VerdictStep
<1>2. Success' => pc' = "idle" /\ Hardened(record.tx.delete)' /\ ~device'.pending
  BY SuccessStep
<1>3. record'.intact /\ record'.tx.status = "ROLLED_BACK" =>
        /\ pc' \in {"idle", "failed"} \cup (Early \ {"commit"})
        /\ ~device'.pending /\ Base(device.running)'
  BY RolledBackStep
<1>4. QED
  BY <1>1, <1>2, <1>3 DEF RecordInv, Kept, Early

LEMMA RecordInvariant == Spec => [](TypeOK /\ UndisturbedInv)
<1>1. Init => UndisturbedInv
  <2> SUFFICES ASSUME Init PROVE DeviceInv /\ RunInv /\ TxInv /\ RecordInv
    BY DEF UndisturbedInv
  <2>1. Base(device.running)
    BY DEF Init, NewDevice, Base, Added, Uplink, Vlan, Member, Disable
  <2>2. ~Live
    BY DEF Init, NewDevice, Live, Uplink, Vlan, Member
  <2>3. DeviceInv /\ RunInv
    BY <2>1 DEF Init, NewDevice, DeviceInv, RunInv, Early, Kept, TrialPoint
  <2>4. QED
    BY <2>2, <2>3 DEF Init, NoTransaction, NewTransaction, TxInv, RecordInv, Success, Kept,
                      PersistPoint, TrialPoint
<1>2. TypeOK /\ LoadInv /\ UndisturbedInv /\ [Next]_vars => UndisturbedInv'
  BY Undisturbed, SwitchStep, TxStep, RecordStep DEF UndisturbedInv
<1>3. QED
  BY <1>1, <1>2, LoadInvariant, PTL DEF Spec

(* The hardening is kept for good only with a passed validation on disk,   *)
(* whatever failed, and although only one kind of error is rolled back:    *)
(* until a window closes on a run that has yet to confirm or roll back, or *)
(* somebody else confirms the trial of a dead run.                         *)
THEOREM KeptSafety == Spec => []KeptIsValidated
<1>1. UndisturbedInv => KeptIsValidated
  BY DEF UndisturbedInv, RecordInv, Live, KeptIsValidated
<1>2. QED
  BY <1>1, RecordInvariant, PTL

(* A record that ends the migration is true of the switch, and stays true: *)
(* no later run, timer or commit by hand takes the hardening back.  Until  *)
(* disturbed: the run does not see that its window has closed.             *)
THEOREM CommittedSafety == Spec => []CommittedIsTrue
<1>1. UndisturbedInv => CommittedIsTrue
  BY DEF UndisturbedInv, RecordInv, CommittedIsTrue
<1>2. QED
  BY <1>1, RecordInvariant, PTL

(* A record of a rollback is true until the next approval replaces it:     *)
(* VLANs and uplink are back and no port is disabled.  Until disturbed:    *)
(* rollback 1 is what was there before the trial only while the trial is   *)
(* open.                                                                   *)
THEOREM RolledBackSafety == Spec => []RolledBackRestores
<1>1. TypeOK /\ UndisturbedInv => RolledBackRestores
  <2> SUFFICES ASSUME TypeOK, RecordInv, record.intact, record.tx.status = "ROLLED_BACK"
               PROVE  /\ Removed(record.tx.delete) \subseteq device.running
                      /\ Added \cap device.running = {}
    BY DEF RolledBackRestores, UndisturbedInv
  <2>1. Base(device.running)
    BY DEF RecordInv
  <2>2. record.tx.delete \subseteq Stale
    BY DEF TypeOK, Transaction
  <2>3. QED
    BY <2>1, <2>2 DEF Base, Removed
<1>2. QED
  BY <1>1, RecordInvariant, PTL

-----------------------------------------------------------------------------
(* Every run comes to its end.  StepsLeft counts what is left of it at     *)
(* most, the way out through the except clauses included.                  *)

StepsLeft == CASE pc = "idle"              -> 0
               [] pc = "failed"            -> 1
               [] pc = "persist-rollback"  -> 2
               [] pc = "persist-done"      -> 2
               [] pc = "rollback"          -> 3
               [] pc = "persist-kept"      -> 3
               [] pc = "confirm"           -> 4
               [] pc = "persist-validated" -> 5
               [] pc = "validate"          -> 6
               [] pc = "persist-trial"     -> 7
               [] pc = "commit"            -> 8
               [] pc = "persist-approved"  -> 9
               [] pc = "prompt"            -> 10
               [] pc = "check"             -> 11
               [] pc = "load"              -> 12
               [] pc = "recheck"           -> 13
               [] pc = "lock"              -> 14
               [] pc = "plan"              -> 15

Working == {"plan", "lock", "recheck", "load", "check", "prompt", "persist-approved",
            "commit", "persist-trial", "validate", "persist-validated", "confirm",
            "persist-kept", "persist-done", "rollback", "persist-rollback", "failed"}

Environment == TimerExpires \/ NetworkChanges \/ SomebodyEdits \/ AdminCommits

LEMMA StepsFacts == TypeOK => /\ StepsLeft \in 0 .. 15
                              /\ StepsLeft = 0 <=> pc = "idle"
<1>1. TypeOK => pc = "idle" \/ pc \in Working
  BY DEF TypeOK, Working, PersistPoint, RpcPoint
<1>2. pc \in Working => StepsLeft \in 1 .. 15
  BY DEF Working, StepsLeft
<1>3. pc = "idle" => StepsLeft = 0
  BY DEF StepsLeft
<1>4. QED
  BY <1>1, <1>2, <1>3

(* The way out is shorter than what is left of the run anywhere else.      *)
LEMMA WayOut ==
    ASSUME TypeOK
    PROVE  /\ pc # "idle" /\ pc' = "idle" => StepsLeft' < StepsLeft
           /\ pc \notin {"idle", "failed"} /\ pc' = "failed" => StepsLeft' < StepsLeft
<1>1. pc' = "idle" => StepsLeft' = 0
  BY DEF StepsLeft
<1>2. pc' = "failed" => StepsLeft' = 1
  BY DEF StepsLeft
<1>3. pc \notin {"idle", "failed"} => StepsLeft >= 2
  <2>1. TypeOK => pc = "idle" \/ pc \in Working
    BY DEF TypeOK, Working, PersistPoint, RpcPoint
  <2>2. pc \in Working \ {"failed"} => StepsLeft >= 2
    BY DEF Working, StepsLeft
  <2>3. QED
    BY <2>1, <2>2
<1>4. QED
  BY <1>1, <1>2, <1>3, StepsFacts

LEMMA StepShortens ==
    ASSUME TypeOK, RunStep
    PROVE  StepsLeft' < StepsLeft
<1>1. CASE pc' = "idle" /\ pc # "idle"
  BY <1>1, WayOut
<1>2. CASE pc' = "failed" /\ pc \notin {"idle", "failed"}
  BY <1>2, WayOut
<1>3. CASE WritePlan \/ Lock \/ Recheck \/ Load \/ Check
  <2>1. \/ pc = "plan" /\ pc' \in {"lock", "idle"}
        \/ pc = "lock" /\ pc' \in {"recheck", "idle"}
        \/ pc = "recheck" /\ pc' \in {"load", "failed"}
        \/ pc = "load" /\ pc' = "check"
        \/ pc = "check" /\ pc' \in {"prompt", "failed"}
    BY <1>3 DEF WritePlan, Lock, Recheck, Load, Check, Goto, EndRun
  <2>2. QED
    BY <2>1 DEF StepsLeft
<1>4. CASE TrialCommit \/ Validate \/ Rollback \/ Confirm
  <2>1. \/ pc = "commit" /\ pc' \in {"persist-trial", "failed"}
        \/ pc = "validate" /\ pc' \in {"persist-validated", "rollback"}
        \/ pc = "rollback" /\ pc' = "persist-rollback"
        \/ pc = "confirm" /\ pc' \in {"persist-kept", "failed"}
    BY <1>4 DEF TrialCommit, Validate, Rollback, Confirm, Goto
  <2>2. QED
    BY <2>1 DEF StepsLeft
<1>5. CASE Persist
  <2>1. CASE AfterPersist = "idle"
    BY <1>1, <1>5, <2>1 DEF Persist, EndRun, PersistPoint
  <2>2. CASE AfterPersist # "idle"
    BY <1>5, <2>2 DEF Persist, AfterPersist, PersistPoint, Goto, StepsLeft
  <2>3. QED
    BY <2>1, <2>2
<1>6. CASE PersistFails \/ RpcFails
  BY <1>1, <1>2, <1>6
     DEF PersistFails, RpcFails, Fail, EndRun, Goto, PersistPoint, RpcPoint
<1>7. CASE Abandon
  BY <1>1, <1>7 DEF Abandon, EndRun
<1>8. QED
  BY <1>3, <1>4, <1>5, <1>6, <1>7 DEF RunStep

(* A run takes at most 15 steps, whatever fails: the rollback is reached   *)
(* once and is never gone through again, and only timers, clients and      *)
(* other people act besides.                                               *)
THEOREM Termination ==
    Spec => /\ [](StepsLeft \in 0 .. 15 /\ (StepsLeft = 0 <=> pc = "idle"))
            /\ [][/\ RunStep => StepsLeft' < StepsLeft
                  /\ pc # "idle" => StepsLeft' < StepsLeft \/ Environment]_vars
<1>1. TypeOK => StepsLeft \in 0 .. 15 /\ (StepsLeft = 0 <=> pc = "idle")
  BY StepsFacts
<1>2. TypeOK /\ [Next]_vars =>
        [/\ RunStep => StepsLeft' < StepsLeft
         /\ pc # "idle" => StepsLeft' < StepsLeft \/ Environment]_vars
  <2> SUFFICES ASSUME TypeOK, Next, pc # "idle", ~RunStep, ~Environment
               PROVE  StepsLeft' < StepsLeft
    BY StepShortens
  <2>1. CASE PlanOnly \/ Deny \/ Crash
    BY <2>1, WayOut DEF PlanOnly, Deny, Crash, EndRun
  <2>2. CASE Approve
    BY <2>2 DEF Approve, Goto, StepsLeft
  <2>3. QED
    BY <2>1, <2>2 DEF Next, Start, Environment
<1>3. QED
  BY <1>1, <1>2, TypeCorrect, PTL DEF Spec
=============================================================================
