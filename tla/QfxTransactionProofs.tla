------------------------ MODULE QfxTransactionProofs ------------------------
(***************************************************************************)
(* Proofs about the dual-QFX transaction, for every choice of VLANs.       *)
(***************************************************************************)
EXTENDS QfxTransaction, Integers, TLAPS

-----------------------------------------------------------------------------
(* The typing of the state                                                 *)

LEMMA RoleFacts ==
    /\ "qfx-a" \in Role /\ "qfx-b" \in Role /\ "qfx-a" # "qfx-b"
    /\ Baseline \in SUBSET Vlan /\ Staged \in SUBSET Vlan
    /\ Required \in SUBSET Vlan
    /\ Baseline # Staged
BY ConfigAssumption DEF Role, Vlan, Staged

LEMMA JunosTyping ==
    ASSUME NEW d \in Device
    PROVE  /\ Commit(d) \in Device /\ CommitConfirmed(d) \in Device
           /\ LoadRollback1(d) \in Device /\ Discard(d) \in Device
           /\ AutoRollback(d) \in Device
           /\ LoadPlan(d) \in Device /\ LoadInverse(d) \in Device
           /\ Commit(LoadInverse(d)) \in Device
           /\ Commit(LoadRollback1(d)) \in Device
BY RoleFacts DEF Device, DeviceType, Merge, Remove, Commit, CommitConfirmed, LoadRollback1, Discard,
                 AutoRollback, LoadPlan, Merge, LoadInverse, Remove

LEMMA TransactionTyping ==
    /\ NoTransaction \in Transaction
    /\ NewTransaction("APPROVED_PENDING_COMMIT") \in Transaction
BY DEF NoTransaction, NewTransaction, Transaction, TxStatus, CommitStatus

LEMMA EndRunTyping == TypeOK /\ EndRun => /\ device' \in [Role -> Device]
                                          /\ pc' = "idle" /\ tx' \in Transaction
                                          /\ locked' = {} /\ committed' = {}
                                          /\ confirmed' = {} /\ undone' = {}
                                          /\ answerLost' \in BOOLEAN
BY JunosTyping, TransactionTyping DEF TypeOK, EndRun, Released

LEMMA TornTyping == TypeOK /\ (TornRecord \/ UNCHANGED record)
                      => record' \in [tx : Transaction, intact : BOOLEAN]
<1> SUFFICES ASSUME TypeOK, TornRecord \/ UNCHANGED record
             PROVE  record' \in [tx : Transaction, intact : BOOLEAN]
  OBVIOUS
<1>1. CASE UNCHANGED record
  BY <1>1 DEF TypeOK
<1>2. CASE record' = [tx |-> tx, intact |-> FALSE]
  BY <1>2 DEF TypeOK
<1>3. QED
  BY <1>1, <1>2 DEF TornRecord

LEMMA UndoTyping == TypeOK => \A r \in Role : UndoDevice(r) \in Device
BY JunosTyping DEF TypeOK, UndoDevice

LEMMA StepTyping == TypeOK /\ [Next]_vars => TypeOK'
<1> SUFFICES ASSUME TypeOK, [Next]_vars PROVE TypeOK'
  OBVIOUS
<1>0. disturbed' \in BOOLEAN
  BY DEF TypeOK, Next, RunStep, TimerExpires, AdminCommits, vars
<1> USE <1>0 DEF TypeOK, PersistPoint, RpcPoint
<1>1. CASE StartRun \/ PlanOnly \/ UNCHANGED vars
  BY <1>1 DEF StartRun, PlanOnly, Goto, vars
<1>2. CASE Revalidate \/ CheckCandidates \/ RpcFails
  BY <1>2 DEF Revalidate, CheckCandidates, RpcFails, Goto
<1>3. CASE LoadCandidates
  BY <1>3, JunosTyping DEF LoadCandidates, Goto
<1>4. CASE Approve
  BY <1>4, TransactionTyping DEF Approve, Goto
<1>5. CASE Deny \/ AbandonCandidates
  BY <1>5, EndRunTyping DEF Deny, AbandonCandidates
<1>6. CASE Validate
  <2>1. tx' \in Transaction
    BY <1>6 DEF Validate, Transaction, TxStatus
  <2>2. QED
    BY <1>6, <2>1 DEF Validate, Goto
<1>7. CASE Persist
  <2>1. record' \in [tx : Transaction, intact : BOOLEAN]
    BY <1>7 DEF Persist
  <2>2. CASE EndRun
    BY <1>7, <2>1, <2>2, EndRunTyping
  <2>3. CASE AfterPersist # "idle" /\ Goto(AfterPersist) /\ UNCHANGED device
             /\ tx' = IF AfterPersist = "persist-done"
                      THEN [tx EXCEPT !.status = "COMMITTED_AND_CONFIRMED"] ELSE tx
    <3>1. tx' \in Transaction
      BY <2>3 DEF Transaction, TxStatus
    <3>2. pc' \in {"idle", "failed"} \cup PersistPoint \cup RpcPoint
      BY <1>7, <2>3 DEF AfterPersist, Goto, Persist
    <3>3. QED
      BY <2>1, <2>3, <3>1, <3>2 DEF Goto
  <2>4. QED
    BY <1>7, <2>2, <2>3 DEF Persist
<1>8. CASE PersistFails
  <2>1. record' \in [tx : Transaction, intact : BOOLEAN]
    BY <1>8, TornTyping DEF PersistFails
  <2>2. QED
    BY <1>8, <2>1, EndRunTyping DEF PersistFails, Goto
<1>9. CASE Crash
  <2>1. record' \in [tx : Transaction, intact : BOOLEAN]
    BY <1>9, TornTyping DEF Crash
  <2>2. QED
    BY <1>9, <2>1, EndRunTyping DEF Crash
<1>10. ASSUME NEW r \in Role, LockRole(r)
       PROVE  TypeOK'
  BY <1>10 DEF LockRole
<1>11. ASSUME NEW r \in Role, TrialCommit(r)
       PROVE  TypeOK'
  <2>1. device' \in [Role -> Device]
    BY <1>11, JunosTyping DEF TrialCommit
  <2>2. tx' \in Transaction
    <3>1. CASE tx' = tx
      BY <3>1
    <3>2. CASE tx' = [tx EXCEPT !.commit_status[r] = "CONFIRMED_PENDING_VALIDATION",
                                !.status = "COMMIT_CONFIRMED_PENDING_VALIDATION"]
      <4>1. [tx.commit_status EXCEPT ![r] = "CONFIRMED_PENDING_VALIDATION"]
              \in [Role -> CommitStatus]
        BY DEF Transaction, CommitStatus
      <4>2. QED
        BY <3>2, <4>1 DEF Transaction, TxStatus
    <3>3. QED
      BY <1>11, <3>1, <3>2 DEF TrialCommit
  <2>3. QED
    BY <1>11, <2>1, <2>2 DEF TrialCommit
<1>12. ASSUME NEW r \in Role, FinalCommit(r)
       PROVE  TypeOK'
  <2>1. device' \in [Role -> Device]
    BY <1>12, JunosTyping DEF FinalCommit
  <2>2. tx' \in Transaction
    BY <1>12 DEF FinalCommit, Transaction, CommitStatus
  <2>3. QED
    BY <1>12, <2>1, <2>2 DEF FinalCommit
<1>13. ASSUME NEW r \in Role, RollbackRole(r)
       PROVE  TypeOK'
  <2>1. device' \in [Role -> Device]
    <3>1. \/ device' = device
          \/ device' = [device EXCEPT ![r] = UndoDevice(r)]
      BY <1>13 DEF RollbackRole
    <3>2. QED
      BY <3>1, UndoTyping
  <2>2. tx' \in Transaction
    <3>1. PICK status \in {UndoStatus(r), "ROLLBACK_FAILED"} :
            LET result == [tx.commit_status EXCEPT ![r] = status]
            IN  tx' = [tx EXCEPT !.commit_status = result,
                         !.status = IF undone' # Role THEN @
                                    ELSE IF \A q \in Role : result[q] # "ROLLBACK_FAILED"
                                    THEN "ROLLED_BACK" ELSE "ROLLBACK_INCOMPLETE"]
      BY <1>13 DEF RollbackRole
    <3>2. status \in CommitStatus
      BY DEF UndoStatus, CommitStatus
    <3>3. QED
      BY <3>1, <3>2 DEF Transaction, TxStatus
  <2>3. QED
    BY <1>13, <2>1, <2>2 DEF RollbackRole
<1>14. ASSUME NEW r \in Role, TimerExpires(r) \/ AdminEdits(r) \/ AdminCommits(r)
       PROVE  TypeOK'
  <2>1. device' \in [Role -> Device]
    <3>1. CASE TimerExpires(r)
      BY <3>1, JunosTyping DEF TimerExpires
    <3>2. CASE AdminEdits(r)
      BY <3>2 DEF AdminEdits, Device, DeviceType, Vlan
    <3>3. CASE AdminCommits(r)
      BY <3>3, JunosTyping DEF AdminCommits
    <3>4. QED BY <1>14, <3>1, <3>2, <3>3
  <2>2. QED
    BY <1>14, <2>1 DEF TimerExpires, AdminEdits, AdminCommits, run
<1>15. QED
  BY <1>1, <1>2, <1>3, <1>4, <1>5, <1>6, <1>7, <1>8, <1>9, <1>10, <1>11, <1>12,
     <1>13, <1>14 DEF Next, RunStep

(* Every reachable state is well typed, whatever fails and whoever edits   *)
(* (the state qfx_stage_cli.run keeps and the transaction record).         *)
THEOREM TypeCorrect == Spec => []TypeOK
<1>1. Init => TypeOK
  <2>1. Init => answerLost \in BOOLEAN /\ disturbed \in BOOLEAN
    BY Zenon DEF Init, NewDevice
  <2>2. QED
    BY <2>1, RoleFacts, TransactionTyping DEF Init, NewDevice, TypeOK, Device, DeviceType
<1>2. QED
  BY <1>1, StepTyping, PTL DEF Spec

-----------------------------------------------------------------------------
(* What runs on trial is exactly the approved change over the baseline     *)

Planned == {"lock", "revalidate", "load", "check", "prompt", "persist-approved"}
Loaded == {"check", "prompt", "persist-approved", "commit", "persist-trial"}

(* From the locks on, an untouched device still runs what was revalidated. *)
TrialInv ==
    /\ TrialOverBaseline
    /\ pc = "idle" => locked = {} /\ committed = {}
    /\ pc \notin {"idle", "lock", "failed"} \/ committed # {} => locked = Role
    /\ pc \in Planned => committed = {}
    /\ pc \in {"lock", "revalidate"} => \A r \in locked : Clean(device[r])
    /\ pc = "load" => \A r \in Role : device[r].running = Baseline /\ Clean(device[r])
    /\ pc \in Loaded => \A r \in Role \ committed :
                          device[r].running = Baseline /\ device[r].candidate = Staged

LEMMA EndRunKeepsRunning ==
    TypeOK /\ EndRun => \A r \in Role : /\ device'[r].running = device[r].running
                                       /\ device'[r].prior = device[r].prior
                                       /\ device'[r].pending = device[r].pending
BY DEF TypeOK, EndRun, Released, Discard, Device, DeviceType

LEMMA UndoSettles ==
    TypeOK => \A r \in Role : UndoDevice(r).pending =>
                 /\ device[r].pending
                 /\ UndoDevice(r).running = device[r].running
                 /\ UndoDevice(r).prior = device[r].prior
<1> SUFFICES ASSUME TypeOK, NEW r \in Role, UndoDevice(r).pending
             PROVE  UndoDevice(r) = Discard(device[r])
  BY DEF Discard, TypeOK, Device, DeviceType
<1> QED
  BY DEF UndoDevice, Commit, LoadInverse, Remove, LoadRollback1, TypeOK, Device, DeviceType

LEMMA TrialStep == TypeOK /\ TrialInv /\ [Next]_vars => TrialInv'
<1> SUFFICES ASSUME TypeOK, TrialInv, [Next]_vars PROVE TrialInv'
  OBVIOUS
<1> USE RoleFacts DEF TrialInv, TrialOverBaseline, Planned, Loaded
<1>0. ASSUME EndRun PROVE TrialInv'
  BY <1>0, EndRunKeepsRunning DEF EndRun
<1>1. CASE StartRun \/ PlanOnly \/ UNCHANGED vars
  BY <1>1 DEF StartRun, PlanOnly, Goto, vars, Clean, TypeOK
<1>2. CASE Revalidate
  BY <1>2 DEF Revalidate, Goto, PlanPasses, Clean, TypeOK
<1>3. CASE CheckCandidates \/ RpcFails
  BY <1>3 DEF CheckCandidates, RpcFails, Goto
<1>4. CASE LoadCandidates
  BY <1>4 DEF LoadCandidates, LoadPlan, Merge, Goto, Clean, Staged, TypeOK, Device, DeviceType
<1>5. CASE Approve \/ Validate
  BY <1>5 DEF Approve, Validate, Goto
<1>6. CASE Deny \/ AbandonCandidates \/ Crash
  BY <1>6, <1>0 DEF Deny, AbandonCandidates, Crash
<1>7. CASE Persist
  BY <1>7, <1>0 DEF Persist, AfterPersist, Goto, PersistPoint
<1>8. CASE PersistFails
  BY <1>8, <1>0 DEF PersistFails, Goto
<1>9. ASSUME NEW r \in Role, LockRole(r)
      PROVE  TrialInv'
  BY <1>9 DEF LockRole, Clean, IsNext, TypeOK
<1>10. ASSUME NEW r \in Role, TrialCommit(r)
       PROVE  TrialInv'
  <2>1. /\ device[r].running = Baseline /\ device[r].candidate = Staged
        /\ locked = Role
    BY <1>10 DEF TrialCommit, IsNext
  <2>2. /\ device'[r].running = Staged /\ device'[r].prior = Baseline
        /\ \A q \in Role : q # r => device'[q] = device[q]
    BY <1>10, <2>1 DEF TrialCommit, CommitConfirmed, Commit, TypeOK, Device, DeviceType
  <2>3. QED
    BY <1>10, <2>1, <2>2 DEF TrialCommit, TypeOK
<1>11. ASSUME NEW r \in Role, FinalCommit(r)
       PROVE  TrialInv'
  BY <1>11 DEF FinalCommit, Commit, TypeOK, Device, DeviceType
<1>12. ASSUME NEW r \in Role, RollbackRole(r)
       PROVE  TrialInv'
  <2>1. \/ device' = device
        \/ device' = [device EXCEPT ![r] = UndoDevice(r)]
    BY <1>12 DEF RollbackRole
  <2>2. \A q \in Role : device'[q].pending => /\ device[q].pending
                              /\ device'[q].running = device[q].running
                              /\ device'[q].prior = device[q].prior
    <3>1. CASE device' = device
      BY <3>1
    <3>2. CASE device' = [device EXCEPT ![r] = UndoDevice(r)]
      BY <3>2, UndoSettles DEF TypeOK
    <3>3. QED
      BY <2>1, <3>1, <3>2
  <2>3. /\ pc = "failed" /\ pc' \in {"failed", "persist-rollback"}
        /\ committed # {}
        /\ UNCHANGED <<locked, committed>>
    BY <1>12 DEF RollbackRole
  <2>4. QED
    BY <2>2, <2>3
<1>13. ASSUME NEW r \in Role, TimerExpires(r)
       PROVE  TrialInv'
  <2>1. /\ device[r].pending /\ ~device'[r].pending
        /\ device'[r].running = device'[r].candidate
        /\ \A q \in Role : q # r => device'[q] = device[q]
    BY <1>13 DEF TimerExpires, AutoRollback, Commit, LoadRollback1, TypeOK, Device, DeviceType
  <2>2. QED
    BY <1>13, <2>1 DEF TimerExpires, run, Clean, TypeOK
<1>14. ASSUME NEW r \in Role, AdminEdits(r) \/ AdminCommits(r)
       PROVE  TrialInv'
  <2>1. /\ r \notin locked
        /\ device'[r].pending => /\ device[r].pending
                                 /\ device'[r].running = device[r].running
                                 /\ device'[r].prior = device[r].prior
        /\ \A q \in Role : q # r => device'[q] = device[q]
    <3>1. CASE AdminEdits(r)
      BY <3>1 DEF AdminEdits, TypeOK, Device, DeviceType
    <3>2. CASE AdminCommits(r)
      BY <3>2 DEF AdminCommits, Commit, TypeOK, Device, DeviceType
    <3>3. QED
      BY <1>14, <3>1, <3>2
  <2>2. UNCHANGED run
    BY <1>14 DEF AdminEdits, AdminCommits
  <2>3. QED
    BY <2>1, <2>2 DEF run, TypeOK
<1>15. QED
  BY <1>1, <1>2, <1>3, <1>4, <1>5, <1>6, <1>7, <1>8, <1>9, <1>10, <1>11, <1>12,
     <1>13, <1>14 DEF Next, RunStep

LEMMA TrialInvariant == Spec => [](TypeOK /\ TrialInv)
<1>1. Init => TrialInv
  BY DEF Init, NewDevice, TrialInv, TrialOverBaseline, Planned, Loaded, Clean
<1>2. QED
  BY <1>1, TrialStep, TypeCorrect, PTL DEF Spec

(* A running commit-confirmed timer always guards exactly the approved     *)
(* statements over the site baseline, under every fault: the locks, the    *)
(* clean-candidate check and the revalidation leave no gap.                *)
THEOREM TrialSafety == Spec => []TrialOverBaseline
<1>1. Spec => []TrialInv
  BY TrialInvariant
<1>2. TrialInv => TrialOverBaseline
  BY DEF TrialInv
<1>3. QED
  BY <1>1, <1>2, PTL

-----------------------------------------------------------------------------
(* Nothing is kept before both devices are validated, and the record knows *)

Trying(r) == Live(r) /\ device[r].pending

(* Every device runs the baseline or the staged configuration.  Where the  *)
(* run stands decides which, until something fails; from then on a device  *)
(* that is not dealt with yet still runs what the run committed.           *)
KeptInv ==
    /\ \A r \in Role : /\ device[r].running \in {Baseline, Staged}
                      /\ device[r].prior \in {Baseline, Staged}
    /\ pc = "idle" => confirmed = {} /\ undone = {}
    /\ confirmed \subseteq committed
    /\ pc # "idle" => \A r \in committed : Clean(device[r])
    /\ pc \in Planned => PlanPasses
    /\ pc \in Planned \cup {"commit", "persist-trial", "validate", "persist-validated"}
         => confirmed = {}
    /\ pc \in {"commit", "persist-trial"} => \A r \in committed : Trying(r)
    /\ pc \in {"validate", "persist-validated", "confirm", "persist-kept"}
         => \A r \in Role \ confirmed : Trying(r)
    /\ pc \in {"confirm", "persist-kept", "persist-done"}
         => /\ tx.validation = "PASS" /\ record.tx.validation = "PASS"
            /\ \A r \in confirmed : Kept(r)
    /\ pc = "persist-validated" => tx.validation = "PASS"
    /\ pc \in {"validate", "persist-validated", "confirm", "persist-kept", "persist-done"}
         => committed = Role
    /\ pc = "persist-done" => confirmed = Role
    /\ pc = "failed" => \A r \in committed \ undone : Live(r)
    /\ pc \notin {"failed", "persist-rollback"} => undone = {}
    /\ \A r \in Role : Kept(r) =>
          /\ record.tx.validation = "PASS"
          /\ (pc # "idle" => tx.validation = "PASS")

LEMMA LiveFacts == /\ Required \subseteq Staged
                   /\ ~(Required \subseteq Baseline)
                   /\ Staged \ Required = Baseline
BY ConfigAssumption DEF Staged

(* Ending a run changes no running configuration and no timer.             *)
LEMMA EndRunKept ==
    ASSUME TypeOK, TrialInv, KeptInv, EndRun,
           record' \in {record} \/ record'.tx = tx, pc # "idle"
    PROVE  KeptInv'
<1>1. /\ pc' = "idle" /\ committed' = {} /\ confirmed' = {} /\ undone' = {}
  BY DEF EndRun
<1>2. \A r \in Role : /\ device'[r].running = device[r].running
                      /\ device'[r].prior = device[r].prior
                      /\ device'[r].pending = device[r].pending
  BY EndRunKeepsRunning
<1>3. \A r \in Role : Kept(r)' => record.tx.validation = "PASS" /\ tx.validation = "PASS"
  BY <1>2 DEF KeptInv, Kept, Live
<1>4. \A r \in Role : Kept(r)' => record'.tx.validation = "PASS"
  BY <1>3
<1>5. QED
  BY <1>1, <1>2, <1>4 DEF KeptInv, Planned

(* What one turn of _rollback_pair can leave behind.                       *)
LEMMA UndoOutcome ==
    ASSUME TypeOK, TrialInv, KeptInv, pc = "failed", NEW r \in Role \ undone
    PROVE  /\ UndoDevice(r).running \in {Baseline, Staged}
           /\ UndoDevice(r).prior \in {Baseline, Staged}
           /\ UndoDevice(r).candidate = UndoDevice(r).running
           /\ ~UndoDevice(r).pending /\ UndoDevice(r).running = Staged => Kept(r)
<1> USE LiveFacts, RoleFacts
<1>1. CASE r \in confirmed
  <2>1. device[r].running = Staged /\ device[r].candidate = Staged
    BY <1>1 DEF KeptInv, Live, Clean
  <2>2. /\ UndoDevice(r).running = Baseline /\ UndoDevice(r).candidate = Baseline
        /\ UndoDevice(r).prior = Staged
    BY <1>1, <2>1 DEF UndoDevice, Commit, LoadInverse, Remove, TypeOK, Device, DeviceType
  <2>3. QED
    BY <2>2
<1>2. CASE r \in committed \ confirmed
  <2>1. device[r].running = Staged
    BY <1>2 DEF KeptInv, Live
  <2>2. UndoDevice(r) = Commit(LoadRollback1(device[r]))
    BY <1>2 DEF UndoDevice
  <2>3. /\ UndoDevice(r).running = device[r].prior /\ UndoDevice(r).prior = Staged
        /\ UndoDevice(r).candidate = device[r].prior
    BY <2>1, <2>2 DEF Commit, LoadRollback1, TypeOK, Device, DeviceType
  <2>4. CASE device[r].pending
    BY <2>3, <2>4 DEF TrialInv, TrialOverBaseline
  <2>5. CASE ~device[r].pending
    BY <2>1, <2>3, <2>5 DEF Kept, Live, KeptInv
  <2>6. QED
    BY <2>4, <2>5
<1>3. CASE r \notin committed
  <2>1. UndoDevice(r) = Discard(device[r])
    BY <1>3 DEF UndoDevice, KeptInv
  <2>2. QED
    BY <2>1 DEF Discard, KeptInv, Kept, Live, TypeOK, Device, DeviceType
<1>4. QED
  BY <1>1, <1>2, <1>3

(* KeptInv is inductive as long as the run is undisturbed: until then the  *)
(* timer only fires between runs, and what an administrator does to an     *)
(* unlocked device stays in its candidate.                                 *)
LEMMA KeptStep ==
    ASSUME TypeOK, TrialInv, KeptInv, ~disturbed', [Next]_vars
    PROVE  KeptInv'
<1> USE RoleFacts, LiveFacts
<1>1. CASE StartRun \/ PlanOnly \/ UNCHANGED vars
  <2>1. CASE StartRun
    <3>1. \A r \in Role : ~Live(r)
      BY <2>1 DEF StartRun, PlanPasses, Live
    <3>2. UNCHANGED <<device, tx, record, committed, confirmed, undone>>
      BY <2>1 DEF StartRun, Goto
    <3>3. pc' = "lock" /\ pc = "idle" /\ committed = {} /\ PlanPasses
      BY <2>1 DEF StartRun, Goto, TrialInv
    <3>4. QED
      BY <3>1, <3>2, <3>3 DEF KeptInv, Planned, Kept, Live, PlanPasses
  <2>2. CASE UNCHANGED vars
    BY <2>2 DEF KeptInv, vars, Kept, Live, Trying, PlanPasses, Clean
  <2>3. QED
    BY <1>1, <2>1, <2>2 DEF PlanOnly
<1>2. CASE Revalidate \/ CheckCandidates
  <2>1. /\ pc \in {"revalidate", "check"}
        /\ pc' \in {"load", "prompt", "failed"}
        /\ UNCHANGED <<device, tx, record, committed, confirmed, undone>>
    BY <1>2 DEF Revalidate, CheckCandidates, Goto
  <2>2. committed = {}
    BY <2>1 DEF TrialInv, Planned
  <2>3. QED
    BY <2>1, <2>2 DEF KeptInv, Planned, Kept, Live, PlanPasses
<1>3. CASE LoadCandidates
  <2>1. /\ pc = "load" /\ pc' = "check"
        /\ UNCHANGED <<tx, record, committed, confirmed, undone>>
        /\ committed = {}
    BY <1>3 DEF LoadCandidates, Goto, TrialInv, Planned
  <2>2. \A r \in Role : /\ device'[r].running = device[r].running
                        /\ device'[r].prior = device[r].prior
                        /\ device'[r].pending = device[r].pending
    BY <1>3 DEF LoadCandidates, LoadPlan, Merge, TypeOK, Device, DeviceType
  <2>3. QED
    BY <2>1, <2>2 DEF KeptInv, Planned, Kept, Live, PlanPasses
<1>4. CASE Approve
  <2>1. /\ pc = "prompt" /\ pc' = "persist-approved"
        /\ UNCHANGED <<device, record, committed, confirmed, undone>>
        /\ committed = {}
    BY <1>4 DEF Approve, Goto, TrialInv, Planned
  <2>2. \A r \in Role : ~Live(r)
    BY <2>1 DEF KeptInv, Planned, PlanPasses, Live
  <2>3. QED
    BY <2>1, <2>2 DEF KeptInv, Planned, Kept, Live, PlanPasses
<1>5. CASE Deny \/ AbandonCandidates \/ Crash
  BY <1>5, EndRunKept DEF Deny, AbandonCandidates, Crash, TornRecord
<1>6. CASE Validate
  <2>1. /\ pc = "validate" /\ pc' \in {"persist-validated", "failed"}
        /\ pc' = "persist-validated" => tx'.validation = "PASS"
        /\ UNCHANGED <<device, record, committed, confirmed, undone>>
    BY <1>6 DEF Validate, Goto, TypeOK, Transaction
  <2>2. \A r \in Role : Trying(r)
    BY <2>1 DEF KeptInv
  <2>3. QED
    BY <2>1, <2>2 DEF KeptInv, Planned, Kept, Live, Trying, Clean
<1>7. CASE Persist
  <2>1. record'.tx = tx
    BY <1>7 DEF Persist
  <2>2. CASE EndRun
    BY <1>7, <2>1, <2>2, EndRunKept DEF Persist, PersistPoint
  <2>3. CASE /\ AfterPersist # "idle" /\ Goto(AfterPersist) /\ UNCHANGED device
             /\ tx' = IF AfterPersist = "persist-done"
                      THEN [tx EXCEPT !.status = "COMMITTED_AND_CONFIRMED"] ELSE tx
    <3>1. /\ tx'.validation = tx.validation
          /\ UNCHANGED <<device, committed, confirmed, undone>>
          /\ pc' = AfterPersist
      BY <2>3 DEF Goto, TypeOK, Transaction
    <3>2. pc \in PersistPoint /\ pc # "persist-rollback"
      BY <1>7, <2>3 DEF Persist, AfterPersist, PersistPoint
    <3>3. \A r \in Role : Kept(r)' => /\ record'.tx.validation = "PASS"
                                      /\ tx'.validation = "PASS"
      BY <2>1, <3>1, <3>2 DEF KeptInv, Kept, Live, PersistPoint
    <3>4. CASE pc = "persist-approved"
      BY <3>1, <3>3, <3>4 DEF KeptInv, AfterPersist, Planned, TrialInv
    <3>5. CASE pc = "persist-trial"
      BY <3>1, <3>3, <3>5 DEF KeptInv, AfterPersist, Planned, Trying, Live, Clean
    <3>6. CASE pc = "persist-validated"
      BY <2>1, <3>1, <3>3, <3>6 DEF KeptInv, AfterPersist, Planned, Trying, Live, Clean
    <3>7. CASE pc = "persist-kept"
      BY <2>1, <3>1, <3>3, <3>7
         DEF KeptInv, AfterPersist, Planned, Trying, Live, Kept, Clean
    <3>8. CASE pc = "persist-done"
      BY <2>3, <3>8 DEF AfterPersist
    <3>9. QED
      BY <3>2, <3>4, <3>5, <3>6, <3>7, <3>8 DEF PersistPoint
  <2>4. QED
    BY <1>7, <2>2, <2>3 DEF Persist
<1>8. CASE PersistFails
  <2>1. record' = record \/ record'.tx = tx
    BY <1>8 DEF PersistFails, TornRecord
  <2>2. CASE EndRun
    BY <1>8, <2>1, <2>2, EndRunKept DEF PersistFails, PersistPoint
  <2>3. CASE Goto("failed") /\ pc # "persist-rollback" /\ UNCHANGED <<device, tx>>
    <3>1. /\ pc' = "failed" /\ pc # "idle" /\ pc \in PersistPoint
          /\ UNCHANGED <<device, tx, committed, confirmed, undone>>
      BY <1>8, <2>3 DEF PersistFails, Goto, PersistPoint
    <3>2. \A r \in committed : Live(r)
      BY <2>3, <3>1 DEF KeptInv, PersistPoint, Trying, Kept, Planned, TrialInv
    <3>3. QED
      BY <2>1, <3>1, <3>2 DEF KeptInv, Planned, Kept, Live, Clean
  <2>4. QED
    BY <1>8, <2>2, <2>3 DEF PersistFails
<1>9. CASE RpcFails
  <2>1. /\ pc' = "failed" /\ pc # "idle" /\ pc \in RpcPoint
        /\ UNCHANGED <<device, tx, record, committed, confirmed, undone>>
    BY <1>9 DEF RpcFails, Goto, RpcPoint
  <2>2. \A r \in committed : Live(r)
    BY <2>1 DEF KeptInv, RpcPoint, Trying, Kept, Planned, TrialInv
  <2>3. QED
    BY <2>1, <2>2 DEF KeptInv, Planned, Kept, Live, Clean
<1>10. ASSUME NEW r \in Role, LockRole(r)
       PROVE  KeptInv'
  <2>1. /\ pc = "lock" /\ pc' \in {"lock", "revalidate", "failed"}
        /\ UNCHANGED <<device, tx, record, committed, confirmed, undone>>
        /\ committed = {}
    BY <1>10 DEF LockRole, TrialInv, Planned
  <2>2. QED
    BY <2>1 DEF KeptInv, Planned, Kept, Live, PlanPasses
<1>11. ASSUME NEW r \in Role, TrialCommit(r)
       PROVE  KeptInv'
  <2>1. /\ pc = "commit" /\ r \in Role \ committed
        /\ UNCHANGED <<record, confirmed, undone>>
        /\ \/ committed' = committed \cup {r} /\ pc' = "persist-trial"
           \/ committed' = committed /\ pc' = "failed"
    BY <1>11 DEF TrialCommit, IsNext
  <2>2. device[r].running = Baseline /\ device[r].candidate = Staged
    BY <2>1 DEF TrialInv, Loaded
  <2>3. /\ device'[r].running = Staged /\ device'[r].candidate = Staged
        /\ device'[r].prior = Baseline /\ device'[r].pending
        /\ \A q \in Role : q # r => device'[q] = device[q]
    BY <1>11, <2>2 DEF TrialCommit, CommitConfirmed, Commit, TypeOK, Device, DeviceType
  <2>4. \A q \in Role : ~Kept(q)
    <3>1. \A q \in committed : Trying(q)
      BY <2>1 DEF KeptInv
    <3>2. \A q \in Role \ committed : ~Live(q)
      BY <2>1 DEF TrialInv, Loaded, Live
    <3>3. QED
      BY <3>1, <3>2 DEF Trying, Kept
  <2>5. \A q \in Role : ~Kept(q)'
    BY <2>3, <2>4 DEF Kept, Live
  <2>6. \A q \in committed \cup {r} : Trying(q)' /\ Clean(device[q])'
    BY <2>1, <2>3 DEF KeptInv, Trying, Live, Clean, TypeOK
  <2>7. \A q \in Role : /\ device'[q].running \in {Baseline, Staged}
                        /\ device'[q].prior \in {Baseline, Staged}
    BY <2>3 DEF KeptInv
  <2>8. confirmed = {} /\ undone = {}
    BY <2>1 DEF KeptInv
  <2>9. QED
    BY <2>1, <2>5, <2>6, <2>7, <2>8 DEF KeptInv, Planned, Trying
<1>12. ASSUME NEW r \in Role, FinalCommit(r)
       PROVE  KeptInv'
  <2>1. /\ pc = "confirm" /\ r \in Role \ confirmed
        /\ UNCHANGED <<record, committed, undone>>
        /\ \/ confirmed' = confirmed \cup {r} /\ pc' = "persist-kept"
           \/ confirmed' = confirmed /\ pc' = "failed"
        /\ committed = Role
    BY <1>12 DEF FinalCommit, IsNext, KeptInv
  <2>2. device[r].running = Staged /\ device[r].candidate = Staged
    BY <2>1 DEF KeptInv, Trying, Live, Clean
  <2>3. /\ device'[r].running = Staged /\ device'[r].candidate = Staged
        /\ device'[r].prior = Staged /\ ~device'[r].pending
        /\ \A q \in Role : q # r => device'[q] = device[q]
    BY <1>12, <2>2 DEF FinalCommit, Commit, TypeOK, Device, DeviceType
  <2>4. tx'.validation = tx.validation
    BY <1>12 DEF FinalCommit, TypeOK, Transaction
  <2>5. QED
    BY <2>1, <2>3, <2>4 DEF KeptInv, Planned, Kept, Live, Trying, Clean
<1>13. ASSUME NEW r \in Role, RollbackRole(r)
       PROVE  KeptInv'
  <2>1. /\ pc = "failed" /\ pc' \in {"failed", "persist-rollback"}
        /\ r \in Role \ undone /\ undone' = undone \cup {r}
        /\ UNCHANGED <<record, committed, confirmed>>
    BY <1>13 DEF RollbackRole, IsNextBack
  <2>2. tx'.validation = tx.validation
    BY <1>13 DEF RollbackRole, TypeOK, Transaction
  <2>3. \/ device' = device
        \/ device' = [device EXCEPT ![r] = UndoDevice(r)]
    BY <1>13 DEF RollbackRole
  <2>4. CASE device' = device
    BY <2>1, <2>2, <2>4 DEF KeptInv, Planned, Kept, Live, Clean
  <2>5. CASE device' = [device EXCEPT ![r] = UndoDevice(r)]
    <3>1. /\ UndoDevice(r).running \in {Baseline, Staged}
          /\ UndoDevice(r).prior \in {Baseline, Staged}
          /\ UndoDevice(r).candidate = UndoDevice(r).running
          /\ ~UndoDevice(r).pending /\ UndoDevice(r).running = Staged => Kept(r)
      BY <2>1, UndoOutcome
    <3>2. /\ device'[r] = UndoDevice(r)
          /\ \A q \in Role : q # r => device'[q] = device[q]
      BY <2>5 DEF TypeOK
    <3>3. \A q \in Role : Kept(q)' => Kept(q)
      BY <3>1, <3>2 DEF Kept, Live
    <3>4. \A q \in Role : /\ device'[q].running \in {Baseline, Staged}
                          /\ device'[q].prior \in {Baseline, Staged}
      BY <3>1, <3>2 DEF KeptInv
    <3>5. /\ \A q \in committed : Clean(device[q])'
          /\ \A q \in committed \ undone' : Live(q)'
      BY <2>1, <3>1, <3>2 DEF KeptInv, Clean, Live, TypeOK
    <3>6. QED
      BY <2>1, <2>2, <3>3, <3>4, <3>5 DEF KeptInv, Planned
  <2>6. QED
    BY <2>3, <2>4, <2>5
<1>14. ASSUME NEW r \in Role, TimerExpires(r)
       PROVE  KeptInv'
  <2>1. /\ pc = "idle" /\ device[r].pending /\ device[r].prior = Baseline
        /\ UNCHANGED <<pc, tx, record, committed, confirmed, undone>>
    BY <1>14 DEF TimerExpires, run, TrialInv, TrialOverBaseline
  <2>2. /\ device'[r].running = Baseline /\ device'[r].prior = device[r].running
        /\ \A q \in Role : q # r => device'[q] = device[q]
    BY <1>14, <2>1 DEF TimerExpires, AutoRollback, LoadRollback1, Commit, TypeOK, Device, DeviceType
  <2>3. committed = {}
    BY <2>1 DEF TrialInv
  <2>4. QED
    BY <2>1, <2>2, <2>3 DEF KeptInv, Planned, Kept, Live
<1>15. ASSUME NEW r \in Role, AdminEdits(r)
       PROVE  KeptInv'
  <2>1. /\ r \notin locked
        /\ UNCHANGED <<pc, tx, record, locked, committed, confirmed, undone>>
    BY <1>15 DEF AdminEdits, run
  <2>2. \A q \in Role : /\ device'[q].running = device[q].running
                        /\ device'[q].prior = device[q].prior
                        /\ device'[q].pending = device[q].pending
    BY <1>15 DEF AdminEdits, TypeOK, Device, DeviceType
  <2>3. committed = {} \/ pc = "idle"
    BY <2>1 DEF TrialInv
  <2>4. QED
    BY <2>1, <2>2, <2>3 DEF KeptInv, Kept, Live, Trying, PlanPasses
<1>16. ~AdminCommits("qfx-a") /\ ~AdminCommits("qfx-b")
  BY DEF AdminCommits
<1>17. QED
  BY <1>1, <1>2, <1>3, <1>4, <1>5, <1>6, <1>7, <1>8, <1>9, <1>10, <1>11, <1>12,
     <1>13, <1>14, <1>15, <1>16 DEF Next, RunStep, Role

LEMMA DisturbedForGood == TypeOK /\ [Next]_vars /\ disturbed => disturbed'
BY DEF TypeOK, Next, RunStep, TimerExpires, AdminCommits, vars

LEMMA KeptInvariant == Spec => [](TypeOK /\ TrialInv /\ (disturbed \/ KeptInv))
<1>1. Init => KeptInv
  BY LiveFacts DEF Init, NewDevice, KeptInv, Planned, Kept, Live, PlanPasses, Clean
<1>2. TypeOK /\ TrialInv /\ (disturbed \/ KeptInv) /\ [Next]_vars
        => (disturbed \/ KeptInv)'
  BY KeptStep, DisturbedForGood
<1>3. QED
  BY <1>1, <1>2, TrialInvariant, PTL DEF Spec

(* Undisturbed, no device is ever left with the change for good unless the *)
(* validation of both devices had passed and its record was on disk.       *)
THEOREM KeptSafety == Spec => []KeptOnlyAfterValidation
<1>1. disturbed \/ KeptInv => KeptOnlyAfterValidation
  BY DEF KeptInv, KeptOnlyAfterValidation
<1>2. QED
  BY <1>1, KeptInvariant, PTL

-----------------------------------------------------------------------------
(* What the record says of the pair is true                                *)

PassedStatus == {"VALIDATED_PENDING_FINAL_CONFIRMATION", "COMMITTED_AND_CONFIRMED",
                 "ROLLED_BACK", "ROLLBACK_INCOMPLETE"}

(* A verdict is formed in memory at one point of the run each.             *)
VerdictInv ==
    /\ tx.validation = "PASS" =>
          /\ tx.status \in PassedStatus
          /\ pc \in {"persist-validated", "confirm", "persist-kept", "persist-done",
                     "failed", "persist-rollback"}
    /\ record.tx.validation = "PASS" => record.tx.status \in PassedStatus
    /\ tx.status = "COMMITTED_AND_CONFIRMED" => pc \in {"persist-done", "failed"}
    /\ tx.status = "ROLLED_BACK" =>
          /\ pc = "persist-rollback"
          /\ \A r \in Role : tx.commit_status[r] # "ROLLBACK_FAILED"
    /\ pc = "persist-rollback" => undone = Role

(* A record that says success stays until the next run is approved, and no *)
(* run can be: its plan does not pass over a changed pair.                 *)
ConfirmedInv ==
    Reads("COMMITTED_AND_CONFIRMED") => pc = "idle" /\ \A r \in Role : Kept(r)

(* As long as every answer has arrived, the rollback knows of each device  *)
(* what it runs, before and after its turn.                                *)
RolledBackInv ==
    /\ Reads("ROLLED_BACK") => /\ pc \in Planned \cup {"idle", "failed"}
                              /\ committed = {}
                              /\ \A r \in Role : device[r].running = Baseline
    /\ pc = "failed" => \A r \in Role \ undone :
          /\ r \notin committed => device[r].running = Baseline
          /\ r \in committed \ confirmed => Trying(r)
    /\ pc \in {"failed", "persist-rollback"} => \A r \in undone :
          \/ tx.commit_status[r] = "ROLLBACK_FAILED"
          \/ device[r].running = Baseline

LEMMA EndRunVerdict ==
    ASSUME TypeOK, VerdictInv, EndRun, record'.tx \in {record.tx, tx}
    PROVE  VerdictInv'
<1>1. pc' = "idle" /\ tx'.status = "NONE" /\ tx'.validation = "PENDING"
  BY DEF EndRun, NoTransaction, NewTransaction
<1>2. QED
  BY <1>1 DEF VerdictInv

LEMMA VerdictStep ==
    ASSUME TypeOK, KeptInv, VerdictInv, ~disturbed', [Next]_vars
    PROVE  VerdictInv'
<1> USE RoleFacts
<1>1. CASE StartRun \/ PlanOnly \/ UNCHANGED vars \/ Revalidate \/ LoadCandidates
           \/ CheckCandidates \/ RpcFails
  BY <1>1 DEF StartRun, PlanOnly, vars, Revalidate, LoadCandidates, CheckCandidates,
              RpcFails, RpcPoint, Goto, VerdictInv
<1>2. CASE Approve
  BY <1>2 DEF Approve, Goto, NewTransaction, VerdictInv
<1>3. CASE Deny \/ AbandonCandidates
  BY <1>3, EndRunVerdict DEF Deny, AbandonCandidates
<1>4. CASE Crash
  BY <1>4, EndRunVerdict DEF Crash, TornRecord
<1>5. CASE Validate
  BY <1>5 DEF Validate, Goto, VerdictInv, PassedStatus, TypeOK, Transaction
<1>6. CASE Persist
  <2>1. record'.tx = tx
    BY <1>6 DEF Persist
  <2>2. CASE EndRun
    BY <2>1, <2>2, EndRunVerdict
  <2>3. CASE /\ AfterPersist # "idle" /\ Goto(AfterPersist)
             /\ tx' = IF AfterPersist = "persist-done"
                      THEN [tx EXCEPT !.status = "COMMITTED_AND_CONFIRMED"] ELSE tx
    <3>1. /\ pc # "persist-done" /\ pc # "persist-rollback"
          /\ pc' = AfterPersist /\ pc' # "persist-rollback"
      BY <1>6, <2>3 DEF Persist, AfterPersist, PersistPoint, Goto
    <3>2. CASE AfterPersist = "persist-done"
      BY <2>1, <2>3, <3>1, <3>2 DEF VerdictInv, PassedStatus, TypeOK, Transaction
    <3>3. CASE AfterPersist # "persist-done"
      BY <1>6, <2>1, <2>3, <3>1, <3>3 DEF VerdictInv, Persist, PersistPoint, AfterPersist
    <3>4. QED
      BY <3>2, <3>3
  <2>4. QED
    BY <1>6, <2>2, <2>3 DEF Persist
<1>7. CASE PersistFails
  <2>1. record'.tx \in {record.tx, tx}
    BY <1>7 DEF PersistFails, TornRecord
  <2>2. CASE EndRun
    BY <2>1, <2>2, EndRunVerdict
  <2>3. CASE pc # "persist-rollback" /\ Goto("failed") /\ UNCHANGED tx
    BY <2>1, <2>3 DEF Goto, VerdictInv
  <2>4. QED
    BY <1>7, <2>2, <2>3 DEF PersistFails
<1>8. ASSUME NEW r \in Role, LockRole(r)
      PROVE  VerdictInv'
  BY <1>8 DEF LockRole, VerdictInv
<1>9. ASSUME NEW r \in Role, TrialCommit(r)
      PROVE  VerdictInv'
  BY <1>9 DEF TrialCommit, VerdictInv, TypeOK, Transaction
<1>10. ASSUME NEW r \in Role, FinalCommit(r)
       PROVE  VerdictInv'
  BY <1>10 DEF FinalCommit, VerdictInv, TypeOK, Transaction
<1>11. ASSUME NEW r \in Role, RollbackRole(r)
       PROVE  VerdictInv'
  <2>1. PICK status \in {UndoStatus(r), "ROLLBACK_FAILED"} :
          LET result == [tx.commit_status EXCEPT ![r] = status]
          IN  tx' = [tx EXCEPT !.commit_status = result,
                       !.status = IF undone' # Role THEN @
                                  ELSE IF \A q \in Role : result[q] # "ROLLBACK_FAILED"
                                  THEN "ROLLED_BACK" ELSE "ROLLBACK_INCOMPLETE"]
    BY <1>11 DEF RollbackRole
  <2>2. /\ pc = "failed" /\ UNCHANGED record
        /\ pc' = IF undone' = Role THEN "persist-rollback" ELSE "failed"
    BY <1>11 DEF RollbackRole
  <2>3. /\ tx'.validation = tx.validation
        /\ undone' # Role => tx'.status = tx.status
        /\ undone' = Role => tx'.status \in {"ROLLED_BACK", "ROLLBACK_INCOMPLETE"}
        /\ undone' = Role /\ tx'.status = "ROLLED_BACK"
             => \A q \in Role : tx'.commit_status[q] # "ROLLBACK_FAILED"
    BY <2>1 DEF TypeOK, Transaction
  <2>4. QED
    BY <2>2, <2>3 DEF VerdictInv, PassedStatus
<1>12. ASSUME NEW r \in Role, TimerExpires(r) \/ AdminEdits(r)
       PROVE  VerdictInv'
  BY <1>12 DEF TimerExpires, AdminEdits, run, VerdictInv
<1>13. ~AdminCommits("qfx-a") /\ ~AdminCommits("qfx-b")
  BY DEF AdminCommits
<1>14. QED
  BY <1>1, <1>2, <1>3, <1>4, <1>5, <1>6, <1>7, <1>8, <1>9, <1>10, <1>11, <1>12,
     <1>13 DEF Next, RunStep, Role

(* While a run is quiet nothing changes what the devices run: every such   *)
(* change is a commit of this run, a turn of its rollback, or a timer that *)
(* fires between two runs.                                                 *)
LEMMA RunningChanges ==
    ASSUME TypeOK, ~disturbed', [Next]_vars
    PROVE  \/ \A r \in Role : /\ device'[r].running = device[r].running
                              /\ device'[r].pending = device[r].pending
           \/ \E r \in Role : \/ TrialCommit(r) \/ FinalCommit(r) \/ RollbackRole(r)
                              \/ TimerExpires(r) /\ pc = "idle"
<1> DEFINE Same == \A r \in Role : /\ device'[r].running = device[r].running
                                  /\ device'[r].pending = device[r].pending
<1>1. CASE EndRun \/ UNCHANGED device
  BY <1>1, EndRunKeepsRunning
<1>2. CASE LoadCandidates
  BY <1>2 DEF LoadCandidates, LoadPlan, Merge, TypeOK, Device, DeviceType
<1>3. ASSUME NEW r \in Role, AdminEdits(r) PROVE Same
  BY <1>3 DEF AdminEdits, TypeOK, Device, DeviceType
<1>4. ASSUME NEW r \in Role, TimerExpires(r) PROVE pc = "idle"
  BY <1>4 DEF TimerExpires
<1>5. CASE StartRun \/ PlanOnly \/ Approve \/ Deny \/ Crash \/ Revalidate
           \/ CheckCandidates \/ Validate \/ Persist \/ PersistFails \/ RpcFails
           \/ AbandonCandidates \/ UNCHANGED vars
  BY <1>1, <1>5 DEF StartRun, PlanOnly, Approve, Deny, Crash, Revalidate,
     CheckCandidates, Validate, Persist, PersistFails, RpcFails, AbandonCandidates, vars
<1>6. ASSUME NEW r \in Role, LockRole(r) PROVE UNCHANGED device
  BY <1>6 DEF LockRole
<1>7. ~AdminCommits("qfx-a") /\ ~AdminCommits("qfx-b")
  BY DEF AdminCommits
<1>8. QED
  BY <1>1, <1>2, <1>3, <1>4, <1>5, <1>6, <1>7 DEF Next, RunStep, Role

(* A record that can be read is written by Persist and by nothing else.    *)
LEMMA RecordChanges ==
    [Next]_vars => \/ Persist
                   \/ UNCHANGED record
                   \/ /\ record' = [tx |-> tx, intact |-> FALSE]
                      /\ pc \in PersistPoint
BY DEF Next, RunStep, vars, StartRun, PlanOnly, Approve, Deny, Crash, Revalidate,
       LoadCandidates, CheckCandidates, Validate, PersistFails, TornRecord, RpcFails,
       AbandonCandidates, LockRole, TrialCommit, FinalCommit, RollbackRole,
       TimerExpires, AdminEdits, AdminCommits

LEMMA RunStarts == [Next]_vars /\ pc = "idle" => pc' = "idle" \/ StartRun
BY DEF Next, RunStep, vars, PlanOnly, Approve, Deny, Crash, Revalidate,
       LoadCandidates, CheckCandidates, Validate, Persist, PersistFails, RpcFails,
       PersistPoint, RpcPoint, AbandonCandidates, LockRole, TrialCommit, FinalCommit,
       RollbackRole, TimerExpires, AdminEdits, AdminCommits, run

LEMMA ConfirmedStep ==
    ASSUME TypeOK, TrialInv, KeptInv, VerdictInv, ConfirmedInv, ~disturbed', [Next]_vars
    PROVE  ConfirmedInv'
<1> USE RoleFacts, LiveFacts
<1> SUFFICES ASSUME Reads("COMMITTED_AND_CONFIRMED")'
             PROVE  pc' = "idle" /\ \A r \in Role : Kept(r)'
  BY DEF ConfirmedInv
<1>1. CASE Persist /\ pc = "persist-done"
  <2>1. \A r \in Role : Kept(r)
    BY <1>1 DEF KeptInv
  <2>2. EndRun
    BY <1>1 DEF Persist, AfterPersist
  <2>3. QED
    BY <2>1, <2>2, EndRunKeepsRunning DEF EndRun, Kept, Live
<1>2. CASE Persist /\ pc # "persist-done"
  <2>1. pc = "failed"
    BY <1>2 DEF Persist, Reads, VerdictInv
  <2>2. QED
    BY <1>2, <2>1 DEF Persist, PersistPoint
<1>3. CASE ~Persist
  <2>1. UNCHANGED record
    BY <1>3, RecordChanges DEF Reads
  <2>2. pc = "idle" /\ \A r \in Role : Kept(r)
    BY <2>1 DEF ConfirmedInv, Reads
  <2>3. ~PlanPasses
    BY <2>2 DEF PlanPasses, Kept, Live
  <2>4. \A r \in Role : Kept(r)'
    BY <2>2, RunningChanges
       DEF TrialCommit, FinalCommit, RollbackRole, TimerExpires, Kept, Live
  <2>5. pc' = "idle"
    BY <2>2, <2>3, RunStarts DEF StartRun
  <2>6. QED
    BY <2>4, <2>5
<1>4. QED
  BY <1>1, <1>2, <1>3

LEMMA EndRunRolledBack ==
    ASSUME TypeOK, RolledBackInv, EndRun, Reads("ROLLED_BACK")' => Reads("ROLLED_BACK")
    PROVE  RolledBackInv'
<1>1. pc' = "idle" /\ committed' = {}
  BY DEF EndRun
<1>2. \A r \in Role : device'[r].running = device[r].running
  BY EndRunKeepsRunning
<1>3. QED
  BY <1>1, <1>2 DEF RolledBackInv

(* Wherever a run fails first, it knows what each device runs.             *)
LEMMA FirstFailure ==
    ASSUME TypeOK, TrialInv, KeptInv, pc \notin {"idle", "failed", "persist-rollback"}
    PROVE  /\ undone = {}
           /\ \A r \in Role : /\ r \notin committed => device[r].running = Baseline
                              /\ r \in committed \ confirmed => Trying(r)
<1> USE DEF TrialInv, KeptInv
<1>1. CASE pc \in Planned
  BY <1>1 DEF Planned, PlanPasses
<1>2. CASE pc \in {"commit", "persist-trial"}
  BY <1>2 DEF Loaded
<1>3. CASE pc \in {"validate", "persist-validated", "confirm", "persist-kept", "persist-done"}
  BY <1>3
<1>4. QED
  BY <1>1, <1>2, <1>3 DEF TypeOK, PersistPoint, RpcPoint, Planned

LEMMA RolledBackStep ==
    ASSUME TypeOK, TrialInv, KeptInv, VerdictInv, RolledBackInv, ~answerLost',
           ~disturbed', [Next]_vars
    PROVE  RolledBackInv'
<1> USE RoleFacts, LiveFacts
<1>1. CASE StartRun \/ PlanOnly \/ UNCHANGED vars
  BY <1>1 DEF StartRun, PlanOnly, vars, Goto, RolledBackInv, Reads, Planned, Trying, Live
<1>2. CASE Revalidate \/ CheckCandidates
  <2>1. /\ pc \in Planned /\ pc' \in {"load", "prompt", "failed"}
        /\ UNCHANGED <<device, tx, record, committed, confirmed, undone>>
    BY <1>2 DEF Revalidate, CheckCandidates, Goto, Planned
  <2>2. committed = {} /\ undone = {} /\ \A r \in Role : device[r].running = Baseline
    BY <2>1 DEF TrialInv, KeptInv, Planned, PlanPasses
  <2>3. QED
    BY <2>1, <2>2 DEF RolledBackInv, Reads, Planned
<1>3. CASE LoadCandidates
  <2>1. /\ pc = "load" /\ pc' = "check" /\ UNCHANGED <<tx, record, committed>>
        /\ \A r \in Role : device'[r].running = device[r].running
    BY <1>3 DEF LoadCandidates, Goto, LoadPlan, Merge, TypeOK, Device, DeviceType
  <2>2. QED
    BY <2>1 DEF RolledBackInv, Reads, Planned
<1>4. CASE Approve \/ Validate
  <2>1. CASE Approve
    BY <2>1 DEF Approve, Goto, RolledBackInv, Reads, Planned
  <2>2. CASE Validate
    BY <2>2, FirstFailure DEF Validate, Goto, RolledBackInv, Reads, Planned, Trying, Live
  <2>3. QED
    BY <1>4, <2>1, <2>2
<1>5. CASE Deny \/ AbandonCandidates
  BY <1>5, EndRunRolledBack DEF Deny, AbandonCandidates, Reads
<1>6. CASE Crash
  BY <1>6, EndRunRolledBack DEF Crash, TornRecord, Reads
<1>7. CASE Persist
  <2>1. CASE tx.status = "ROLLED_BACK"
    <3>1. /\ pc = "persist-rollback" /\ undone = Role
          /\ \A r \in Role : tx.commit_status[r] # "ROLLBACK_FAILED"
      BY <2>1 DEF VerdictInv
    <3>2. \A r \in Role : device[r].running = Baseline
      BY <1>7, <3>1 DEF RolledBackInv
    <3>3. EndRun
      BY <1>7, <3>1 DEF Persist, AfterPersist
    <3>4. \A r \in Role : device'[r].running = Baseline
      BY <3>2, <3>3, EndRunKeepsRunning
    <3>5. QED
      BY <3>3, <3>4 DEF RolledBackInv, EndRun
  <2>2. CASE tx.status # "ROLLED_BACK"
    <3>1. ~Reads("ROLLED_BACK")'
      BY <1>7, <2>2 DEF Persist, Reads
    <3>2. pc' \notin {"failed", "persist-rollback"}
      BY <1>7 DEF Persist, AfterPersist, EndRun, Goto
    <3>3. QED
      BY <3>1, <3>2 DEF RolledBackInv
  <2>3. QED
    BY <2>1, <2>2
<1>8. CASE PersistFails
  <2>1. Reads("ROLLED_BACK")' => Reads("ROLLED_BACK")
    BY <1>8 DEF PersistFails, TornRecord, Reads
  <2>2. CASE EndRun
    BY <2>1, <2>2, EndRunRolledBack
  <2>3. CASE pc # "persist-rollback" /\ Goto("failed") /\ UNCHANGED <<device, tx>>
    <3>1. pc \in PersistPoint /\ pc \notin {"idle", "failed", "persist-rollback"}
      BY <1>8, <2>3 DEF PersistFails, PersistPoint
    <3>2. QED
      BY <2>1, <2>3, <3>1, FirstFailure DEF Goto, RolledBackInv, Trying, Live
  <2>4. QED
    BY <1>8, <2>2, <2>3 DEF PersistFails
<1>9. CASE RpcFails
  <2>1. pc \notin {"idle", "failed", "persist-rollback"}
    BY <1>9 DEF RpcFails, RpcPoint
  <2>2. QED
    BY <1>9, <2>1, FirstFailure DEF RpcFails, Goto, RolledBackInv, Reads, Trying, Live
<1>10. ASSUME NEW r \in Role, LockRole(r)
       PROVE  RolledBackInv'
  BY <1>10, FirstFailure DEF LockRole, RolledBackInv, Reads, Planned, Trying, Live
<1>11. ASSUME NEW r \in Role, TrialCommit(r)
       PROVE  RolledBackInv'
  BY <1>11 DEF TrialCommit, RolledBackInv, Reads, Planned
<1>12. ASSUME NEW r \in Role, FinalCommit(r)
       PROVE  RolledBackInv'
  BY <1>12 DEF FinalCommit, RolledBackInv, Reads, Planned
<1>13. ASSUME NEW r \in Role, RollbackRole(r)
       PROVE  RolledBackInv'
  <2>1. /\ pc = "failed" /\ pc' \in {"failed", "persist-rollback"}
        /\ r \in Role \ undone /\ undone' = undone \cup {r} /\ committed # {}
        /\ UNCHANGED <<record, committed, confirmed>>
    BY <1>13 DEF RollbackRole, IsNextBack
  <2>2. PICK status \in {UndoStatus(r), "ROLLBACK_FAILED"} :
          /\ status # "ROLLBACK_FAILED" => device' = [device EXCEPT ![r] = UndoDevice(r)]
          /\ device' \in {device, [device EXCEPT ![r] = UndoDevice(r)]}
          /\ tx'.commit_status = [tx.commit_status EXCEPT ![r] = status]
    BY <1>13 DEF RollbackRole, TypeOK, Transaction
  <2>3. \A q \in Role : q # r => /\ device'[q] = device[q]
                                 /\ tx'.commit_status[q] = tx.commit_status[q]
    BY <2>2 DEF TypeOK, Transaction
  <2>4. UndoDevice(r).running = Baseline
    <3>1. CASE r \in confirmed
      BY <2>1, <3>1 DEF KeptInv, Live, Clean, UndoDevice, Commit, LoadInverse, Remove,
                        TypeOK, Device, DeviceType
    <3>2. CASE r \in committed \ confirmed
      BY <2>1, <3>2 DEF RolledBackInv, Trying, TrialInv, TrialOverBaseline,
                        UndoDevice, Commit, LoadRollback1, TypeOK, Device, DeviceType
    <3>3. CASE r \notin committed
      BY <2>1, <3>3 DEF RolledBackInv, KeptInv, UndoDevice, Discard,
                        TypeOK, Device, DeviceType
    <3>4. QED
      BY <3>1, <3>2, <3>3
  <2>5. tx'.commit_status[r] = "ROLLBACK_FAILED" \/ device'[r].running = Baseline
    BY <2>2, <2>4 DEF TypeOK, Transaction
  <2>6. ~Reads("ROLLED_BACK")'
    BY <2>1 DEF RolledBackInv, Reads
  <2>7. QED
    BY <2>1, <2>3, <2>5, <2>6 DEF RolledBackInv, Trying, Live, TypeOK
<1>14. ASSUME NEW r \in Role, TimerExpires(r)
       PROVE  RolledBackInv'
  <2>1. /\ pc = "idle" /\ device[r].pending
        /\ UNCHANGED <<pc, tx, record, committed>>
    BY <1>14 DEF TimerExpires, run
  <2>2. ~Reads("ROLLED_BACK")
    BY <2>1 DEF RolledBackInv, TrialInv, TrialOverBaseline
  <2>3. QED
    BY <2>1, <2>2 DEF RolledBackInv, Reads
<1>15. ASSUME NEW r \in Role, AdminEdits(r)
       PROVE  RolledBackInv'
  <2>1. UNCHANGED <<pc, tx, record, committed, confirmed, undone>>
    BY <1>15 DEF AdminEdits, run
  <2>2. \A q \in Role : /\ device'[q].running = device[q].running
                        /\ device'[q].pending = device[q].pending
    BY <1>15 DEF AdminEdits, TypeOK, Device, DeviceType
  <2>3. \A q \in Role : Trying(q) => Trying(q)'
    BY <2>2 DEF Trying, Live
  <2>4. QED
    BY <2>1, <2>2, <2>3 DEF RolledBackInv, Reads, TypeOK
<1>16. ~AdminCommits("qfx-a") /\ ~AdminCommits("qfx-b")
  BY DEF AdminCommits
<1>17. QED
  BY <1>1, <1>2, <1>3, <1>4, <1>5, <1>6, <1>7, <1>8, <1>9, <1>10, <1>11, <1>12,
     <1>13, <1>14, <1>15, <1>16 DEF Next, RunStep, Role

LEMMA AnswerLostForGood == TypeOK /\ [Next]_vars /\ answerLost => answerLost'
BY DEF TypeOK, Next, RunStep, vars, StartRun, PlanOnly, Approve, Deny, Crash, Revalidate,
       LoadCandidates, CheckCandidates, Validate, Persist, PersistFails, RpcFails,
       AbandonCandidates, LockRole, TrialCommit, FinalCommit, RollbackRole,
       TimerExpires, AdminEdits, AdminCommits, EndRun, Goto, run

RecordInv == VerdictInv /\ ConfirmedInv /\ (answerLost \/ RolledBackInv)

LEMMA RecordInvariant ==
    Spec => [](TypeOK /\ TrialInv /\ (disturbed \/ (KeptInv /\ RecordInv)))
<1>1. Init => RecordInv
  BY DEF Init, RecordInv, VerdictInv, ConfirmedInv, RolledBackInv, Reads,
         NoTransaction, NewTransaction
<1>2. TypeOK /\ TrialInv /\ KeptInv /\ RecordInv /\ ~disturbed' /\ [Next]_vars => RecordInv'
  BY VerdictStep, ConfirmedStep, RolledBackStep, AnswerLostForGood DEF RecordInv
<1>3. TypeOK /\ TrialInv /\ (disturbed \/ KeptInv) /\ (disturbed \/ RecordInv) /\ [Next]_vars
        => (disturbed \/ RecordInv)'
  BY <1>2, DisturbedForGood
<1>4. QED
  BY <1>1, <1>3, KeptInvariant, PTL DEF Spec

(* Undisturbed, a record that says COMMITTED_AND_CONFIRMED is true of both *)
(* devices, in every state in which somebody may read it.                  *)
THEOREM ConfirmedSafety == Spec => []ConfirmedRecordIsTrue
<1>1. disturbed \/ (KeptInv /\ RecordInv) => ConfirmedRecordIsTrue
  BY DEF RecordInv, ConfirmedInv, ConfirmedRecordIsTrue
<1>2. QED
  BY <1>1, RecordInvariant, PTL

(* A record that says ROLLED_BACK is true of both devices unless an answer *)
(* was lost or the pair was disturbed, in whichever mix the rollback had   *)
(* to take back candidates, trials and confirmed commits.                  *)
THEOREM RolledBackSafety == Spec => []RolledBackRecordIsTrue
<1>1. disturbed \/ (KeptInv /\ RecordInv) => RolledBackRecordIsTrue
  BY DEF RecordInv, RolledBackInv, RolledBackRecordIsTrue, RollbackClaimHolds
<1>2. QED
  BY <1>1, RecordInvariant, PTL

(* A one-sided change is never silent: the device that keeps it does so    *)
(* after a passed validation, and of the four statuses a record can have   *)
(* from then on two are true of both devices alike.                        *)
THEOREM OneSidedSafety == Spec => []OneSidedIsVisible
<1>1. TypeOK /\ KeptInv /\ RecordInv => OneSidedIsVisible
  <2> SUFFICES ASSUME TypeOK, KeptInv, RecordInv, AtRest, record.intact, ~answerLost,
                      NEW r \in Role, NEW q \in Role, Live(r), ~Live(q)
               PROVE  record.tx.status \in {"VALIDATED_PENDING_FINAL_CONFIRMATION",
                                            "ROLLBACK_INCOMPLETE"}
    BY DEF OneSidedIsVisible
  <2>1. Kept(r)
    BY DEF AtRest, Kept
  <2>2. record.tx.status \in PassedStatus
    BY <2>1 DEF KeptInv, RecordInv, VerdictInv
  <2>3. record.tx.status # "COMMITTED_AND_CONFIRMED"
    BY DEF RecordInv, ConfirmedInv, Reads, Kept
  <2>4. record.tx.status # "ROLLED_BACK"
    BY LiveFacts DEF RecordInv, RolledBackInv, Reads, Live
  <2>5. QED
    BY <2>2, <2>3, <2>4 DEF PassedStatus
<1>2. disturbed => OneSidedIsVisible
  BY DEF OneSidedIsVisible
<1>3. QED
  BY <1>1, <1>2, RecordInvariant, PTL

-----------------------------------------------------------------------------
(* The transaction implements the abstract change of the pair              *)

LEMMA QuietPairStep ==
    ASSUME TypeOK, TrialInv, KeptInv, ~disturbed', [Next]_vars
    PROVE  [Pair!Change]_pairState
<1> USE RoleFacts, LiveFacts
<1> DEFINE Same == \A q \in Role : /\ device'[q].running = device[q].running
                                  /\ device'[q].pending = device[q].pending
<1>1. ASSUME Same PROVE pairState' = pairState
  BY <1>1 DEF pairState, Live
<1>2. ASSUME NEW r \in Role, \A q \in Role : q # r => device'[q] = device[q]
      PROVE  pairState' = [pairState EXCEPT ![r] = pairState'[r]]
  BY <1>2 DEF pairState, Live
<1>3. ASSUME NEW r \in Role, TrialCommit(r)
      PROVE  Pair!Change
  <2>1. /\ ~Live(r) /\ Live(r)' /\ device'[r].pending
        /\ \A q \in Role : q # r => device'[q] = device[q]
    <3>1. device[r].running = Baseline /\ device[r].candidate = Staged
      BY <1>3 DEF TrialCommit, IsNext, TrialInv, Loaded
    <3>2. QED
      BY <1>3, <3>1 DEF TrialCommit, CommitConfirmed, Commit, TypeOK, Device, DeviceType, Live
  <2>2. pairState[r] = "base" /\ pairState'[r] = "trial"
    BY <2>1 DEF pairState
  <2>3. Pair!Try(r)
    BY <1>2, <2>1, <2>2 DEF Pair!Try
  <2>4. QED
    BY <2>3 DEF Pair!Change
<1>4. ASSUME NEW r \in Role, FinalCommit(r)
      PROVE  Pair!Change
  <2>1. Trying(r) /\ (\A q \in Role : Live(q)) /\ Clean(device[r])
    BY <1>4 DEF FinalCommit, IsNext, KeptInv, Trying, Kept
  <2>2. /\ Live(r)' /\ ~device'[r].pending
        /\ \A q \in Role : q # r => device'[q] = device[q]
    BY <1>4, <2>1 DEF FinalCommit, Commit, Clean, Trying, Live, TypeOK, Device, DeviceType
  <2>3. /\ pairState[r] = "trial" /\ pairState'[r] = "kept"
        /\ \A q \in Role : pairState[q] # "base"
    BY <2>1, <2>2 DEF pairState, Trying
  <2>4. Pair!Keep(r)
    BY <1>2, <2>2, <2>3 DEF Pair!Keep
  <2>5. QED
    BY <2>4 DEF Pair!Change
<1>5. ASSUME NEW r \in Role, RollbackRole(r)
      PROVE  [Pair!Change]_pairState
  <2>1. \/ device' = device
        \/ device' = [device EXCEPT ![r] = UndoDevice(r)]
    BY <1>5 DEF RollbackRole
  <2>2. CASE device' = device
    BY <1>1, <2>2
  <2>3. CASE device' = [device EXCEPT ![r] = UndoDevice(r)]
    <3>1. /\ device'[r] = UndoDevice(r)
          /\ \A q \in Role : q # r => device'[q] = device[q]
      BY <2>3 DEF TypeOK
    <3>2. pairState' = [pairState EXCEPT ![r] = pairState'[r]]
      BY <1>2, <3>1
    <3>3. pairState'[r] \in {pairState[r], "base"}
      <4>1. pc = "failed" /\ r \in Role \ undone
        BY <1>5 DEF RollbackRole, IsNextBack
      <4>2. /\ UndoDevice(r).running \in {Baseline, Staged}
            /\ ~UndoDevice(r).pending /\ UndoDevice(r).running = Staged => Kept(r)
            /\ UndoDevice(r).pending => /\ device[r].pending
                                        /\ UndoDevice(r).running = device[r].running
        BY <4>1, UndoOutcome, UndoSettles
      <4>3. CASE ~Live(r)'
        BY <4>3 DEF pairState
      <4>4. CASE Live(r)' /\ ~device'[r].pending
        <5>1. Kept(r)
          BY <3>1, <4>2, <4>4 DEF Live
        <5>2. QED
          BY <4>4, <5>1 DEF pairState, Kept
      <4>5. CASE Live(r)' /\ device'[r].pending
        <5>1. Live(r) /\ device[r].pending
          BY <3>1, <4>2, <4>5 DEF Live
        <5>2. QED
          BY <4>5, <5>1 DEF pairState
      <4>6. QED
        BY <4>3, <4>4, <4>5
    <3>4. CASE pairState'[r] = pairState[r]
      BY <3>2, <3>4 DEF pairState
    <3>5. CASE pairState'[r] = "base" /\ pairState[r] # "base"
      <4>1. pairState[r] \in {"trial", "kept"}
        BY <3>5 DEF pairState
      <4>2. Pair!Abandon(r) \/ Pair!Compensate(r)
        BY <3>2, <3>5, <4>1 DEF Pair!Abandon, Pair!Compensate
      <4>3. QED
        BY <4>2 DEF Pair!Change
    <3>6. QED
      BY <3>3, <3>4, <3>5
  <2>4. QED
    BY <2>1, <2>2, <2>3
<1>6. ASSUME NEW r \in Role, TimerExpires(r)
      PROVE  Pair!Change
  <2>1. /\ device[r].pending /\ device[r].prior = Baseline
        /\ device[r].running = Staged
    BY <1>6 DEF TimerExpires, TrialInv, TrialOverBaseline
  <2>2. /\ ~Live(r)' /\ Live(r)
        /\ \A q \in Role : q # r => device'[q] = device[q]
    BY <1>6, <2>1 DEF TimerExpires, AutoRollback, LoadRollback1, Commit,
                     TypeOK, Device, DeviceType, Live
  <2>3. pairState[r] = "trial" /\ pairState'[r] = "base"
    BY <2>1, <2>2 DEF pairState
  <2>4. Pair!Abandon(r)
    BY <1>2, <2>2, <2>3 DEF Pair!Abandon
  <2>5. QED
    BY <2>4 DEF Pair!Change
<1>7. CASE EndRun \/ UNCHANGED device \/ LoadCandidates
  <2>1. Same
    BY <1>7, EndRunKeepsRunning DEF LoadCandidates, LoadPlan, Merge, TypeOK, Device, DeviceType
  <2>2. QED
    BY <1>1, <2>1
<1>8. ASSUME NEW r \in Role, AdminEdits(r)
      PROVE  UNCHANGED pairState
  <2>1. Same
    BY <1>8 DEF AdminEdits, TypeOK, Device, DeviceType
  <2>2. QED
    BY <1>1, <2>1
<1>9. CASE StartRun \/ PlanOnly \/ Approve \/ Deny \/ Crash \/ Revalidate
           \/ LoadCandidates \/ CheckCandidates \/ Validate \/ Persist
           \/ PersistFails \/ RpcFails \/ AbandonCandidates \/ UNCHANGED vars
  BY <1>7, <1>9 DEF StartRun, PlanOnly, Approve, Deny, Crash, Revalidate,
     CheckCandidates, Validate, Persist, PersistFails, RpcFails,
     AbandonCandidates, vars
<1>10. ASSUME NEW r \in Role, LockRole(r)
       PROVE  [Pair!Change]_pairState
  BY <1>7, <1>10 DEF LockRole
<1>11. ~AdminCommits("qfx-a") /\ ~AdminCommits("qfx-b")
  BY DEF AdminCommits
<1>12. QED
  BY <1>3, <1>4, <1>5, <1>6, <1>8, <1>9, <1>10, <1>11 DEF Next, RunStep, Role

LEMMA PairStep ==
    ASSUME TypeOK, TrialInv, disturbed \/ KeptInv, [Next]_vars
    PROVE  [Pair!Next]_<<pairState, disturbed>>
<1>1. CASE disturbed'
  <2>1. pairState' \in Pair!States /\ disturbed' = TRUE
    BY <1>1, DisturbedForGood DEF pairState, Pair!States, TypeOK, Next, RunStep,
       TimerExpires, AdminCommits, vars
  <2>2. QED
    BY <2>1 DEF Pair!Next, Pair!Interfere
<1>2. CASE ~disturbed'
  <2>1. ~disturbed /\ UNCHANGED disturbed
    BY <1>2, DisturbedForGood DEF TypeOK, Next, RunStep, TimerExpires, AdminCommits, vars
  <2>2. [Pair!Change]_pairState
    BY <1>2, <2>1, QuietPairStep
  <2>3. QED
    BY <2>1, <2>2 DEF Pair!Next
<1>3. QED
  BY <1>1, <1>2

(* Undisturbed, whatever else fails, the transaction is a coordinated      *)
(* change of the pair: a device keeps the change only at a moment at which *)
(* the other one runs it too.                                              *)
THEOREM PairRefinement == Spec => PairSpec
<1>1. Init => Pair!Init
  BY LiveFacts DEF Init, NewDevice, Pair!Init, NewDevice, pairState, Live
<1>2. TypeOK /\ TrialInv /\ (disturbed \/ KeptInv) /\ [Next]_vars
        => [Pair!Next]_<<pairState, disturbed>>
  BY PairStep
<1>3. QED
  BY <1>1, <1>2, KeptInvariant, PTL DEF Spec, PairSpec, Pair!Spec

-----------------------------------------------------------------------------
(* Every run comes to its end.  StepsLeft counts what is left of it at     *)
(* most: the turns of the loops over the roles, each with its save, and    *)
(* the way out through the except clauses.                                 *)

Turns(done) == (IF "qfx-a" \in done THEN 0 ELSE 1) + (IF "qfx-b" \in done THEN 0 ELSE 1)

StepsLeft == CASE pc = "idle"              -> 0
               [] pc = "persist-rollback"  -> 1
               [] pc = "failed"            -> 2 + Turns(undone)
               [] pc = "persist-done"      -> 5
               [] pc = "confirm"           -> 5 + 2 * Turns(confirmed)
               [] pc = "persist-kept"      -> 6 + 2 * Turns(confirmed)
               [] pc = "persist-validated" -> 10
               [] pc = "validate"          -> 11
               [] pc = "commit"            -> 11 + 2 * Turns(committed)
               [] pc = "persist-trial"     -> 12 + 2 * Turns(committed)
               [] pc = "persist-approved"  -> 16
               [] pc = "prompt"            -> 17
               [] pc = "check"             -> 18
               [] pc = "load"              -> 19
               [] pc = "revalidate"        -> 20
               [] pc = "lock"              -> 20 + Turns(locked)

Environment == \E r \in Role : TimerExpires(r) \/ AdminEdits(r) \/ AdminCommits(r)

LEMMA TurnsFacts ==
    /\ \A done : Turns(done) \in 0 .. 2
    /\ \A done : \A r \in Role \ done : Turns(done \cup {r}) = Turns(done) - 1
BY DEF Turns, Role

LEMMA StepsFacts == TypeOK => /\ StepsLeft \in 0 .. 22
                              /\ StepsLeft = 0 <=> pc = "idle"
BY TurnsFacts DEF TypeOK, StepsLeft, PersistPoint, RpcPoint

(* The way out is shorter than what is left of the run anywhere else.      *)
LEMMA WayOut ==
    ASSUME TypeOK, TypeOK'
    PROVE  /\ pc # "idle" /\ pc' = "idle" => StepsLeft' < StepsLeft
           /\ pc \notin {"idle", "failed", "persist-rollback"} /\ pc' = "failed"
                => StepsLeft' < StepsLeft
<1>1. pc' = "idle" => StepsLeft' = 0
  BY DEF StepsLeft
<1>2. pc' = "failed" => StepsLeft' \in 2 .. 4
  BY TurnsFacts DEF StepsLeft
<1>3. pc # "idle" => StepsLeft >= 1
  BY StepsFacts
<1>4. pc \notin {"idle", "failed", "persist-rollback"} => StepsLeft >= 5
  BY TurnsFacts DEF TypeOK, StepsLeft, PersistPoint, RpcPoint
<1>5. QED
  BY <1>1, <1>2, <1>3, <1>4, StepsFacts

LEMMA StepShortens ==
    ASSUME TypeOK, TypeOK', RunStep
    PROVE  StepsLeft' < StepsLeft
<1>1. CASE pc' = "idle" /\ pc # "idle"
  BY <1>1, WayOut
<1>2. CASE pc' = "failed" /\ pc \notin {"idle", "failed", "persist-rollback"}
  BY <1>2, WayOut
<1>3. CASE Revalidate \/ LoadCandidates \/ CheckCandidates \/ Validate
  BY <1>2, <1>3 DEF Revalidate, LoadCandidates, CheckCandidates, Validate, Goto, StepsLeft
<1>4. CASE Persist
  <2>1. CASE AfterPersist = "idle"
    BY <1>1, <1>4, <2>1 DEF Persist, EndRun, PersistPoint
  <2>2. CASE AfterPersist # "idle"
    <3>1. /\ UNCHANGED <<committed, confirmed>> /\ pc' = AfterPersist /\ pc \in PersistPoint
      BY <1>4, <2>2 DEF Persist, Goto, EndRun
    <3>2. QED
      BY <2>2, <3>1, TurnsFacts DEF AfterPersist, PersistPoint, StepsLeft
  <2>3. QED
    BY <2>1, <2>2
<1>5. CASE PersistFails \/ RpcFails
  BY <1>1, <1>2, <1>5 DEF PersistFails, RpcFails, EndRun, Goto, PersistPoint, RpcPoint
<1>6. CASE AbandonCandidates
  BY <1>1, <1>6 DEF AbandonCandidates, EndRun
<1>7. ASSUME NEW r \in Role, LockRole(r) PROVE StepsLeft' < StepsLeft
  <2>1. CASE pc' = "failed"
    BY <1>2, <1>7, <2>1 DEF LockRole
  <2>2. CASE pc' # "failed"
    BY <1>7, <2>2, TurnsFacts DEF LockRole, IsNext, StepsLeft
  <2>3. QED
    BY <2>1, <2>2
<1>8. ASSUME NEW r \in Role, TrialCommit(r) PROVE StepsLeft' < StepsLeft
  <2>1. CASE pc' = "failed"
    BY <1>2, <1>8, <2>1 DEF TrialCommit
  <2>2. CASE pc' # "failed"
    BY <1>8, <2>2, TurnsFacts DEF TrialCommit, IsNext, StepsLeft
  <2>3. QED
    BY <2>1, <2>2
<1>9. ASSUME NEW r \in Role, FinalCommit(r) PROVE StepsLeft' < StepsLeft
  <2>1. CASE pc' = "failed"
    BY <1>2, <1>9, <2>1 DEF FinalCommit
  <2>2. CASE pc' # "failed"
    BY <1>9, <2>2, TurnsFacts DEF FinalCommit, IsNext, StepsLeft
  <2>3. QED
    BY <2>1, <2>2
<1>10. ASSUME NEW r \in Role, RollbackRole(r) PROVE StepsLeft' < StepsLeft
  <2>1. /\ pc = "failed" /\ pc' \in {"failed", "persist-rollback"}
        /\ r \notin undone /\ undone' = undone \cup {r}
    BY <1>10 DEF RollbackRole, IsNextBack
  <2>2. QED
    BY <2>1, TurnsFacts DEF StepsLeft
<1>11. QED
  BY <1>3, <1>4, <1>5, <1>6, <1>7, <1>8, <1>9, <1>10 DEF RunStep

(* A run takes at most 22 steps, whatever fails, times out or is saved in  *)
(* vain: no error path of run or _rollback_pair goes round in a circle,    *)
(* and only the devices' timers and an administrator act besides.          *)
THEOREM Termination ==
    Spec => /\ [](StepsLeft \in 0 .. 22 /\ (StepsLeft = 0 <=> pc = "idle"))
            /\ [][/\ RunStep => StepsLeft' < StepsLeft
                  /\ pc # "idle" => StepsLeft' < StepsLeft \/ Environment]_vars
<1>1. TypeOK => StepsLeft \in 0 .. 22 /\ (StepsLeft = 0 <=> pc = "idle")
  BY StepsFacts
<1>2. ASSUME TypeOK, TypeOK', [Next]_vars
      PROVE  [/\ RunStep => StepsLeft' < StepsLeft
              /\ pc # "idle" => StepsLeft' < StepsLeft \/ Environment]_vars
  <2> SUFFICES ASSUME Next, pc # "idle", ~RunStep, ~Environment
               PROVE  StepsLeft' < StepsLeft
    BY <1>2, StepShortens
  <2>1. CASE Deny \/ Crash
    <3>1. pc' = "idle"
      BY <2>1 DEF Deny, Crash, EndRun
    <3>2. QED
      BY <1>2, <3>1, WayOut
  <2>2. CASE Approve
    BY <2>2 DEF Approve, Goto, StepsLeft
  <2>3. QED
    BY <2>1, <2>2 DEF Next, StartRun, PlanOnly, Environment
<1>3. QED
  BY <1>1, <1>2, TypeCorrect, PTL DEF Spec
=============================================================================
