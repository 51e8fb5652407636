---------------------- MODULE EndpointActivationProofs ----------------------
(***************************************************************************)
(* Proofs about the activation of moved endpoints, for any interfaces,     *)
(* ports and VLANs, any approved plan, any number of runs and any cable    *)
(* moves between them.                                                     *)
(***************************************************************************)
EXTENDS EndpointActivation, Integers, FiniteSetTheorems, TLAPS

-----------------------------------------------------------------------------
(* The statements of a row                                                 *)

Usable(some) == \A r \in some : plan[r[1]] \in Vlan

LEMMA RowFacts ==
    /\ \A r \in Row : r[1] \in Intent /\ r[2] \in Port
    /\ \A r, q \in Row : r[1] = q[1] /\ r[2] = q[2] => r = q
BY DEF Row

LEMMA StatementFacts ==
    ASSUME NEW r \in Row, NEW s \in Statements(r)
    PROVE  /\ s.port = r[2] /\ s.kind \in {"member", "description"}
           /\ s.kind = "member" => s.value = plan[r[1]]
           /\ s.kind = "description" => s = Describe(r[2], r[1])
           /\ plan[r[1]] \in Vlan => s \in Statement
BY RowFacts DEF Statements, Member, Describe, Statement

LEMMA PayloadTyping ==
    ASSUME NEW some \in SUBSET Row, Usable(some)
    PROVE  Payload(some) \subseteq Statement
BY StatementFacts DEF Payload, Usable

LEMMA LoadFacts ==
    ASSUME NEW d \in DeviceType(Statement), NEW some \in SUBSET Statement
    PROVE  /\ Load(d, some) \in DeviceType(Statement)
           /\ Load(d, some).running = d.running /\ Load(d, some).prior = d.prior
           /\ Load(d, some).pending = d.pending
           /\ some \subseteq Load(d, some).candidate
           /\ Load(d, some).candidate \subseteq d.candidate \cup some
           /\ \A s \in d.candidate :
                \/ s \in Load(d, some).candidate
                \/ /\ s.kind = "description"
                   /\ \E t \in some : t.kind = "description" /\ t.port = s.port
BY DEF Load, DeviceType

-----------------------------------------------------------------------------
(* The typing of the state                                                 *)

LEMMA JunosTyping ==
    ASSUME NEW d \in DeviceType(Statement)
    PROVE  /\ Commit(d) \in DeviceType(Statement)
           /\ CommitConfirmed(d) \in DeviceType(Statement)
           /\ Commit(LoadRollback1(d)) \in DeviceType(Statement)
           /\ Discard(d) \in DeviceType(Statement)
           /\ CommitChecks(d) \subseteq DeviceType(Statement)
           /\ \A some \in SUBSET Statement : Merge(d, some) \in DeviceType(Statement)
BY DEF DeviceType, Commit, CommitConfirmed, LoadRollback1, Discard, Merge, CommitChecks

LEMMA EndRunTyping ==
    ASSUME TypeOK, EndRun \/ (Ended /\ device' \in {device, Discard(device)})
    PROVE  /\ device' \in DeviceType(Statement) /\ pc' = "idle" /\ UNCHANGED plan
           /\ rows' = {} /\ id' \in TxId /\ tx' \in Transaction
<1>1. device' \in {device, Discard(device)} /\ Ended
  BY DEF EndRun
<1>2. NoTransaction \in Transaction /\ 1 \in TxId
  BY BoundAssumption DEF NoTransaction, Transaction, Status, TxId
<1>3. QED
  BY <1>1, <1>2, JunosTyping DEF Ended, TypeOK

(* A run activates only rows that have a usable VLAN.                      *)
UsableRows == Usable(rows)

LEMMA ActivatedUsable ==
    ASSUME TypeOK, NEW evidence, NEW completed
    PROVE  Activated(evidence, completed) \subseteq {r \in Row : plan[r[1]] \in Vlan}
<1>1. \A r \in Row : plan[r[1]] \in Vlan \cup {NoVlan}
  BY RowFacts DEF TypeOK
<1>2. QED
  BY <1>1 DEF Activated, Candidates

LEMMA TornTyping ==
    ASSUME TypeOK, TornRecord
    PROVE  history' \in [TxId -> [tx : Transaction, intact : BOOLEAN]]
<1>1. [tx |-> tx, intact |-> FALSE] \in [tx : Transaction, intact : BOOLEAN]
  BY DEF TypeOK
<1>2. [history EXCEPT ![id] = [tx |-> tx, intact |-> FALSE]]
        \in [TxId -> [tx : Transaction, intact : BOOLEAN]]
  BY <1>1 DEF TypeOK
<1>3. QED
  BY <1>2 DEF TypeOK, TornRecord

LEMMA StepTyping == TypeOK /\ UsableRows /\ [Next]_vars => TypeOK' /\ UsableRows'
<1> SUFFICES ASSUME TypeOK, UsableRows, [Next]_vars PROVE TypeOK' /\ UsableRows'
  OBVIOUS
<1>0. device \in DeviceType(Statement) /\ Payload(rows) \subseteq Statement
  BY PayloadTyping DEF TypeOK, UsableRows
<1> USE DEF RpcPoint, PersistPoint
<1>1. ASSUME NEW evidence, Correlate(evidence), UNCHANGED disturbed
      PROVE  TypeOK' /\ UsableRows'
  <2>1. rows' \subseteq {r \in Row : plan[r[1]] \in Vlan}
    BY <1>1, ActivatedUsable DEF Correlate
  <2>2. QED
    BY <1>1, <2>1 DEF Correlate, TypeOK, UsableRows, Usable
<1>2. CASE Approve /\ UNCHANGED disturbed
  <2>1. tx' \in Transaction
    BY <1>2 DEF Approve, Transaction, Status, TypeOK
  <2>2. QED
    BY <1>2, <2>1 DEF Approve, TypeOK, UsableRows, Usable
<1>3. CASE (Deny \/ Preload \/ Lock \/ RpcFails \/ PersistFails \/ Crash) /\ UNCHANGED disturbed
  <2>1. history' \in [TxId -> [tx : Transaction, intact : BOOLEAN]]
    BY <1>3, TornTyping DEF Deny, Preload, Lock, RpcFails, PersistFails, Crash, TypeOK
  <2>2. CASE EndRun \/ (Ended /\ device' \in {device, Discard(device)})
    BY <1>3, <2>1, <2>2, EndRunTyping DEF TypeOK, UsableRows, Usable
  <2>3. CASE pc' \in {"lock", "load"} /\ UNCHANGED <<plan, rows, id, device, tx>>
    BY <1>3, <2>1, <2>3 DEF TypeOK, UsableRows, Usable
  <2>4. QED
    BY <1>3, <2>2, <2>3 DEF Deny, Preload, Lock, RpcFails, PersistFails, Crash, Goto
<1>4. CASE LoadCandidate /\ UNCHANGED disturbed
  <2>1. device' \in DeviceType(Statement)
    BY <1>0, <1>4, LoadFacts, JunosTyping DEF LoadCandidate
  <2>2. NoTransaction \in Transaction /\ 1 \in TxId
    BY BoundAssumption DEF NoTransaction, Transaction, Status, TxId
  <2>3. QED
    BY <1>4, <2>1, <2>2 DEF LoadCandidate, Ended, Goto, TypeOK, UsableRows, Usable
<1>5. CASE (TrialCommit \/ Validate \/ FinalCommit \/ Rollback) /\ UNCHANGED disturbed
  <2>1. device' \in DeviceType(Statement)
    BY <1>0, <1>5, JunosTyping DEF TrialCommit, Validate, FinalCommit, Rollback
  <2>2. NoTransaction \in Transaction /\ 1 \in TxId
    BY BoundAssumption DEF NoTransaction, Transaction, Status, TxId
  <2>3. tx' \in Transaction
    BY <1>5, <2>2 DEF TrialCommit, Validate, FinalCommit, Rollback, Ended, Undone, Transaction,
       Status, TypeOK
  <2>4. UNCHANGED <<plan, history>> /\ rows' \in {rows, {}} /\ id' \in {id, 1}
        /\ pc' \in {"idle", "rollback"} \cup PersistPoint
    BY <1>5 DEF TrialCommit, Validate, FinalCommit, Rollback, Ended, Goto
  <2>5. QED
    BY <1>5, <2>1, <2>2, <2>3, <2>4 DEF TypeOK, UsableRows, Usable
<1>6. CASE Persist /\ UNCHANGED disturbed
  <2>1. history' \in [TxId -> [tx : Transaction, intact : BOOLEAN]]
    BY <1>6 DEF Persist, TypeOK
  <2>2. CASE EndRun
    BY <1>6, <2>1, <2>2, EndRunTyping DEF TypeOK, UsableRows, Usable
  <2>3. CASE Goto(AfterPersist) /\ UNCHANGED <<device, tx>>
    BY <1>6, <2>1, <2>3 DEF Goto, AfterPersist, TypeOK, UsableRows, Usable
  <2>4. QED
    BY <1>6, <2>2, <2>3 DEF Persist
<1>7. CASE TimerExpires
  BY <1>0, <1>7, JunosTyping DEF TimerExpires, AutoRollback, TypeOK, UsableRows, Usable
<1>8. ASSUME NEW p \in Port, AdminEdits(p), UNCHANGED disturbed PROVE TypeOK' /\ UsableRows'
  <2>1. \A v \in Vlan : {Member(p, v)} \subseteq Statement
    BY DEF Member, Statement
  <2>2. device' \in DeviceType(Statement)
    <3>1. PICK v \in Vlan : device' = Merge(device, {Member(p, v)})
      BY <1>8 DEF AdminEdits
    <3>2. QED
      BY <1>0, <2>1, <3>1, JunosTyping
  <2>3. QED
    BY <1>8, <2>2 DEF AdminEdits, Unlocked, TypeOK, UsableRows, Usable
<1>9. ASSUME NEW p \in Port, AdminCommits(p) PROVE TypeOK' /\ UsableRows'
  <2>1. PICK config \in {{s \in device.running : s.port # p}} \cup
                        {device.running \cup {Member(p, v)} : v \in Vlan} :
          device' = Commit([device EXCEPT !.candidate = config])
    BY <1>9 DEF AdminCommits
  <2>2. config \subseteq Statement
    BY <1>0 DEF Member, Statement, DeviceType
  <2>3. [device EXCEPT !.candidate = config] \in DeviceType(Statement)
    BY <1>0, <2>2 DEF DeviceType
  <2>4. device' \in DeviceType(Statement)
    BY <2>1, <2>3, JunosTyping
  <2>5. QED
    BY <1>9, <2>4 DEF AdminCommits, Unlocked, TypeOK, UsableRows, Usable
<1>10. CASE UNCHANGED vars
  BY <1>10 DEF vars, TypeOK, UsableRows, Usable
<1>11. QED
  BY <1>1, <1>2, <1>3, <1>4, <1>5, <1>6, <1>7, <1>8, <1>9, <1>10 DEF Next

LEMMA UsableInvariant == Spec => [](TypeOK /\ UsableRows)
<1>1. Init => TypeOK /\ UsableRows
  <2>1. NoTransaction \in Transaction /\ 1 \in TxId
    BY BoundAssumption DEF NoTransaction, Transaction, Status, TxId
  <2>2. NewDevice({}) \in DeviceType(Statement)
    BY DEF NewDevice, DeviceType
  <2>3. ASSUME Init PROVE TypeOK
    <3>1. [i \in TxId |-> [tx |-> NoTransaction, intact |-> TRUE]]
            \in [TxId -> [tx : Transaction, intact : BOOLEAN]]
      BY <2>1
    <3>2. QED
      BY <2>1, <2>2, <2>3, <3>1 DEF Init, TypeOK
  <2>4. QED
    BY <2>3 DEF Init, UsableRows, Usable
<1>2. QED
  BY <1>1, StepTyping, PTL DEF Spec

(* Every reachable state is well typed: a run loads statements for usable  *)
(* VLANs only, so that no port is ever configured with one that is not.    *)
THEOREM TypeCorrect == Spec => []TypeOK
BY UsableInvariant, PTL

-----------------------------------------------------------------------------
(* What a step does to the switch                                          *)

Quiet(d, e) == e.running = d.running /\ e.prior = d.prior /\ (e.pending => d.pending)
Committed(d, e, config, trial) == /\ e.running = config /\ e.candidate = config
                                  /\ e.prior = d.running /\ e.pending = trial

LEMMA DeviceEffects ==
    ASSUME TypeOK, UsableRows
    PROVE  /\ EndRun => Quiet(device, device')
           /\ Lock => Quiet(device, device')
           /\ TrialCommit => Committed(device, device', device.candidate, TRUE)
           /\ FinalCommit => Committed(device, device', device.candidate, FALSE)
           /\ Rollback => UNCHANGED device \/ Committed(device, device', device.prior, FALSE)
           /\ TimerExpires => Committed(device, device', device.prior, FALSE)
           /\ \A p \in Port : AdminEdits(p) => Quiet(device, device')
           /\ \A p \in Port : AdminCommits(p) => ~device'.pending
<1>0. device \in DeviceType(Statement)
  BY DEF TypeOK
<1>1. Quiet(device, device) /\ Quiet(device, Discard(device))
  BY <1>0 DEF Quiet, Discard, DeviceType
<1>2. /\ Committed(device, CommitConfirmed(device), device.candidate, TRUE)
      /\ Committed(device, Commit(device), device.candidate, FALSE)
      /\ Committed(device, Commit(LoadRollback1(device)), device.prior, FALSE)
  BY <1>0 DEF Committed, CommitConfirmed, Commit, LoadRollback1, DeviceType
<1>3. \A some : Quiet(device, Merge(device, some))
  BY <1>0 DEF Quiet, Merge, DeviceType
<1>4. \A config : ~Commit([device EXCEPT !.candidate = config]).pending
  BY <1>0 DEF Commit, DeviceType
<1>5. \A p \in Port : AdminEdits(p) => \E some : device' = Merge(device, some)
  BY DEF AdminEdits
<1>6. \A p \in Port : AdminCommits(p) =>
        \E config : device' = Commit([device EXCEPT !.candidate = config])
  BY DEF AdminCommits
<1>7. /\ EndRun => device' \in {device, Discard(device)}
      /\ Lock => device' \in {device, Discard(device)}
  BY DEF EndRun, Lock
<1>8. /\ TrialCommit => device' = CommitConfirmed(device)
      /\ FinalCommit => device' = Commit(device)
      /\ Rollback => device' \in {device, Commit(LoadRollback1(device))}
      /\ TimerExpires => device' = Commit(LoadRollback1(device))
  BY DEF TrialCommit, FinalCommit, Rollback, TimerExpires, AutoRollback
<1>9. QED
  BY <1>1, <1>2, <1>3, <1>4, <1>5, <1>6, <1>7, <1>8

IsMember(s) == s.kind = "member"

LEMMA LoadEffects ==
    ASSUME TypeOK, UsableRows, LoadCandidate
    PROVE  /\ Quiet(device, device')
           /\ device'.candidate \subseteq device.candidate \cup Payload(rows)
           /\ Payload(rows) \subseteq device'.candidate
           /\ \A s \in device.candidate :
                \/ s \in device'.candidate
                \/ /\ ~IsMember(s)
                   /\ \E t \in Payload(rows) : ~IsMember(t) /\ t.port = s.port
<1>0. device \in DeviceType(Statement) /\ Payload(rows) \in SUBSET Statement
  BY PayloadTyping DEF TypeOK, UsableRows
<1> DEFINE loaded == Load(device, Payload(rows))
<1>1. device' \in CommitChecks(loaded)
  BY DEF LoadCandidate
<1>2. loaded \in DeviceType(Statement)
  BY <1>0, LoadFacts
<1> HIDE DEF loaded
<1>3. /\ device'.running = loaded.running /\ device'.prior = loaded.prior
      /\ device'.candidate = loaded.candidate /\ (device'.pending => loaded.pending)
  BY <1>1, <1>2 DEF CommitChecks, DeviceType
<1> USE DEF loaded
<1>4. QED
  BY <1>0, <1>3, LoadFacts DEF Quiet, IsMember

-----------------------------------------------------------------------------
(* What the lock and the approval keep                                     *)

LEMMA PayloadKept == UNCHANGED <<plan, rows>> => UNCHANGED Payload(rows)
BY DEF Payload, Statements

Loaded == {"prompt", "persist-approved", "commit"}

(* The candidate of a run holds its statements on top of what runs, a      *)
(* trial is the same over rollback 1, and loading never takes a port out   *)
(* of a VLAN.                                                              *)
DeviceInv ==
    /\ pc = "load" \/ OwnTrial \/ pc = "persist-kept" => Clean(device)
    /\ pc \in Loaded => /\ device.candidate \ device.running \subseteq Payload(rows)
                        /\ \A s \in device.running : IsMember(s) => s \in device.candidate
    /\ OwnTrial /\ device.pending => device.running \ device.prior \subseteq Payload(rows)
    /\ device.pending => \A s \in device.prior : IsMember(s) => s \in device.running
    /\ pc = "persist-kept" => ~device.pending

LEMMA DeviceStep == TypeOK /\ UsableRows /\ DeviceInv /\ [Next]_vars => DeviceInv'
<1> SUFFICES ASSUME TypeOK, UsableRows, DeviceInv, [Next]_vars PROVE DeviceInv'
  OBVIOUS
<1> USE DEF DeviceInv, OwnTrial, Loaded, Clean
<1>0. UNCHANGED <<plan, rows>> => UNCHANGED Payload(rows)
  BY PayloadKept
<1>1. CASE EndRun
  BY <1>1, DeviceEffects DEF EndRun, Ended, Quiet
<1>2. ASSUME NEW evidence, Correlate(evidence) PROVE DeviceInv'
  BY <1>2 DEF Correlate
<1>3. CASE Approve \/ Validate
  BY <1>0, <1>3 DEF Approve, Validate, Goto
<1>4. CASE UNCHANGED device /\ (Preload \/ Lock \/ Persist) /\ Goto(pc')
  <2>1. \/ pc' = "lock"
        \/ pc' = "load" /\ Clean(device)
        \/ pc = "persist-approved" /\ pc' = "commit"
        \/ pc = "persist-trial" /\ pc' = "validate"
        \/ pc = "persist-validated" /\ pc' = "confirm"
        \/ pc' = "idle"
    BY <1>4 DEF Preload, Lock, Persist, PersistPoint, AfterPersist, EndRun, Ended, Goto
  <2>2. QED
    BY <1>0, <1>4, <2>1 DEF Goto
<1>5. CASE Lock /\ Ended
  BY <1>5, DeviceEffects DEF Ended, Quiet
<1>6. CASE LoadCandidate
  BY <1>0, <1>6, LoadEffects DEF LoadCandidate, Ended, Goto, Quiet
<1>7. CASE TrialCommit
  <2>1. Committed(device, device', device.candidate, TRUE) /\ pc = "commit"
    BY <1>7, DeviceEffects DEF TrialCommit
  <2>2. pc' = "idle" \/ (pc' = "persist-trial" /\ UNCHANGED <<plan, rows>>)
    BY <1>7 DEF TrialCommit, Ended, Goto
  <2>3. QED
    BY <1>0, <2>1, <2>2 DEF Committed
<1>8. CASE FinalCommit
  BY <1>8, DeviceEffects DEF FinalCommit, Ended, Goto, Committed
<1>9. CASE Rollback
  <2>1. UNCHANGED device \/ Committed(device, device', device.prior, FALSE)
    BY <1>9, DeviceEffects
  <2>2. pc = "rollback" /\ pc' = "persist-rollback" /\ UNCHANGED <<plan, rows>>
    BY <1>9 DEF Rollback, Goto
  <2>3. QED
    BY <1>0, <2>1, <2>2 DEF Committed
<1>10. CASE TimerExpires
  BY <1>0, <1>10, DeviceEffects DEF TimerExpires, Committed
<1>11. ASSUME NEW p \in Port, AdminEdits(p) \/ AdminCommits(p) PROVE DeviceInv'
  <2>1. pc' = pc /\ pc \in {"idle", "preload", "lock"}
    BY <1>11 DEF AdminEdits, AdminCommits, Unlocked, Locked
  <2>2. Quiet(device, device') \/ ~device'.pending
    BY <1>11, DeviceEffects
  <2>3. QED
    BY <2>1, <2>2 DEF Quiet
<1>12. CASE UNCHANGED vars
  BY <1>0, <1>12 DEF vars
<1>13. QED
  BY <1>1, <1>2, <1>3, <1>4, <1>5, <1>6, <1>7, <1>8, <1>9, <1>10, <1>11, <1>12
     DEF Next, Deny, Crash, Preload, Lock, Persist, PersistFails, RpcFails, Goto

LEMMA DeviceInvariant == Spec => [](TypeOK /\ UsableRows /\ DeviceInv)
<1>1. Init => DeviceInv
  BY DEF Init, DeviceInv, OwnTrial, Loaded, NewDevice
<1>2. QED
  BY <1>1, DeviceStep, UsableInvariant, PTL DEF Spec

(* Under every fault a trial adds to what ran before only what the run was *)
(* approved to write, edits left in the shared candidate included.         *)
THEOREM TrialSafety == Spec => []TrialIsExact
<1>1. DeviceInv => TrialIsExact
  BY DEF DeviceInv, TrialIsExact
<1>2. QED
  BY <1>1, DeviceInvariant, PTL

-----------------------------------------------------------------------------
(* How the history grows                                                   *)

Counts(t) == t.status = "COMMITTED_AND_CONFIRMED" /\ t.validation = "PASS"
Blank(i) == history[i].tx.rows = {} \/ ~Counts(history[i].tx)
Approved == PersistPoint \cup {"commit", "validate", "confirm", "rollback"}

(* The record of the run at work: it is about its rows, it takes the place *)
(* of none that counts, and it counts itself only after the final commit.  *)
RunInv == pc \in Approved =>
    /\ tx.rows = rows /\ Blank(id)
    /\ pc # "persist-kept" => tx.status # "COMMITTED_AND_CONFIRMED"

LEMMA HistoricalFacts ==
    /\ \A i \in TxId : Counts(history[i].tx) => history[i].tx.rows \subseteq Historical
    /\ \A r \in Historical : \E i \in TxId : Counts(history[i].tx) /\ r \in history[i].tx.rows
    /\ TypeOK => Historical \subseteq Row
<1>1. \A r : r \in Historical <=> \E i \in TxId : Counts(history[i].tx) /\ r \in history[i].tx.rows
  BY DEF Historical, Counts
<1>2. TypeOK => \A i \in TxId : history[i].tx.rows \subseteq Row
  BY DEF TypeOK, Transaction
<1>3. QED
  BY <1>1, <1>2

(* What writing the run's record over a blank one does to the history.     *)
LEMMA Recording ==
    ASSUME TypeOK, pc \in PersistPoint, RunInv, NEW whole,
           history' = [history EXCEPT ![id] = [tx |-> tx, intact |-> whole]]
    PROVE  Historical' = IF Counts(tx) THEN Historical \cup rows ELSE Historical
<1>1. /\ history'[id].tx = tx /\ \A i \in TxId \ {id} : history'[i] = history[i]
      /\ id \in TxId
  BY DEF TypeOK
<1>2. tx.rows = rows /\ Blank(id)
  BY DEF RunInv, Approved
<1>3. /\ \A r : r \in Historical <=> \E i \in TxId : Counts(history[i].tx) /\ r \in history[i].tx.rows
      /\ \A r : r \in Historical' <=> \E i \in TxId : Counts(history'[i].tx) /\ r \in history'[i].tx.rows
  BY DEF Historical, Counts
<1>4. \A r : r \in Historical <=> \E i \in TxId \ {id} : Counts(history[i].tx) /\ r \in history[i].tx.rows
  BY <1>2, <1>3 DEF Blank
<1>5. \A r : r \in Historical' <=> (r \in Historical \/ (Counts(tx) /\ r \in rows))
  BY <1>1, <1>2, <1>3, <1>4
<1>6. QED
  BY <1>5

LEMMA HistoryChanges ==
    ASSUME TypeOK, RunInv, [Next]_vars
    PROVE  \/ UNCHANGED history /\ UNCHANGED Historical
           \/ /\ pc \in PersistPoint
              /\ \E whole : history' = [history EXCEPT ![id] = [tx |-> tx, intact |-> whole]]
              /\ \/ UNCHANGED Historical
                 \/ pc = "persist-kept" /\ Historical' = Historical \cup rows
<1>1. \/ UNCHANGED history
      \/ /\ pc \in PersistPoint
         /\ \E whole : history' = [history EXCEPT ![id] = [tx |-> tx, intact |-> whole]]
  BY DEF Next, Correlate, Approve, Deny, Crash, Preload, Lock, LoadCandidate, TrialCommit, Validate,
     FinalCommit, Rollback, Persist, PersistFails, TornRecord, RpcFails, AdminEdits, AdminCommits,
     Unlocked, TimerExpires, vars
<1>2. UNCHANGED history => UNCHANGED Historical
  BY DEF Historical
<1>3. pc \in PersistPoint /\ Counts(tx) => pc = "persist-kept"
  BY DEF RunInv, Approved, Counts
<1>4. QED
  BY <1>1, <1>2, <1>3, Recording

LEMMA RunStep == TypeOK /\ RunInv /\ [Next]_vars => RunInv'
<1> SUFFICES ASSUME TypeOK, RunInv, [Next]_vars PROVE RunInv'
  OBVIOUS
<1>0. UNCHANGED history => (UNCHANGED id => UNCHANGED Blank(id))
  BY DEF Blank
<1> USE DEF Approved, PersistPoint
<1>1. CASE pc' \in {"idle", "preload", "lock", "load", "prompt"}
  BY <1>1 DEF RunInv
<1>2. CASE Approve
  <2>1. id' \in TxId /\ (history[id'].tx.rows = {} \/ (history[id'].tx.rows = rows /\ rows \cap Historical = {}))
    BY <1>2 DEF Approve
  <2>2. ~Counts(history[id'].tx) \/ history[id'].tx.rows = {}
    BY <2>1, HistoricalFacts
  <2>3. Blank(id)'
    BY <1>2, <2>2 DEF Approve, Blank
  <2>4. QED
    BY <1>2, <2>3 DEF Approve, RunInv
<1>3. CASE TrialCommit \/ Validate \/ FinalCommit \/ Rollback
  <2>1. CASE Ended
    BY <1>1, <2>1 DEF Ended
  <2>2. CASE UNCHANGED <<rows, id, history>> /\ tx'.rows = tx.rows /\ pc \in Approved
             /\ (pc' = "persist-kept" \/ tx'.status # "COMMITTED_AND_CONFIRMED")
    BY <1>0, <2>2 DEF RunInv
  <2>3. tx \in Transaction /\ (pc # "persist-kept" => tx.status # "COMMITTED_AND_CONFIRMED" \/ pc \notin Approved)
    BY DEF TypeOK, RunInv
  <2>4. QED
    BY <1>3, <2>1, <2>2, <2>3 DEF TrialCommit, Validate, FinalCommit, Rollback, Undone, Goto, Transaction
<1>4. CASE Persist
  <2>1. CASE EndRun
    BY <1>1, <2>1 DEF EndRun, Ended
  <2>2. CASE Goto(AfterPersist) /\ UNCHANGED <<device, tx>> /\ AfterPersist # "idle"
    <3>1. pc # "persist-kept" /\ pc \in Approved
      BY <1>4, <2>2 DEF Persist, AfterPersist
    <3>2. history' = [history EXCEPT ![id] = [tx |-> tx, intact |-> TRUE]] /\ id' = id
      BY <1>4, <2>2 DEF Persist, Goto
    <3>3. history'[id] = [tx |-> tx, intact |-> TRUE]
      BY <3>2 DEF TypeOK
    <3>4. tx.rows = rows /\ tx.status # "COMMITTED_AND_CONFIRMED"
      BY <3>1 DEF RunInv
    <3>5. Blank(id)'
      BY <3>2, <3>3, <3>4 DEF Blank, Counts
    <3>6. QED
      BY <2>2, <3>4, <3>5 DEF RunInv, Goto
  <2>3. QED
    BY <1>4, <2>1, <2>2 DEF Persist
<1>5. CASE UNCHANGED <<pc, rows, id, tx, history>>
  BY <1>0, <1>5 DEF RunInv
<1>6. QED
  BY <1>1, <1>2, <1>3, <1>4, <1>5 DEF Next, Correlate, Deny, Crash, Preload, Lock, LoadCandidate,
     PersistFails, RpcFails, EndRun, Ended, Goto, AdminEdits, AdminCommits, Unlocked,
     TimerExpires, vars

LEMMA RunInvariant == Spec => [](TypeOK /\ UsableRows /\ DeviceInv /\ RunInv)
<1>1. Init => RunInv
  BY DEF Init, RunInv, Approved, PersistPoint
<1>2. QED
  BY <1>1, RunStep, DeviceInvariant, PTL DEF Spec

-----------------------------------------------------------------------------
(* The ledger, until somebody interferes                                   *)

(* What a run adds is one to one and keeps clear of what is complete.      *)
LedgerInv == /\ OneToOne(Historical) /\ OneToOne(rows)
             /\ \A r \in rows, q \in Historical : r[1] # q[1] /\ r[2] # q[2]

(* What is complete runs for good, a run at work takes none of it away,    *)
(* its trial is still on its timer and what it validated is there.         *)
LiveInv ==
    /\ \A r \in Historical : /\ Present(r)
                             /\ device.pending => Statements(r) \subseteq device.prior
                             /\ pc \in Loaded => Statements(r) \subseteq device.candidate
    /\ OwnTrial /\ pc # "persist-rollback" => device.pending
    /\ pc \in {"persist-validated", "confirm", "persist-kept"} =>
         Payload(rows) \subseteq device.running

LEMMA RowsChanges ==
    ASSUME TypeOK, RunInv, [Next]_vars
    PROVE  /\ UNCHANGED plan
           /\ \/ pc' = "idle" /\ rows' = {}
              \/ \E evidence : Correlate(evidence)
              \/ UNCHANGED <<rows, Historical>>
<1>1. \/ pc' = "idle" /\ rows' = {}
      \/ \E evidence : Correlate(evidence)
      \/ UNCHANGED <<rows, history>>
      \/ UNCHANGED rows /\ pc # "persist-kept"
  BY DEF Next, Approve, Deny, Crash, Preload, Lock, LoadCandidate, TrialCommit, Validate,
     FinalCommit, Rollback, Persist, AfterPersist, PersistFails, RpcFails, EndRun, Ended, Goto,
     AdminEdits, AdminCommits, Unlocked, TimerExpires, vars
<1>2. UNCHANGED plan
  BY DEF Next, Correlate, Approve, Deny, Crash, Preload, Lock, LoadCandidate, TrialCommit, Validate,
     FinalCommit, Rollback, Persist, PersistFails, RpcFails, EndRun, Ended, Goto,
     AdminEdits, AdminCommits, Unlocked, TimerExpires, vars
<1>3. UNCHANGED history => UNCHANGED Historical
  BY DEF Historical
<1>4. QED
  BY <1>1, <1>2, <1>3, HistoryChanges

(* A correlation gives no interface twice and no port twice.               *)
LEMMA Correlated ==
    ASSUME NEW evidence, NEW completed
    PROVE  /\ OneToOne(Activated(evidence, completed))
           /\ \A r \in Activated(evidence, completed), q \in completed :
                r[1] # q[1] /\ r[2] # q[2]
<1> DEFINE active == Activated(evidence, completed)
<1>1. \A r \in active : /\ r \in Row /\ evidence[r[1]] = {r[2]}
                        /\ \A q \in completed : q[1] # r[1] /\ q[2] # r[2]
                        /\ \A q \in active : q[2] = r[2] => q = r
  BY DEF Activated, Candidates
<1> HIDE DEF active
<1>2. OneToOne(active)
  <2> SUFFICES ASSUME NEW r \in active, NEW q \in active PROVE r[1] = q[1] <=> r[2] = q[2]
    BY DEF OneToOne
  <2>1. r[1] = q[1] => {r[2]} = {q[2]}
    BY <1>1
  <2>2. r[2] = q[2] => q = r
    BY <1>1
  <2>3. QED
    BY <2>1, <2>2
<1>3. QED
  BY <1>1, <1>2 DEF active

LEMMA CompletedIsHistorical == LiveInv => Completed = Historical
BY DEF LiveInv, Completed

LEMMA LedgerStep ==
    TypeOK /\ RunInv /\ LedgerInv /\ LiveInv /\ [Next]_vars => LedgerInv'
<1> SUFFICES ASSUME TypeOK, RunInv, LedgerInv, LiveInv, [Next]_vars PROVE LedgerInv'
  OBVIOUS
<1>1. CASE pc' = "idle" /\ rows' = {}
  <2>1. UNCHANGED Historical \/ Historical' = Historical \cup rows
    BY HistoryChanges
  <2>2. OneToOne(Historical) /\ OneToOne(Historical \cup rows)
    BY DEF LedgerInv, OneToOne
  <2>3. OneToOne(Historical')
    BY <2>1, <2>2
  <2>4. QED
    BY <1>1, <2>3 DEF LedgerInv, OneToOne
<1>2. ASSUME NEW evidence, Correlate(evidence) PROVE LedgerInv'
  <2>1. UNCHANGED Historical
    BY <1>2 DEF Correlate, Historical
  <2>2. rows' = {} \/ rows' = Activated(evidence, Historical)
    BY <1>2, CompletedIsHistorical DEF Correlate
  <2>3. OneToOne(rows') /\ \A r \in rows', q \in Historical : r[1] # q[1] /\ r[2] # q[2]
    BY <2>2, Correlated DEF OneToOne
  <2>4. OneToOne(Historical')
    BY <2>1 DEF LedgerInv
  <2>5. QED
    BY <2>1, <2>3, <2>4 DEF LedgerInv, OneToOne
<1>3. CASE UNCHANGED <<rows, Historical>>
  BY <1>3 DEF LedgerInv, OneToOne
<1>4. QED
  BY <1>1, <1>2, <1>3, RowsChanges

LEMMA LiveStep ==
    /\ TypeOK /\ UsableRows /\ DeviceInv /\ RunInv /\ LedgerInv /\ LiveInv
    /\ [Next]_vars /\ ~disturbed'
    => LiveInv'
<1> SUFFICES ASSUME TypeOK, UsableRows, DeviceInv, RunInv, LedgerInv, LiveInv, [Next]_vars,
                    ~disturbed'
             PROVE  LiveInv'
  OBVIOUS
<1> DEFINE Kept(d) == \A r \in Historical' : /\ Statements(r) \subseteq d.running
                                             /\ d.pending => Statements(r) \subseteq d.prior
<1>1. \A r : UNCHANGED Statements(r)
  BY RowsChanges DEF Statements
<1>2. UNCHANGED rows => UNCHANGED Payload(rows)
  BY RowsChanges, PayloadKept
<1>3. Kept(device)
  <2>1. \A r \in Historical : /\ Statements(r) \subseteq device.running
                              /\ device.pending => Statements(r) \subseteq device.prior
    BY DEF LiveInv, Present
  <2>2. CASE UNCHANGED Historical
    BY <2>1, <2>2
  <2>3. CASE pc = "persist-kept" /\ Historical' = Historical \cup rows
    <3>1. \A r \in rows : Statements(r) \subseteq device.running
      BY <2>3 DEF LiveInv, Payload
    <3>2. ~device.pending
      BY <2>3 DEF DeviceInv
    <3>3. QED
      BY <2>1, <2>3, <3>1, <3>2
  <2>4. QED
    BY <2>2, <2>3, HistoryChanges
<1>4. ASSUME Kept(device'),
             pc' \in Loaded => \A r \in Historical' : Statements(r) \subseteq device'.candidate,
             OwnTrial' /\ pc' # "persist-rollback" => device'.pending,
             pc' \in {"persist-validated", "confirm", "persist-kept"} =>
               Payload(rows)' \subseteq device'.running
      PROVE  LiveInv'
  BY <1>1, <1>4 DEF LiveInv, Present
<1>5. Quiet(device, device') => Kept(device')
  BY <1>3 DEF Quiet
<1> HIDE DEF Kept
<1> USE DEF Loaded, OwnTrial
<1>6. CASE EndRun \/ (Lock /\ Ended)
  <2>1. Quiet(device, device') /\ pc' = "idle"
    BY <1>6, DeviceEffects DEF EndRun, Ended
  <2>2. QED
    BY <1>4, <1>5, <2>1
<1>7. CASE UNCHANGED device /\ pc' \in {"idle", "preload", "lock", "load"}
  BY <1>4, <1>5, <1>7 DEF Quiet
<1>8. CASE Approve \/ (Persist /\ ~EndRun)
  <2>1. /\ UNCHANGED <<device, rows>>
        /\ \/ pc = "prompt" /\ pc' = "persist-approved"
           \/ pc = "persist-approved" /\ pc' = "commit"
           \/ pc = "persist-trial" /\ pc' = "validate"
           \/ pc = "persist-validated" /\ pc' = "confirm"
    BY <1>8 DEF Approve, Persist, PersistPoint, AfterPersist, Goto
  <2>2. UNCHANGED Historical
    BY <2>1, HistoryChanges
  <2>3. QED
    BY <1>1, <1>2, <1>3, <1>4, <2>1, <2>2 DEF LiveInv
<1>9. CASE Validate
  <2>1. /\ UNCHANGED <<device, rows>> /\ pc = "validate"
        /\ \/ pc' = "rollback"
           \/ pc' = "persist-validated" /\ Payload(rows) \subseteq device.running
    BY <1>9 DEF Validate, Goto
  <2>2. QED
    BY <1>2, <1>3, <1>4, <2>1 DEF LiveInv
<1>10. CASE LoadCandidate
  <2>1. /\ Quiet(device, device') /\ pc = "load" /\ Clean(device)
        /\ pc' \in {"idle", "prompt"} /\ UNCHANGED history
    BY <1>10, LoadEffects DEF LoadCandidate, Ended, Goto, DeviceInv
  <2>2. UNCHANGED Historical
    BY <2>1 DEF Historical
  <2>3. \A r \in Historical : Statements(r) \subseteq device'.candidate
    <3> SUFFICES ASSUME NEW r \in Historical, NEW s \in Statements(r),
                        s \notin device'.candidate
                 PROVE  FALSE
      OBVIOUS
    <3>1. s \in device.candidate
      BY <2>1 DEF LiveInv, Present, Clean
    <3>2. PICK t \in Payload(rows) : t.port = s.port
      BY <1>10, <3>1, LoadEffects
    <3>3. PICK q \in rows : t \in Statements(q)
      BY DEF Payload
    <3>4. q \in Row /\ r \in Row
      BY HistoricalFacts DEF TypeOK
    <3>5. t.port = q[2] /\ s.port = r[2]
      BY <3>3, <3>4, StatementFacts
    <3>6. QED
      BY <3>2, <3>5 DEF LedgerInv
  <2>4. QED
    BY <1>4, <1>5, <2>1, <2>2, <2>3
<1>11. CASE TrialCommit
  <2>1. /\ Committed(device, device', device.candidate, TRUE) /\ pc = "commit"
        /\ pc' \in {"idle", "persist-trial"} /\ UNCHANGED history
    BY <1>11, DeviceEffects DEF TrialCommit, Ended, Goto
  <2>2. UNCHANGED Historical
    BY <2>1 DEF Historical
  <2>3. \A r \in Historical : /\ Statements(r) \subseteq device.candidate
                              /\ Statements(r) \subseteq device.running
    BY <2>1 DEF LiveInv, Present
  <2>4. Kept(device')
    BY <2>1, <2>2, <2>3 DEF Kept, Committed
  <2>5. QED
    BY <1>4, <2>1, <2>4 DEF Committed
<1>12. CASE FinalCommit
  <2>1. /\ Committed(device, device', device.candidate, FALSE) /\ pc = "confirm"
        /\ Clean(device)
        /\ pc' = "idle" \/ (pc' = "persist-kept" /\ UNCHANGED rows)
    BY <1>12, DeviceEffects DEF FinalCommit, Ended, Goto, DeviceInv
  <2>2. device'.running = device.running /\ ~device'.pending
    BY <2>1 DEF Committed, Clean
  <2>3. Kept(device')
    BY <1>3, <2>2 DEF Kept
  <2>4. QED
    BY <1>2, <1>4, <2>1, <2>2, <2>3 DEF LiveInv
<1>13. CASE Rollback \/ TimerExpires
  <2>1. \/ UNCHANGED device /\ pc' = "persist-rollback"
        \/ /\ Committed(device, device', device.prior, FALSE) /\ device.pending
           /\ \/ pc' = "persist-rollback"
              \/ pc' = pc /\ ~OwnTrial
    <3>1. CASE Rollback
      BY <3>1, DeviceEffects DEF Rollback, Goto, LiveInv
    <3>2. CASE TimerExpires
      BY <3>2, DeviceEffects DEF TimerExpires
    <3>3. QED
      BY <1>13, <3>1, <3>2
  <2>2. Kept(device')
    BY <1>3, <2>1 DEF Kept, Committed
  <2>3. device.pending => pc # "persist-kept"
    BY DEF DeviceInv
  <2>4. Committed(device, device', device.prior, FALSE) =>
          \A r \in Historical' : Statements(r) \subseteq device'.candidate
    BY <2>2 DEF Kept, Committed
  <2>5. QED
    BY <1>4, <2>1, <2>2, <2>3, <2>4
<1>14. ASSUME NEW p \in Port, AdminEdits(p) PROVE LiveInv'
  <2>1. pc' = pc /\ pc \in {"idle", "preload", "lock"} /\ Quiet(device, device')
    BY <1>14, DeviceEffects DEF AdminEdits, Unlocked, Locked
  <2>2. QED
    BY <1>4, <1>5, <2>1
<1>15. \A p \in Port : ~AdminCommits(p)
  BY DEF AdminCommits
<1>16. CASE UNCHANGED vars
  <2>1. UNCHANGED <<Historical, rows>> /\ UNCHANGED <<device, pc>>
    BY <1>16 DEF vars, Historical
  <2>2. QED
    BY <1>1, <1>2, <1>3, <1>4, <2>1 DEF LiveInv
<1>17. QED
  BY <1>6, <1>7, <1>8, <1>9, <1>10, <1>11, <1>12, <1>13, <1>14, <1>15, <1>16 DEF Next, Correlate,
     Deny, Crash, Preload, Lock, PersistFails, RpcFails, Goto

LEMMA DisturbedStays == [Next]_vars /\ disturbed => disturbed'
BY DEF Next, TimerExpires, AdminCommits, vars

UndisturbedInv == disturbed \/ (LedgerInv /\ LiveInv)

LEMMA UndisturbedInvariant ==
    Spec => [](TypeOK /\ UsableRows /\ DeviceInv /\ RunInv /\ UndisturbedInv)
<1>1. Init => UndisturbedInv
  <2> SUFFICES ASSUME Init PROVE LedgerInv /\ LiveInv
    BY DEF UndisturbedInv
  <2>1. Historical = {} /\ rows = {}
    BY DEF Init, Historical, NoTransaction
  <2>2. pc = "idle"
    BY DEF Init
  <2>3. QED
    BY <2>1, <2>2 DEF LedgerInv, LiveInv, OneToOne, OwnTrial, Loaded
<1>2. TypeOK /\ UsableRows /\ DeviceInv /\ RunInv /\ UndisturbedInv /\ [Next]_vars => UndisturbedInv'
  BY LedgerStep, LiveStep, DisturbedStays DEF UndisturbedInv
<1>3. QED
  BY <1>1, <1>2, RunInvariant, PTL DEF Spec

(* Until the confirm window closes on a run or an administrator commits,   *)
(* what the history calls complete is running and no timer can take it     *)
(* away: crashes, lost RPCs, torn records and trials of dead runs included. *)
THEOREM RecordedSafety == Spec => []RecordedIsLive
<1>1. UndisturbedInv => RecordedIsLive
  BY DEF UndisturbedInv, LiveInv, RecordedIsLive
<1>2. QED
  BY <1>1, UndisturbedInvariant, PTL

(* Until then no run commits an endpoint to a port, or for an interface,   *)
(* that another one has, the completed ones included.                      *)
THEOREM UnambiguousSafety == Spec => []UnambiguousTrial
<1>1. UndisturbedInv => UnambiguousTrial
  <2> SUFFICES ASSUME LedgerInv, LiveInv PROVE OneToOne(rows \cup Completed)
    BY DEF UndisturbedInv, UnambiguousTrial
  <2>1. Completed = Historical
    BY CompletedIsHistorical
  <2>2. QED
    BY <2>1 DEF LedgerInv, OneToOne
<1>2. QED
  BY <1>1, UndisturbedInvariant, PTL

-----------------------------------------------------------------------------
(* The refinement of the abstract ledger                                   *)

LEMMA LedgerStarts == Init => Ledger!Init
<1> SUFFICES ASSUME Init PROVE Ledger!Init
  OBVIOUS
<1>1. Historical = {} /\ disturbed = FALSE
  BY DEF Init, Historical, NoTransaction
<1>2. QED
  BY <1>1 DEF Ledger!Init

LEMMA LedgerSteps ==
    /\ TypeOK /\ UsableRows /\ DeviceInv /\ RunInv /\ UndisturbedInv
    /\ [Next]_vars /\ TypeOK' /\ UndisturbedInv'
    => [Ledger!Next]_<<Historical, disturbed>>
<1> SUFFICES ASSUME TypeOK, UsableRows, DeviceInv, RunInv, UndisturbedInv, [Next]_vars, TypeOK',
                    UndisturbedInv'
             PROVE  [Ledger!Next]_<<Historical, disturbed>>
  OBVIOUS
<1>1. CASE disturbed'
  <2>1. Historical' \subseteq Row
    BY HistoricalFacts DEF TypeOK, Historical, Transaction
  <2>2. disturbed' = TRUE
    BY <1>1 DEF TypeOK
  <2>3. Ledger!Interfere
    BY <2>1, <2>2 DEF Ledger!Interfere, Ledger!Row, Row
  <2>4. QED
    BY <2>3 DEF Ledger!Next
<1>2. CASE ~disturbed'
  <2>1. disturbed' = disturbed /\ ~disturbed
    BY <1>2, DisturbedStays DEF TypeOK
  <2>2. CASE UNCHANGED Historical
    BY <2>1, <2>2
  <2>3. CASE Historical' = Historical \cup rows
    <3>1. OneToOne(Historical \cup rows)
      BY <1>2, <2>3 DEF UndisturbedInv, LedgerInv
    <3>2. Ledger!Complete(rows)
      BY <2>3, <3>1 DEF Ledger!Complete, Ledger!OneToOne, OneToOne
    <3>3. rows \in SUBSET Ledger!Row
      BY DEF TypeOK, Row, Ledger!Row
    <3>4. QED
      BY <2>1, <3>2, <3>3 DEF Ledger!Next
  <2>4. QED
    BY <2>2, <2>3, HistoryChanges
<1>3. QED
  BY <1>1, <1>2

(* Every step of the activation is a step of the ledger or a stutter: its  *)
(* committed history only grows and stays one to one, until somebody       *)
(* interferes from outside the tool.                                       *)
THEOREM LedgerRefinement == Spec => LedgerSpec
<1>1. Spec => Ledger!Init
  BY LedgerStarts DEF Spec
<1>2. Spec => [][Ledger!Next]_<<Historical, disturbed>>
  BY UndisturbedInvariant, LedgerSteps, PTL DEF Spec
<1>3. QED
  BY <1>1, <1>2 DEF LedgerSpec, Ledger!Spec

-----------------------------------------------------------------------------
(* One VLAN on a port                                                      *)

(* The memberships that run agree, and from the check before the lock to   *)
(* the commit those of a port to be activated agree with what comes.       *)
VlanInv ==
    /\ \A s, t \in device.running :
         IsMember(s) /\ IsMember(t) /\ s.port = t.port => s.value = t.value
    /\ pc \in {"lock", "load"} \cup Loaded => \A r \in rows, s \in device.running :
         IsMember(s) /\ s.port = r[2] => s.value = plan[r[1]]

LEMMA PreloadEffects ==
    ASSUME TypeOK, Preload, ~EndRun
    PROVE  /\ UNCHANGED <<device, rows>>
           /\ \A r \in rows, s \in device.running :
                IsMember(s) /\ s.port = r[2] => s.value = plan[r[1]]
<1>1. \A r \in rows : MembersOf(r[2]) \subseteq {plan[r[1]]}
  BY DEF Preload
<1>2. \A r \in rows, s \in device.running :
        IsMember(s) /\ s.port = r[2] => s.value \in MembersOf(r[2])
  BY DEF MembersOf, IsMember
<1>3. QED
  BY <1>1, <1>2 DEF Preload, Goto

(* What a run puts on a port agrees with itself.                           *)
LEMMA PayloadAgrees ==
    ASSUME TypeOK, OneToOne(rows), NEW s \in Payload(rows), IsMember(s)
    PROVE  /\ \E r \in rows : s.port = r[2] /\ s.value = plan[r[1]]
           /\ \A t \in Payload(rows) : IsMember(t) /\ s.port = t.port => s.value = t.value
<1>1. \A t \in Payload(rows) : IsMember(t) =>
        \E r \in rows : t.port = r[2] /\ t.value = plan[r[1]]
  <2> SUFFICES ASSUME NEW t \in Payload(rows), IsMember(t)
               PROVE  \E r \in rows : t.port = r[2] /\ t.value = plan[r[1]]
    OBVIOUS
  <2>1. PICK r \in rows : t \in Statements(r)
    BY DEF Payload
  <2>2. QED
    BY <2>1, StatementFacts DEF TypeOK, IsMember
<1>2. QED
  BY <1>1 DEF OneToOne

LEMMA VlanStep ==
    /\ TypeOK /\ UsableRows /\ DeviceInv /\ RunInv /\ LedgerInv /\ LiveInv /\ VlanInv
    /\ [Next]_vars /\ ~disturbed'
    => VlanInv'
<1> SUFFICES ASSUME TypeOK, UsableRows, DeviceInv, RunInv, LedgerInv, LiveInv, VlanInv,
                    [Next]_vars, ~disturbed'
             PROVE  VlanInv'
  OBVIOUS
<1> DEFINE Points == {"lock", "load"} \cup Loaded
<1>0. UNCHANGED plan
  BY RowsChanges
(* Statements that run after a step and ran before it still agree.         *)
<1>1. ASSUME \A s \in device'.running : IsMember(s) => s \in device.running,
             pc' \in Points => pc \in Points /\ UNCHANGED rows
      PROVE  VlanInv'
  BY <1>0, <1>1 DEF VlanInv
<1>2. CASE Quiet(device, device') /\ (pc' \in Points => pc \in Points /\ UNCHANGED rows)
  BY <1>1, <1>2 DEF Quiet
<1>3. CASE Preload /\ ~EndRun
  BY <1>0, <1>3, PreloadEffects DEF VlanInv
<1>4. CASE TrialCommit
  <2>1. /\ Committed(device, device', device.candidate, TRUE) /\ pc = "commit"
        /\ pc' \in {"idle", "persist-trial"}
    BY <1>4, DeviceEffects DEF TrialCommit, Ended, Goto
  <2>2. \A s \in device'.running : s \in device.running \/ s \in Payload(rows)
    BY <2>1 DEF DeviceInv, Committed, Loaded
  <2>3. \A s \in Payload(rows), t \in device.running :
          IsMember(s) /\ IsMember(t) /\ s.port = t.port => s.value = t.value
    BY <2>1, PayloadAgrees DEF VlanInv, Loaded, LedgerInv
  <2>4. \A s, t \in device'.running :
          IsMember(s) /\ IsMember(t) /\ s.port = t.port => s.value = t.value
    BY <2>2, <2>3, PayloadAgrees DEF VlanInv, LedgerInv
  <2>5. QED
    BY <2>1, <2>4 DEF VlanInv, Loaded
<1>5. CASE FinalCommit \/ Rollback \/ TimerExpires
  <2>1. \/ UNCHANGED device
        \/ Committed(device, device', device.candidate, FALSE) /\ Clean(device)
        \/ Committed(device, device', device.prior, FALSE) /\ device.pending
    <3>1. CASE FinalCommit
      BY <3>1, DeviceEffects DEF FinalCommit, DeviceInv, OwnTrial
    <3>2. CASE Rollback
      BY <3>2, DeviceEffects DEF Rollback, LiveInv, OwnTrial
    <3>3. CASE TimerExpires
      BY <3>3, DeviceEffects DEF TimerExpires
    <3>4. QED
      BY <1>5, <3>1, <3>2, <3>3
  <2>2. \A s \in device'.running : IsMember(s) => s \in device.running
    BY <2>1 DEF Committed, Clean, DeviceInv
  <2>3. pc' \in {"idle", "persist-kept", "persist-rollback"} \/ UNCHANGED <<pc, rows>>
    BY <1>5 DEF FinalCommit, Rollback, TimerExpires, Ended, Goto
  <2>4. QED
    BY <1>1, <2>2, <2>3 DEF Loaded
<1>6. CASE EndRun \/ (Lock /\ Ended) \/ (LoadCandidate /\ Ended)
  BY <1>2, <1>6, DeviceEffects, LoadEffects DEF EndRun, Ended, Loaded
<1>7. CASE LoadCandidate /\ Goto("prompt")
  BY <1>2, <1>7, LoadEffects DEF LoadCandidate, Goto
<1>8. CASE UNCHANGED <<device, rows>> /\ (pc' \in Points => pc \in Points)
  BY <1>1, <1>8
<1>9. ASSUME NEW evidence, Correlate(evidence) PROVE VlanInv'
  BY <1>1, <1>9 DEF Correlate, Loaded
<1>10. ASSUME NEW p \in Port, AdminEdits(p) PROVE VlanInv'
  BY <1>2, <1>10, DeviceEffects DEF AdminEdits, Unlocked
<1>11. \A p \in Port : ~AdminCommits(p)
  BY DEF AdminCommits
<1>12. CASE Approve \/ (Lock /\ ~Ended) \/ Validate \/ (Persist /\ ~EndRun)
  BY <1>8, <1>12 DEF Approve, Lock, Validate, Persist, PersistPoint, AfterPersist, Goto, Loaded
<1>13. CASE UNCHANGED vars
  BY <1>8, <1>13 DEF vars
<1>14. QED
  BY <1>3, <1>4, <1>5, <1>6, <1>7, <1>9, <1>10, <1>11, <1>12, <1>13 DEF Next, Deny, Crash,
     LoadCandidate, PersistFails, RpcFails

(* Until somebody interferes the tool leaves no port in two data VLANs,    *)
(* not even where an earlier run died with its change live and unrecorded  *)
(* and another endpoint has since been plugged in.                         *)
THEOREM OneVlanSafety == Spec => []OneVlanPerPort
<1> DEFINE Inv == disturbed \/ VlanInv
<1>1. Init => Inv
  BY DEF Init, NewDevice, VlanInv, Loaded
<1>2. /\ TypeOK /\ UsableRows /\ DeviceInv /\ RunInv /\ UndisturbedInv /\ Inv
      /\ [Next]_vars
      => Inv'
  BY VlanStep, DisturbedStays DEF UndisturbedInv
<1>3. VlanInv => \A p \in Port : Cardinality(MembersOf(p)) <= 1
  <2> SUFFICES ASSUME VlanInv, NEW p \in Port PROVE Cardinality(MembersOf(p)) <= 1
    OBVIOUS
  <2>1. CASE MembersOf(p) = {}
    BY <2>1, FS_EmptySet
  <2>2. ASSUME NEW v \in MembersOf(p) PROVE Cardinality(MembersOf(p)) <= 1
    <3>1. \A w \in MembersOf(p) : w = v
      BY DEF MembersOf, VlanInv, IsMember
    <3>2. MembersOf(p) = {v}
      BY <3>1
    <3>3. QED
      BY <3>2, FS_Singleton
  <2>3. QED
    BY <2>1, <2>2
<1>4. Inv => OneVlanPerPort
  BY <1>3 DEF OneVlanPerPort
<1>5. QED
  BY <1>1, <1>2, <1>4, UndisturbedInvariant, PTL DEF Spec

-----------------------------------------------------------------------------
(* Every run comes to its end.  StepsLeft counts what is left of it at     *)
(* most.                                                                   *)

StepsLeft == CASE pc = "idle"              -> 0
               [] pc = "persist-rollback"  -> 1
               [] pc = "persist-kept"      -> 1
               [] pc = "rollback"          -> 2
               [] pc = "confirm"           -> 2
               [] pc = "persist-validated" -> 3
               [] pc = "validate"          -> 4
               [] pc = "persist-trial"     -> 5
               [] pc = "commit"            -> 6
               [] pc = "persist-approved"  -> 7
               [] pc = "prompt"            -> 8
               [] pc = "load"              -> 9
               [] pc = "lock"              -> 10
               [] pc = "preload"           -> 11

Working == {"preload", "lock", "load", "prompt", "persist-approved", "commit",
            "persist-trial", "validate", "persist-validated", "confirm",
            "persist-kept", "rollback", "persist-rollback"}

Environment == TimerExpires \/ \E p \in Port : AdminEdits(p) \/ AdminCommits(p)

LEMMA StepsFacts == TypeOK => /\ StepsLeft \in 0 .. 11
                              /\ StepsLeft = 0 <=> pc = "idle"
<1>1. TypeOK => pc = "idle" \/ pc \in Working
  BY DEF TypeOK, Working, PersistPoint, RpcPoint
<1>2. pc \in Working => StepsLeft \in 1 .. 11
  BY DEF Working, StepsLeft
<1>3. pc = "idle" => StepsLeft = 0
  BY DEF StepsLeft
<1>4. QED
  BY <1>1, <1>2, <1>3

LEMMA StepShortens ==
    ASSUME TypeOK, pc # "idle", Next, ~Environment
    PROVE  StepsLeft' < StepsLeft
<1>1. CASE pc' = "idle"
  <2>1. StepsLeft' = 0
    BY <1>1 DEF StepsLeft
  <2>2. QED
    BY <2>1, StepsFacts
<1>2. CASE Deny \/ Crash \/ PersistFails \/ RpcFails
  BY <1>1, <1>2 DEF Deny, Crash, PersistFails, RpcFails, EndRun, Ended
<1>3. CASE Preload \/ Lock \/ LoadCandidate \/ Approve
  <2>1. \/ pc' = "idle"
        \/ pc = "preload" /\ pc' = "lock"
        \/ pc = "lock" /\ pc' = "load"
        \/ pc = "load" /\ pc' = "prompt"
        \/ pc = "prompt" /\ pc' = "persist-approved"
    BY <1>3 DEF Preload, Lock, LoadCandidate, Approve, Goto, EndRun, Ended
  <2>2. pc' # "idle" => StepsLeft' < StepsLeft
    BY <2>1 DEF StepsLeft
  <2>3. QED
    BY <1>1, <2>2
<1>4. CASE TrialCommit \/ Validate \/ FinalCommit \/ Rollback
  <2>1. \/ pc' = "idle"
        \/ pc = "commit" /\ pc' = "persist-trial"
        \/ pc = "validate" /\ pc' \in {"persist-validated", "rollback"}
        \/ pc = "confirm" /\ pc' = "persist-kept"
        \/ pc = "rollback" /\ pc' = "persist-rollback"
    BY <1>4 DEF TrialCommit, Validate, FinalCommit, Rollback, Goto, Ended
  <2>2. pc' # "idle" => StepsLeft' < StepsLeft
    BY <2>1 DEF StepsLeft
  <2>3. QED
    BY <1>1, <2>2
<1>5. CASE Persist
  <2>1. CASE AfterPersist = "idle"
    BY <1>1, <1>5, <2>1 DEF Persist, EndRun, Ended
  <2>2. CASE AfterPersist # "idle"
    BY <1>5, <2>2 DEF Persist, AfterPersist, PersistPoint, Goto, StepsLeft
  <2>3. QED
    BY <2>1, <2>2
<1>6. QED
  BY <1>2, <1>3, <1>4, <1>5 DEF Next, Correlate, Environment

(* A run takes at most 11 steps, whatever fails: each is a step forward,   *)
(* and only the switch's timer and administrators act besides.             *)
THEOREM Termination ==
    Spec => /\ [](StepsLeft \in 0 .. 11 /\ (StepsLeft = 0 <=> pc = "idle"))
            /\ [][pc # "idle" => StepsLeft' < StepsLeft \/ Environment]_vars
<1>1. TypeOK => StepsLeft \in 0 .. 11 /\ (StepsLeft = 0 <=> pc = "idle")
  BY StepsFacts
<1>2. TypeOK /\ [Next]_vars =>
        [pc # "idle" => StepsLeft' < StepsLeft \/ Environment]_vars
  BY StepShortens
<1>3. QED
  BY <1>1, <1>2, TypeCorrect, PTL DEF Spec
=============================================================================
