--------------------------- MODULE PhaseWriteProofs ---------------------------
(***************************************************************************)
(* Proofs about the three commands that write to one switch, for all       *)
(* renders, ports and faults.                                              *)
(***************************************************************************)
EXTENDS PhaseWrite, Integers, TLAPS

-----------------------------------------------------------------------------
(* Which command can be where, and what it holds there                     *)

Unlocked == {"idle", "lock", "failed", "observe"}

PcInv ==
    /\ pc \in {"prompt", "persist-approved", "commit", "validate", "confirm", "persist-done"}
         => command # "probe"
    /\ pc \in {"persist-trial", "persist-validated", "rollback", "persist-rollback"}
         => command = "run"
    /\ pc \in {"recheck", "disable", "enable-load", "enable-check", "enable", "observe"}
         => command = "probe"
    /\ disabled # {} => /\ command = "probe"
                        /\ pc \in {"enable-load", "enable-check", "enable", "failed"}
    /\ pc \notin Unlocked => locked

LEMMA SwitchTyping ==
    TypeOK => /\ sw \in Switch /\ device[sw] \in DeviceType(Statement)
              /\ Payload(command) \subseteq Statement
              /\ \A d \in DeviceType(Statement) :
                   [device EXCEPT ![sw] = d] \in [Switch -> DeviceType(Statement)]
BY DEF TypeOK, sw, Target, Switch, Command, Payload, Statement

LEMMA JunosTyping ==
    ASSUME NEW d \in DeviceType(Statement)
    PROVE  /\ Commit(d) \in DeviceType(Statement)
           /\ CommitConfirmed(d) \in DeviceType(Statement)
           /\ Commit(LoadRollback1(d)) \in DeviceType(Statement)
           /\ Discard(d) \in DeviceType(Statement)
           /\ CommitChecks(d) \subseteq DeviceType(Statement)
           /\ \A some \in SUBSET Statement : Merge(d, some) \in DeviceType(Statement)
           /\ \A any : /\ Remove(d, any) \in DeviceType(Statement)
                       /\ Commit(Remove(Discard(d), any)) \in DeviceType(Statement)
           /\ Diff(d) \in Change
BY DEF DeviceType, Commit, CommitConfirmed, LoadRollback1, Discard, Merge, Remove,
       CommitChecks, Diff, Change

LEMMA TransactionTyping ==
    /\ NoTransaction \in Transaction
    /\ \A diff \in Change : NewTransaction(diff) \in Transaction
BY DEF NoTransaction, NewTransaction, Transaction, Status, Change

(* A command that ends leaves nothing behind but its switch and a record.  *)
LEMMA EndAsTyping ==
    ASSUME TypeOK, NEW how \in {"told", "not restored", "killed"},
           NEW d \in DeviceType(Statement), EndAs(how, d)
    PROVE  /\ device' \in [Switch -> DeviceType(Statement)]
           /\ bound' \in {"bootstrap", "planned"} /\ command' \in Command /\ pc' = "idle"
           /\ locked' \in BOOLEAN /\ ports' = {} /\ disabled' = {} /\ tx' \in Transaction
           /\ outcome' \in {"told", "not restored", "killed"}
           /\ PcInv'
<1>1. (IF locked THEN Discard(d) ELSE d) \in DeviceType(Statement)
  BY JunosTyping
<1>2. device' \in [Switch -> DeviceType(Statement)]
  BY <1>1, SwitchTyping DEF EndAs, Set
<1>3. QED
  BY <1>2, TransactionTyping DEF EndAs, TypeOK, Command, PcInv, Unlocked

LEMMA WriteTyping ==
    ASSUME TypeOK, PcInv, pc \in PersistPoint, NEW intact \in BOOLEAN,
           Write([tx |-> tx, intact |-> intact])
    PROVE  /\ record' \in [{"run", "recovery"} -> [tx : Transaction, intact : BOOLEAN]]
           /\ succeeded' \subseteq {"run", "recovery"}
BY DEF Write, TypeOK, PcInv, PersistPoint, Command

(* Only run and recovery have trials that a window can take from them.     *)
LEMMA OvertakenTyping ==
    ASSUME TypeOK, PcInv, [Next]_vars
    PROVE  overtaken' \subseteq {"run", "recovery"}
<1>1. UNCHANGED overtaken
      \/ (pc \in TrialPoint /\ overtaken' = overtaken \cup {command})
  BY DEF Next, CommandStep, TimerExpires, vars
<1>2. pc \in TrialPoint => command \in {"run", "recovery"}
  BY DEF TrialPoint, PcInv, TypeOK, Command
<1>3. QED
  BY <1>1, <1>2 DEF TypeOK

LEMMA StepTyping == TypeOK /\ PcInv /\ [Next]_vars => TypeOK' /\ PcInv'
<1> SUFFICES ASSUME TypeOK, PcInv, [Next]_vars PROVE TypeOK' /\ PcInv'
  OBVIOUS
<1>0. pc \in {"idle", "failed", "rollback"} \cup RpcPoint \cup PersistPoint
  BY DEF TypeOK
<1>00. overtaken' \subseteq {"run", "recovery"}
  BY OvertakenTyping
<1> USE <1>00 DEF RpcPoint, PersistPoint, Unlocked
<1>1. CASE StartRun \/ StartRecovery \/ StartProbe
  <2>1. PICK c \in Command, chosen \in SUBSET Port : Start(c, chosen)
    BY <1>1 DEF StartRun, StartRecovery, StartProbe, Command, Eligible
  <2>2. QED
    BY <2>1 DEF Start, TypeOK, PcInv, disk
<1>2. CASE Identify
  BY <1>2 DEF Identify, HostName, TypeOK, PcInv, memory, disk
<1>3. CASE Lock
  BY <1>3 DEF Lock, TypeOK, PcInv, memory, disk, Command
<1>4. CASE Recheck
  <2>1. PICK still \in Eligible(ports) :
          IF still = {} THEN EndAs("told", device[sw])
          ELSE /\ ports' = still /\ pc' = "load"
               /\ UNCHANGED <<device, bound, command, locked, disabled, tx, outcome>>
    BY <1>4 DEF Recheck
  <2>2. CASE EndAs("told", device[sw])
    BY <1>4, <2>2, EndAsTyping, SwitchTyping DEF Recheck, TypeOK, disk
  <2>3. CASE /\ ports' = still /\ pc' = "load"
             /\ UNCHANGED <<device, bound, command, locked, disabled, tx, outcome>>
    BY <1>4, <2>3 DEF Recheck, TypeOK, PcInv, disk, Eligible
  <2>4. QED
    BY <2>1, <2>2, <2>3
<1>5. CASE Load
  <2>1. (IF command = "probe" THEN ports ELSE Payload(command)) \in SUBSET Statement
    BY SwitchTyping DEF TypeOK, Statement
  <2>2. device' \in [Switch -> DeviceType(Statement)]
    BY <1>5, <2>1, SwitchTyping, JunosTyping DEF Load, Set
  <2>3. QED
    BY <1>5, <2>2 DEF Load, Goto, TypeOK, PcInv, memory, disk
<1>6. CASE Check
  <2>1. PICK d \in CommitChecks(device[sw]) :
          IF Clean(d) THEN EndAs("told", d)
          ELSE Set(d) /\ Goto(IF command = "probe" THEN "disable" ELSE "prompt")
               /\ UNCHANGED tx
    BY <1>6 DEF Check
  <2>2. d \in DeviceType(Statement)
    BY SwitchTyping, JunosTyping
  <2>3. CASE EndAs("told", d)
    BY <1>6, <2>2, <2>3, EndAsTyping DEF Check, TypeOK, disk
  <2>4. CASE Set(d) /\ Goto(IF command = "probe" THEN "disable" ELSE "prompt") /\ UNCHANGED tx
    <3>1. device' \in [Switch -> DeviceType(Statement)]
      BY <2>2, <2>4, SwitchTyping DEF Set
    <3>2. QED
      BY <1>6, <2>4, <3>1 DEF Check, Goto, TypeOK, PcInv, memory, disk
  <2>5. QED
    BY <2>1, <2>3, <2>4
<1>7. CASE Approve
  <2>1. tx' \in Transaction
    BY <1>7, SwitchTyping, JunosTyping, TransactionTyping DEF Approve
  <2>2. QED
    BY <1>7, <2>1 DEF Approve, Goto, TypeOK, PcInv, memory, disk
<1>8. CASE Deny \/ Observe \/ Abandon
  BY <1>8, EndAsTyping, SwitchTyping DEF Deny, Observe, Abandon, TypeOK, disk
<1>9. CASE TrialCommit \/ Confirm \/ Rollback \/ Validate
  <2>1. device' \in [Switch -> DeviceType(Statement)]
    <3>1. UNCHANGED device \/ \E d \in DeviceType(Statement) : Set(d)
      BY <1>9, SwitchTyping, JunosTyping DEF TrialCommit, Confirm, Rollback, Validate
    <3>2. QED
      BY <3>1, SwitchTyping DEF Set, TypeOK
  <2>2. tx' \in Transaction
    BY <1>9 DEF TrialCommit, Confirm, Rollback, Validate, TypeOK, Transaction, Status
  <2>3. UNCHANGED <<bound, locked, command, ports, disabled, outcome, record, succeeded>>
    BY <1>9 DEF TrialCommit, Confirm, Rollback, Validate, Goto, memory, disk
  <2>4. \/ pc = "commit" /\ command = "run" /\ pc' \in {"persist-trial", "failed"}
        \/ pc = "commit" /\ command # "run" /\ pc' \in {"validate", "failed"}
        \/ pc = "validate" /\ command = "run" /\ pc' \in {"persist-validated", "rollback"}
        \/ pc = "validate" /\ command # "run" /\ pc' \in {"confirm", "failed"}
        \/ pc = "confirm" /\ pc' \in {"persist-done", "failed"}
        \/ pc = "rollback" /\ pc' = "persist-rollback"
    BY <1>9 DEF TrialCommit, Confirm, Rollback, Validate, Goto
  <2>5. QED
    BY <2>1, <2>2, <2>3, <2>4 DEF TypeOK, PcInv
<1>10. CASE Persist
  <2>1. /\ record' \in [{"run", "recovery"} -> [tx : Transaction, intact : BOOLEAN]]
        /\ succeeded' \subseteq {"run", "recovery"}
    BY <1>10, WriteTyping DEF Persist
  <2>2. CASE EndAs("told", device[sw])
    BY <2>1, <2>2, EndAsTyping, SwitchTyping DEF TypeOK
  <2>3. CASE AfterPersist # "idle" /\ Goto(AfterPersist) /\ UNCHANGED <<device, tx>>
    BY <1>10, <2>1, <2>3 DEF Persist, AfterPersist, Goto, TypeOK, PcInv, memory
  <2>4. QED
    BY <1>10, <2>2, <2>3 DEF Persist
<1>11. CASE PersistFails
  <2>1. /\ record' \in [{"run", "recovery"} -> [tx : Transaction, intact : BOOLEAN]]
        /\ succeeded' \subseteq {"run", "recovery"}
    BY <1>11, WriteTyping DEF PersistFails, Torn, TypeOK, disk
  <2>2. QED
    BY <1>11, <2>1 DEF PersistFails, Goto, TypeOK, PcInv, memory
<1>12. CASE Disable \/ LoadEnable \/ CheckEnable \/ Enable
  <2>1. device' \in [Switch -> DeviceType(Statement)]
    <3>1. UNCHANGED device \/ \E d \in DeviceType(Statement) : Set(d)
      BY <1>12, SwitchTyping, JunosTyping DEF Disable, LoadEnable, CheckEnable, Enable
    <3>2. QED
      BY <3>1, SwitchTyping DEF Set, TypeOK
  <2>2. QED
    BY <1>12, <2>1
       DEF Disable, LoadEnable, CheckEnable, Enable, Goto, TypeOK, PcInv, memory, disk
<1>13. CASE RpcFails
  BY <1>13 DEF RpcFails, Goto, TypeOK, PcInv, memory, disk
<1>14. CASE Restore
  <2>1. Commit(Remove(Discard(device[sw]), disabled)) \in DeviceType(Statement)
    BY SwitchTyping, JunosTyping
  <2>2. QED
    BY <1>14, <2>1, EndAsTyping, SwitchTyping DEF Restore, TypeOK, disk
<1>15. CASE Crash
  <2>1. /\ record' \in [{"run", "recovery"} -> [tx : Transaction, intact : BOOLEAN]]
        /\ succeeded' \subseteq {"run", "recovery"}
    BY <1>15, WriteTyping DEF Crash, Torn, TypeOK, disk
  <2>2. QED
    BY <1>15, <2>1, EndAsTyping, SwitchTyping DEF Crash, TypeOK
<1>16. ASSUME NEW s \in Switch, TimerExpires(s) \/ SomebodyEdits(s)
       PROVE  TypeOK' /\ PcInv'
  <2>1. device' \in [Switch -> DeviceType(Statement)]
    <3>1. CASE TimerExpires(s)
      BY <3>1, JunosTyping DEF TimerExpires, TypeOK, AutoRollback
    <3>2. CASE SomebodyEdits(s)
      <4>1. device[s] \in DeviceType(Statement) /\ Foreign \subseteq Statement
        BY DEF TypeOK, Statement
      <4>2. [device[s] EXCEPT !.candidate = device[s].candidate \cup Foreign]
              \in DeviceType(Statement)
        BY <4>1 DEF DeviceType
      <4>3. QED
        BY <3>2, <4>2 DEF SomebodyEdits, TypeOK
    <3>3. QED
      BY <1>16, <3>1, <3>2
  <2>2. QED
    BY <1>16, <2>1 DEF TimerExpires, SomebodyEdits, TypeOK, PcInv, memory, disk
<1>17. CASE UNCHANGED vars
  BY <1>17 DEF vars, TypeOK, PcInv, memory, disk
<1>18. QED
  BY <1>1, <1>2, <1>3, <1>4, <1>5, <1>6, <1>7, <1>8, <1>9, <1>10, <1>11, <1>12, <1>13,
     <1>14, <1>15, <1>16, <1>17 DEF Next, CommandStep

(* Every reachable state is well typed, and a command holds the lock and   *)
(* the disabled ports only where its handlers expect them.                 *)
LEMMA PcCorrect == Spec => [](TypeOK /\ PcInv)
<1>1. Init => TypeOK /\ PcInv
  <2> SUFFICES ASSUME Init PROVE TypeOK /\ PcInv
    OBVIOUS
  <2>1. device \in [Switch -> DeviceType(Statement)]
    BY DEF Init, NewDevice, DeviceType
  <2>2. QED
    BY <2>1, TransactionTyping DEF Init, TypeOK, PcInv, Command, Unlocked
<1>2. QED
  BY <1>1, StepTyping, PTL DEF Spec

(* Every reachable state is well typed.                                    *)
THEOREM TypeCorrect == Spec => []TypeOK
BY PcCorrect, PTL

-----------------------------------------------------------------------------
(* What a step does to a switch                                            *)

(* Nothing but the candidate changes, and a trial may be confirmed.  The   *)
(* candidate is given up or loses nothing but disabled ports.              *)
Quiet(d, e) == /\ e.running = d.running /\ e.prior = d.prior
               /\ e.pending => d.pending
               /\ e.candidate = e.running \/ d.candidate \ Port \subseteq e.candidate

CommandCommits == TrialCommit \/ Confirm \/ Rollback \/ Disable \/ Enable

LEMMA SetSwitch ==
    ASSUME TypeOK, NEW d, Set(d)
    PROVE  device'[sw] = d /\ \A s \in Switch : s # sw => UNCHANGED device[s]
BY SwitchTyping DEF Set, TypeOK

LEMMA EndAsQuiet ==
    ASSUME TypeOK, NEW how, NEW d \in DeviceType(Statement), EndAs(how, d),
           NEW s \in Switch
    PROVE  \/ s = sw /\ device'[s] \in {d, Discard(d)}
           \/ s # sw /\ UNCHANGED device[s]
<1>1. Set(d) \/ Set(Discard(d))
  BY DEF EndAs
<1>2. device'[sw] \in {d, Discard(d)} /\ (s # sw => UNCHANGED device[s])
  BY <1>1, SetSwitch
<1>3. QED
  BY <1>2

LEMMA DeviceChanges ==
    ASSUME TypeOK, [Next]_vars, NEW s \in Switch
    PROVE  \/ Quiet(device[s], device'[s])
           \/ TimerExpires(s)
           \/ s = sw /\ (CommandCommits \/ Restore)
<1>0. device[s] \in DeviceType(Statement) /\ device[sw] \in DeviceType(Statement) /\ sw \in Switch
  BY SwitchTyping DEF TypeOK
<1> DEFINE Ends == \E how : EndAs(how, device[sw])
<1>1. CASE \/ StartRun \/ StartRecovery \/ StartProbe \/ Identify \/ Lock \/ Approve
           \/ Validate \/ PersistFails \/ CheckEnable \/ RpcFails \/ UNCHANGED vars
  <2>1. UNCHANGED device
    BY <1>1 DEF StartRun, StartRecovery, StartProbe, Start, Identify, Lock, Approve,
       Validate, PersistFails, CheckEnable, RpcFails, vars
  <2>2. QED
    BY <2>1 DEF Quiet
<1>2. CASE Ends
  BY <1>0, <1>2, EndAsQuiet DEF Quiet, Discard, DeviceType
<1>3. CASE Deny \/ Observe \/ Abandon \/ Crash
  <2>1. Ends
    BY <1>3 DEF Deny, Observe, Abandon, Crash
  <2>2. QED
    BY <1>2, <2>1
<1>4. CASE Recheck \/ Persist
  <2>1. Ends \/ UNCHANGED device
    BY <1>4 DEF Recheck, Persist
  <2>2. QED
    BY <1>2, <2>1 DEF Quiet
<1>5. CASE Load \/ LoadEnable
  <2>1. PICK some : Set(Merge(device[sw], some))
                    \/ (some \subseteq Port /\ Set(Remove(device[sw], some)))
    BY <1>5 DEF Load, LoadEnable, TypeOK
  <2>2. /\ \/ device'[sw] = Merge(device[sw], some)
           \/ some \subseteq Port /\ device'[sw] = Remove(device[sw], some)
        /\ s # sw => UNCHANGED device[s]
    BY <2>1, SetSwitch
  <2>3. Quiet(device[sw], device'[sw])
    BY <1>0, <2>2 DEF Merge, Remove, Quiet, DeviceType
  <2>4. QED
    BY <2>2, <2>3 DEF Quiet
<1>6. CASE Check
  <2>1. PICK d \in CommitChecks(device[sw]) : EndAs("told", d) \/ Set(d)
    BY <1>6 DEF Check
  <2>2. /\ d \in DeviceType(Statement) /\ d.running = device[sw].running
        /\ d.prior = device[sw].prior /\ (d.pending => device[sw].pending)
        /\ d.candidate = device[sw].candidate
    BY <1>0 DEF CommitChecks, DeviceType
  <2>3. CASE EndAs("told", d)
    BY <1>0, <2>2, <2>3, EndAsQuiet DEF Quiet, Discard, DeviceType
  <2>4. CASE Set(d)
    BY <1>0, <2>2, <2>4 DEF Set, Quiet, TypeOK
  <2>5. QED
    BY <2>1, <2>3, <2>4
<1>7. CASE CommandCommits \/ Restore
  <2>1. CASE s = sw
    BY <1>7, <2>1
  <2>2. CASE s # sw
    <3>1. UNCHANGED device[s]
      BY <1>0, <1>7, <2>2 DEF CommandCommits, Restore, TrialCommit, Confirm, Rollback,
         Disable, Enable, EndAs, Set, TypeOK
    <3>2. QED
      BY <3>1 DEF Quiet
  <2>3. QED
    BY <2>1, <2>2
<1>8. ASSUME NEW r \in Switch, TimerExpires(r) \/ SomebodyEdits(r)
      PROVE  Quiet(device[s], device'[s]) \/ TimerExpires(s)
  <2>1. CASE r = s /\ TimerExpires(r)
    BY <2>1
  <2>2. CASE r # s
    BY <1>8, <2>2 DEF TimerExpires, SomebodyEdits, Quiet, TypeOK
  <2>3. CASE r = s /\ SomebodyEdits(r)
    BY <1>0, <2>3 DEF SomebodyEdits, Quiet, TypeOK, DeviceType
  <2>4. QED
    BY <1>8, <2>1, <2>2, <2>3
<1>9. QED
  BY <1>1, <1>3, <1>4, <1>5, <1>6, <1>7, <1>8 DEF Next, CommandStep, CommandCommits

(* What the commits, the restore and the timer put in place.               *)
LEMMA CommitEffects ==
    ASSUME TypeOK
    PROVE  /\ TrialCommit => /\ device'[sw].running = device[sw].candidate
                             /\ device'[sw].prior = device[sw].running
                             /\ device'[sw].pending /\ Clean(device'[sw])
           /\ Confirm \/ Disable \/ Enable =>
                /\ device'[sw].running = device[sw].candidate
                /\ device'[sw].prior = device[sw].running
                /\ ~device'[sw].pending /\ Clean(device'[sw])
           /\ Rollback => \/ UNCHANGED device /\ tx'.status = "AUTO_ROLLBACK_PENDING"
                          \/ /\ device'[sw].running = device[sw].prior
                             /\ device'[sw].prior = device[sw].running
                             /\ ~device'[sw].pending /\ Clean(device'[sw])
           /\ Restore => \/ Quiet(device[sw], device'[sw])
                         \/ /\ device'[sw].running = device[sw].running \ disabled
                            /\ device'[sw].prior = device[sw].running
                            /\ ~device'[sw].pending /\ Clean(device'[sw])
           /\ \A s \in Switch : TimerExpires(s) =>
                /\ device'[s].running = device[s].prior
                /\ device'[s].prior = device[s].running
                /\ ~device'[s].pending /\ Clean(device'[s])
<1>0. device[sw] \in DeviceType(Statement) /\ sw \in Switch
  BY SwitchTyping
<1>1. TrialCommit => /\ device'[sw].running = device[sw].candidate
                     /\ device'[sw].prior = device[sw].running
                     /\ device'[sw].pending /\ Clean(device'[sw])
  <2>1. TrialCommit => device'[sw] = CommitConfirmed(device[sw])
    BY SetSwitch DEF TrialCommit
  <2>2. QED
    BY <1>0, <2>1 DEF CommitConfirmed, Commit, Clean, DeviceType
<1>2. Confirm \/ Disable \/ Enable =>
        /\ device'[sw].running = device[sw].candidate
        /\ device'[sw].prior = device[sw].running
        /\ ~device'[sw].pending /\ Clean(device'[sw])
  <2>1. Confirm \/ Disable \/ Enable => device'[sw] = Commit(device[sw])
    BY SetSwitch DEF Confirm, Disable, Enable
  <2>2. QED
    BY <1>0, <2>1 DEF Commit, Clean, DeviceType
<1>3. ASSUME Rollback
      PROVE  \/ UNCHANGED device /\ tx'.status = "AUTO_ROLLBACK_PENDING"
             \/ /\ device'[sw].running = device[sw].prior
                /\ device'[sw].prior = device[sw].running
                /\ ~device'[sw].pending /\ Clean(device'[sw])
  <2>1. PICK status \in {"ROLLED_BACK", "AUTO_ROLLBACK_PENDING"} :
          /\ \/ Set(Commit(LoadRollback1(device[sw])))
             \/ status = "AUTO_ROLLBACK_PENDING" /\ UNCHANGED device
          /\ tx' = [tx EXCEPT !.validation = "FAIL", !.status = status]
    BY <1>3 DEF Rollback
  <2>2. tx'.status = status
    BY <2>1 DEF TypeOK, Transaction
  <2>3. CASE Set(Commit(LoadRollback1(device[sw])))
    BY <1>0, <2>3 DEF Set, Commit, LoadRollback1, Clean, DeviceType, TypeOK
  <2>4. QED
    BY <2>1, <2>2, <2>3
<1>4. ASSUME Restore
      PROVE  \/ Quiet(device[sw], device'[sw])
             \/ /\ device'[sw].running = device[sw].running \ disabled
                /\ device'[sw].prior = device[sw].running
                /\ ~device'[sw].pending /\ Clean(device'[sw])
  <2> DEFINE restored == Commit(Remove(Discard(device[sw]), disabled))
  <2>1. \E how : EndAs(how, device[sw]) \/ EndAs(how, restored)
    BY <1>4 DEF Restore
  <2>2. restored \in DeviceType(Statement)
    BY <1>0, JunosTyping
  <2>3. device'[sw] \in {device[sw], Discard(device[sw]), restored, Discard(restored)}
    BY <1>0, <2>1, <2>2, EndAsQuiet
  <2>4. /\ restored.running = device[sw].running \ disabled
        /\ restored.prior = device[sw].running /\ ~restored.pending
        /\ restored.candidate = restored.running
    BY <1>0 DEF Commit, Remove, Discard, DeviceType
  <2>5. \A d \in DeviceType(Statement) :
          /\ Discard(d).running = d.running /\ Discard(d).prior = d.prior
          /\ Discard(d).pending = d.pending /\ Discard(d).candidate = d.running
    BY DEF Discard, DeviceType
  <2> HIDE DEF restored
  <2>6. QED
    BY <1>0, <2>2, <2>3, <2>4, <2>5 DEF Quiet, Clean
<1>5. ASSUME NEW s \in Switch, TimerExpires(s)
      PROVE  /\ device'[s].running = device[s].prior
             /\ device'[s].prior = device[s].running
             /\ ~device'[s].pending /\ Clean(device'[s])
  BY <1>5 DEF TimerExpires, AutoRollback, Commit, LoadRollback1, Clean, DeviceType, TypeOK
<1>6. QED
  BY <1>1, <1>2, <1>3, <1>4, <1>5

-----------------------------------------------------------------------------
(* What is loaded, and what the record says of it                          *)

CandidateInv ==
    /\ \A s \in Switch : device[s].running \ Port \subseteq device[s].candidate
    /\ pc \in {"check", "prompt", "persist-approved", "commit"} /\ command # "probe"
         => Payload(command) \subseteq device[sw].candidate \/ Clean(device[sw])
    /\ pc \in {"persist-approved", "commit"}
         => tx.diff = Diff(device[sw]) \/ Clean(device[sw])
    /\ pc = "commit" => record[command].tx = tx

LEMMA CandidateSteps ==
    ASSUME PcInv, [Next]_vars, pc' \in {"check", "prompt", "persist-approved", "commit"}
    PROVE  \/ Load /\ pc' = "check"
           \/ Check /\ pc' = "prompt"
           \/ Approve /\ pc' = "persist-approved"
           \/ Persist /\ pc = "persist-approved" /\ pc' = "commit"
           \/ /\ UNCHANGED <<pc, command, tx, record>>
              /\ UNCHANGED device \/ \E s \in Switch : TimerExpires(s)
<1>1. pc' \notin {"idle", "failed", "lock", "load", "recheck", "disable", "rollback"}
  OBVIOUS
<1>2. CASE \/ Load \/ Check \/ Approve \/ Persist
  BY <1>1, <1>2 DEF Load, Check, Approve, Persist, Goto, EndAs, AfterPersist
<1>3. CASE \E s \in Switch : TimerExpires(s) \/ SomebodyEdits(s)
  BY <1>3 DEF TimerExpires, SomebodyEdits, PcInv, Unlocked, memory, disk
<1>4. CASE UNCHANGED vars
  BY <1>4 DEF vars, memory, disk
<1>5. QED
  BY <1>1, <1>2, <1>3, <1>4 DEF Next, CommandStep, StartRun, StartRecovery, StartProbe, Start,
     Identify, Deny, Crash, Lock, Recheck, TrialCommit, Validate, Rollback, Confirm,
     PersistFails, Disable, LoadEnable, CheckEnable, Enable, Observe, RpcFails, Abandon,
     Restore, Goto, EndAs

LEMMA CandidateStep == TypeOK /\ PcInv /\ CandidateInv /\ [Next]_vars => CandidateInv'
<1> SUFFICES ASSUME TypeOK, PcInv, CandidateInv, [Next]_vars PROVE CandidateInv'
  OBVIOUS
<1>0. \A s \in Switch : device[s] \in DeviceType(Statement)
  BY DEF TypeOK
<1>1. ASSUME NEW s \in Switch PROVE device'[s].running \ Port \subseteq device'[s].candidate
  <2>1. device[s].running \ Port \subseteq device[s].candidate
    BY DEF CandidateInv
  <2>2. CASE Quiet(device[s], device'[s])
    BY <2>1, <2>2 DEF Quiet
  <2>3. CASE Clean(device'[s])
    BY <2>3 DEF Clean
  <2>4. QED
    BY <2>2, <2>3, DeviceChanges, CommitEffects DEF CommandCommits, Quiet, Clean
<1>2. ASSUME pc' \in {"check", "prompt", "persist-approved", "commit"}
      PROVE  /\ command' # "probe"
                  => Payload(command)' \subseteq device'[sw'].candidate \/ Clean(device'[sw'])
             /\ pc' \in {"persist-approved", "commit"}
                  => tx'.diff = Diff(device'[sw']) \/ Clean(device'[sw'])
             /\ pc' = "commit" => record'[command'].tx = tx'
  <2>1. UNCHANGED command
    BY <1>2, CandidateSteps DEF Load, Check, Approve, Persist, Goto, memory, AfterPersist,
       EndAs
  <2>2. UNCHANGED sw /\ UNCHANGED Payload(command)
    BY <2>1 DEF sw, Payload
  <2>3. CASE Load /\ pc' = "check"
    <3>1. command # "probe" => device'[sw] = Merge(device[sw], Payload(command))
      BY <2>3, SetSwitch DEF Load
    <3>2. command # "probe" => Payload(command) \subseteq device'[sw].candidate
      BY <1>0, <3>1, SwitchTyping DEF Merge, DeviceType
    <3>3. QED
      BY <2>1, <2>2, <2>3, <3>2
  <2>4. CASE Check /\ pc' = "prompt"
    <3>1. PICK d \in CommitChecks(device[sw]) : Set(d)
      BY <2>4 DEF Check, EndAs
    <3>2. /\ device'[sw].candidate = device[sw].candidate
          /\ device'[sw].running = device[sw].running
      BY <1>0, <3>1, SetSwitch, SwitchTyping DEF CommitChecks, DeviceType
    <3>3. QED
      BY <2>1, <2>2, <2>4, <3>2 DEF CandidateInv, Check, Clean
  <2>5. CASE Approve /\ pc' = "persist-approved"
    BY <2>1, <2>2, <2>5 DEF Approve, CandidateInv, NewTransaction
  <2>6. CASE Persist /\ pc = "persist-approved" /\ pc' = "commit"
    <3>1. record' = [record EXCEPT ![command] = [tx |-> tx, intact |-> TRUE]]
          /\ UNCHANGED <<device, tx>>
      BY <2>6 DEF Persist, Write, AfterPersist
    <3>2. command \in {"run", "recovery"}
      BY <2>6 DEF PcInv, TypeOK, Command
    <3>3. QED
      BY <2>1, <2>2, <2>6, <3>1, <3>2 DEF CandidateInv, TypeOK
  <2>7. CASE /\ UNCHANGED <<pc, command, tx, record>>
             /\ UNCHANGED device \/ \E s \in Switch : TimerExpires(s)
    <3>1. device'[sw] = device[sw] \/ Clean(device'[sw])
      <4>1. CASE UNCHANGED device
        BY <4>1
      <4>2. ASSUME NEW s \in Switch, TimerExpires(s)
            PROVE  device'[sw] = device[sw] \/ Clean(device'[sw])
        <5>1. CASE s = sw
          BY <4>2, <5>1, CommitEffects
        <5>2. CASE s # sw
          BY <4>2, <5>2, SwitchTyping DEF TimerExpires, TypeOK
        <5>3. QED
          BY <5>1, <5>2
      <4>3. QED
        BY <2>7, <4>1, <4>2
    <3>2. QED
      BY <1>2, <2>1, <2>2, <2>7, <3>1 DEF CandidateInv
  <2>8. QED
    BY <1>2, <2>3, <2>4, <2>5, <2>6, <2>7, CandidateSteps
<1>3. QED
  BY <1>1, <1>2 DEF CandidateInv

(* What goes on trial is the diff that the operator approved and that is   *)
(* on disk: under the lock only the timer of an older trial can change the *)
(* switch, and then the commit changes nothing.                            *)
LEMMA TrialStep ==
    ASSUME TypeOK, PcInv, CandidateInv, [Next]_vars, NEW c \in {"run", "recovery"},
           device'[Target(c)].pending,
           device'[Target(c)].running # device[Target(c)].running
    PROVE  record[c].tx.diff = <<device'[Target(c)].running \ device[Target(c)].running,
                                 device[Target(c)].running \ device'[Target(c)].running>>
<1>0. Target(c) \in Switch
  BY DEF Target, Switch
<1>1. Target(c) = sw /\ TrialCommit
  BY <1>0, DeviceChanges, CommitEffects DEF CommandCommits, Quiet
<1>2. pc = "commit" /\ command = c
  BY <1>1 DEF TrialCommit, PcInv, TypeOK, Command, sw, Target
<1>3. record[c].tx = tx /\ tx.diff = Diff(device[sw])
  BY <1>0, <1>1, <1>2, CommitEffects DEF CandidateInv, Clean
<1>4. QED
  BY <1>1, <1>3, CommitEffects DEF Diff

LEMMA CandidateInvariant == Spec => [](TypeOK /\ PcInv /\ CandidateInv)
<1>1. Init => CandidateInv
  BY DEF Init, NewDevice, CandidateInv
<1>2. QED
  BY <1>1, CandidateStep, PcCorrect, PTL DEF Spec

(* Whatever goes on trial on the switch a command works at is the diff     *)
(* that the operator approved and that is in its record already.           *)
THEOREM TrialSafety == Spec => TrialIsApproved
<1>1. TypeOK /\ PcInv /\ CandidateInv /\ [Next]_vars =>
        [\A c \in {"run", "recovery"} :
           LET old == device[Target(c)]
               new == device'[Target(c)]
           IN  new.pending /\ new.running # old.running =>
                 record[c].tx.diff = <<new.running \ old.running,
                                       old.running \ new.running>>]_vars
  BY TrialStep
<1>2. QED
  BY <1>1, CandidateInvariant, PTL DEF Spec, TrialIsApproved

-----------------------------------------------------------------------------
(* Nothing of other people is in the old switch or on its way there.       *)

ForeignInv ==
    /\ device["ex4300"].running \cap Foreign = {}
    /\ device["ex4300"].prior \cap Foreign = {}
    /\ command # "run" /\ pc \notin Unlocked => device["ex4300"].candidate \cap Foreign = {}

LEMMA OldSwitch ==
    TypeOK => /\ "ex4300" \in Switch
              /\ command # "run" <=> sw = "ex4300"
BY DEF TypeOK, sw, Target, Switch, Command

LEMMA OldSwitchStep ==
    ASSUME TypeOK, PcInv, ForeignInv, [Next]_vars
    PROVE  /\ device'["ex4300"].running \cap Foreign = {}
           /\ device'["ex4300"].prior \cap Foreign = {}
<1>1. CASE Quiet(device["ex4300"], device'["ex4300"])
  BY <1>1 DEF Quiet, ForeignInv
<1>2. CASE TimerExpires("ex4300")
  BY <1>2, OldSwitch, CommitEffects DEF ForeignInv
<1>3. CASE sw = "ex4300" /\ CommandCommits
  <2>1. ~Rollback
    BY <1>3, OldSwitch DEF Rollback, PcInv
  <2>2. pc \notin Unlocked
    BY <1>3, <2>1 DEF CommandCommits, TrialCommit, Confirm, Disable, Enable, Unlocked
  <2>3. QED
    BY <1>3, <2>1, <2>2, OldSwitch, CommitEffects DEF CommandCommits, ForeignInv
<1>4. CASE sw = "ex4300" /\ Restore
  BY <1>4, CommitEffects DEF Quiet, ForeignInv
<1>5. QED
  BY <1>1, <1>2, <1>3, <1>4, OldSwitch, DeviceChanges

(* Under the lock the candidate takes in what the command loads only.      *)
LEMMA LockedSteps ==
    ASSUME TypeOK, PcInv, [Next]_vars, command' # "run", pc' \notin Unlocked
    PROVE  \/ /\ Clean(device["ex4300"]) /\ UNCHANGED device
           \/ Load /\ UNCHANGED command
           \/ /\ UNCHANGED command /\ pc \notin Unlocked
              /\ \/ device'["ex4300"].candidate \subseteq device["ex4300"].candidate
                 \/ Clean(device'["ex4300"])
<1> USE DEF Unlocked
<1>0. pc' \notin {"idle", "failed", "lock", "observe"}
  OBVIOUS
<1>1. CASE Lock
  BY <1>0, <1>1, OldSwitch DEF Lock, memory
<1>2. CASE Load
  BY <1>2 DEF Load, Goto, memory
<1>3. CASE \/ Recheck \/ Approve \/ Validate \/ Persist \/ PersistFails \/ CheckEnable
           \/ RpcFails
  BY <1>0, <1>3 DEF Recheck, Approve, Validate, Persist, PersistFails, CheckEnable, RpcFails,
     Goto, EndAs, memory, PersistPoint, RpcPoint, AfterPersist, PcInv
<1>4. CASE UNCHANGED vars
  BY <1>4 DEF vars, memory
<1>5. CASE Check
  <2>1. PICK d \in CommitChecks(device[sw]) : Set(d)
    BY <1>0, <1>5 DEF Check, EndAs
  <2>2. UNCHANGED command /\ pc = "check"
    BY <1>0, <1>5 DEF Check, EndAs, Goto, memory
  <2>3. d.candidate = device[sw].candidate
    BY SwitchTyping DEF CommitChecks, DeviceType
  <2>4. QED
    BY <2>1, <2>2, <2>3, OldSwitch, SetSwitch
<1>6. CASE TrialCommit \/ Confirm \/ Disable \/ Enable
  BY <1>6, OldSwitch, CommitEffects DEF TrialCommit, Confirm, Disable, Enable, Goto, memory
<1>7. CASE LoadEnable
  <2>1. device'[sw] = Remove(device[sw], ports) /\ UNCHANGED command /\ pc = "enable-load"
    BY <1>7, SetSwitch DEF LoadEnable, Goto, memory
  <2>2. device'[sw].candidate \subseteq device[sw].candidate
    BY <2>1, SwitchTyping DEF Remove, DeviceType
  <2>3. QED
    BY <2>1, <2>2, OldSwitch
<1>8. CASE Rollback
  BY <1>8 DEF Rollback, PcInv, Goto, memory
<1>9. ASSUME NEW s \in Switch, TimerExpires(s) \/ SomebodyEdits(s)
      PROVE  /\ UNCHANGED command /\ pc \notin Unlocked
             /\ \/ device'["ex4300"].candidate \subseteq device["ex4300"].candidate
                \/ Clean(device'["ex4300"])
  <2>1. UNCHANGED <<pc, command, locked>>
    BY <1>9 DEF TimerExpires, SomebodyEdits, memory
  <2>2. TimerExpires(s)
    BY <1>0, <1>9, <2>1 DEF SomebodyEdits, PcInv
  <2>3. s = "ex4300" => Clean(device'["ex4300"])
    BY <2>2, CommitEffects
  <2>4. s # "ex4300" => UNCHANGED device["ex4300"]
    BY <2>2, OldSwitch DEF TimerExpires, TypeOK
  <2>5. QED
    BY <1>0, <2>1, <2>3, <2>4
<1>10. QED
  BY <1>0, <1>1, <1>2, <1>3, <1>4, <1>5, <1>6, <1>7, <1>8, <1>9 DEF Next, CommandStep, StartRun,
     StartRecovery, StartProbe, Start, Identify, Deny, Crash, Observe, Abandon, Restore, EndAs

LEMMA ForeignStep == TypeOK /\ PcInv /\ ForeignInv /\ [Next]_vars => ForeignInv'
<1> SUFFICES ASSUME TypeOK, PcInv, ForeignInv, [Next]_vars PROVE ForeignInv'
  OBVIOUS
<1>1. ASSUME command' # "run", pc' \notin Unlocked
      PROVE  device'["ex4300"].candidate \cap Foreign = {}
  <2>1. CASE Clean(device["ex4300"]) /\ UNCHANGED device
    BY <2>1 DEF Clean, ForeignInv
  <2>2. CASE Load /\ UNCHANGED command
    <3>1. PICK some \in SUBSET (Transit \cup Port) : Set(Merge(device[sw], some))
      BY <1>1, <2>2 DEF Load, Payload, TypeOK
    <3>2. sw = "ex4300" /\ pc = "load"
      BY <1>1, <2>2, OldSwitch DEF Load
    <3>3. device["ex4300"].candidate \cap Foreign = {}
      BY <3>2, OldSwitch DEF ForeignInv, Unlocked
    <3>4. device'[sw].candidate = device[sw].candidate \cup some
      BY <3>1, SetSwitch, SwitchTyping DEF Merge, DeviceType
    <3>5. QED
      BY <3>1, <3>2, <3>3, <3>4, DisjointAssumption
  <2>3. CASE /\ UNCHANGED command /\ pc \notin Unlocked
             /\ \/ device'["ex4300"].candidate \subseteq device["ex4300"].candidate
                \/ Clean(device'["ex4300"])
    BY <1>1, <2>3, OldSwitchStep DEF Clean, ForeignInv
  <2>4. QED
    BY <1>1, <2>1, <2>2, <2>3, LockedSteps
<1>2. QED
  BY <1>1, OldSwitchStep DEF ForeignInv, Unlocked

(* The probe and the temporary management never carry edits of other       *)
(* people into the old switch.                                             *)
THEOREM OldSwitchSafety == Spec => OldSwitchOnlyPayload
<1>1. Init => ForeignInv
  BY DEF Init, NewDevice, ForeignInv, Switch
<1>2. Spec => [](TypeOK /\ PcInv /\ ForeignInv)
  BY <1>1, ForeignStep, PcCorrect, PTL DEF Spec
<1>3. TypeOK /\ PcInv /\ ForeignInv /\ [Next]_vars =>
        [device'["ex4300"].running \cap Foreign = device["ex4300"].running \cap Foreign]_vars
  BY OldSwitchStep DEF ForeignInv
<1>4. QED
  BY <1>2, <1>3, PTL DEF Spec, OldSwitchOnlyPayload

-----------------------------------------------------------------------------
(* What a success claims is there when it is claimed, and stays, unless a  *)
(* window has closed on the command while it was at work on its trial.     *)
TrialInv ==
    /\ command \notin overtaken =>
         /\ pc \in TrialPoint => device[sw].pending
         /\ pc \in {"persist-validated", "confirm", "persist-done"}
              => Payload(command) \subseteq device[sw].running
         /\ pc = "persist-done" => ~device[sw].pending
    /\ tx.status = "COMMITTED_AND_CONFIRMED" => pc \in {"persist-done", "failed"}

LEMMA PayloadFacts ==
    /\ \A c \in {"run", "recovery"} : /\ Payload(c) \cap Port = {}
                                      /\ Target(c) \in Switch
    /\ TypeOK /\ command # "probe" => command \in {"run", "recovery"}
BY DisjointAssumption DEF Payload, Target, Switch, TypeOK, Command

LEMMA OvertakenForGood ==
    ASSUME [Next]_vars, NEW c, c \notin overtaken'
    PROVE  c \notin overtaken
BY DEF Next, CommandStep, TimerExpires, vars

(* Until its trial has ended a command's switch is changed by it, or by    *)
(* the window that overtakes it.                                           *)
LEMMA TrialSteps ==
    ASSUME TypeOK, PcInv, TrialInv, [Next]_vars, pc' \in TrialPoint \cup {"persist-done"}
    PROVE  /\ UNCHANGED command
           /\ \/ TrialCommit /\ pc' \in {"persist-trial", "validate"}
              \/ Confirm /\ pc = "confirm" /\ pc' = "persist-done"
              \/ /\ device'[sw] = device[sw] \/ command \in overtaken'
                 /\ pc \in TrialPoint \cup {"persist-done"}
                 /\ pc' \in {"persist-validated", "confirm", "persist-done"} =>
                      \/ pc \in {"persist-validated", "confirm", "persist-done"}
                      \/ Payload(command) \subseteq device[sw].running
                 /\ pc' = "persist-done" <=> pc = "persist-done"
<1> USE DEF TrialPoint
<1>0. pc' \notin {"idle", "failed", "lock", "load", "recheck", "commit", "disable"}
  OBVIOUS
<1>1. CASE TrialCommit \/ Confirm
  BY <1>0, <1>1 DEF TrialCommit, Confirm, Goto, memory
<1>2. CASE Validate
  <2>1. /\ UNCHANGED <<device, command>> /\ pc = "validate"
        /\ pc' \in {"persist-validated", "confirm", "rollback"}
    BY <1>0, <1>2 DEF Validate, Goto, memory
  <2>2. pc' # "rollback" => IF command = "run" THEN RunIsValid ELSE RecoveryIsValid
    BY <1>0, <1>2 DEF Validate, Goto
  <2>3. pc' # "rollback" => Payload(command) \subseteq device[sw].running
    BY <2>2 DEF RunIsValid, RecoveryIsValid, Payload, sw, Target
  <2>4. QED
    BY <2>1, <2>3
<1>3. CASE Persist \/ PersistFails \/ RpcFails
  BY <1>0, <1>3 DEF Persist, PersistFails, RpcFails, EndAs, Goto, memory, AfterPersist,
     PersistPoint
<1>4. CASE Rollback \/ Check \/ Approve
  BY <1>0, <1>4 DEF Rollback, Check, Approve, EndAs, Goto
<1>5. ASSUME NEW s \in Switch, TimerExpires(s) \/ SomebodyEdits(s)
      PROVE  /\ UNCHANGED <<pc, command>>
             /\ device'[sw] = device[sw] \/ command \in overtaken'
  <2>1. UNCHANGED <<pc, command>>
    BY <1>5 DEF TimerExpires, SomebodyEdits, memory
  <2>2. TimerExpires(s)
    BY <1>0, <1>5, <2>1 DEF SomebodyEdits, PcInv, Unlocked
  <2>3. CASE s # sw
    BY <2>1, <2>2, <2>3, SwitchTyping DEF TimerExpires, TypeOK
  <2>4. CASE s = sw
    <3>1. pc \in TrialPoint => command \in overtaken'
      BY <2>2, <2>4 DEF TimerExpires
    <3>2. pc = "persist-done" => command \in overtaken
      BY <2>2, <2>4 DEF TimerExpires, TrialInv
    <3>3. QED
      BY <1>5, <2>1, <3>1, <3>2, OvertakenForGood
  <2>5. QED
    BY <2>3, <2>4
<1>6. CASE UNCHANGED vars
  BY <1>6 DEF vars, memory
<1>7. QED
  BY <1>0, <1>1, <1>2, <1>3, <1>4, <1>5, <1>6 DEF Next, CommandStep, StartRun, StartRecovery,
     StartProbe, Start, Identify, Deny, Crash, Lock, Recheck, Load, Disable, LoadEnable,
     CheckEnable, Enable, Observe, Abandon, Restore, Goto, EndAs

(* A transaction says success between the final commit and its record.     *)
LEMMA StatusStep ==
    ASSUME TypeOK, TrialInv, [Next]_vars, tx'.status = "COMMITTED_AND_CONFIRMED"
    PROVE  pc' \in {"persist-done", "failed"}
<1>1. CASE UNCHANGED tx
  <2>1. pc \in {"persist-done", "failed"}
    BY <1>1 DEF TrialInv
  <2>2. QED
    <3>1. \A how, d : ~EndAs(how, d)
      BY <1>1 DEF EndAs, NoTransaction
    <3>2. CASE Persist \/ PersistFails
      BY <2>1, <3>1, <3>2 DEF Persist, PersistFails, AfterPersist, Goto
    <3>3. QED
      BY <2>1, <3>1, <3>2 DEF Next, CommandStep, StartRun, StartRecovery, StartProbe, Start,
         Identify, Approve, Deny, Crash, Lock, Recheck, Load, Check, TrialCommit, Validate,
         Rollback, Confirm, Disable, LoadEnable, CheckEnable, Enable, Observe, RpcFails,
         Abandon, Restore, TimerExpires, SomebodyEdits, RpcPoint, vars
<1>2. CASE \E how, d : EndAs(how, d)
  BY <1>2 DEF EndAs, NoTransaction
<1>3. CASE Approve \/ TrialCommit \/ Validate \/ Rollback \/ Confirm
  <2>1. CASE Approve
    BY <2>1 DEF Approve, NewTransaction
  <2>2. CASE TrialCommit
    BY <1>1, <2>2 DEF TrialCommit, TypeOK, Transaction
  <2>3. CASE Validate
    <3>1. tx'.status = tx.status /\ pc = "validate"
      BY <2>3 DEF Validate, TypeOK, Transaction
    <3>2. QED
      BY <3>1 DEF TrialInv
  <2>4. CASE Rollback
    BY <2>4 DEF Rollback, TypeOK, Transaction
  <2>5. CASE Confirm
    BY <2>5 DEF Confirm, Goto
  <2>6. QED
    BY <1>3, <2>1, <2>2, <2>3, <2>4, <2>5
<1>4. QED
  BY <1>1, <1>2, <1>3 DEF Next, CommandStep, StartRun, StartRecovery, StartProbe, Start,
     Identify, Deny, Crash, Lock, Recheck, Load, Check, Persist, PersistFails, Disable,
     LoadEnable, CheckEnable, Enable, Observe, RpcFails, Abandon, Restore, TimerExpires,
     SomebodyEdits, vars

LEMMA TrialInvStep ==
    ASSUME TypeOK, PcInv, CandidateInv, TrialInv, [Next]_vars
    PROVE  TrialInv'
<1>1. ASSUME pc' \in TrialPoint \cup {"persist-done"}, command' \notin overtaken'
      PROVE  /\ pc' \in TrialPoint => device'[sw'].pending
             /\ pc' \in {"persist-validated", "confirm", "persist-done"}
                  => Payload(command)' \subseteq device'[sw'].running
             /\ pc' = "persist-done" => ~device'[sw'].pending
  <2>1. UNCHANGED <<sw, command>> /\ Payload(command)' = Payload(command)
    BY <1>1, TrialSteps DEF sw, Payload
  <2>0. command \notin overtaken /\ command \notin overtaken'
    BY <1>1, <2>1, OvertakenForGood
  <2>2. CASE TrialCommit /\ pc' \in {"persist-trial", "validate"}
    BY <2>1, <2>2, CommitEffects
  <2>3. CASE Confirm /\ pc = "confirm" /\ pc' = "persist-done"
    <3>1. /\ Payload(command) \subseteq device[sw].running \ Port
          /\ device[sw].running \ Port \subseteq device[sw].candidate
      BY <2>0, <2>3, PayloadFacts, SwitchTyping DEF TrialInv, PcInv, CandidateInv
    <3>2. QED
      BY <2>1, <2>3, <3>1, CommitEffects DEF TrialPoint
  <2>4. CASE /\ device'[sw] = device[sw] \/ command \in overtaken'
             /\ pc \in TrialPoint \cup {"persist-done"}
             /\ pc' \in {"persist-validated", "confirm", "persist-done"} =>
                  \/ pc \in {"persist-validated", "confirm", "persist-done"}
                  \/ Payload(command) \subseteq device[sw].running
             /\ pc' = "persist-done" <=> pc = "persist-done"
    BY <2>0, <2>1, <2>4 DEF TrialInv, TrialPoint
  <2>5. QED
    BY <1>1, <2>2, <2>3, <2>4, TrialSteps
<1>2. QED
  BY <1>1, StatusStep DEF TrialInv, TrialPoint

-----------------------------------------------------------------------------
(* A transaction that says success                                         *)

Claimed(c) == Success(record[c]) \/ c \in succeeded

LiveFor(c) == LET d == device[Target(c)]
              IN  /\ Payload(c) \subseteq d.running
                  /\ d.pending => Payload(c) \subseteq d.prior

(* Only the run that was confirmed adds a claim.                           *)
LEMMA ClaimChanges ==
    ASSUME TypeOK, PcInv, TrialInv, [Next]_vars, NEW c \in {"run", "recovery"}, Claimed(c)'
    PROVE  Claimed(c) \/ (Persist /\ pc = "persist-done" /\ c = command)
<1>1. CASE UNCHANGED <<record, succeeded>>
  BY <1>1 DEF Claimed, Success
<1>2. ASSUME NEW intact \in BOOLEAN, pc \in PersistPoint,
             Write([tx |-> tx, intact |-> intact])
      PROVE  Claimed(c) \/ (intact /\ pc = "persist-done" /\ c = command)
  <2>1. c \in succeeded' => Claimed(c)
    BY <1>2 DEF Write, Claimed
  <2>2. CASE c # command
    <3>1. record'[c] = record[c]
      BY <1>2, <2>2 DEF Write, TypeOK
    <3>2. QED
      BY <2>1, <3>1 DEF Claimed, Success
  <2>3. CASE c = command
    <3>1. record'[c] = [tx |-> tx, intact |-> intact]
      BY <1>2, <2>3 DEF Write, TypeOK
    <3>2. QED
      BY <1>2, <2>1, <2>3, <3>1 DEF Claimed, Success, TrialInv, PersistPoint
  <2>4. QED
    BY <2>2, <2>3
<1>3. CASE Persist
  BY <1>2, <1>3 DEF Persist
<1>4. CASE PersistFails \/ Crash
  BY <1>1, <1>2, <1>4 DEF PersistFails, Crash, Torn, disk
<1>5. QED
  BY <1>1, <1>3, <1>4 DEF Next, CommandStep, StartRun, StartRecovery, StartProbe, Start,
     Identify, Approve, Deny, Lock, Recheck, Load, Check, TrialCommit, Validate, Rollback,
     Confirm, Disable, LoadEnable, CheckEnable, Enable, Observe, RpcFails, Abandon, Restore,
     TimerExpires, SomebodyEdits, vars, disk

(* What is live for good stays live, whatever the commands do.             *)
LEMMA PayloadKept ==
    ASSUME TypeOK, PcInv, CandidateInv, TrialInv, [Next]_vars,
           NEW c \in {"run", "recovery"}, c \notin overtaken', LiveFor(c)
    PROVE  LiveFor(c)'
<1> DEFINE s == Target(c)
<1>0. s \in Switch /\ UNCHANGED <<Payload(c), s>>
  BY PayloadFacts DEF Payload, Target
<1>1. /\ Payload(c) \subseteq device[s].running
      /\ device[s].pending => Payload(c) \subseteq device[s].prior
      /\ Payload(c) \subseteq device[s].candidate
  BY <1>0, PayloadFacts DEF LiveFor, CandidateInv
<1>2. /\ Payload(c) \subseteq device'[s].running
      /\ device'[s].pending => Payload(c) \subseteq device'[s].prior
  <2>1. CASE Quiet(device[s], device'[s])
    BY <1>1, <2>1 DEF Quiet
  <2>2. CASE TimerExpires(s)
    <3>1. device[s].pending
      BY <2>2 DEF TimerExpires
    <3>2. QED
      BY <1>0, <1>1, <2>2, <3>1, CommitEffects
  <2>3. CASE s = sw /\ Rollback
    <3>0. command = "run" /\ c = "run"
      BY <2>3 DEF Rollback, PcInv, sw, Target
    <3>1. device[s].pending
      BY <2>3, <3>0, OvertakenForGood DEF Rollback, TrialInv, TrialPoint
    <3>2. QED
      BY <1>1, <2>3, <3>1, CommitEffects
  <2>4. CASE s = sw /\ Restore
    <3>1. Payload(c) \subseteq device[s].running \ disabled
      BY <1>1, PayloadFacts DEF TypeOK
    <3>2. QED
      BY <1>1, <2>4, <3>1, CommitEffects DEF Quiet
  <2>5. CASE s = sw /\ (TrialCommit \/ Confirm \/ Disable \/ Enable)
    BY <1>1, <2>5, CommitEffects
  <2>6. QED
    BY <1>0, <2>1, <2>2, <2>3, <2>4, <2>5, DeviceChanges DEF CommandCommits
<1>3. QED
  BY <1>0, <1>2 DEF LiveFor

LEMMA SuccessStep ==
    ASSUME TypeOK, PcInv, CandidateInv, TrialInv, SuccessIsLive, [Next]_vars
    PROVE  SuccessIsLive'
<1> SUFFICES ASSUME NEW c \in {"run", "recovery"}, c \notin overtaken', Claimed(c)'
             PROVE  LiveFor(c)'
  BY DEF SuccessIsLive, Claimed, LiveFor
<1>0. c \notin overtaken
  BY OvertakenForGood
<1>1. CASE Claimed(c)
  <2>1. LiveFor(c)
    BY <1>0, <1>1 DEF SuccessIsLive, Claimed, LiveFor
  <2>2. QED
    BY <2>1, PayloadKept
<1>2. CASE Persist /\ pc = "persist-done" /\ c = command
  <2>1. LiveFor(c)
    BY <1>0, <1>2 DEF TrialInv, LiveFor, sw
  <2>2. QED
    BY <2>1, PayloadKept
<1>3. QED
  BY <1>1, <1>2, ClaimChanges

LEMMA TrialInvariant == Spec => [](TypeOK /\ PcInv /\ CandidateInv /\ TrialInv /\ SuccessIsLive)
<1>1. Init => TrialInv /\ SuccessIsLive
  BY DEF Init, TrialInv, TrialPoint, NoTransaction, SuccessIsLive, Success
<1>2. QED
  BY <1>1, TrialInvStep, SuccessStep, CandidateInvariant, PTL DEF Spec

(* A transaction that says COMMITTED_AND_CONFIRMED is true for good: no    *)
(* later run, trial, rollback or probe takes its statements away.  Until a *)
(* window has overtaken a command of its kind.                             *)
THEOREM SuccessSafety == Spec => []SuccessIsLive
BY TrialInvariant, PTL

-----------------------------------------------------------------------------
(* A transaction that says it was rolled back                              *)

(* No statement of the render that the transaction added is in c.          *)
Gone(t, c) == t.diff[1] \cap Rendered \cap c = {}

(* Claimed until a window has overtaken the run.                           *)
GoneInv == "run" \notin overtaken =>
    LET d == device["ex4400"]
        r == record["run"]
    IN  /\ d.pending => Rendered \subseteq d.running \/ d.running = d.prior
        /\ command = "run" /\ pc \in {"persist-approved", "commit"} =>
             /\ Gone(tx, d.running)
             /\ d.pending => Gone(tx, d.prior)
        /\ command = "run" /\ pc \in TrialPoint => Gone(tx, d.prior)
        /\ tx.status = "ROLLED_BACK" =>
             /\ command = "run" /\ pc \in {"persist-rollback", "failed"}
             /\ ~d.pending /\ Gone(tx, d.running)
        /\ r.intact /\ r.tx.status = "ROLLED_BACK" =>
             /\ ~d.pending /\ Gone(r.tx, d.running)
             /\ command = "run" => pc \notin {"commit", "persist-rollback", "persist-done"}
                                               \cup TrialPoint

LEMMA Ex4400 ==
    TypeOK => /\ "ex4400" \in Switch
              /\ command = "run" <=> sw = "ex4400"
BY DEF TypeOK, sw, Target, Switch, Command

(* The diff of a transaction is the one that was approved.                 *)
LEMMA DiffKept ==
    ASSUME TypeOK, [Next]_vars, pc' \notin {"idle", "persist-approved"}
    PROVE  tx'.diff = tx.diff
<1>1. CASE TrialCommit \/ Validate \/ Rollback \/ Confirm
  BY <1>1 DEF TrialCommit, Validate, Rollback, Confirm, TypeOK, Transaction
<1>2. QED
  BY <1>1 DEF Next, CommandStep, StartRun, StartRecovery, StartProbe, Start, Identify,
     Approve, Deny, Crash, Lock, Recheck, Load, Check, Persist, PersistFails, Disable,
     LoadEnable, CheckEnable, Enable, Observe, RpcFails, Abandon, Restore, TimerExpires,
     SomebodyEdits, Goto, EndAs, vars

(* An unconfirmed trial of the render shows the render, or is empty.       *)
LEMMA PendingStep ==
    ASSUME TypeOK, PcInv, CandidateInv, GoneInv, [Next]_vars,
           "run" \notin overtaken', device'["ex4400"].pending
    PROVE  \/ Rendered \subseteq device'["ex4400"].running
           \/ device'["ex4400"].running = device'["ex4400"].prior
<1>v. "run" \notin overtaken
  BY OvertakenForGood
<1>1. CASE Quiet(device["ex4400"], device'["ex4400"])
  BY <1>v, <1>1 DEF Quiet, GoneInv
<1>2. CASE sw = "ex4400" /\ TrialCommit
  <2>1. Rendered \subseteq device[sw].candidate \/ Clean(device[sw])
    BY <1>2, Ex4400 DEF TrialCommit, CandidateInv, Payload
  <2>2. QED
    BY <1>2, <2>1, CommitEffects DEF Clean
<1>3. CASE sw = "ex4400" /\ Rollback
  BY <1>v, <1>3, CommitEffects DEF GoneInv
<1>4. QED
  BY <1>1, <1>2, <1>3, Ex4400, DeviceChanges, CommitEffects DEF CommandCommits

LEMMA ApprovedStep ==
    ASSUME TypeOK, PcInv, GoneInv, [Next]_vars, "run" \notin overtaken',
           command' = "run", pc' \in {"persist-approved", "commit"}
    PROVE  /\ Gone(tx', device'["ex4400"].running)
           /\ device'["ex4400"].pending => Gone(tx', device'["ex4400"].prior)
<1>v. "run" \notin overtaken
  BY OvertakenForGood
<1>1. CASE Approve
  <2>1. UNCHANGED device /\ sw = "ex4400" /\ tx'.diff = Diff(device[sw])
    BY <1>1, Ex4400 DEF Approve, Goto, memory, NewTransaction
  <2>2. tx'.diff[1] = device["ex4400"].candidate \ device["ex4400"].running
    BY <2>1 DEF Diff
  <2>3. QED
    BY <1>v, <2>1, <2>2 DEF Gone, GoneInv
<1>2. CASE Persist /\ pc = "persist-approved" /\ pc' = "commit"
  BY <1>v, <1>2 DEF Persist, Goto, memory, AfterPersist, GoneInv
<1>3. CASE /\ UNCHANGED <<pc, command, tx, record>>
           /\ UNCHANGED device \/ \E s \in Switch : TimerExpires(s)
  <2>1. /\ Gone(tx, device["ex4400"].running)
        /\ device["ex4400"].pending => Gone(tx, device["ex4400"].prior)
    BY <1>v, <1>3 DEF GoneInv
  <2>2. CASE UNCHANGED device
    BY <1>3, <2>1, <2>2
  <2>3. ASSUME NEW s \in Switch, TimerExpires(s)
        PROVE  /\ Gone(tx, device'["ex4400"].running)
               /\ device'["ex4400"].pending => Gone(tx, device'["ex4400"].prior)
    <3>1. CASE s = "ex4400"
      BY <2>1, <2>3, <3>1, CommitEffects DEF TimerExpires
    <3>2. CASE s # "ex4400"
      BY <2>1, <2>3, <3>2, Ex4400 DEF TimerExpires, TypeOK
    <3>3. QED
      BY <3>1, <3>2
  <2>4. QED
    BY <1>3, <2>2, <2>3
<1>4. QED
  BY <1>1, <1>2, <1>3, CandidateSteps

LEMMA PriorStep ==
    ASSUME TypeOK, PcInv, TrialInv, GoneInv, [Next]_vars, "run" \notin overtaken',
           command' = "run", pc' \in TrialPoint
    PROVE  Gone(tx', device'["ex4400"].prior)
<1>v. "run" \notin overtaken
  BY OvertakenForGood
<1>1. tx'.diff = tx.diff
  BY DiffKept DEF TrialPoint
<1>2. command = "run" /\ sw = "ex4400" /\ pc' # "persist-done"
  BY TrialSteps, Ex4400 DEF TrialPoint
<1>3. CASE TrialCommit
  BY <1>v, <1>1, <1>2, <1>3, CommitEffects DEF TrialCommit, GoneInv, Gone
<1>4. CASE device'[sw] = device[sw] /\ pc \in TrialPoint
  BY <1>v, <1>1, <1>2, <1>4 DEF GoneInv, Gone
<1>5. QED
  BY <1>2, <1>3, <1>4, TrialSteps

LEMMA RolledBackStep ==
    ASSUME TypeOK, PcInv, TrialInv, GoneInv, [Next]_vars,
           "run" \notin overtaken', tx'.status = "ROLLED_BACK"
    PROVE  /\ command' = "run" /\ pc' \in {"persist-rollback", "failed"}
           /\ ~device'["ex4400"].pending /\ Gone(tx', device'["ex4400"].running)
<1>v. "run" \notin overtaken
  BY OvertakenForGood
<1>0. \A how, d : ~EndAs(how, d)
  BY DEF EndAs, NoTransaction
<1>1. CASE Rollback
  <2>1. command = "run" /\ sw = "ex4400" /\ UNCHANGED command /\ pc' = "persist-rollback"
    BY <1>1, Ex4400 DEF Rollback, PcInv, Goto, memory
  <2>2. Gone(tx, device["ex4400"].prior)
    BY <1>v, <1>1, <2>1 DEF Rollback, GoneInv, TrialPoint
  <2>3. tx'.diff = tx.diff
    BY <2>1, DiffKept
  <2>4. QED
    BY <1>1, <2>1, <2>2, <2>3, CommitEffects DEF Gone
<1>2. CASE ~Rollback
  <2>1. tx.status = "ROLLED_BACK" /\ UNCHANGED tx
    <3>1. CASE TrialCommit \/ Validate \/ Confirm
      <4>1. tx.status # "ROLLED_BACK"
        BY <1>v, <3>1 DEF TrialCommit, Validate, Confirm, GoneInv
      <4>2. tx'.status \in {tx.status, "TRIAL", "COMMITTED_AND_CONFIRMED"}
        BY <3>1 DEF TrialCommit, Validate, Confirm, TypeOK, Transaction
      <4>3. QED
        BY <4>1, <4>2
    <3>2. CASE Approve
      BY <3>2 DEF Approve, NewTransaction
    <3>3. QED
      BY <1>0, <1>2, <3>1, <3>2 DEF Next, CommandStep, StartRun, StartRecovery, StartProbe,
         Start, Identify, Deny, Crash, Lock, Recheck, Load, Check, Persist, PersistFails,
         Disable, LoadEnable, CheckEnable, Enable, Observe, RpcFails, Abandon, Restore,
         TimerExpires, SomebodyEdits, vars
  <2>2. /\ command = "run" /\ pc \in {"persist-rollback", "failed"}
        /\ ~device["ex4400"].pending /\ Gone(tx, device["ex4400"].running)
    BY <1>v, <2>1 DEF GoneInv
  <2>3. command' = "run" /\ pc' \in {"persist-rollback", "failed"}
    <3>1. CASE Persist \/ PersistFails
      BY <1>0, <2>2, <3>1 DEF Persist, PersistFails, AfterPersist, Goto, memory
    <3>2. QED
      BY <1>0, <1>2, <2>2, <3>1 DEF Next, CommandStep, StartRun, StartRecovery, StartProbe,
         Start, Identify, Approve, Deny, Crash, Lock, Recheck, Load, Check, TrialCommit,
         Validate, Confirm, Disable, LoadEnable, CheckEnable, Enable, Observe, RpcFails,
         RpcPoint, Abandon, Restore, TimerExpires, SomebodyEdits, Goto, memory, vars
  <2>4. Quiet(device["ex4400"], device'["ex4400"])
    <3>1. ~TimerExpires("ex4400")
      BY <2>2 DEF TimerExpires
    <3>2. ~CommandCommits /\ ~Restore
      BY <1>0, <1>2, <2>2 DEF CommandCommits, Restore, TrialCommit, Confirm, Disable, Enable
    <3>3. QED
      BY <3>1, <3>2, Ex4400, DeviceChanges
  <2>5. QED
    BY <2>1, <2>2, <2>3, <2>4 DEF Quiet
<1>3. QED
  BY <1>1, <1>2

(* A record that can be read is written by Persist and by nothing else.    *)
LEMMA RecordChanges ==
    ASSUME [Next]_vars
    PROVE  \/ Persist
           \/ UNCHANGED record
           \/ record' = [record EXCEPT ![command] = [tx |-> tx, intact |-> FALSE]]
BY DEF Next, CommandStep, StartRun, StartRecovery, StartProbe, Start, Identify, Approve, Deny,
   Crash, Lock, Recheck, Load, Check, TrialCommit, Validate, Rollback, Confirm, PersistFails,
   Torn, Write, Disable, LoadEnable, CheckEnable, Enable, Observe, RpcFails, Abandon, Restore,
   TimerExpires, SomebodyEdits, disk, vars

Writing == {"commit", "persist-rollback", "persist-done"} \cup TrialPoint

(* The record of a rollback is replaced before the next commit of run.     *)
LEMMA WritingSteps ==
    ASSUME TypeOK, PcInv, TrialInv, [Next]_vars, command' = "run", pc' \in Writing
    PROVE  /\ command = "run"
           /\ pc \in Writing \/ (Persist /\ pc = "persist-approved")
<1>1. CASE pc' \in TrialPoint \cup {"persist-done"}
  BY <1>1, TrialSteps DEF TrialCommit, Writing, TrialPoint
<1>2. CASE pc' = "commit"
  BY <1>2, CandidateSteps DEF Persist, Goto, memory, AfterPersist, Writing
<1>3. CASE pc' = "persist-rollback"
  <2>1. CASE Persist \/ Check
    BY <1>3, <2>1 DEF Persist, Check, AfterPersist, Goto, EndAs
  <2>2. CASE Rollback
    BY <2>2 DEF Rollback, Goto, memory, Writing, TrialPoint
  <2>3. QED
    BY <1>3, <2>1, <2>2 DEF Next, CommandStep, StartRun, StartRecovery, StartProbe,
       Start, Identify, Approve, Deny, Crash, Lock, Recheck, Load, TrialCommit,
       Validate, Confirm, PersistFails, Disable, LoadEnable, CheckEnable, Enable, Observe,
       RpcFails, Abandon, Restore, TimerExpires, SomebodyEdits, Goto, EndAs, memory, vars,
       Writing
<1>4. QED
  BY <1>1, <1>2, <1>3 DEF Writing

LEMMA RecordStep ==
    ASSUME TypeOK, PcInv, TrialInv, GoneInv, [Next]_vars, "run" \notin overtaken',
           record'["run"].intact, record'["run"].tx.status = "ROLLED_BACK"
    PROVE  /\ ~device'["ex4400"].pending
           /\ Gone(record'["run"].tx, device'["ex4400"].running)
           /\ command' = "run" => pc' \notin Writing
<1>v. "run" \notin overtaken
  BY OvertakenForGood
<1>1. CASE Persist /\ command = "run"
  <2>1. record'["run"].tx = tx
    BY <1>1 DEF Persist, Write, TypeOK
  <2>2. /\ pc = "persist-rollback" /\ ~device["ex4400"].pending
        /\ Gone(tx, device["ex4400"].running)
    BY <1>v, <1>1, <2>1 DEF Persist, GoneInv, PersistPoint
  <2>3. EndAs("told", device[sw])
    BY <1>1, <2>2 DEF Persist, AfterPersist
  <2>4. device["ex4400"] \in DeviceType(Statement) /\ sw = "ex4400"
    BY <1>1, Ex4400 DEF TypeOK
  <2>5. device'["ex4400"] \in {device["ex4400"], Discard(device["ex4400"])}
    BY <2>3, <2>4, Ex4400, EndAsQuiet
  <2>6. QED
    BY <2>1, <2>2, <2>3, <2>4, <2>5 DEF EndAs, Discard, DeviceType, Writing, TrialPoint
<1>2. CASE record'["run"] = record["run"] /\ ~(Persist /\ command = "run")
  <2>1. /\ ~device["ex4400"].pending
        /\ Gone(record["run"].tx, device["ex4400"].running)
        /\ command = "run" => pc \notin Writing
    BY <1>v, <1>2 DEF GoneInv, Writing
  <2>2. command' = "run" => pc' \notin Writing
    BY <1>2, <2>1, WritingSteps
  <2>3. Quiet(device["ex4400"], device'["ex4400"])
    <3>1. ~TimerExpires("ex4400")
      BY <2>1 DEF TimerExpires
    <3>2. sw = "ex4400" => ~CommandCommits /\ ~Restore
      BY <2>1, Ex4400 DEF CommandCommits, Restore, TrialCommit, Confirm, Rollback, Disable,
         Enable, PcInv, Writing, TrialPoint
    <3>3. QED
      BY <3>1, <3>2, Ex4400, DeviceChanges
  <2>4. QED
    BY <1>2, <2>1, <2>2, <2>3 DEF Quiet
<1>3. CASE Persist /\ command # "run"
  <2>1. record'["run"] = record["run"]
    BY <1>3 DEF Persist, Write, TypeOK
  <2>2. QED
    BY <1>2, <1>3, <2>1
<1>4. CASE record' = [record EXCEPT ![command] = [tx |-> tx, intact |-> FALSE]] /\ ~Persist
  <2>1. command # "run"
    BY <1>4 DEF TypeOK
  <2>2. record'["run"] = record["run"]
    BY <1>4, <2>1 DEF TypeOK
  <2>3. QED
    BY <1>2, <1>4, <2>2
<1>5. CASE UNCHANGED record /\ ~Persist
  BY <1>2, <1>5
<1>6. QED
  BY <1>1, <1>3, <1>4, <1>5, RecordChanges

LEMMA GoneStep ==
    TypeOK /\ PcInv /\ CandidateInv /\ TrialInv /\ GoneInv /\ [Next]_vars => GoneInv'
<1> SUFFICES ASSUME TypeOK, PcInv, CandidateInv, TrialInv, GoneInv, [Next]_vars
             PROVE  GoneInv'
  OBVIOUS
<1> SUFFICES ASSUME "run" \notin overtaken' PROVE GoneInv'
  BY DEF GoneInv
<1>1. device'["ex4400"].pending => \/ Rendered \subseteq device'["ex4400"].running
                                  \/ device'["ex4400"].running = device'["ex4400"].prior
  BY PendingStep
<1>2. command' = "run" /\ pc' \in {"persist-approved", "commit"} =>
        /\ Gone(tx', device'["ex4400"].running)
        /\ device'["ex4400"].pending => Gone(tx', device'["ex4400"].prior)
  BY ApprovedStep
<1>3. command' = "run" /\ pc' \in TrialPoint => Gone(tx', device'["ex4400"].prior)
  BY PriorStep
<1>4. tx'.status = "ROLLED_BACK" =>
        /\ command' = "run" /\ pc' \in {"persist-rollback", "failed"}
        /\ ~device'["ex4400"].pending /\ Gone(tx', device'["ex4400"].running)
  BY RolledBackStep
<1>5. record'["run"].intact /\ record'["run"].tx.status = "ROLLED_BACK" =>
        /\ ~device'["ex4400"].pending
        /\ Gone(record'["run"].tx, device'["ex4400"].running)
        /\ command' = "run" => pc' \notin Writing
  BY RecordStep
<1>6. QED
  BY <1>1, <1>2, <1>3, <1>4, <1>5 DEF GoneInv, Gone, Writing, TrialPoint

(* A transaction that says its change was rolled back is true, whatever    *)
(* was committed in between: nothing it added is live.  Until a window has *)
(* overtaken the run.                                                      *)
THEOREM RolledBackSafety == Spec => []RolledBackIsGone
<1>1. Init => GoneInv
  BY DEF Init, NewDevice, GoneInv, NoTransaction, Switch, TrialPoint
<1>2. Spec => [](TypeOK /\ PcInv /\ GoneInv)
  BY <1>1, GoneStep, TrialInvariant, PTL DEF Spec
<1>3. GoneInv => RolledBackIsGone
  BY DEF GoneInv, Gone, RolledBackIsGone
<1>4. QED
  BY <1>2, <1>3, PTL

-----------------------------------------------------------------------------
(* Every command comes to its end.  StepsLeft counts what is left of it at *)
(* most, the way out through the except clauses included.                  *)

StepsLeft == CASE pc = "idle"              -> 0
               [] pc = "failed"            -> 1
               [] pc = "observe"           -> 2
               [] pc = "persist-rollback"  -> 2
               [] pc = "persist-done"      -> 2
               [] pc = "enable"            -> 3
               [] pc = "rollback"          -> 3
               [] pc = "confirm"           -> 4
               [] pc = "enable-check"      -> 4
               [] pc = "persist-validated" -> 5
               [] pc = "enable-load"       -> 5
               [] pc = "validate"          -> 6
               [] pc = "disable"           -> 6
               [] pc = "persist-trial"     -> 7
               [] pc = "commit"            -> 8
               [] pc = "persist-approved"  -> 9
               [] pc = "prompt"            -> 10
               [] pc = "check"             -> 11
               [] pc = "load"              -> 12
               [] pc = "recheck"           -> 13
               [] pc = "lock"              -> 14

Working == {"lock", "recheck", "load", "check", "prompt", "persist-approved", "commit",
            "persist-trial", "validate", "persist-validated", "confirm", "persist-done",
            "rollback", "persist-rollback", "disable", "enable-load", "enable-check",
            "enable", "observe", "failed"}

Environment == \E s \in Switch : TimerExpires(s) \/ SomebodyEdits(s)

LEMMA StepsFacts == TypeOK => /\ StepsLeft \in 0 .. 14
                              /\ StepsLeft = 0 <=> pc = "idle"
<1>1. TypeOK => pc = "idle" \/ pc \in Working
  BY DEF TypeOK, Working, PersistPoint, RpcPoint
<1>2. pc \in Working => StepsLeft \in 1 .. 14
  BY DEF Working, StepsLeft
<1>3. pc = "idle" => StepsLeft = 0
  BY DEF StepsLeft
<1>4. QED
  BY <1>1, <1>2, <1>3

(* The way out is shorter than what is left of the command anywhere else.  *)
LEMMA WayOut ==
    ASSUME TypeOK
    PROVE  /\ pc # "idle" /\ pc' = "idle" => StepsLeft' < StepsLeft
           /\ pc \notin {"idle", "failed"} /\ pc' = "failed" => StepsLeft' < StepsLeft
<1>1. pc' = "idle" => StepsLeft' = 0
  BY DEF StepsLeft
<1>2. pc' = "failed" => StepsLeft' = 1
  BY DEF StepsLeft
<1>3. pc \notin {"idle", "failed"} => StepsLeft >= 2
  <2>1. TypeOK => pc = "idle" \/ pc \in Working
    BY DEF TypeOK, Working, PersistPoint, RpcPoint
  <2>2. pc \in Working \ {"failed"} => StepsLeft >= 2
    BY DEF Working, StepsLeft
  <2>3. QED
    BY <2>1, <2>2
<1>4. QED
  BY <1>1, <1>2, <1>3, StepsFacts

LEMMA StepShortens ==
    ASSUME TypeOK, CommandStep
    PROVE  StepsLeft' < StepsLeft
<1>1. CASE pc' = "idle" /\ pc # "idle"
  BY <1>1, WayOut
<1>2. CASE pc' = "failed" /\ pc \notin {"idle", "failed"}
  BY <1>2, WayOut
<1>3. CASE Lock \/ Recheck \/ Load \/ Check
  <2>1. \/ pc = "lock" /\ pc' \in {"recheck", "load", "failed"}
        \/ pc = "recheck" /\ pc' \in {"load", "idle"}
        \/ pc = "load" /\ pc' = "check"
        \/ pc = "check" /\ pc' \in {"disable", "prompt", "idle"}
    BY <1>3 DEF Lock, Recheck, Load, Check, Goto, EndAs
  <2>2. QED
    BY <2>1 DEF StepsLeft
<1>4. CASE TrialCommit \/ Validate \/ Rollback \/ Confirm
  <2>1. \/ pc = "commit" /\ pc' \in {"persist-trial", "validate", "failed"}
        \/ pc = "validate" /\ pc' \in {"persist-validated", "confirm", "rollback", "failed"}
        \/ pc = "rollback" /\ pc' = "persist-rollback"
        \/ pc = "confirm" /\ pc' \in {"persist-done", "failed"}
    BY <1>4 DEF TrialCommit, Validate, Rollback, Confirm, Goto
  <2>2. QED
    BY <2>1 DEF StepsLeft
<1>5. CASE Persist
  <2>1. CASE AfterPersist = "idle"
    BY <1>1, <1>5, <2>1 DEF Persist, EndAs, PersistPoint
  <2>2. CASE AfterPersist # "idle"
    BY <1>5, <2>2 DEF Persist, AfterPersist, PersistPoint, Goto, StepsLeft
  <2>3. QED
    BY <2>1, <2>2
<1>6. CASE PersistFails \/ RpcFails
  <2>1. \/ pc = "persist-validated" /\ pc' = "rollback"
        \/ pc = "validate" /\ pc' = "rollback"
        \/ pc \in PersistPoint \cup RpcPoint /\ pc' = "failed"
    BY <1>6 DEF PersistFails, RpcFails, Goto
  <2>2. CASE pc' = "failed"
    BY <1>2, <2>1, <2>2 DEF PersistPoint, RpcPoint
  <2>3. CASE pc' = "rollback"
    BY <2>1, <2>3 DEF StepsLeft
  <2>4. QED
    BY <2>1, <2>2, <2>3
<1>7. CASE Disable \/ LoadEnable \/ CheckEnable \/ Enable
  <2>1. \/ pc = "disable" /\ pc' \in {"enable-load", "failed"}
        \/ pc = "enable-load" /\ pc' = "enable-check"
        \/ pc = "enable-check" /\ pc' = "enable"
        \/ pc = "enable" /\ pc' \in {"observe", "failed"}
    BY <1>7 DEF Disable, LoadEnable, CheckEnable, Enable, Goto
  <2>2. QED
    BY <2>1 DEF StepsLeft
<1>8. CASE Observe \/ Abandon \/ Restore
  BY <1>1, <1>8 DEF Observe, Abandon, Restore, EndAs
<1>9. QED
  BY <1>3, <1>4, <1>5, <1>6, <1>7, <1>8 DEF CommandStep

(* A command takes at most 14 steps, whatever fails: none of the except    *)
(* clauses, one of which leads into another, comes back to where it was,   *)
(* and only the timers and other people act besides.                       *)
THEOREM Termination ==
    Spec => /\ [](StepsLeft \in 0 .. 14 /\ (StepsLeft = 0 <=> pc = "idle"))
            /\ [][/\ CommandStep => StepsLeft' < StepsLeft
                  /\ pc # "idle" => StepsLeft' < StepsLeft \/ Environment]_vars
<1>1. TypeOK => StepsLeft \in 0 .. 14 /\ (StepsLeft = 0 <=> pc = "idle")
  BY StepsFacts
<1>2. TypeOK /\ [Next]_vars =>
        [/\ CommandStep => StepsLeft' < StepsLeft
         /\ pc # "idle" => StepsLeft' < StepsLeft \/ Environment]_vars
  <2> SUFFICES ASSUME TypeOK, Next, pc # "idle", ~CommandStep, ~Environment
               PROVE  StepsLeft' < StepsLeft
    BY StepShortens
  <2>1. CASE Deny \/ Crash
    BY <2>1, WayOut DEF Deny, Crash, EndAs
  <2>2. CASE Approve
    BY <2>2 DEF Approve, Goto, StepsLeft
  <2>3. QED
    BY <2>1, <2>2 DEF Next, StartRun, StartRecovery, StartProbe, Start, Identify, Environment
<1>3. QED
  BY <1>1, <1>2, TypeCorrect, PTL DEF Spec
=============================================================================
