-------------------------- MODULE PairBaselineProofs --------------------------
(***************************************************************************)
(* Proofs about the two commands that prepare the QFX pair, for any ports  *)
(* and any configurations the pair may start from.                         *)
(***************************************************************************)
EXTENDS PairBaseline, Integers, TLAPS

-----------------------------------------------------------------------------
(* The typing of the state                                                 *)

LEMMA StatementTyping ==
    TypeOK => /\ Statements \subseteq Statement
              /\ \A p \in Port : Other(p) \in Statement
              /\ Create \subseteq Port /\ Attachments \subseteq Port
BY DEF TypeOK, Statements, Statement, Lag, Member, Other, Create, Attachments

LEMMA JunosTyping ==
    ASSUME NEW d \in DeviceType(Statement)
    PROVE  /\ Commit(d) \in DeviceType(Statement)
           /\ CommitConfirmed(d) \in DeviceType(Statement)
           /\ Commit(LoadRollback1(d)) \in DeviceType(Statement)
           /\ Discard(d) \in DeviceType(Statement)
           /\ CommitChecks(d) \subseteq DeviceType(Statement)
           /\ \A some \in SUBSET Statement : Merge(d, some) \in DeviceType(Statement)
BY DEF DeviceType, Commit, CommitConfirmed, LoadRollback1, Discard, Merge, CommitChecks

LEMMA ReleasedTyping == TypeOK => Released \in [Role -> DeviceType(Statement)]
BY JunosTyping DEF TypeOK, Released

LEMMA EndRunTyping ==
    ASSUME TypeOK, EndRun
    PROVE  /\ device' \in [Role -> DeviceType(Statement)]
           /\ command' = "none" /\ pc' = "idle" /\ payload' \subseteq Port
           /\ locked' \subseteq Role /\ committed' \subseteq Role
           /\ confirmed' \subseteq Role /\ undone' \subseteq Role
           /\ meddled' \subseteq Port
BY ReleasedTyping DEF EndRun, TypeOK

(* A step on one switch leaves the other as it is.                         *)
LEMMA OneSwitch ==
    ASSUME TypeOK, NEW r \in Role, NEW d \in DeviceType(Statement),
           device' = [device EXCEPT ![r] = d]
    PROVE  /\ device' \in [Role -> DeviceType(Statement)]
           /\ device'[r] = d /\ \A q \in Role \ {r} : device'[q] = device[q]
BY DEF TypeOK

(* Writing an inventory makes no new discovery.                            *)
LEMMA InventoryTyping ==
    ASSUME TypeOK, NEW is \in Directory, Inventory(is)
    PROVE  discoveries' \in Seq(Discovery) /\ Len(discoveries') <= MaxDiscoveries
<1>1. /\ discoveries \in Seq(Discovery) /\ Len(discoveries) <= MaxDiscoveries
      /\ discoveries' = [discoveries EXCEPT ![Len(discoveries)].inventory = is]
  BY DEF TypeOK, Inventory
<1> DEFINE n == Len(discoveries)
<1>2. /\ n \in Nat /\ discoveries \in [1 .. n -> Discovery]
      /\ discoveries' = [discoveries EXCEPT ![n] = [discoveries[n] EXCEPT !.inventory = is]]
  BY <1>1
<1>3. \A d \in Discovery : [d EXCEPT !.inventory = is] \in Discovery
  BY DEF Discovery
<1> HIDE DEF n
<1>4. discoveries' \in [1 .. n -> Discovery]
  BY <1>2, <1>3
<1>5. discoveries' \in Seq(Discovery) /\ Len(discoveries') = n
  BY <1>2, <1>4
<1>6. QED
  BY <1>1, <1>5 DEF n

LEMMA StepTyping == TypeOK /\ [Next]_vars => TypeOK'
<1> SUFFICES ASSUME TypeOK, [Next]_vars PROVE TypeOK'
  OBVIOUS
<1>0. \A r \in Role : device[r] \in DeviceType(Statement)
  BY DEF TypeOK
<1> USE DEF Point
<1>1. CASE Bootstrap
  BY <1>1, StatementTyping DEF Bootstrap, Start, disk, TypeOK
<1>2. CASE SiteStage
  <2>1. Last.ports \in SUBSET Port
    <3>1. Last \in Discovery
      BY <1>2 DEF SiteStage, Last, TypeOK
    <3>2. QED
      BY <3>1 DEF Discovery
  <2>2. QED
    BY <1>2, <2>1 DEF SiteStage, Start, disk, TypeOK
<1>3. CASE SiteDiscover
  <2>1. [ports |-> Attachments, managed |-> Managed, inventory |-> "absent"] \in Discovery
    BY StatementTyping DEF Discovery, Managed, Attachments, Directory
  <2>2. /\ discoveries' \in Seq(Discovery)
        /\ Len(discoveries') <= MaxDiscoveries
    BY <1>3, <2>1, DiscoveriesAssumption DEF SiteDiscover, TypeOK
  <2>3. QED
    BY <1>3, <2>2 DEF SiteDiscover, run, TypeOK
<1>4. CASE Approve \/ Recheck \/ Validate \/ RpcFails
  BY <1>4 DEF Approve, Recheck, Validate, RpcFails, AfterValidate, Goto, disk, TypeOK
<1>5. CASE Deny \/ FinishBootstrap \/ Raise \/ WritePolicy
  BY <1>5, EndRunTyping DEF Deny, FinishBootstrap, Raise, WritePolicy, disk, TypeOK
<1>6. CASE BootstrapLoad
  <2>1. PICK a \in CommitChecks(Merge(device["qfx-a"], Statements)),
             b \in CommitChecks(Merge(device["qfx-b"], Statements)) :
          device' = [r \in Role |-> IF r = "qfx-a" THEN a ELSE b]
    BY <1>6 DEF BootstrapLoad
  <2>2. a \in DeviceType(Statement) /\ b \in DeviceType(Statement)
    BY <1>0, StatementTyping, JunosTyping DEF Role
  <2>3. QED
    BY <1>6, <2>1, <2>2 DEF BootstrapLoad, Goto, disk, TypeOK
<1>7. CASE WriteInventory
  <2>1. Inventory("whole") \/ UNCHANGED discoveries
    BY <1>7 DEF WriteInventory
  <2>2. QED
    BY <1>7, <2>1, InventoryTyping DEF WriteInventory, Goto, Directory, TypeOK
<1>8. CASE DiskFails \/ Crash
  <2>1. (\E is \in Directory : Inventory(is)) \/ UNCHANGED discoveries
    BY <1>8 DEF DiskFails, Crash, HalfWritten
  <2>2. discoveries' \in Seq(Discovery) /\ Len(discoveries') <= MaxDiscoveries
    BY <2>1, InventoryTyping DEF TypeOK
  <2>3. QED
    BY <1>8, <2>2, EndRunTyping DEF DiskFails, Crash, Goto, TypeOK
<1>9. ASSUME NEW r \in Role, BootstrapLock(r) PROVE TypeOK'
  BY <1>9 DEF BootstrapLock, Refused, disk, TypeOK
<1>10. ASSUME NEW r \in Role, SiteLock(r) PROVE TypeOK'
  <2>1. device' \in [Role -> DeviceType(Statement)]
    <3>1. CASE UNCHANGED device
      BY <3>1 DEF TypeOK
    <3>2. CASE \E d \in CommitChecks(Merge(device[r], Statements)) :
                 device' = [device EXCEPT ![r] = d]
      BY <1>0, <3>2, StatementTyping, JunosTyping, OneSwitch
    <3>3. QED
      BY <1>10, <3>1, <3>2 DEF SiteLock
  <2>2. QED
    BY <1>10, <2>1 DEF SiteLock, Refused, disk, TypeOK
<1>11. ASSUME NEW r \in Role, TrialCommit(r) \/ FinalCommit(r) \/ RollbackRole(r) PROVE TypeOK'
  <2>1. UNCHANGED device \/ \E d \in DeviceType(Statement) : device' = [device EXCEPT ![r] = d]
    BY <1>0, <1>11, JunosTyping DEF TrialCommit, FinalCommit, RollbackRole, Undo
  <2>2. device' \in [Role -> DeviceType(Statement)]
    BY <2>1, OneSwitch DEF TypeOK
  <2>3. QED
    BY <1>11, <2>2 DEF TrialCommit, FinalCommit, RollbackRole, disk, TypeOK
<1>12. ASSUME NEW r \in Role, TimerExpires(r) PROVE TypeOK'
  BY <1>0, <1>12, JunosTyping, OneSwitch DEF TimerExpires, AutoRollback, run, disk, TypeOK
<1>13. ASSUME NEW r \in Role, NEW p \in Open, Admin(r, p) PROVE TypeOK'
  <2>1. PICK config \in {device[r].running \cup {Other(p)},
                         {s \in device[r].running : s.port # p}} :
          LET edited == [device[r] EXCEPT !.candidate = config]
          IN  device' \in {[device EXCEPT ![r] = d] :
                             d \in {edited, Commit(edited), Discard(edited)}}
    BY <1>13 DEF Admin
  <2>2. config \subseteq Statement /\ p \in Port
    BY <1>0, StatementTyping, OpenAssumption DEF DeviceType
  <2>3. [device[r] EXCEPT !.candidate = config] \in DeviceType(Statement)
    BY <1>0, <2>2 DEF DeviceType
  <2>4. device' \in [Role -> DeviceType(Statement)]
    BY <2>1, <2>3, JunosTyping, OneSwitch
  <2>5. QED
    BY <1>13, <2>2, <2>4 DEF Admin, run, disk, TypeOK
<1>14. CASE UNCHANGED vars
  BY <1>14 DEF vars, run, disk, TypeOK
<1>15. QED
  BY <1>1, <1>2, <1>3, <1>4, <1>5, <1>6, <1>7, <1>8, <1>9, <1>10, <1>11, <1>12, <1>13,
     <1>14 DEF Next, RunStep

(* Every reachable state is well typed, the history of discoveries and the *)
(* half-written inventories included.                                      *)
THEOREM TypeCorrect == Spec => []TypeOK
<1>1. Init => TypeOK
  <2> SUFFICES ASSUME Init PROVE TypeOK
    OBVIOUS
  <2>1. PICK c \in Initial : device = [r \in Role |-> NewDevice(c[r])]
    BY DEF Init
  <2>2. \A r \in Role : NewDevice(c[r]) \in DeviceType(Statement)
    BY InitialAssumption DEF NewDevice, DeviceType
  <2>3. QED
    BY <2>1, <2>2, DiscoveriesAssumption DEF Init, Point, Directory, TypeOK
<1>2. QED
  BY <1>1, StepTyping, PTL DEF Spec

-----------------------------------------------------------------------------
(* What a step does to a switch                                            *)

Quiet(d, e) == e.running = d.running /\ e.prior = d.prior /\ (e.pending => d.pending)

LEMMA ReleasedQuiet ==
    ASSUME TypeOK, NEW r \in Role, EndRun
    PROVE  Quiet(device[r], device'[r])
BY DEF EndRun, Released, Discard, Quiet, DeviceType, TypeOK

LEMMA ChecksQuiet ==
    ASSUME NEW d \in DeviceType(Statement), NEW some,
           NEW e \in CommitChecks(Merge(d, some))
    PROVE  Quiet(d, e) /\ e.candidate = d.candidate \cup some
BY DEF CommitChecks, Merge, Quiet, DeviceType

LEMMA DeviceChanges ==
    ASSUME TypeOK, [Next]_vars, NEW r \in Role
    PROVE  \/ Quiet(device[r], device'[r])
           \/ TrialCommit(r) \/ FinalCommit(r) \/ RollbackRole(r) \/ TimerExpires(r)
           \/ \E p \in Open : Admin(r, p)
<1>0. \A q \in Role : device[q] \in DeviceType(Statement)
  BY DEF TypeOK
<1>1. CASE UNCHANGED device
  BY <1>1 DEF Quiet
<1>2. CASE EndRun
  BY <1>2, ReleasedQuiet
<1>3. CASE BootstrapLoad
  <2>1. device'[r] \in CommitChecks(Merge(device[r], Statements))
    BY <1>3 DEF BootstrapLoad, Role
  <2>2. QED
    BY <1>0, <2>1, ChecksQuiet
<1>4. ASSUME NEW q \in Role, SiteLock(q) PROVE Quiet(device[r], device'[r])
  <2>1. \/ UNCHANGED device
        \/ \E d \in CommitChecks(Merge(device[q], Statements)) :
             device' = [device EXCEPT ![q] = d]
    BY <1>4 DEF SiteLock
  <2>2. \/ UNCHANGED device[r]
        \/ r = q /\ device'[r] \in CommitChecks(Merge(device[r], Statements))
    BY <2>1 DEF TypeOK
  <2>3. QED
    BY <1>0, <2>2, ChecksQuiet DEF Quiet
<1>5. ASSUME NEW q \in Role, NEW p \in Open,
             TrialCommit(q) \/ FinalCommit(q) \/ RollbackRole(q) \/ TimerExpires(q) \/ Admin(q, p)
      PROVE  q = r \/ UNCHANGED device[r]
  BY <1>5 DEF TrialCommit, FinalCommit, RollbackRole, TimerExpires, Admin, TypeOK
<1>6. ASSUME NEW q \in Role,
             TrialCommit(q) \/ FinalCommit(q) \/ RollbackRole(q) \/ TimerExpires(q)
      PROVE  q = r \/ UNCHANGED device[r]
  BY <1>6 DEF TrialCommit, FinalCommit, RollbackRole, TimerExpires, TypeOK
<1>7. QED
  BY <1>1, <1>2, <1>3, <1>4, <1>5, <1>6 DEF Next, RunStep, Bootstrap, SiteStage, Start,
     SiteDiscover, Approve, Deny, Crash, Recheck, Validate, FinishBootstrap, WriteInventory,
     WritePolicy, RpcFails, DiskFails, Raise, BootstrapLock, vars, Quiet

(* What the commits, the rollback loop, the timer and others put in place. *)
LEMMA CommitEffects ==
    ASSUME TypeOK, NEW r \in Role
    PROVE  /\ TrialCommit(r) => /\ device'[r].running = device[r].candidate
                                /\ device'[r].prior = device[r].running
                                /\ device'[r].pending /\ Clean(device'[r])
           /\ FinalCommit(r) => /\ device'[r].running = device[r].candidate
                                /\ device'[r].prior = device[r].running
                                /\ ~device'[r].pending /\ Clean(device'[r])
           /\ RollbackRole(r) => \/ Quiet(device[r], device'[r])
                                 \/ /\ r \in committed
                                    /\ device'[r].running = device[r].prior
                                    /\ device'[r].prior = device[r].running
                                    /\ ~device'[r].pending
           /\ TimerExpires(r) => /\ device'[r].running = device[r].prior
                                 /\ device'[r].prior = device[r].running
                                 /\ ~device'[r].pending /\ Clean(device'[r])
           /\ \A p \in Open : Admin(r, p) =>
                /\ ~device'[r].pending /\ ~device[r].pending
                /\ \A s \in device[r].running : s.port # p => s \in device'[r].running
<1>0. device[r] \in DeviceType(Statement)
  BY DEF TypeOK
<1>1. TrialCommit(r) => device'[r] = CommitConfirmed(device[r])
  BY DEF TrialCommit, TypeOK
<1>2. FinalCommit(r) => device'[r] = Commit(device[r])
  BY DEF FinalCommit, TypeOK
<1>3. RollbackRole(r) => device'[r] \in {device[r], Undo(r)}
  BY DEF RollbackRole, TypeOK
<1>4. TimerExpires(r) => device'[r] = Commit(LoadRollback1(device[r]))
  BY DEF TimerExpires, AutoRollback, TypeOK
<1>5. ASSUME NEW p \in Open, Admin(r, p)
      PROVE  /\ ~device'[r].pending /\ ~device[r].pending
             /\ \A s \in device[r].running : s.port # p => s \in device'[r].running
  <2>1. PICK config \in {device[r].running \cup {Other(p)},
                         {s \in device[r].running : s.port # p}} :
          LET edited == [device[r] EXCEPT !.candidate = config]
          IN  device' \in {[device EXCEPT ![r] = d] :
                             d \in {edited, Commit(edited), Discard(edited)}}
    BY <1>5 DEF Admin
  <2> DEFINE edited == [device[r] EXCEPT !.candidate = config]
  <2>2. device'[r] \in {edited, Commit(edited), Discard(edited)}
    BY <2>1 DEF TypeOK
  <2>3. /\ edited.running = device[r].running /\ edited.pending = device[r].pending
        /\ Commit(edited).running = config /\ ~Commit(edited).pending
        /\ Discard(edited).running = device[r].running
        /\ Discard(edited).pending = device[r].pending
    BY <1>0 DEF Commit, Discard, DeviceType
  <2>4. ~device[r].pending
    BY <1>5 DEF Admin
  <2> HIDE DEF edited
  <2>5. QED
    BY <2>1, <2>2, <2>3, <2>4
<1>6. QED
  BY <1>0, <1>1, <1>2, <1>3, <1>4, <1>5
     DEF CommitConfirmed, Commit, LoadRollback1, Discard, Undo, Clean, Quiet, DeviceType

-----------------------------------------------------------------------------
(* What the locks keep                                                     *)

Before == {"lock", "recheck", "load", "prompt", "commit"}

PcInv ==
    /\ pc = "idle" => locked = {} /\ committed = {} /\ command = "none"
    /\ pc \in {"lock", "recheck", "load", "prompt"} => committed = {}
    /\ pc \notin {"idle", "lock", "failed"} => locked = Role
    /\ pc \in {"recheck", "load"} => command = "bootstrap"
    /\ pc = "policy" => command = "site-stage"
    /\ committed \subseteq locked

(* Under the locks the candidates hold the command's statements on top of  *)
(* the running configuration, and nothing once they are committed.         *)
CandidateInv ==
    /\ pc \in Before => \A r \in locked :
         /\ device[r].running \subseteq device[r].candidate
         /\ device[r].candidate \ device[r].running \subseteq Statements
    /\ pc = "commit" => \A r \in committed : Clean(device[r])
    /\ pc \in {"validate", "confirm"} => \A r \in Role : Clean(device[r])

LEMMA PcStep == TypeOK /\ PcInv /\ [Next]_vars => PcInv'
<1> SUFFICES ASSUME TypeOK, PcInv, [Next]_vars PROVE PcInv'
  OBVIOUS
<1> USE DEF PcInv
<1>1. CASE EndRun
  BY <1>1 DEF EndRun
<1>2. CASE Bootstrap \/ SiteStage
  BY <1>2 DEF Bootstrap, SiteStage, Start, MayStart
<1>3. CASE \/ Approve \/ Recheck \/ BootstrapLoad \/ Validate \/ WriteInventory \/ RpcFails
           \/ DiskFails
  BY <1>3 DEF Approve, Recheck, BootstrapLoad, Validate, AfterValidate, WriteInventory,
     RpcFails, DiskFails, Goto
<1>4. ASSUME NEW r \in Role,
             BootstrapLock(r) \/ SiteLock(r) \/ TrialCommit(r) \/ FinalCommit(r) \/ RollbackRole(r)
      PROVE  PcInv'
  BY <1>4 DEF BootstrapLock, SiteLock, Refused, TrialCommit, FinalCommit, RollbackRole
<1>5. CASE UNCHANGED run
  BY <1>5 DEF run
<1>6. QED
  BY <1>1, <1>2, <1>3, <1>4, <1>5 DEF Next, RunStep, SiteDiscover, Deny, Crash,
     FinishBootstrap, WritePolicy, Raise, TimerExpires, Admin, vars

LEMMA PcInvariant == Spec => [](TypeOK /\ PcInv)
<1>1. Init => PcInv
  BY DEF Init, PcInv
<1>2. QED
  BY <1>1, PcStep, TypeCorrect, PTL DEF Spec

(* What a run writes is fixed when it starts.                              *)
LEMMA PayloadKept ==
    ASSUME [Next]_vars
    PROVE  \/ EndRun \/ Bootstrap \/ SiteStage
           \/ UNCHANGED <<command, payload>> /\ Statements' = Statements
<1>1. EndRun \/ Bootstrap \/ SiteStage \/ UNCHANGED <<command, payload>>
  BY DEF Next, RunStep, SiteDiscover, Deny, Crash, FinishBootstrap, WritePolicy, Raise,
     TimerExpires, Admin, Approve, Recheck, BootstrapLoad, Validate, WriteInventory, RpcFails,
     DiskFails, Goto, BootstrapLock, SiteLock, TrialCommit, FinalCommit, RollbackRole, run, vars
<1>2. QED
  BY <1>1 DEF Statements

LEMMA CandidateStep == TypeOK /\ PcInv /\ CandidateInv /\ [Next]_vars => CandidateInv'
<1> SUFFICES ASSUME TypeOK, PcInv, CandidateInv, [Next]_vars PROVE CandidateInv'
  OBVIOUS
<1>0. \A q \in Role : device[q] \in DeviceType(Statement)
  BY DEF TypeOK
<1>l. locked \subseteq Role /\ committed \subseteq Role
  BY DEF TypeOK
<1> USE DEF Before
<1>1. CASE EndRun
  BY <1>1 DEF EndRun, CandidateInv
<1>2. CASE Bootstrap \/ SiteStage
  BY <1>2 DEF Bootstrap, SiteStage, Start, MayStart, PcInv, CandidateInv
<1>3. CASE UNCHANGED device /\ (\/ Approve \/ Recheck \/ Validate \/ WriteInventory \/ RpcFails
                                \/ DiskFails \/ SiteDiscover \/ UNCHANGED vars)
  <2>1. UNCHANGED <<locked, committed, command, payload>>
    BY <1>3 DEF Approve, Recheck, Validate, WriteInventory, RpcFails, DiskFails, Goto,
       SiteDiscover, vars, run
  <2>2. UNCHANGED Statements
    BY <2>1 DEF Statements
  <2>3. \/ UNCHANGED pc
        \/ pc' \in {"commit", "load"} /\ pc \in Before /\ committed = {}
        \/ pc' = "confirm" /\ pc = "validate"
        \/ pc' \notin Before \cup {"validate", "confirm"}
    BY <1>3 DEF Approve, Recheck, Validate, AfterValidate, WriteInventory, RpcFails, DiskFails,
       Goto, SiteDiscover, vars, run, PcInv
  <2>4. QED
    BY <1>3, <2>1, <2>2, <2>3 DEF CandidateInv, Clean
<1>4. CASE BootstrapLoad
  <2>1. \A r \in Role : device'[r] \in CommitChecks(Merge(device[r], Statements))
    BY <1>4 DEF BootstrapLoad, Role
  <2>2. \A r \in Role : /\ device'[r].running = device[r].running
                        /\ device'[r].candidate = device[r].candidate \cup Statements
    BY <1>0, <2>1, ChecksQuiet DEF Quiet
  <2>3. /\ pc = "load" /\ pc' \in {"prompt", "failed"}
        /\ UNCHANGED <<locked, committed, command, payload>>
    BY <1>4 DEF BootstrapLoad, Goto
  <2>4. UNCHANGED Statements
    BY <2>3 DEF Statements
  <2>5. QED
    BY <1>l, <2>2, <2>3, <2>4 DEF CandidateInv
<1>5. ASSUME NEW r \in Role, BootstrapLock(r) PROVE CandidateInv'
  <2>1. /\ UNCHANGED <<device, committed, command, payload>> /\ pc = "lock"
        /\ \/ pc' = "failed"
           \/ Clean(device[r]) /\ locked' = locked \cup {r} /\ pc' \in {"recheck", "lock"}
    BY <1>5 DEF BootstrapLock, Refused
  <2>2. UNCHANGED Statements
    BY <2>1 DEF Statements
  <2>3. QED
    BY <2>1, <2>2 DEF CandidateInv, Clean
<1>6. ASSUME NEW r \in Role, SiteLock(r) PROVE CandidateInv'
  <2>1. /\ UNCHANGED <<committed, command, payload>> /\ pc = "lock"
        /\ pc' \in {"failed", "lock", "validate", "prompt"}
    BY <1>6 DEF SiteLock, Refused
  <2>2. UNCHANGED Statements
    BY <2>1 DEF Statements
  <2>3. CASE pc' = "failed"
    BY <2>3 DEF CandidateInv
  <2>4. CASE pc' # "failed"
    <3>1. /\ Clean(device[r]) /\ locked' = locked \cup {r}
          /\ pc' = "validate" => \A q \in Role : Clean(device'[q])
      BY <1>6, <2>4 DEF SiteLock, Refused
    <3>2. PICK d \in CommitChecks(Merge(device[r], Statements)) : device' = [device EXCEPT ![r] = d]
      BY <1>6, <2>4 DEF SiteLock, Refused
    <3>3. /\ d.running = device[r].running
          /\ d.candidate = device[r].candidate \cup Statements
      BY <1>0, ChecksQuiet DEF Quiet
    <3>4. /\ device'[r] = d /\ \A q \in Role \ {r} : device'[q] = device[q]
      BY <3>2 DEF TypeOK
    <3>5. \A q \in locked' : /\ device'[q].running \subseteq device'[q].candidate
                             /\ device'[q].candidate \ device'[q].running \subseteq Statements
      BY <1>l, <2>1, <3>1, <3>3, <3>4 DEF CandidateInv, Clean
    <3>6. QED
      BY <2>1, <2>2, <3>1, <3>5 DEF CandidateInv
  <2>5. QED
    BY <2>3, <2>4
<1>7. ASSUME NEW r \in Role, TrialCommit(r) \/ FinalCommit(r) \/ TimerExpires(r)
      PROVE  CandidateInv'
  <2>1. Clean(device'[r]) /\ \A q \in Role \ {r} : device'[q] = device[q]
    BY <1>7, CommitEffects DEF TrialCommit, FinalCommit, TimerExpires, TypeOK
  <2>2. UNCHANGED <<locked, command, payload>>
    BY <1>7 DEF TrialCommit, FinalCommit, TimerExpires, run
  <2>3. UNCHANGED Statements
    BY <2>2 DEF Statements
  <2>4. \/ UNCHANGED <<pc, committed>>
        \/ pc = "commit" /\ pc' = "commit" /\ committed' = committed \cup {r}
        \/ pc = "commit" /\ pc' = "validate" /\ Role = committed \cup {r}
        \/ pc' \in {"failed", "inventory"}
    BY <1>7 DEF TrialCommit, FinalCommit, TimerExpires, run
  <2>5. QED
    BY <1>l, <2>1, <2>2, <2>3, <2>4 DEF CandidateInv, Clean
<1>8. ASSUME NEW r \in Role, RollbackRole(r) PROVE CandidateInv'
  BY <1>8 DEF RollbackRole, CandidateInv
<1>9. ASSUME NEW r \in Role, NEW p \in Open, Admin(r, p) PROVE CandidateInv'
  <2>1. /\ r \notin locked /\ \A q \in Role \ {r} : device'[q] = device[q]
        /\ UNCHANGED <<pc, locked, committed, command, payload>>
    BY <1>9 DEF Admin, run, TypeOK
  <2>2. UNCHANGED Statements /\ pc \notin {"commit", "validate", "confirm"}
    BY <2>1 DEF Statements, PcInv
  <2>3. QED
    BY <1>l, <2>1, <2>2 DEF CandidateInv
<1>10. QED
  BY <1>1, <1>2, <1>3, <1>4, <1>5, <1>6, <1>7, <1>8, <1>9 DEF Next, RunStep, SiteDiscover, Deny,
     Crash, FinishBootstrap, WritePolicy, Raise, Approve, Recheck, Validate, WriteInventory,
     RpcFails, DiskFails, vars

LEMMA CandidateInvariant == Spec => [](TypeOK /\ PcInv /\ CandidateInv)
<1>1. Init => CandidateInv
  BY DEF Init, CandidateInv, Before
<1>2. QED
  BY <1>1, CandidateStep, PcInvariant, PTL DEF Spec

(* A trial of either command only adds to what the switch was running.     *)
PriorInv == \A r \in Role : device[r].pending => device[r].prior \subseteq device[r].running

LEMMA PriorStep == TypeOK /\ PcInv /\ CandidateInv /\ PriorInv /\ [Next]_vars => PriorInv'
<1> SUFFICES ASSUME TypeOK, PcInv, CandidateInv, PriorInv, [Next]_vars, NEW r \in Role,
                    device'[r].pending
             PROVE  device'[r].prior \subseteq device'[r].running
  BY DEF PriorInv
<1>1. CASE Quiet(device[r], device'[r])
  BY <1>1 DEF Quiet, PriorInv
<1>2. CASE TrialCommit(r)
  <2>1. device[r].running \subseteq device[r].candidate
    BY <1>2 DEF TrialCommit, PcInv, CandidateInv, Before
  <2>2. QED
    BY <1>2, <2>1, CommitEffects
<1>3. QED
  BY <1>1, <1>2, DeviceChanges, CommitEffects

LEMMA CommittedChanges ==
    ASSUME PcInv, [Next]_vars
    PROVE  \/ committed' = {}
           \/ committed' = committed /\ UNCHANGED <<command, payload>>
           \/ \E q \in Role : /\ TrialCommit(q) /\ committed' = committed \cup {q}
                              /\ UNCHANGED <<command, payload>>
<1>1. CASE EndRun \/ Bootstrap \/ SiteStage
  BY <1>1 DEF EndRun, Bootstrap, SiteStage, Start, MayStart, PcInv
<1>2. CASE UNCHANGED run
  BY <1>2 DEF run
<1>3. QED
  BY <1>1, <1>2 DEF Next, RunStep, SiteDiscover, Deny, Crash, FinishBootstrap, WritePolicy, Raise,
     TimerExpires, Admin, Approve, Recheck, BootstrapLoad, Validate, WriteInventory, RpcFails,
     DiskFails, Goto, BootstrapLock, SiteLock, TrialCommit, FinalCommit, RollbackRole, vars

(* What is on trial on a switch is what its run was approved to write.     *)
LEMMA TrialStep ==
    ASSUME TypeOK, PcInv, CandidateInv, TrialIsPayload, [Next]_vars
    PROVE  TrialIsPayload'
<1> SUFFICES ASSUME NEW r \in committed', device'[r].pending
             PROVE  device'[r].running \ device'[r].prior \subseteq Statements'
  BY DEF TrialIsPayload
<1>1. UNCHANGED Statements /\ r \in Role
  BY CommittedChanges DEF Statements, TypeOK
<1>2. CASE TrialCommit(r)
  <2>1. device[r].candidate \ device[r].running \subseteq Statements
    BY <1>1, <1>2 DEF TrialCommit, PcInv, CandidateInv, Before
  <2>2. QED
    BY <1>1, <1>2, <2>1, CommitEffects
<1>3. CASE Quiet(device[r], device'[r]) /\ ~TrialCommit(r)
  <2>1. r \in committed
    BY <1>1, <1>3, CommittedChanges
  <2>2. QED
    BY <1>1, <1>3, <2>1 DEF TrialIsPayload, Quiet
<1>4. QED
  BY <1>1, <1>2, <1>3, DeviceChanges, CommitEffects

(* A trial of either command carries nothing that others left behind, even *)
(* when a confirm window closes while the run is at work.                  *)
THEOREM TrialSafety == Spec => []TrialIsPayload
<1>1. Init => TrialIsPayload
  BY DEF Init, TrialIsPayload
<1>2. TypeOK /\ PcInv /\ CandidateInv /\ TrialIsPayload /\ [Next]_vars => TrialIsPayload'
  BY TrialStep
<1>3. QED
  BY <1>1, <1>2, CandidateInvariant, PTL DEF Spec

-----------------------------------------------------------------------------
(* Free ports                                                              *)

Free(c, p) == \A s \in c : s.port # p

FreeInv ==
    command = "bootstrap" =>
        /\ pc \in {"load", "prompt", "commit"} =>
             \A r \in Role \ committed, p \in payload : Free(device[r].running, p)
        /\ \A r \in committed, p \in payload :
             device[r].pending => Free(device[r].prior, p)

(* Between the preflight under the locks and the first commit the payload  *)
(* stays free: a timer only takes away.                                    *)
LEMMA UncommittedStep ==
    ASSUME TypeOK, PcInv, PriorInv, FreeInv, [Next]_vars,
           command' = "bootstrap", pc' \in {"load", "prompt", "commit"},
           NEW r \in Role \ committed', NEW p \in payload'
    PROVE  Free(device'[r].running, p)
<1>1. CASE Recheck
  <2>1. p \in Create /\ UNCHANGED device
    BY <1>1 DEF Recheck, Goto
  <2>2. QED
    BY <2>1 DEF Create, Used, Free
<1>2. CASE ~Recheck
  <2>1. ~EndRun /\ ~Bootstrap /\ ~SiteStage
    BY DEF EndRun, Bootstrap, SiteStage, Start
  <2>2. pc \in {"load", "prompt", "commit"} /\ locked = Role
    <3>1. pc \in {"load", "prompt", "commit"}
      BY <1>2, <2>1 DEF Next, RunStep, SiteDiscover, Deny, Crash, FinishBootstrap, WritePolicy,
         Raise, TimerExpires, Admin, Approve, BootstrapLoad, Validate, AfterValidate,
         WriteInventory, RpcFails, DiskFails, Goto, BootstrapLock, SiteLock, Refused, TrialCommit,
         FinalCommit, RollbackRole, run, vars
    <3>2. QED
      BY <3>1 DEF PcInv
  <2>3. UNCHANGED <<command, payload>>
    BY <2>1, PayloadKept
  <2>4. committed \subseteq committed' /\ ~TrialCommit(r)
    <3>1. committed \subseteq committed'
      BY <2>1, <2>2, CommittedChanges DEF Next, RunStep, SiteDiscover, Deny, Crash, FinishBootstrap,
         WritePolicy, Raise, TimerExpires, Admin, Approve, Recheck, BootstrapLoad, Validate,
         WriteInventory, RpcFails, DiskFails, Goto, BootstrapLock, SiteLock, TrialCommit,
         FinalCommit, RollbackRole, run, vars
    <3>2. QED
      BY <3>1 DEF TrialCommit
  <2>5. Free(device[r].running, p)
    BY <2>2, <2>3, <2>4 DEF FreeInv
  <2>6. CASE Quiet(device[r], device'[r])
    BY <2>5, <2>6 DEF Quiet
  <2>7. CASE TimerExpires(r)
    BY <2>5, <2>7, CommitEffects DEF TimerExpires, PriorInv, Free
  <2>8. ~FinalCommit(r) /\ ~RollbackRole(r) /\ \A q \in Open : ~Admin(r, q)
    BY <2>2 DEF FinalCommit, RollbackRole, Admin
  <2>9. QED
    BY <2>4, <2>6, <2>7, <2>8, DeviceChanges
<1>3. QED
  BY <1>1, <1>2

LEMMA CommittedStep ==
    ASSUME TypeOK, PcInv, FreeInv, [Next]_vars, command' = "bootstrap",
           NEW r \in committed', NEW p \in payload', device'[r].pending
    PROVE  Free(device'[r].prior, p)
<1>1. UNCHANGED <<command, payload>> /\ r \in Role
  BY CommittedChanges DEF TypeOK
<1>2. CASE TrialCommit(r)
  <2>1. pc = "commit" /\ r \notin committed
    BY <1>2 DEF TrialCommit, IsNext
  <2>2. QED
    BY <1>1, <1>2, <2>1, CommitEffects DEF FreeInv
<1>3. CASE Quiet(device[r], device'[r]) /\ ~TrialCommit(r)
  <2>1. r \in committed
    BY <1>1, <1>3, CommittedChanges
  <2>2. QED
    BY <1>1, <1>3, <2>1 DEF FreeInv, Quiet
<1>4. QED
  BY <1>1, <1>2, <1>3, DeviceChanges, CommitEffects

LEMMA FreeInvariant == Spec => [](TypeOK /\ PcInv /\ PriorInv /\ FreeInv)
<1>1. Init => PriorInv /\ FreeInv
  BY DEF Init, NewDevice, PriorInv, FreeInv
<1>2. TypeOK /\ PcInv /\ PriorInv /\ FreeInv /\ [Next]_vars => FreeInv'
  BY UncommittedStep, CommittedStep DEF FreeInv
<1>3. QED
  BY <1>1, <1>2, PriorStep, CandidateInvariant, PTL DEF Spec

(* The bootstrap writes only ports that were free on both switches at the  *)
(* moment of its commit.                                                   *)
THEOREM FreePortSafety == Spec => []CreatesOnFreePorts
<1>1. FreeInv => CreatesOnFreePorts
  BY DEF FreeInv, CreatesOnFreePorts, Free
<1>2. QED
  BY <1>1, FreeInvariant, PTL

-----------------------------------------------------------------------------
(* The published policy, where a run ends within its confirm window and    *)
(* none begins while a trial of the last one waits                         *)

NoOvertaking == {"timer", "early"} \cap Faults = {}

(* Before its first commit and after its last confirmation a run holds a   *)
(* pair without a trial, and in between only trials of its own.            *)
SettledInv ==
    /\ pc \in {"lock", "recheck", "load", "prompt", "inventory", "policy"} => Settled
    /\ pc \in {"commit", "validate"} => \A r \in Role : device[r].pending => r \in committed
    /\ pc = "validate" => committed \in {{}, Role}
    /\ pc = "confirm" => \A r \in confirmed : ~device[r].pending
    /\ pc \notin {"confirm", "inventory", "policy", "failed"} => confirmed = {}

LEMMA PendingChanges ==
    ASSUME TypeOK, [Next]_vars, NEW r \in Role, device'[r].pending
    PROVE  device[r].pending \/ TrialCommit(r)
BY DeviceChanges, CommitEffects DEF Quiet

LEMMA SettledStep ==
    ASSUME NoOvertaking, TypeOK, PcInv, SettledInv, [Next]_vars
    PROVE  SettledInv'
<1> USE DEF SettledInv, Settled
<1>0. \A r \in Role : device'[r].pending => device[r].pending \/ TrialCommit(r)
  BY PendingChanges
<1>1. CASE EndRun
  BY <1>1 DEF EndRun
<1>2. CASE Bootstrap \/ SiteStage
  BY <1>2 DEF Bootstrap, SiteStage, Start, MayStart, NoOvertaking
<1>3. CASE \/ Approve \/ Recheck \/ BootstrapLoad \/ Validate \/ WriteInventory \/ RpcFails
           \/ DiskFails
  <2>1. \A r \in Role : device'[r].pending => device[r].pending
    <3>1. CASE BootstrapLoad
      BY <1>0, <3>1 DEF BootstrapLoad, TrialCommit
    <3>2. CASE ~BootstrapLoad
      BY <1>3, <3>2 DEF Approve, Recheck, Validate, WriteInventory, RpcFails, DiskFails
    <3>3. QED
      BY <3>1, <3>2
  <2>2. QED
    BY <1>3, <2>1 DEF Approve, Recheck, BootstrapLoad, Validate, AfterValidate,
       WriteInventory, RpcFails, DiskFails, Goto
<1>4. ASSUME NEW r \in Role, BootstrapLock(r) \/ SiteLock(r) PROVE SettledInv'
  <2>1. \A q \in Role : device'[q].pending => device[q].pending
    BY <1>0, <1>4 DEF BootstrapLock, SiteLock, TrialCommit
  <2>2. /\ pc = "lock" /\ UNCHANGED <<committed, confirmed>>
        /\ pc' \in {"failed", "lock", "recheck", "validate", "prompt"}
    BY <1>4 DEF BootstrapLock, SiteLock, Refused
  <2>3. QED
    BY <2>1, <2>2 DEF PcInv
<1>5. ASSUME NEW r \in Role, TrialCommit(r) PROVE SettledInv'
  <2>1. /\ pc = "commit" /\ UNCHANGED confirmed
        /\ \/ committed' = committed \cup {r} /\ pc' = "commit"
           \/ committed' = committed \cup {r} /\ pc' = "validate" /\ committed' = Role
           \/ pc' = "failed"
    BY <1>5 DEF TrialCommit
  <2>2. \A q \in Role : device'[q].pending => device[q].pending \/ q = r
    BY <1>5 DEF TrialCommit, TypeOK
  <2>3. QED
    BY <2>1, <2>2
<1>6. ASSUME NEW r \in Role, FinalCommit(r) PROVE SettledInv'
  <2>1. ~device'[r].pending /\ \A q \in Role \ {r} : device'[q] = device[q]
    BY <1>6, CommitEffects DEF FinalCommit, TypeOK
  <2>2. /\ pc = "confirm"
        /\ \/ pc' = "failed"
           \/ confirmed' = confirmed \cup {r} /\ pc' = "confirm"
           \/ confirmed' = confirmed \cup {r} /\ pc' = "inventory" /\ confirmed' = Role
    BY <1>6 DEF FinalCommit
  <2>3. confirmed \subseteq Role
    BY DEF TypeOK
  <2>4. QED
    BY <2>1, <2>2, <2>3
<1>7. ASSUME NEW r \in Role, RollbackRole(r) PROVE SettledInv'
  BY <1>7 DEF RollbackRole
<1>8. CASE UNCHANGED run
  <2>1. ~\E r \in Role : TrialCommit(r)
    BY <1>8 DEF TrialCommit, IsNext, run
  <2>2. confirmed \subseteq Role
    BY DEF TypeOK
  <2>3. QED
    BY <1>0, <1>8, <2>1, <2>2 DEF run
<1>9. QED
  BY <1>1, <1>2, <1>3, <1>4, <1>5, <1>6, <1>7, <1>8 DEF Next, RunStep, SiteDiscover, Deny,
     Crash, FinishBootstrap, WritePolicy, Raise, TimerExpires, Admin, vars

LEMMA SettledInvariant == ASSUME NoOvertaking
                          PROVE  Spec => [](TypeOK /\ PcInv /\ CandidateInv /\ SettledInv)
<1>1. Init => SettledInv
  BY DEF Init, SettledInv
<1>2. TypeOK /\ PcInv /\ SettledInv /\ [Next]_vars => SettledInv'
  BY SettledStep
<1>3. QED
  BY <1>1, <1>2, CandidateInvariant, PTL DEF Spec

(* What site-stage validated, and what a rollback would go back to.        *)
Offered(p) == {Lag(p), Member(p)}

LiveInv ==
    /\ pc \in {"confirm", "inventory", "policy"} /\ command = "site-stage" =>
         \A r \in Role, p \in payload : Offered(p) \subseteq device[r].running
    /\ \A r \in committed, p \in policy \ meddled : Offered(p) \subseteq device[r].prior

LEMMA PolicyChanges ==
    ASSUME [Next]_vars
    PROVE  /\ policy' = policy \/ WritePolicy
           /\ meddled \subseteq meddled'
BY DEF Next, RunStep, Bootstrap, SiteStage, Start, SiteDiscover, Deny, Crash, FinishBootstrap,
   WritePolicy, Raise, TimerExpires, Admin, Approve, Recheck, BootstrapLoad, Validate,
   WriteInventory, RpcFails, DiskFails, BootstrapLock, SiteLock, TrialCommit, FinalCommit,
   RollbackRole, EndRun, disk, vars

(* After the validation the switches only get what they already run.       *)
LEMMA ValidatedStep ==
    ASSUME NoOvertaking, TypeOK, PcInv, CandidateInv, LiveInv, [Next]_vars,
           pc' \in {"confirm", "inventory", "policy"}, command' = "site-stage",
           NEW r \in Role, NEW p \in payload'
    PROVE  Offered(p) \subseteq device'[r].running
<1>1. ~EndRun /\ ~Bootstrap /\ ~SiteStage
  BY DEF EndRun, Bootstrap, SiteStage, Start
<1>2. UNCHANGED <<command, payload>>
  BY <1>1, PayloadKept
<1>3. \/ Validate /\ Valid
      \/ pc \in {"confirm", "inventory", "policy"}
  BY <1>1 DEF Next, RunStep, SiteDiscover, Deny, Crash, FinishBootstrap, WritePolicy,
     Raise, TimerExpires, Admin, Approve, Recheck, BootstrapLoad, Validate, WriteInventory,
     RpcFails, DiskFails, Goto, BootstrapLock, SiteLock, Refused, TrialCommit, FinalCommit,
     RollbackRole, run, vars
<1>4. CASE Validate /\ Valid
  BY <1>2, <1>4 DEF Validate, Valid, ValidSite, Sound, Offered
<1>5. CASE pc \in {"confirm", "inventory", "policy"}
  <2>1. Offered(p) \subseteq device[r].running /\ locked = Role
    BY <1>2, <1>5 DEF LiveInv, PcInv
  <2>2. /\ ~TrialCommit(r) /\ ~RollbackRole(r) /\ ~TimerExpires(r)
        /\ \A q \in Open : ~Admin(r, q)
    BY <1>5, <2>1 DEF TrialCommit, RollbackRole, TimerExpires, Admin, NoOvertaking
  <2>3. FinalCommit(r) => device[r].candidate = device[r].running
    BY DEF FinalCommit, CandidateInv, Clean
  <2>4. QED
    BY <2>1, <2>2, <2>3, DeviceChanges, CommitEffects DEF Quiet
<1>6. QED
  BY <1>3, <1>4, <1>5

LEMMA PriorLiveStep ==
    ASSUME TypeOK, PcInv, LiveInv, PolicyIsLive, [Next]_vars,
           NEW r \in committed', NEW p \in policy' \ meddled'
    PROVE  Offered(p) \subseteq device'[r].prior
<1>1. ~WritePolicy /\ r \in Role
  BY CommittedChanges DEF WritePolicy, EndRun, TypeOK
<1>2. p \in policy \ meddled
  BY <1>1, PolicyChanges
<1>3. Offered(p) \subseteq device[r].running
  BY <1>1, <1>2 DEF PolicyIsLive, Offered
<1>4. CASE TrialCommit(r) \/ FinalCommit(r) \/ TimerExpires(r)
  BY <1>1, <1>3, <1>4, CommitEffects
<1>5. CASE ~TrialCommit(r)
  <2>1. r \in committed /\ r \in locked
    BY <1>1, <1>5, CommittedChanges DEF PcInv
  <2>2. Offered(p) \subseteq device[r].prior /\ \A q \in Open : ~Admin(r, q)
    BY <1>2, <2>1 DEF LiveInv, Admin
  <2>3. QED
    BY <1>1, <1>3, <1>4, <1>5, <2>2, DeviceChanges, CommitEffects DEF Quiet
<1>6. QED
  BY <1>4, <1>5

LEMMA PolicyStep ==
    ASSUME TypeOK, PcInv, CandidateInv, SettledInv, LiveInv, PolicyIsLive, [Next]_vars,
           NEW r \in Role, NEW p \in policy' \ meddled'
    PROVE  /\ Offered(p) \subseteq device'[r].running
           /\ device'[r].pending => Offered(p) \subseteq device'[r].prior
<1>1. CASE WritePolicy
  <2>1. /\ Offered(p) \subseteq device[r].running /\ ~device[r].pending
        /\ EndRun
    BY <1>1 DEF WritePolicy, PcInv, LiveInv, SettledInv, Settled
  <2>2. QED
    BY <2>1, ReleasedQuiet DEF Quiet
<1>2. CASE ~WritePolicy
  <2>1. p \in policy \ meddled
    BY <1>2, PolicyChanges
  <2>2. /\ Offered(p) \subseteq device[r].running
        /\ device[r].pending => Offered(p) \subseteq device[r].prior
        /\ r \in committed => Offered(p) \subseteq device[r].prior
    BY <2>1 DEF PolicyIsLive, LiveInv, Offered
  <2>3. CASE Quiet(device[r], device'[r])
    BY <2>2, <2>3 DEF Quiet
  <2>4. CASE TrialCommit(r) \/ FinalCommit(r)
    <3>1. device[r].running \subseteq device[r].candidate
      BY <2>4 DEF TrialCommit, FinalCommit, PcInv, CandidateInv, Before, Clean
    <3>2. QED
      BY <2>2, <2>4, <3>1, CommitEffects
  <2>5. CASE RollbackRole(r)
    BY <2>2, <2>5, CommitEffects DEF Quiet
  <2>6. CASE TimerExpires(r)
    BY <2>2, <2>6, CommitEffects DEF TimerExpires
  <2>7. ASSUME NEW q \in Open, Admin(r, q)
        PROVE  /\ Offered(p) \subseteq device'[r].running
               /\ device'[r].pending => Offered(p) \subseteq device'[r].prior
    <3>1. p # q
      BY <2>7 DEF Admin
    <3>2. \A s \in Offered(p) : s.port # q
      BY <3>1 DEF Offered, Lag, Member
    <3>3. QED
      BY <2>2, <2>7, <3>2, CommitEffects
  <2>8. QED
    BY <2>3, <2>4, <2>5, <2>6, <2>7, DeviceChanges
<1>3. QED
  BY <1>1, <1>2

(* What the active policy offers is live on both switches and stays there, *)
(* whatever attempts failed or died since: a rollback of either command    *)
(* goes back to a configuration that has it.                               *)
THEOREM PolicySafety == ASSUME NoOvertaking PROVE Spec => []PolicyIsLive
<1>1. Init => LiveInv /\ PolicyIsLive
  BY DEF Init, LiveInv, PolicyIsLive
<1>2. TypeOK /\ PcInv /\ CandidateInv /\ SettledInv /\ LiveInv /\ PolicyIsLive /\ [Next]_vars
        => LiveInv' /\ PolicyIsLive'
  <2> SUFFICES ASSUME TypeOK, PcInv, CandidateInv, SettledInv, LiveInv, PolicyIsLive, [Next]_vars
               PROVE  LiveInv' /\ PolicyIsLive'
    OBVIOUS
  <2>1. LiveInv'
    BY ValidatedStep, PriorLiveStep DEF LiveInv, Offered
  <2>2. PolicyIsLive'
    BY PolicyStep DEF PolicyIsLive, Offered
  <2>3. QED
    BY <2>1, <2>2
<1>3. QED
  BY <1>1, <1>2, SettledInvariant, PTL DEF Spec

-----------------------------------------------------------------------------
(* Every run comes to its end.  StepsLeft counts what is left of it at     *)
(* most: the turns of the loops over the roles, and the way out through    *)
(* the rollback, which goes over the roles once more.                      *)

Turns(done) == (IF "qfx-a" \in done THEN 0 ELSE 1) + (IF "qfx-b" \in done THEN 0 ELSE 1)

StepsLeft == CASE pc = "idle"      -> 0
               [] pc = "failed"    -> 1 + Turns(undone)
               [] pc = "policy"    -> 4
               [] pc = "inventory" -> 5
               [] pc = "confirm"   -> 5 + Turns(confirmed)
               [] pc = "validate"  -> 8
               [] pc = "commit"    -> 8 + Turns(committed)
               [] pc = "prompt"    -> 11
               [] pc = "load"      -> 12
               [] pc = "recheck"   -> 13
               [] pc = "lock"      -> 13 + Turns(locked)

Working == {"lock", "recheck", "load", "prompt", "commit", "validate", "confirm",
            "inventory", "policy", "failed"}

Environment == \E r \in Role : TimerExpires(r) \/ \E p \in Open : Admin(r, p)

LEMMA TurnsFacts ==
    /\ \A done : Turns(done) \in 0 .. 2
    /\ \A done : \A r \in Role \ done : Turns(done \cup {r}) = Turns(done) - 1
BY DEF Turns, Role

LEMMA StepsFacts == TypeOK => /\ StepsLeft \in 0 .. 15
                              /\ StepsLeft = 0 <=> pc = "idle"
<1>1. TypeOK => pc = "idle" \/ pc \in Working
  BY DEF TypeOK, Working, Point
<1>2. pc \in Working => StepsLeft \in 1 .. 15
  BY TurnsFacts DEF Working, StepsLeft
<1>3. pc = "idle" => StepsLeft = 0
  BY DEF StepsLeft
<1>4. QED
  BY <1>1, <1>2, <1>3

(* The way out is shorter than what is left of the run anywhere else.      *)
LEMMA WayOut ==
    ASSUME TypeOK, TypeOK'
    PROVE  /\ pc # "idle" /\ pc' = "idle" => StepsLeft' < StepsLeft
           /\ pc \notin {"idle", "failed"} /\ pc' = "failed" => StepsLeft' < StepsLeft
<1>1. pc' = "idle" => StepsLeft' = 0
  BY DEF StepsLeft
<1>2. pc' = "failed" => StepsLeft' \in 1 .. 3
  BY TurnsFacts DEF StepsLeft
<1>3. pc # "idle" => StepsLeft >= 1
  BY StepsFacts
<1>4. pc \notin {"idle", "failed"} => StepsLeft >= 4
  BY TurnsFacts DEF TypeOK, StepsLeft, Point
<1>5. QED
  BY <1>1, <1>2, <1>3, <1>4, StepsFacts

LEMMA StepShortens ==
    ASSUME TypeOK, TypeOK', RunStep
    PROVE  StepsLeft' < StepsLeft
<1>1. CASE pc' = "idle" /\ pc # "idle"
  BY <1>1, WayOut
<1>2. CASE pc' = "failed" /\ pc \notin {"idle", "failed"}
  BY <1>2, WayOut
<1>3. CASE Recheck \/ BootstrapLoad \/ Validate
  <2>1. /\ pc \in {"recheck", "load", "validate"} /\ UNCHANGED confirmed
        /\ pc = "recheck" => pc' \in {"load", "failed"}
        /\ pc = "load" => pc' \in {"prompt", "failed"}
        /\ pc = "validate" => pc' \in {"confirm", "inventory", "failed"}
    BY <1>3 DEF Recheck, BootstrapLoad, Validate, AfterValidate, Goto
  <2>2. QED
    BY <1>2, <2>1, TurnsFacts DEF StepsLeft
<1>4. CASE WriteInventory \/ RpcFails \/ DiskFails
  BY <1>2, <1>4 DEF WriteInventory, RpcFails, DiskFails, Goto, StepsLeft
<1>5. CASE FinishBootstrap \/ WritePolicy \/ Raise
  BY <1>1, <1>5 DEF FinishBootstrap, WritePolicy, Raise, EndRun
<1>6. ASSUME NEW r \in Role, BootstrapLock(r) \/ SiteLock(r) PROVE StepsLeft' < StepsLeft
  <2>1. pc = "lock" /\ r \notin locked
    BY <1>6 DEF BootstrapLock, SiteLock, IsNext
  <2>2. \/ pc' = "failed"
        \/ locked' = locked \cup {r} /\ pc' \in {"lock", "recheck", "validate", "prompt"}
    BY <1>6 DEF BootstrapLock, SiteLock, Refused
  <2>3. QED
    BY <1>2, <2>1, <2>2, TurnsFacts DEF StepsLeft
<1>7. ASSUME NEW r \in Role, TrialCommit(r) PROVE StepsLeft' < StepsLeft
  <2>1. /\ pc = "commit" /\ r \notin committed
        /\ \/ pc' = "failed"
           \/ committed' = committed \cup {r} /\ pc' \in {"commit", "validate"}
    BY <1>7 DEF TrialCommit, IsNext
  <2>2. QED
    BY <1>2, <2>1, TurnsFacts DEF StepsLeft
<1>8. ASSUME NEW r \in Role, FinalCommit(r) PROVE StepsLeft' < StepsLeft
  <2>1. /\ pc = "confirm" /\ r \notin confirmed
        /\ \/ pc' = "failed"
           \/ confirmed' = confirmed \cup {r} /\ pc' \in {"confirm", "inventory"}
    BY <1>8 DEF FinalCommit, IsNext
  <2>2. QED
    BY <1>2, <2>1, TurnsFacts DEF StepsLeft
<1>9. ASSUME NEW r \in Role, RollbackRole(r) PROVE StepsLeft' < StepsLeft
  <2>1. pc = "failed" /\ pc' = "failed" /\ r \notin undone /\ undone' = undone \cup {r}
    BY <1>9 DEF RollbackRole, IsNextBack
  <2>2. QED
    BY <2>1, TurnsFacts DEF StepsLeft
<1>10. QED
  BY <1>3, <1>4, <1>5, <1>6, <1>7, <1>8, <1>9 DEF RunStep

(* A run of either command takes at most 15 steps, whatever fails: the     *)
(* rollback deals with each switch once, and only the switches' timers and *)
(* an administrator act besides.                                           *)
THEOREM Termination ==
    Spec => /\ [](StepsLeft \in 0 .. 15 /\ (StepsLeft = 0 <=> pc = "idle"))
            /\ [][/\ RunStep => StepsLeft' < StepsLeft
                  /\ pc # "idle" => StepsLeft' < StepsLeft \/ Environment]_vars
<1>1. TypeOK => StepsLeft \in 0 .. 15 /\ (StepsLeft = 0 <=> pc = "idle")
  BY StepsFacts
<1>2. ASSUME TypeOK, TypeOK', [Next]_vars
      PROVE  [/\ RunStep => StepsLeft' < StepsLeft
              /\ pc # "idle" => StepsLeft' < StepsLeft \/ Environment]_vars
  <2> SUFFICES ASSUME Next, pc # "idle", ~RunStep, ~Environment
               PROVE  StepsLeft' < StepsLeft
    BY <1>2, StepShortens
  <2>1. CASE Deny \/ Crash
    <3>1. pc' = "idle"
      BY <2>1 DEF Deny, Crash, EndRun
    <3>2. QED
      BY <1>2, <3>1, WayOut
  <2>2. CASE Approve
    BY <2>2, TurnsFacts DEF Approve, Goto, StepsLeft
  <2>3. QED
    BY <2>1, <2>2 DEF Next, Bootstrap, SiteStage, SiteDiscover, Start, MayStart, Environment
<1>3. QED
  BY <1>1, <1>2, TypeCorrect, PTL DEF Spec
=============================================================================
